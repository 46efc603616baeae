------------------------------ MODULE Crawler ------------------------------
(***************************************************************************)
(* internal/dht: the passive crawler.                                      *)
(*                                                                         *)
(*   Receivers  the goroutines inside enqueue: the DHT server's own, for   *)
(*              onQuery, and one for each announce_peer;                   *)
(*   Workers    the metadataWorker goroutines, each in Engine.FetchInfo    *)
(*              most of the time;                                          *)
(*                                                                         *)
(* the replenish loop, and Start, which waits for the context to end and   *)
(* then for the workers and the loop.  The index outlives the process; the *)
(* recent set and the queue do not.                                        *)
(***************************************************************************)
EXTENDS RecentSet, IndexStore

CONSTANTS
    Receivers, Workers,
    QueueCap,  \* 1024
    Batch,     \* 64: how many hashes one refill asks the store for
    Faults     \* {"store"} if writes to the store may fail, or {}

ASSUME QueueAssumption == QueueCap \in Nat \ {0} /\ Batch \in Nat \ {0}

VARIABLES
    running, \* "off", "on", "canceled" (ctx is done) or "closed" (srv too)
    recv,    \* where each receiver is in enqueue, and with which hash
    queue,   \* the channel Crawler.seen
    work,    \* where each worker is; its hash; its torrent handle
    refill   \* where the replenish loop is, and what it has still to send

crawlVars == <<running, recv, queue, work, refill>>
vars == <<crawlVars, recentVars, storeVars>>

Ended == running \in {"canceled", "closed"}

-----------------------------------------------------------------------------
(* enqueue: the recent set, then the store, then the queue.                *)

Idle == [at |-> "idle", h |-> Nil]

(* onQuery or onAnnouncePeer with a hash that is not zero.  A duplicate    *)
(* ends here, without touching the store.                                  *)
Receive(r, h) ==
    /\ running \in {"on", "canceled"} /\ recv[r] = Idle
    /\ \/ Hit(h) /\ UNCHANGED recv
       \/ Miss(h) /\ recv' = [recv EXCEPT ![r] = [at |-> "record", h |-> h]]
    /\ UNCHANGED <<running, queue, work, refill, storeVars>>

(* Sanity variant: the queue comes first, the store is not waited for.     *)
Record_Skipped(r) ==
    /\ recv[r].at = "record"
    /\ recv' = [recv EXCEPT ![r].at = "offer"]
    /\ UNCHANGED <<running, queue, work, refill, recentVars, storeVars>>

(* Sanity variant: the call is given the crawler's context.                *)
Record_Canceled(r) ==
    /\ recv[r].at = "record"
    /\ \/ /\ ~Ended
          /\ SeenInfoHash(recv[r].h)
          /\ recv' = [recv EXCEPT ![r].at = "offer"]
       \/ /\ Ended
          /\ recv' = [recv EXCEPT ![r] = Idle]
          /\ UNCHANGED storeVars
    /\ UNCHANGED <<running, queue, work, refill, recentVars>>

Record(r) ==
    /\ recv[r].at = "record"
    /\ SeenInfoHash(recv[r].h)
    /\ recv' = [recv EXCEPT ![r].at = "offer"]
    /\ UNCHANGED <<running, queue, work, refill, recentVars>>

(* The store's error is logged, and the hash is left in the recent set.    *)
RecordFault(r) ==
    /\ "store" \in Faults /\ recv[r].at = "record"
    /\ recv' = [recv EXCEPT ![r] = Idle]
    /\ UNCHANGED <<running, queue, work, refill, recentVars, storeVars>>

(* Sanity variant: the channel holds one more.                             *)
Send_OffByOne(h) == queue' = IF Len(queue) <= QueueCap THEN Append(queue, h) ELSE queue

(* A send that never blocks: a full queue drops the hash.                  *)
Send(h) == queue' = IF Len(queue) < QueueCap THEN Append(queue, h) ELSE queue

Offer(r) ==
    /\ recv[r].at = "offer"
    /\ Send(recv[r].h)
    /\ recv' = [recv EXCEPT ![r] = Idle]
    /\ UNCHANGED <<running, work, refill, recentVars, storeVars>>

-----------------------------------------------------------------------------
(* metadataWorker and FetchInfo.  The client hands out one open handle for *)
(* a hash, so workers that fetch the same hash share it, "open" and "info" *)
(* alike; who fetches alone has a handle of its own.                       *)

Free == [at |-> "idle", h |-> Nil, open |-> FALSE, info |-> FALSE]
Done == [Free EXCEPT !.at = "done"]

Sharing(h) == {w \in Workers : work[w].at = "fetch" /\ work[w].h = h /\ work[w].open}

WorkFrame == UNCHANGED <<running, recv, refill, recentVars>>

(* Receive from the queue, then AddTorrentInfoHash.                        *)
Fetch(w) ==
    /\ running # "off" /\ work[w] = Free /\ queue # <<>>
    /\ queue' = Tail(queue)
    /\ work' = [work EXCEPT ![w] =
                   [at |-> "fetch", h |-> Head(queue), open |-> TRUE,
                    info |-> \E v \in Sharing(Head(queue)) : work[v].info]]
    /\ WorkFrame /\ UNCHANGED storeVars

(* FetchInfo returns, and its deferred Drop closes the shared handle.      *)
Return(w, next) ==
    LET dropped == IF work[w].open THEN Sharing(work[w].h) ELSE {}
    IN work' = [v \in Workers |->
                   IF v = w THEN next
                   ELSE IF v \in dropped THEN [work[v] EXCEPT !.open = FALSE]
                   ELSE work[v]]

FetchGot(w) ==
    /\ work[w].at = "fetch" /\ work[w].info
    /\ Return(w, [Free EXCEPT !.at = "save", !.h = work[w].h])
    /\ WorkFrame /\ UNCHANGED <<queue, storeVars>>

(* Sanity variant: no deadline but the crawler's own.                      *)
FetchTimeout_OnlyAtEnd(w) ==
    /\ Ended /\ work[w].at = "fetch"
    /\ Return(w, Free)
    /\ WorkFrame /\ UNCHANGED <<queue, storeVars>>

(* Sanity variant: the worker returns on an error, it does not continue.   *)
FetchTimeout_EndsWorker(w) ==
    /\ work[w].at = "fetch"
    /\ Return(w, Done)
    /\ WorkFrame /\ UNCHANGED <<queue, storeVars>>

(* MetadataTimeout, or the end of the crawler's context.                   *)
FetchTimeout(w) ==
    /\ work[w].at = "fetch"
    /\ Return(w, Free)
    /\ WorkFrame /\ UNCHANGED <<queue, storeVars>>

Save(w) ==
    /\ work[w].at = "save"
    /\ SaveMetadata(work[w].h)
    /\ work' = [work EXCEPT ![w] = Free]
    /\ WorkFrame /\ UNCHANGED queue

SaveFault(w) ==
    /\ "store" \in Faults /\ work[w].at = "save"
    /\ work' = [work EXCEPT ![w] = Free]
    /\ WorkFrame /\ UNCHANGED <<queue, storeVars>>

WorkerExit(w) ==
    /\ Ended /\ work[w] = Free
    /\ work' = [work EXCEPT ![w] = Done]
    /\ WorkFrame /\ UNCHANGED <<queue, storeVars>>

(* A peer delivers the metadata of an open handle; it may never.           *)
GotInfo(h) ==
    /\ \E w \in Sharing(h) : ~work[w].info
    /\ work' = [w \in Workers |->
                   IF w \in Sharing(h) THEN [work[w] EXCEPT !.info = TRUE] ELSE work[w]]
    /\ WorkFrame /\ UNCHANGED <<queue, storeVars>>

-----------------------------------------------------------------------------
(* replenishLoop.                                                          *)

Waiting == [at |-> "waiting", list |-> <<>>]
RefillFrame == UNCHANGED <<running, recv, work, recentVars, storeVars>>

(* The ticker fires.  A query that fails or finds nothing changes nothing. *)
RefillTick ==
    /\ running = "on" /\ refill = Waiting
    /\ \E list \in PendingMetadata(Batch) \ {<<>>} :
          refill' = [at |-> "sending", list |-> list]
    /\ RefillFrame /\ UNCHANGED queue

RefillSend ==
    /\ running = "on" /\ refill.at = "sending"
    /\ Send(Head(refill.list))
    /\ refill' = IF Len(refill.list) = 1 THEN Waiting
                 ELSE [refill EXCEPT !.list = Tail(@)]
    /\ RefillFrame

(* Sanity variant: a send that has begun does not end with the context.    *)
RefillExit_OnlyWaiting ==
    /\ Ended /\ refill = Waiting
    /\ refill' = [at |-> "done", list |-> <<>>]
    /\ RefillFrame /\ UNCHANGED queue

RefillExit ==
    /\ Ended /\ refill.at # "done"
    /\ refill' = [at |-> "done", list |-> <<>>]
    /\ RefillFrame /\ UNCHANGED queue

-----------------------------------------------------------------------------
(* Start, and the end of the process.                                      *)

Init ==
    /\ running = "off"
    /\ recv = [r \in Receivers |-> Idle]
    /\ queue = <<>>
    /\ work = [w \in Workers |-> Free]
    /\ refill = Waiting
    /\ RecentInit /\ StoreInit

Start ==
    /\ running = "off"
    /\ running' = "on"
    /\ UNCHANGED <<recv, queue, work, refill, recentVars, storeVars>>

Cancel ==
    /\ running = "on"
    /\ running' = "canceled"
    /\ UNCHANGED <<recv, queue, work, refill, recentVars, storeVars>>

(* srv.Close(): no query arrives any more.                                 *)
CloseServer ==
    /\ running = "canceled"
    /\ running' = "closed"
    /\ UNCHANGED <<recv, queue, work, refill, recentVars, storeVars>>

(* The process is over; a receiver still in enqueue ends with it.          *)
Die ==
    /\ running' = "off"
    /\ recv' = [r \in Receivers |-> Idle]
    /\ queue' = <<>>
    /\ work' = [w \in Workers |-> Free]
    /\ refill' = Waiting
    /\ active' = {} /\ old' = {}
    /\ UNCHANGED storeVars

(* Start returns once wg.Wait() has.                                       *)
StartReturns ==
    /\ running = "closed" /\ refill.at = "done"
    /\ \A w \in Workers : work[w] = Done
    /\ Die

Crash == running # "off" /\ Die

ReceiverStep(r) == Record(r) \/ RecordFault(r) \/ Offer(r)

WorkerStep(w) ==
    \/ Fetch(w) \/ FetchGot(w) \/ FetchTimeout(w)
    \/ Save(w) \/ SaveFault(w) \/ WorkerExit(w)

RefillStep == RefillTick \/ RefillSend \/ RefillExit
StartStep  == CloseServer \/ StartReturns

Next ==
    \/ \E r \in Receivers : ReceiverStep(r) \/ \E h \in Hashes : Receive(r, h)
    \/ \E w \in Workers : WorkerStep(w)
    \/ \E h \in Hashes : GotInfo(h)
    \/ RefillStep \/ StartStep \/ Start \/ Cancel \/ Crash

Spec == Init /\ [][Next]_vars

(* Goroutines run, timers and tickers fire, the store's calls return.      *)
(* Nothing is assumed of the DHT's traffic, of peers, or of the user.      *)
FairSpec ==
    /\ Spec
    /\ \A r \in Receivers : WF_vars(ReceiverStep(r))
    /\ \A w \in Workers : WF_vars(WorkerStep(w))
    /\ WF_vars(RefillStep) /\ WF_vars(StartStep)

-----------------------------------------------------------------------------
(* Properties.                                                             *)

ReceiverType == [at: {"idle", "record", "offer"}, h: Hashes \cup {Nil}]
WorkerType   == [at: {"idle", "fetch", "save", "done"}, h: Hashes \cup {Nil},
                 open: BOOLEAN, info: BOOLEAN]

(* Every variable stays in the range its Go type and use give it.          *)
TypeOK ==
    /\ StoreType
    /\ active \in SUBSET Hashes /\ old \in SUBSET Hashes
    /\ running \in {"off", "on", "canceled", "closed"}
    /\ recv \in [Receivers -> ReceiverType]
    /\ queue \in Seq(Hashes) /\ Len(queue) <= QueueCap
    /\ work \in [Workers -> WorkerType]
    /\ refill \in [at: {"waiting", "sending", "done"}, list: Seq(Hashes)]

Recording(h) == \E r \in Receivers : recv[r] = [at |-> "record", h |-> h]

(* The deduplication loses nothing: a hash the recent set swallows has a   *)
(* row in the store, or is on its way there, whichever of two receivers of *)
(* the same hash is the slower one (no store error assumed: a hash whose   *)
(* recording fails stays in the recent set, crawler.go:114-120).           *)
SwallowedIsRecorded == \A h \in Recent : row[h] # "none" \/ Recording(h)

Handled == ToSet(queue) \cup ToSet(refill.list)
              \cup {work[w].h : w \in {v \in Workers : work[v].at \in {"fetch", "save"}}}

(* Whatever the queue, the workers and the replenish loop handle has a     *)
(* row, also while a refill sends what it read before a resolution.        *)
HandledIsRecorded == \A h \in Handled : row[h] # "none"

(* A hash is found by full-text search exactly when it is resolved, and    *)
(* found once, however often it is seen, fetched and saved again           *)
(* (store_test.go: "must not leave a stale FTS row behind").               *)
SearchableOnce == \A h \in Hashes : fts[h] = IF row[h] = "resolved" THEN 1 ELSE 0

(* Rows only advance: seen, then resolved, and resolved for good, though   *)
(* a resolved hash that was evicted from the recent set is seen again.     *)
RowsOnlyAdvance ==
    [][\A h \in Hashes : row'[h] # row[h] =>
          <<row[h], row'[h]>> \in {<<"none", "pending">>, <<"pending", "resolved">>}]_vars

(* The only way into the index is a peer's metadata; and no worker keeps a *)
(* hash for ever, even when another worker drops the shared handle under   *)
(* it, after which its metadata can never arrive.                          *)
FetchEnds == \A w \in Workers : work[w].at = "fetch" ~> work[w].at # "fetch"

(* What is in the queue is fetched, unless the crawler is stopped.         *)
QueueServed ==
    \A h \in Hashes : h \in ToSet(queue)
        ~> running # "on" \/ \E w \in Workers : work[w].at = "fetch" /\ work[w].h = h

(* Start returns after its context ends: no goroutine holds up wg.Wait().  *)
StopCompletes == running = "canceled" ~> running = "off"

(* crawler.go:127: "queue full; replenishLoop will pick it up later".  A   *)
(* hash offered to the queue gets into it, at once or by a refill.         *)
OfferedIsQueued ==
    \A h \in Hashes :
        (\E r \in Receivers : recv[r] = [at |-> "offer", h |-> h])
          ~> running # "on" \/ h \in ToSet(queue) \/ row[h] = "resolved"
=============================================================================
