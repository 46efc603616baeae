--------------------------- MODULE CrawlerProofs ---------------------------
(***************************************************************************)
(* Theorems about Crawler, for any number of hashes, receivers and workers *)
(* and any capacities.                                                     *)
(***************************************************************************)
EXTENDS Crawler, TLAPS

Recorded(h) == row[h] # "none"

(* What each thread is busy with is a hash the store knows.                *)
PipelineInv ==
    /\ \A r \in Receivers :
          /\ recv[r].at # "idle" => recv[r].h \in Hashes
          /\ recv[r].at = "offer" => Recorded(recv[r].h)
    /\ \A i \in DOMAIN queue : Recorded(queue[i])
    /\ \A i \in DOMAIN refill.list : Recorded(refill.list[i])
    /\ refill.at = "sending" => refill.list # <<>>
    /\ \A w \in Workers : work[w].at \in {"fetch", "save"}
          => work[w].h \in Hashes /\ Recorded(work[w].h)

Inv == TypeOK /\ PipelineInv /\ SearchableOnce

(* Rows do not disappear.                                                  *)
RowsKept == \A h \in Hashes : Recorded(h) => row'[h] # "none"

Advance(h) == row'[h] # row[h] =>
    <<row[h], row'[h]>> \in {<<"none", "pending">>, <<"pending", "resolved">>}

-----------------------------------------------------------------------------
(* The upsert adds a pending row or leaves the row as it was.              *)
LEMMA SeenRows ==
    ASSUME StoreType, SearchableOnce, NEW h \in Hashes, SeenInfoHash(h)
    PROVE  /\ StoreType' /\ SearchableOnce' /\ RowsKept /\ row'[h] # "none"
           /\ \A g \in Hashes : Advance(g)
<1> USE DEF StoreType
<1> DEFINE v == IF row[h] = "none" THEN "pending" ELSE row[h]
<1>1. row' = [row EXCEPT ![h] = v] /\ fts' = fts BY DEF SeenInfoHash
<1>2. v \in {"pending", "resolved"} OBVIOUS
<1>3. newer' \in [Hashes -> SUBSET Hashes] BY DEF SeenInfoHash, Touch
<1>4. row' \in [Hashes -> {"none", "pending", "resolved"}] BY <1>1, <1>2
<1>5. \A g \in Hashes :
         row'[g] = row[g] \/ (row[g] = "none" /\ row'[g] = "pending")
      BY <1>1
<1>6. SearchableOnce' BY <1>1, <1>5 DEF SearchableOnce
<1>7. row'[h] # "none" BY <1>1, <1>2
<1> QED BY <1>1, <1>3, <1>4, <1>5, <1>6, <1>7 DEF RowsKept, Recorded, Advance

(* Saving the metadata of a row resolves it, and indexes it once.          *)
LEMMA SaveRows ==
    ASSUME StoreType, SearchableOnce, NEW h \in Hashes, Recorded(h), SaveMetadata(h)
    PROVE  /\ StoreType' /\ SearchableOnce' /\ RowsKept
           /\ \A g \in Hashes : Advance(g)
<1> USE DEF StoreType
<1>1. row' = [row EXCEPT ![h] = "resolved"] /\ fts' = [fts EXCEPT ![h] = 1]
      BY DEF SaveMetadata
<1>2. newer' \in [Hashes -> SUBSET Hashes] BY DEF SaveMetadata, NoAge
<1>3. row' \in [Hashes -> {"none", "pending", "resolved"}] /\ fts' \in [Hashes -> Nat]
      BY <1>1
<1>4. \A g \in Hashes : IF g = h THEN row'[g] = "resolved" /\ fts'[g] = 1
                        ELSE row'[g] = row[g] /\ fts'[g] = fts[g]
      BY <1>1
<1>5. SearchableOnce' BY <1>4 DEF SearchableOnce
<1>6. RowsKept BY <1>4 DEF RowsKept, Recorded
<1>7. row[h] \in {"pending", "resolved"} BY DEF Recorded
<1>8. \A g \in Hashes : Advance(g) BY <1>4, <1>7 DEF Advance
<1> QED BY <1>2, <1>3, <1>5, <1>6, <1>8

(* A send leaves a queue of recorded hashes, within its capacity.          *)
LEMMA SendKeeps ==
    ASSUME queue \in Seq(Hashes), Len(queue) <= QueueCap,
           \A i \in DOMAIN queue : Recorded(queue[i]),
           NEW h \in Hashes, Recorded(h), Send(h)
    PROVE  /\ queue' \in Seq(Hashes) /\ Len(queue') <= QueueCap
           /\ \A i \in DOMAIN queue' : Recorded(queue'[i])
<1>1. CASE Len(queue) < QueueCap
  <2>1. queue' = Append(queue, h) BY <1>1 DEF Send
  <2>2. Len(queue') = Len(queue) + 1 /\ queue' \in Seq(Hashes) BY <2>1
  <2>3. \A i \in 1..Len(queue') : queue'[i] = IF i <= Len(queue) THEN queue[i] ELSE h
        BY <2>1, <2>2
  <2> QED BY <1>1, <2>2, <2>3, QueueAssumption
<1>2. CASE ~(Len(queue) < QueueCap) BY <1>2 DEF Send
<1> QED BY <1>1, <1>2

-----------------------------------------------------------------------------
(* The resting records are well-typed.                                     *)
LEMMA IdleType == Idle \in ReceiverType /\ Free \in WorkerType /\ Done \in WorkerType
BY DEF Idle, Free, Done, ReceiverType, WorkerType

(* enqueue.                                                                *)
LEMMA ReceiverKeeps ==
    ASSUME Inv, NEW r \in Receivers,
           ReceiverStep(r) \/ \E h \in Hashes : Receive(r, h)
    PROVE  Inv' /\ RowsKept /\ \A h \in Hashes : Advance(h)
<1> USE DEF Inv, TypeOK
<1>1. ASSUME NEW h \in Hashes, Receive(r, h)
      PROVE  Inv' /\ RowsKept /\ \A g \in Hashes : Advance(g)
  <2>1. UNCHANGED <<running, queue, work, refill, storeVars>> BY <1>1 DEF Receive
  <2>2. active' \in SUBSET Hashes /\ old' \in SUBSET Hashes
        BY <1>1 DEF Receive, Hit, Miss
  <2>3. recv' = recv \/ recv' = [recv EXCEPT ![r] = [at |-> "record", h |-> h]]
        BY <1>1 DEF Receive
  <2>6. recv' \in [Receivers -> ReceiverType]
    <3>1. [at |-> "record", h |-> h] \in ReceiverType BY DEF ReceiverType
    <3> QED BY <2>3, <3>1
  <2>4. TypeOK' BY <2>1, <2>2, <2>6 DEF StoreType, storeVars
  <2>5. PipelineInv' BY <2>1, <2>3 DEF PipelineInv, Recorded, storeVars
  <2> QED BY <2>1, <2>4, <2>5 DEF SearchableOnce, RowsKept, Recorded, Advance, storeVars
<1>2. CASE Record(r)
  <2>1. recv[r].at = "record" /\ recv' = [recv EXCEPT ![r].at = "offer"]
        /\ SeenInfoHash(recv[r].h)
        /\ UNCHANGED <<running, queue, work, refill, recentVars>>
        BY <1>2 DEF Record
  <2>2. recv[r].h \in Hashes BY <2>1 DEF PipelineInv
  <2>3. /\ StoreType' /\ SearchableOnce' /\ RowsKept /\ row'[recv[r].h] # "none"
        /\ \A g \in Hashes : Advance(g)
        BY <2>1, <2>2, SeenRows
  <2>6. recv' \in [Receivers -> ReceiverType] BY <2>1 DEF ReceiverType
  <2>4. TypeOK' BY <2>1, <2>3, <2>6 DEF recentVars
  <2>7. \A q \in Receivers : /\ recv'[q].h = recv[q].h
                             /\ q # r => recv'[q] = recv[q]
        BY <2>1 DEF ReceiverType
  <2>5. PipelineInv' BY <2>1, <2>2, <2>3, <2>7 DEF PipelineInv, Recorded, RowsKept
  <2> QED BY <2>3, <2>4, <2>5
<1>3. CASE RecordFault(r)
  <2>1. recv' = [recv EXCEPT ![r] = Idle]
        /\ UNCHANGED <<running, queue, work, refill, recentVars, storeVars>>
        BY <1>3 DEF RecordFault
  <2>4. recv' \in [Receivers -> ReceiverType] BY <2>1, IdleType
  <2>2. TypeOK' BY <2>1, <2>4 DEF StoreType, storeVars, recentVars
  <2>3. PipelineInv' BY <2>1 DEF PipelineInv, Recorded, storeVars, Idle
  <2> QED BY <2>1, <2>2, <2>3 DEF SearchableOnce, RowsKept, Recorded, Advance, storeVars
<1>4. CASE Offer(r)
  <2>1. recv' = [recv EXCEPT ![r] = Idle] /\ Send(recv[r].h) /\ recv[r].at = "offer"
        /\ UNCHANGED <<running, work, refill, recentVars, storeVars>>
        BY <1>4 DEF Offer
  <2>2. recv[r].h \in Hashes /\ Recorded(recv[r].h) BY <2>1 DEF PipelineInv
  <2>3. /\ queue' \in Seq(Hashes) /\ Len(queue') <= QueueCap
        /\ \A i \in DOMAIN queue' : Recorded(queue'[i])
        BY <2>1, <2>2, SendKeeps DEF PipelineInv
  <2>6. recv' \in [Receivers -> ReceiverType] BY <2>1, IdleType
  <2>4. TypeOK' BY <2>1, <2>3, <2>6 DEF StoreType, storeVars, recentVars
  <2>5. PipelineInv' BY <2>1, <2>3 DEF PipelineInv, Recorded, storeVars, Idle
  <2> QED BY <2>1, <2>4, <2>5 DEF SearchableOnce, RowsKept, Recorded, Advance, storeVars
<1> QED BY <1>1, <1>2, <1>3, <1>4 DEF ReceiverStep

(* What a worker leaves of the others when it drops its handle.            *)
LEMMA ReturnKeeps ==
    ASSUME work \in [Workers -> WorkerType], NEW w \in Workers,
           NEW next \in WorkerType, Return(w, next)
    PROVE  /\ work' \in [Workers -> WorkerType]
           /\ work'[w] = next
           /\ \A v \in Workers \ {w} : work'[v].at = work[v].at /\ work'[v].h = work[v].h
<1> DEFINE dropped == IF work[w].open THEN Sharing(work[w].h) ELSE {}
           e(v) == IF v = w THEN next
                   ELSE IF v \in dropped THEN [work[v] EXCEPT !.open = FALSE]
                   ELSE work[v]
<1>1. work' = [v \in Workers |-> e(v)] BY DEF Return
<1>2. ASSUME NEW v \in Workers
      PROVE  /\ e(v) \in WorkerType
             /\ v # w => e(v).at = work[v].at /\ e(v).h = work[v].h
      BY DEF WorkerType
<1> HIDE DEF e
<1>3. e(w) = next BY DEF e
<1> QED BY <1>1, <1>2, <1>3

(* metadataWorker.                                                         *)
LEMMA WorkerKeeps ==
    ASSUME Inv, NEW w \in Workers, WorkerStep(w)
    PROVE  Inv' /\ RowsKept /\ \A h \in Hashes : Advance(h)
<1> USE DEF Inv, TypeOK
<1>1. CASE Fetch(w)
  <2> DEFINE x == [at |-> "fetch", h |-> Head(queue), open |-> TRUE,
                   info |-> \E v \in Sharing(Head(queue)) : work[v].info]
  <2>1. /\ queue # <<>> /\ queue' = Tail(queue) /\ work' = [work EXCEPT ![w] = x]
        /\ UNCHANGED <<running, recv, refill, recentVars, storeVars>>
        BY <1>1 DEF Fetch, WorkFrame
  <2>2. Head(queue) \in Hashes /\ Recorded(Head(queue)) BY <2>1 DEF PipelineInv
  <2>3. x \in WorkerType BY <2>2 DEF WorkerType
  <2>4. x.at = "fetch" /\ x.h = Head(queue) OBVIOUS
  <2> HIDE DEF x
  <2>5. work' \in [Workers -> WorkerType] BY <2>1, <2>3
  <2>6. /\ queue' \in Seq(Hashes) /\ Len(queue') = Len(queue) - 1
        /\ \A i \in 1..Len(queue') : queue'[i] = queue[i + 1] /\ i + 1 \in 1..Len(queue)
        BY <2>1
  <2>7. Len(queue') <= QueueCap BY <2>6, QueueAssumption
  <2>8. \A i \in DOMAIN queue' : Recorded(queue'[i])
    <3>1. \A i \in 1..Len(queue) : Recorded(queue[i]) BY DEF PipelineInv
    <3>2. DOMAIN queue' = 1..Len(queue') BY <2>6
    <3>3. ASSUME NEW i \in 1..Len(queue') PROVE Recorded(queue'[i])
          BY <2>6, <3>1, <3>3
    <3> QED BY <3>2, <3>3
  <2>9. TypeOK' BY <2>1, <2>5, <2>6, <2>7 DEF StoreType, storeVars, recentVars
  <2>10. \A v \in Workers : work'[v] = IF v = w THEN x ELSE work[v] BY <2>1
  <2>11. PipelineInv'
         BY <2>1, <2>2, <2>4, <2>8, <2>10 DEF PipelineInv, Recorded, storeVars
  <2> QED BY <2>1, <2>9, <2>11 DEF SearchableOnce, RowsKept, Recorded, Advance, storeVars
<1>2. ASSUME NEW next \in WorkerType, Return(w, next),
             next.at \in {"fetch", "save"} => next.h \in Hashes /\ Recorded(next.h),
             WorkFrame, UNCHANGED <<queue, storeVars>>
      PROVE  Inv' /\ RowsKept /\ \A h \in Hashes : Advance(h)
  <2>1. UNCHANGED <<running, recv, queue, refill, active, old, row, newer, fts>>
        BY <1>2 DEF WorkFrame, recentVars, storeVars
  <2>2. /\ work' \in [Workers -> WorkerType] /\ work'[w] = next
        /\ \A v \in Workers \ {w} : work'[v].at = work[v].at /\ work'[v].h = work[v].h
        BY <1>2, ReturnKeeps
  <2>3. TypeOK' BY <2>1, <2>2 DEF StoreType
  <2>4. PipelineInv' BY <1>2, <2>1, <2>2 DEF PipelineInv, Recorded
  <2> QED BY <2>1, <2>3, <2>4 DEF SearchableOnce, RowsKept, Recorded, Advance
<1>3. CASE FetchGot(w)
  <2> DEFINE x == [Free EXCEPT !.at = "save", !.h = work[w].h]
  <2>1. work[w].at = "fetch" /\ Return(w, x) /\ WorkFrame /\ UNCHANGED <<queue, storeVars>>
        BY <1>3 DEF FetchGot
  <2>2. work[w].h \in Hashes /\ Recorded(work[w].h) BY <2>1 DEF PipelineInv
  <2>3. x \in WorkerType /\ x.h = work[w].h BY <2>2 DEF WorkerType, Free
  <2> HIDE DEF x
  <2> QED BY <1>2, <2>1, <2>2, <2>3
<1>4. CASE FetchTimeout(w)
  <2>1. Return(w, Free) /\ WorkFrame /\ UNCHANGED <<queue, storeVars>>
        BY <1>4 DEF FetchTimeout
  <2>2. Free.at = "idle" BY DEF Free
  <2> QED BY <1>2, <2>1, <2>2, IdleType
<1>5. ASSUME NEW next \in WorkerType, next.at \in {"idle", "done"},
             work' = [work EXCEPT ![w] = next], WorkFrame, UNCHANGED queue,
             StoreType', SearchableOnce', RowsKept
      PROVE  Inv'
  <2>1. UNCHANGED <<running, recv, queue, refill, active, old>>
        BY <1>5 DEF WorkFrame, recentVars
  <2>2. \A v \in Workers : work'[v] = IF v = w THEN next ELSE work[v] BY <1>5
  <2>3. TypeOK' BY <1>5, <2>1
  <2>4. \A h \in Hashes : Recorded(h) => Recorded(h)' BY <1>5 DEF RowsKept, Recorded
  <2>5. /\ \A i \in DOMAIN queue : queue[i] \in Hashes
        /\ \A i \in DOMAIN refill.list : refill.list[i] \in Hashes
        OBVIOUS
  <2>6. PipelineInv' BY <1>5, <2>1, <2>2, <2>4, <2>5 DEF PipelineInv
  <2> QED BY <1>5, <2>3, <2>6
<1>6. CASE Save(w)
  <2>1. work[w].at = "save" /\ work' = [work EXCEPT ![w] = Free]
        /\ SaveMetadata(work[w].h) /\ WorkFrame /\ UNCHANGED queue
        BY <1>6 DEF Save
  <2>2. work[w].h \in Hashes /\ Recorded(work[w].h) BY <2>1 DEF PipelineInv
  <2>3. /\ StoreType' /\ SearchableOnce' /\ RowsKept
        /\ \A g \in Hashes : Advance(g)
        BY <2>1, <2>2, SaveRows
  <2>4. Free.at = "idle" BY DEF Free
  <2> QED BY <1>5, <2>1, <2>3, <2>4, IdleType
<1>7. CASE SaveFault(w) \/ WorkerExit(w)
  <2>1. PICK next \in {Free, Done} : work' = [work EXCEPT ![w] = next]
        BY <1>7 DEF SaveFault, WorkerExit
  <2>2. WorkFrame /\ UNCHANGED <<queue, row, newer, fts>>
        BY <1>7 DEF SaveFault, WorkerExit, storeVars
  <2>3. Free.at = "idle" /\ Done.at = "done" BY DEF Free, Done
  <2>4. StoreType' /\ SearchableOnce' /\ RowsKept /\ \A h \in Hashes : Advance(h)
        BY <2>2 DEF StoreType, SearchableOnce, RowsKept, Recorded, Advance
  <2> QED BY <1>5, <2>1, <2>2, <2>3, <2>4, IdleType
<1> QED BY <1>1, <1>3, <1>4, <1>6, <1>7 DEF WorkerStep

-----------------------------------------------------------------------------
(* Only the store's own actions change rows; a step that leaves the store  *)
(* alone is judged by the rest of the invariant.                           *)
LEMMA StoreUntouched ==
    ASSUME StoreType, SearchableOnce, UNCHANGED storeVars
    PROVE  /\ StoreType' /\ SearchableOnce' /\ RowsKept
           /\ \A h \in Hashes : Advance(h) /\ (Recorded(h) <=> Recorded(h)')
BY DEF StoreType, storeVars, SearchableOnce, RowsKept, Recorded, Advance

(* A refill reads unresolved hashes, at least one of them.                 *)
LEMMA PendingIsRecorded ==
    ASSUME NEW list \in PendingMetadata(Batch) \ {<<>>}
    PROVE  /\ list \in Seq(Hashes) /\ list # <<>>
           /\ \A i \in DOMAIN list : Recorded(list[i])
<1>1. PICK m \in 0..Batch : list \in [1..m -> Unresolved]
      BY QueueAssumption DEF PendingMetadata, BoundedSeq, SeqOf
<1>2. list \in Seq(Unresolved) /\ DOMAIN list = 1..m
      BY <1>1, QueueAssumption
<1>3. list \in Seq(Hashes) BY <1>1, <1>2 DEF Unresolved
<1>4. \A i \in DOMAIN list : list[i] \in Unresolved BY <1>1
<1> QED BY <1>3, <1>4 DEF Unresolved, Recorded

(* replenishLoop.                                                          *)
LEMMA RefillKeeps ==
    ASSUME Inv, RefillStep
    PROVE  Inv' /\ RowsKept /\ \A h \in Hashes : Advance(h)
<1> USE DEF Inv, TypeOK
<1> DEFINE R == [at: {"waiting", "sending", "done"}, list: Seq(Hashes)]
<1>1. /\ UNCHANGED <<running, recv, work, active, old, storeVars>>
      /\ UNCHANGED <<row, newer, fts>>
      BY DEF RefillStep, RefillTick, RefillSend, RefillExit, RefillFrame,
             recentVars, storeVars
<1>2. /\ StoreType' /\ SearchableOnce' /\ RowsKept
      /\ \A h \in Hashes : Advance(h)
      BY <1>1, StoreUntouched
<1>3. ASSUME refill' \in R, refill'.at = "sending" => refill'.list # <<>>,
             \A i \in DOMAIN refill'.list : Recorded(refill'.list[i]),
             queue' \in Seq(Hashes), Len(queue') <= QueueCap,
             \A i \in DOMAIN queue' : Recorded(queue'[i])
      PROVE  Inv'
  <2>1. TypeOK' BY <1>1, <1>2, <1>3
  <2>2. PipelineInv' BY <1>1, <1>3 DEF PipelineInv, Recorded
  <2> QED BY <1>2, <2>1, <2>2
<1>4. CASE RefillTick
  <2>1. PICK list \in PendingMetadata(Batch) \ {<<>>} :
           refill' = [at |-> "sending", list |-> list] /\ queue' = queue
        BY <1>4 DEF RefillTick
  <2>2. /\ list \in Seq(Hashes) /\ list # <<>>
        /\ \A i \in DOMAIN list : Recorded(list[i])
        BY PendingIsRecorded
  <2>3. refill' \in R BY <2>1, <2>2
  <2> QED BY <1>2, <1>3, <2>1, <2>2, <2>3 DEF PipelineInv
<1>5. CASE RefillSend
  <2>1. refill.at = "sending" /\ Send(Head(refill.list))
        BY <1>5 DEF RefillSend
  <2>2. refill.list \in Seq(Hashes) /\ refill.list # <<>>
        BY <2>1 DEF PipelineInv
  <2>3. Head(refill.list) \in Hashes /\ Head(refill.list) = refill.list[1]
        /\ 1 \in DOMAIN refill.list
        BY <2>2
  <2>4. Recorded(Head(refill.list)) BY <2>3 DEF PipelineInv
  <2>5. /\ queue' \in Seq(Hashes) /\ Len(queue') <= QueueCap
        /\ \A i \in DOMAIN queue' : Recorded(queue'[i])
        BY <2>1, <2>3, <2>4, SendKeeps DEF PipelineInv
  <2>6. CASE Len(refill.list) = 1
    <3>1. refill' = [at |-> "waiting", list |-> <<>>]
          BY <1>5, <2>6 DEF RefillSend, Waiting
    <3> QED BY <1>2, <1>3, <2>5, <3>1
  <2>7. CASE Len(refill.list) # 1
    <3> DEFINE t == Tail(refill.list)
    <3>1. refill' = [refill EXCEPT !.list = t] BY <1>5, <2>7 DEF RefillSend
    <3>2. /\ t \in Seq(Hashes) /\ Len(t) = Len(refill.list) - 1
          /\ \A i \in 1..Len(t) : /\ t[i] = refill.list[i + 1]
                                  /\ i + 1 \in 1..Len(refill.list)
          BY <2>2
    <3>3. DOMAIN t = 1..Len(t) /\ DOMAIN refill.list = 1..Len(refill.list)
          BY <2>2, <3>2
    <3>4. Len(t) # 0 BY <2>2, <2>7, <3>2
    <3> HIDE DEF t
    <3>5. \A i \in DOMAIN t : Recorded(t[i]) BY <3>2, <3>3 DEF PipelineInv
    <3>6. refill' \in R /\ refill'.list = t BY <3>1, <3>2
    <3>7. t # <<>> BY <3>4
    <3> QED BY <1>2, <1>3, <2>5, <3>5, <3>6, <3>7
  <2> QED BY <2>6, <2>7
<1>6. CASE RefillExit
  <2>1. refill' = [at |-> "done", list |-> <<>>] /\ queue' = queue
        BY <1>6 DEF RefillExit
  <2> QED BY <1>2, <1>3, <2>1 DEF PipelineInv
<1> QED BY <1>4, <1>5, <1>6 DEF RefillStep

(* The process's own steps, and a peer's delivery.                         *)
LEMMA SessionKeeps ==
    ASSUME Inv, StartStep \/ Start \/ Cancel \/ Crash
    PROVE  Inv' /\ RowsKept /\ \A h \in Hashes : Advance(h)
<1> USE DEF Inv, TypeOK
<1>1. UNCHANGED storeVars /\ UNCHANGED <<row, newer, fts>>
      BY DEF StartStep, CloseServer, StartReturns, Start, Cancel, Crash, Die, storeVars
<1>2. /\ StoreType' /\ SearchableOnce' /\ RowsKept
      /\ \A h \in Hashes : Advance(h)
      BY <1>1, StoreUntouched
<1>3. CASE CloseServer \/ Start \/ Cancel
  <2>1. /\ UNCHANGED <<recv, queue, work, refill, active, old>>
        /\ running' \in {"on", "canceled", "closed"}
        BY <1>3 DEF CloseServer, Start, Cancel, recentVars
  <2>2. TypeOK' BY <1>2, <2>1
  <2>3. PipelineInv' BY <1>1, <2>1 DEF PipelineInv, Recorded
  <2> QED BY <1>2, <2>2, <2>3
<1>4. CASE Die
  <2>1. /\ running' = "off" /\ queue' = <<>> /\ active' = {} /\ old' = {}
        /\ recv' = [r \in Receivers |-> Idle] /\ work' = [w \in Workers |-> Free]
        /\ refill' = [at |-> "waiting", list |-> <<>>]
        BY <1>4 DEF Die, Waiting
  <2>2. recv' \in [Receivers -> ReceiverType] /\ work' \in [Workers -> WorkerType]
        BY <2>1, IdleType
  <2>3. queue' \in Seq(Hashes) /\ Len(queue') <= QueueCap
        BY <2>1, QueueAssumption
  <2>4. TypeOK' BY <1>2, <2>1, <2>2, <2>3
  <2>5. /\ \A r \in Receivers : recv'[r].at = "idle"
        /\ \A w \in Workers : work'[w].at = "idle"
        BY <2>1 DEF Idle, Free
  <2>6. PipelineInv' BY <2>1, <2>5 DEF PipelineInv
  <2> QED BY <1>2, <2>4, <2>6
<1> QED BY <1>3, <1>4 DEF StartStep, StartReturns, Crash

LEMMA GotInfoKeeps ==
    ASSUME Inv, NEW x \in Hashes, GotInfo(x)
    PROVE  Inv' /\ RowsKept /\ \A h \in Hashes : Advance(h)
<1> USE DEF Inv, TypeOK
<1> DEFINE e(w) == IF w \in Sharing(x) THEN [work[w] EXCEPT !.info = TRUE] ELSE work[w]
<1>1. /\ UNCHANGED <<running, recv, queue, refill, active, old, storeVars>>
      /\ UNCHANGED <<row, newer, fts>>
      BY DEF GotInfo, WorkFrame, recentVars, storeVars
<1>2. /\ StoreType' /\ SearchableOnce' /\ RowsKept
      /\ \A h \in Hashes : Advance(h)
      BY <1>1, StoreUntouched
<1>3. work' = [w \in Workers |-> e(w)] BY DEF GotInfo
<1>4. ASSUME NEW w \in Workers
      PROVE  e(w) \in WorkerType /\ e(w).at = work[w].at /\ e(w).h = work[w].h
      BY DEF WorkerType
<1> HIDE DEF e
<1>5. TypeOK' BY <1>1, <1>2, <1>3, <1>4
<1>6. PipelineInv' BY <1>1, <1>3, <1>4 DEF PipelineInv, Recorded
<1> QED BY <1>2, <1>5, <1>6

-----------------------------------------------------------------------------
(* Every step keeps the invariant, and advances rows or leaves them.       *)
LEMMA StepKeeps ==
    ASSUME Inv, [Next]_vars
    PROVE  Inv' /\ RowsKept /\ \A h \in Hashes : Advance(h)
<1>1. CASE UNCHANGED vars
  <2>1. /\ UNCHANGED <<running, recv, queue, work, refill, active, old, row, newer, fts>>
        /\ UNCHANGED storeVars
        BY <1>1 DEF vars, crawlVars, recentVars, storeVars
  <2>2. /\ StoreType' /\ SearchableOnce' /\ RowsKept
        /\ \A h \in Hashes : Advance(h)
        BY <2>1, StoreUntouched DEF Inv, TypeOK
  <2>3. TypeOK' BY <2>1, <2>2 DEF Inv, TypeOK
  <2>4. PipelineInv' BY <2>1 DEF Inv, PipelineInv, Recorded
  <2> QED BY <2>2, <2>3, <2>4 DEF Inv
<1>2. CASE Next
      BY <1>2, ReceiverKeeps, WorkerKeeps, GotInfoKeeps, RefillKeeps, SessionKeeps
      DEF Next
<1> QED BY <1>1, <1>2

(* A crawler that has not started, over an empty index.                    *)
LEMMA InitInv == Init => Inv
<1> SUFFICES ASSUME Init PROVE Inv
    OBVIOUS
<1>1. /\ row = [h \in Hashes |-> "none"] /\ newer = [h \in Hashes |-> {}]
      /\ fts = [h \in Hashes |-> 0] /\ active = {} /\ old = {}
      /\ running = "off" /\ queue = <<>> /\ refill = [at |-> "waiting", list |-> <<>>]
      /\ recv = [r \in Receivers |-> Idle] /\ work = [w \in Workers |-> Free]
      BY DEF Init, RecentInit, StoreInit, Waiting
<1>2. recv \in [Receivers -> ReceiverType] /\ work \in [Workers -> WorkerType]
      BY <1>1, IdleType
<1>3. queue \in Seq(Hashes) /\ Len(queue) <= QueueCap BY <1>1, QueueAssumption
<1>4. StoreType BY <1>1 DEF StoreType
<1>5. TypeOK BY <1>1, <1>2, <1>3, <1>4 DEF TypeOK
<1>6. /\ \A r \in Receivers : recv[r].at = "idle"
      /\ \A w \in Workers : work[w].at = "idle"
      BY <1>1 DEF Idle, Free
<1>7. PipelineInv BY <1>1, <1>6 DEF PipelineInv
<1>8. SearchableOnce BY <1>1 DEF SearchableOnce
<1> QED BY <1>5, <1>7, <1>8 DEF Inv

(* The inductive invariant holds in every state.                           *)
LEMMA Invariance == Spec => []Inv
<1>1. Inv /\ [Next]_vars => Inv' BY StepKeeps
<1> QED BY <1>1, InitInv, PTL DEF Spec

(* TypeOK holds for any sets, any capacities and any interleaving; in      *)
(* particular a send never overfills the queue.                            *)
THEOREM TypeCorrect == Spec => []TypeOK
<1>1. Inv => TypeOK BY DEF Inv
<1> QED BY <1>1, Invariance, PTL

(* No worker, refill or queue slot ever holds a hash without a row.        *)
THEOREM HandledRecorded == Spec => []HandledIsRecorded
<1>1. Inv => HandledIsRecorded
  <2> SUFFICES ASSUME Inv, NEW h \in Handled PROVE row[h] # "none"
      BY DEF HandledIsRecorded
  <2>1. CASE h \in ToSet(queue) \cup ToSet(refill.list)
        BY <2>1 DEF ToSet, Inv, PipelineInv, Recorded
  <2>2. CASE \E w \in Workers : work[w].at \in {"fetch", "save"} /\ h = work[w].h
        BY <2>2 DEF Inv, PipelineInv, Recorded
  <2> QED BY <2>1, <2>2 DEF Handled
<1> QED BY <1>1, Invariance, PTL

(* The full-text index has one row for a resolved hash, and none for any   *)
(* other, whatever is seen, fetched and saved again.                       *)
THEOREM SearchedOnce == Spec => []SearchableOnce
<1>1. Inv => SearchableOnce BY DEF Inv
<1> QED BY <1>1, Invariance, PTL

(* No step of any thread takes a row back.                                 *)
THEOREM RowsAdvance == Spec => RowsOnlyAdvance
<1>1. Inv /\ [Next]_vars
        => [\A h \in Hashes : row'[h] # row[h] =>
               <<row[h], row'[h]>> \in {<<"none", "pending">>, <<"pending", "resolved">>}]_vars
      BY StepKeeps DEF Advance
<1> QED BY <1>1, Invariance, PTL DEF Spec, RowsOnlyAdvance

-----------------------------------------------------------------------------
(* Nothing is swallowed by a step of a crawler whose store does not fail.  *)
LEMMA SwallowKept ==
    ASSUME Inv, SwallowedIsRecorded, "store" \notin Faults, [Next]_vars
    PROVE  SwallowedIsRecorded'
<1>1. Recent \subseteq Hashes BY DEF Inv, TypeOK, Recent
<1>2. RowsKept BY StepKeeps
<1>3. ASSUME Recent' \subseteq Recent,
             \A h \in Recent' : Recording(h) => row'[h] # "none" \/ Recording(h)'
      PROVE  SwallowedIsRecorded'
      BY <1>1, <1>2, <1>3 DEF SwallowedIsRecorded, RowsKept, Recorded
<1>4. ASSUME UNCHANGED <<active, old, recv>> PROVE SwallowedIsRecorded'
      BY <1>3, <1>4 DEF Recent, Recording
<1>5. ASSUME NEW r \in Receivers, NEW x \in Hashes, Receive(r, x)
      PROVE  SwallowedIsRecorded'
  <2>1. recv[r] = Idle /\ Idle.at = "idle" BY <1>5 DEF Receive, Idle
  <2>2. CASE Hit(x) /\ UNCHANGED recv
        BY <1>3, <2>2 DEF Hit, Recent, Recording
  <2>3. CASE Miss(x) /\ recv' = [recv EXCEPT ![r] = [at |-> "record", h |-> x]]
    <3>1. Recent' \subseteq Recent \cup {x} BY <2>3 DEF Miss, Recent
    <3>2. recv'[r] = [at |-> "record", h |-> x] /\ \A q \in Receivers \ {r} : recv'[q] = recv[q]
          BY <2>3 DEF Inv, TypeOK
    <3>3. Recording(x)' BY <3>2 DEF Recording
    <3>4. \A h : Recording(h) => Recording(h)' BY <2>1, <3>2 DEF Recording
    <3> QED BY <1>1, <1>2, <3>1, <3>3, <3>4 DEF SwallowedIsRecorded, RowsKept, Recorded
  <2> QED BY <1>5, <2>2, <2>3 DEF Receive
<1>6. ASSUME NEW r \in Receivers, ReceiverStep(r) PROVE SwallowedIsRecorded'
  <2>1. Recent' = Recent /\ (Record(r) \/ Offer(r))
        BY <1>6 DEF ReceiverStep, Record, RecordFault, Offer, recentVars, Recent
  <2>2. \A q \in Receivers \ {r} : recv'[q] = recv[q]
        BY <2>1 DEF Record, Offer, Inv, TypeOK
  <2>3. CASE Record(r)
    <3>1. recv[r].h \in Hashes BY <2>3 DEF Record, Inv, PipelineInv
    <3>2. SeenInfoHash(recv[r].h) BY <2>3 DEF Record
    <3>3. row'[recv[r].h] # "none" BY <3>1, <3>2, SeenRows DEF Inv, TypeOK
    <3>4. \A h : Recording(h) => h = recv[r].h \/ Recording(h)' BY <2>2 DEF Recording
    <3> QED BY <1>3, <2>1, <3>3, <3>4
  <2>4. CASE Offer(r)
    <3>1. recv[r].at = "offer" BY <2>4 DEF Offer
    <3>2. \A h : Recording(h) => Recording(h)' BY <2>2, <3>1 DEF Recording
    <3> QED BY <1>3, <2>1, <3>2
  <2> QED BY <2>1, <2>3, <2>4
<1>7. ASSUME Die PROVE SwallowedIsRecorded'
      BY <1>7 DEF Die, SwallowedIsRecorded, Recent
<1>8. ASSUME NEW w \in Workers, WorkerStep(w) PROVE UNCHANGED <<active, old, recv>>
      BY <1>8 DEF WorkerStep, Fetch, FetchGot, FetchTimeout, Save, SaveFault,
                  WorkerExit, WorkFrame, recentVars
<1>9. ASSUME RefillStep \/ (\E h \in Hashes : GotInfo(h)) \/ CloseServer \/ Start
                \/ Cancel \/ UNCHANGED vars
      PROVE  UNCHANGED <<active, old, recv>>
      BY <1>9 DEF RefillStep, RefillTick, RefillSend, RefillExit, RefillFrame, GotInfo,
                  WorkFrame, CloseServer, Start, Cancel, vars, crawlVars, recentVars
<1> QED BY <1>4, <1>5, <1>6, <1>7, <1>8, <1>9 DEF Next, StartStep, StartReturns, Crash

(* The deduplication loses nothing while the store's writes succeed, for   *)
(* any number of receivers racing with the same hashes and any capacity of *)
(* the recent set.                                                         *)
THEOREM DedupLosesNothing ==
    ASSUME "store" \notin Faults
    PROVE  Spec => []SwallowedIsRecorded
<1>1. Init => SwallowedIsRecorded
      BY DEF Init, RecentInit, SwallowedIsRecorded, Recent
<1>2. Inv /\ SwallowedIsRecorded /\ [Next]_vars => SwallowedIsRecorded'
      BY SwallowKept
<1> QED BY <1>1, <1>2, Invariance, PTL DEF Spec
=============================================================================
