------------------------------- MODULE Search -------------------------------
(***************************************************************************)
(* The search tab: SearchStream (internal/search) with a goroutine for     *)
(* each indexer, the goroutine that closes the channel behind them, and    *)
(* the TUI's side (internal/tui): waitChunk commands that each carry one   *)
(* chunk to the event loop, and the handler that shows it.                 *)
(*                                                                         *)
(* A new search does not stop the one before: its producers run on, and    *)
(* its chunks keep coming.                                                 *)
(***************************************************************************)
EXTENDS Results

CONSTANTS
    Indexers,   \* the indexers asked, a subset of Kinds
    Queries,    \* what the user may ask for: sets of words
    Catalogue,  \* for each indexer, the lists of items its server may send
    MaxSearches \* searches of a session (a bound)

(* Assumed of the constants, by P2pget and by every instance.              *)
SearchAssumption ==
    /\ ResultsAssumption
    /\ Indexers \subseteq Kinds /\ Indexers # {}
    /\ \A i \in Indexers : Catalogue[i] \subseteq Seq(Item)
    /\ MaxSearches \in Nat

Generations == 1 .. MaxSearches

VARIABLES
    searchGen,  \* the number of the current search
    query,      \* what each search asks for
    reply,      \* the chunk each indexer's goroutine has sent, for each search
    ch,         \* the channel of each search: the indexers whose chunk is in it
    closed,     \* the channels that are closed
    waiting,    \* the waitChunk command of each search, or the message it brings
    searchAcc,  \* the results of the current search
    searchErrs, \* the indexers that failed in it
    shown,      \* the result list
    final       \* the status line gives the final count

streamVars == <<query, reply, ch, closed>>
modelVars  == <<searchGen, searchAcc, searchErrs, shown, final>>
vars == <<streamVars, waiting, modelVars>>

NoReply == [err |-> FALSE, res |-> Nil]
EOF == "closed"

-----------------------------------------------------------------------------
(* SearchStream.                                                           *)

(* Sanity variant: an unbuffered channel.                                  *)
Room_Unbuffered(g) == ch[g] = <<>> /\ waiting[g] = "waiting"

(* The channel is buffered for every producer.                             *)
Room(g) == Len(ch[g]) < Cardinality(Indexers)

(* A reply within the timeout, or the error that the timeout makes of it;  *)
(* then the send, which waits for room in the channel.                     *)
Replies ==
    [i \in Indexers |-> [q \in Queries |->
        {[err |-> FALSE, res |-> FilterByQuery(ResultsOf(i, items), q)] : items \in Catalogue[i]}
            \cup {[err |-> TRUE, res |-> <<>>]}]]

Sent(g) == {i \in Indexers : reply[g][i] # NoReply}

Produce(g, i) ==
    /\ g <= searchGen /\ i \notin Sent(g)
    /\ Room(g)
    /\ \E r \in Replies[i][query[g]] : reply' = [reply EXCEPT ![g][i] = r]
    /\ ch' = [ch EXCEPT ![g] = Append(@, i)]
    /\ UNCHANGED <<query, closed, waiting, modelVars>>

(* Sanity variant: the channel is closed behind the first producer.        *)
AllSent_First(g) == Sent(g) # {}

AllSent(g) == Sent(g) = Indexers

(* wg.Wait, cancel, close.                                                 *)
CloseStream(g) ==
    /\ g <= searchGen /\ AllSent(g) /\ ~closed[g]
    /\ closed' = [closed EXCEPT ![g] = TRUE]
    /\ UNCHANGED <<query, reply, ch, waiting, modelVars>>

-----------------------------------------------------------------------------
(* The event loop's side.                                                  *)

(* waitChunk receives, and its result becomes a message.                   *)
WaitChunk(g) ==
    /\ waiting[g] = "waiting"
    /\ \/ /\ ch[g] # <<>>
          /\ waiting' = [waiting EXCEPT ![g] = Head(ch[g])]
          /\ ch' = [ch EXCEPT ![g] = Tail(@)]
       \/ /\ ch[g] = <<>> /\ closed[g]
          /\ waiting' = [waiting EXCEPT ![g] = EOF]
          /\ UNCHANGED ch
    /\ UNCHANGED <<query, reply, closed, modelVars>>

(* Sanity variant: chunks of every search are shown.                       *)
Superseded_Never(g) == g # g

Superseded(g) == g # searchGen

(* Sanity variant: after an error no more chunks are asked for.            *)
NextWait_NotAfterError(r) == IF r.err THEN "none" ELSE "waiting"

(* What becomes of the command once its chunk r is handled.                *)
NextWait(r) == "waiting"

(* The handler of searchChunkMsg.                                          *)
DiscardChunk(g) ==
    /\ waiting[g] \in Indexers \cup {EOF} /\ Superseded(g)
    /\ waiting' = [waiting EXCEPT ![g] = "none"]
    /\ UNCHANGED <<streamVars, modelVars>>

ShowChunk(g) ==
    /\ waiting[g] \in Indexers /\ ~Superseded(g)
    /\ LET i == waiting[g]
           r == reply[g][i]
           acc == IF r.err THEN searchAcc ELSE searchAcc \o r.res
       IN /\ searchAcc' = acc
          /\ searchErrs' = IF r.err THEN searchErrs \cup {i} ELSE searchErrs
          /\ shown' \in DedupAndRank(acc)
          /\ waiting' = [waiting EXCEPT ![g] = NextWait(r)]
    /\ UNCHANGED <<streamVars, searchGen, final>>

EndSearch(g) ==
    /\ waiting[g] = EOF /\ ~Superseded(g)
    /\ waiting' = [waiting EXCEPT ![g] = "none"]
    /\ final' = TRUE
    /\ UNCHANGED <<streamVars, searchGen, searchAcc, searchErrs, shown>>

(* "enter" in the input box: startSearch, and the first waitChunk.         *)
StartSearch(q) ==
    /\ searchGen < MaxSearches
    /\ searchGen' = searchGen + 1
    /\ query' = [query EXCEPT ![searchGen'] = q]
    /\ waiting' = [waiting EXCEPT ![searchGen'] = "waiting"]
    /\ searchAcc' = <<>> /\ searchErrs' = {} /\ shown' = <<>> /\ final' = FALSE
    /\ UNCHANGED <<reply, ch, closed>>

-----------------------------------------------------------------------------

Init ==
    /\ searchGen = 0
    /\ query = [g \in Generations |-> {}]
    /\ reply = [g \in Generations |-> [i \in Indexers |-> NoReply]]
    /\ ch = [g \in Generations |-> <<>>]
    /\ closed = [g \in Generations |-> FALSE]
    /\ waiting = [g \in Generations |-> "none"]
    /\ searchAcc = <<>> /\ searchErrs = {} /\ shown = <<>> /\ final = FALSE

Stream(g) == (\E i \in Indexers : Produce(g, i)) \/ CloseStream(g)

Loop(g) == WaitChunk(g) \/ DiscardChunk(g) \/ ShowChunk(g) \/ EndSearch(g)

Next ==
    \/ \E g \in Generations : Stream(g) \/ Loop(g)
    \/ \E q \in Queries : StartSearch(q)

Spec == Init /\ [][Next]_vars

(* The event loop handles the message of search g: DiscardChunk, ShowChunk *)
(* or EndSearch, by what they do to its command.                           *)
TakesMessage(g) ==
    /\ waiting[g] \in Indexers \cup {EOF}
    /\ waiting' \in {[waiting EXCEPT ![g] = w] : w \in {"none", "waiting"}}

(* Indexer i answers search g: Produce, by what it does to the channel.    *)
Sends(g, i) ==
    /\ g <= searchGen /\ i \notin Sent(g) /\ Room(g)
    /\ ch' = [ch EXCEPT ![g] = Append(@, i)]
    /\ UNCHANGED <<closed, waiting>>

(* Whatever can run beside the user does: every indexer answers, for its   *)
(* request ends with the aggregator's timeout, the goroutines run, and the *)
(* event loop serves its messages.                                         *)
Streams ==
    \E g \in Generations :
        (\E i \in Indexers : Sends(g, i)) \/ CloseStream(g) \/ WaitChunk(g)
Messages == \E g \in Generations : TakesMessage(g)

FairSpec == Spec /\ WF_<<ch, closed, waiting>>(Streams) /\ WF_waiting(Messages)

-----------------------------------------------------------------------------

(* Every variable has its type, and what is in a channel was sent.         *)
TypeOK ==
    /\ searchGen \in 0 .. MaxSearches
    /\ DOMAIN query = Generations /\ DOMAIN reply = Generations
    /\ closed \in [Generations -> BOOLEAN]
    /\ waiting \in [Generations -> {"none", "waiting", EOF} \cup Indexers]
    /\ \A g \in Generations : ToSet(ch[g]) \subseteq Sent(g)
    /\ searchErrs \subseteq Indexers
    /\ final \in BOOLEAN

(* The chunks of search g that the handler has seen.                       *)
Handled(g) == {i \in Sent(g) : waiting[g] # i /\ \A k \in DOMAIN ch[g] : ch[g][k] # i}

(* The list and the errors shown are those of the chunks of the current    *)
(* search handled so far, and of nothing else: chunks of a superseded      *)
(* search leave no trace, and none of the current one is lost or counted   *)
(* twice (app.go 129-143, 287-308; search.go 136-195).                     *)
ShownIsAccumulated ==
    searchGen > 0 =>
        LET handled == Handled(searchGen)
            ok == {i \in handled : ~reply[searchGen][i].err}
        IN /\ searchErrs = handled \ ok
           /\ Faithful(UNION {ToSet(reply[searchGen][i].res) : i \in ok}, shown)

(* The final count is given only when every indexer of the current search  *)
(* has been heard (search.go 80-107, app.go 291-295).                      *)
FinalIsComplete == final => Handled(searchGen) = Indexers

(* Every stream is closed and its goroutines end, even when nobody reads   *)
(* it any more (search.go 76-79).                                          *)
ProducersEnd == []<>(\A g \in 1 .. searchGen : closed[g])

(* A search that no other one supersedes comes to its final count,         *)
(* whatever the indexers answer (app.go 287-308).                          *)
SearchCompletes == []<>(searchGen > 0 => final)
=============================================================================
