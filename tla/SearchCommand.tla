--------------------------- MODULE SearchCommand ---------------------------
(***************************************************************************)
(* "p2pget search" (cmd/p2pget): the blocking Aggregator.Search, whose     *)
(* goroutines append what they find under one mutex, then one page of the  *)
(* ranking.  Page numbers and sizes come from the command line unchecked,  *)
(* and Go's int wraps: MaxInt is its largest value.                        *)
(***************************************************************************)
EXTENDS Results

CONSTANTS
    Indexers,  \* the indexers asked, a subset of Kinds
    Words,     \* what the command searches for: a set of words
    Catalogue, \* for each indexer, the lists of items its server may send
    Limits,    \* values of -n
    Pages,     \* values of -page
    MaxInt     \* the largest int

(* Assumed of the constants, by P2pget and by every instance.              *)
SearchCommandAssumption ==
    /\ ResultsAssumption
    /\ Indexers \subseteq Kinds
    /\ \A i \in Indexers : Catalogue[i] \subseteq Seq(Item)
    /\ MaxInt \in Nat /\ MaxInt > 20
    /\ Limits \subseteq -MaxInt .. MaxInt /\ Pages \subseteq -MaxInt .. MaxInt

VARIABLES
    limit, page, \* the flags
    replied,     \* the reply of each indexer
    out,         \* the results appended so far
    errs,        \* the indexers that failed
    results,     \* Search's result, the ranking
    printed,     \* the rows of the page
    phase        \* "searching", "ranked", "printed" or "panicked"

vars == <<limit, page, replied, out, errs, results, printed, phase>>

NoReply == [err |-> FALSE, res |-> Nil]

Replies ==
    [i \in Indexers |->
        {[err |-> FALSE, res |-> FilterByQuery(ResultsOf(i, items), Words)] : items \in Catalogue[i]}
            \cup {[err |-> TRUE, res |-> <<>>]}]

-----------------------------------------------------------------------------
(* Arithmetic on ints.                                                     *)

Wrap(n) == ((n + MaxInt + 1) % (2 * MaxInt + 2)) - (MaxInt + 1)

(* Division truncates towards zero.                                        *)
Quotient(n, d) == IF n < 0 THEN -((-n) \div d) ELSE n \div d

AtLeastOne(n) == IF n < 1 THEN 1 ELSE n

PageSize   == IF limit < 1 THEN 20 ELSE limit
PageNumber == AtLeastOne(page)
TotalPages == AtLeastOne(Quotient(Wrap(Wrap(Len(results) + PageSize) - 1), PageSize))

(* Sanity variant: pages are numbered from zero.                           *)
Start_FromZero == Wrap(PageNumber * PageSize)

(* The first row is number Start, counted from 0, the last comes before    *)
(* End.                                                                    *)
Start == Wrap(Wrap(PageNumber - 1) * PageSize)
End   == LET end == Wrap(Start + PageSize)
         IN IF end < Len(results) THEN end ELSE Len(results)

OutOfRange == Start >= Len(results) /\ Len(results) > 0

-----------------------------------------------------------------------------
Init ==
    /\ limit \in Limits /\ page \in Pages
    /\ replied = [i \in Indexers |-> NoReply]
    /\ out = <<>> /\ errs = {} /\ results = <<>> /\ printed = <<>>
    /\ phase = "searching"

Replied == {i \in Indexers : replied[i] # NoReply}

(* One indexer's goroutine: the request and, in the critical section, what *)
(* it adds.                                                                *)
Reply(i) ==
    /\ phase = "searching" /\ i \notin Replied
    /\ \E r \in Replies[i] :
          /\ replied' = [replied EXCEPT ![i] = r]
          /\ out' = out \o r.res
          /\ errs' = IF r.err THEN errs \cup {i} ELSE errs
    /\ UNCHANGED <<limit, page, results, printed, phase>>

(* Sanity variant: an indexer that fails is not counted down.              *)
AllDone_WithoutErrors == Replied \ errs = Indexers

(* Sanity variant: the ranking does not wait for the last goroutine.       *)
AllDone_AnyReply == Replied # {}

AllDone == Replied = Indexers

(* wg.Wait and DedupAndRank.                                               *)
Rank ==
    /\ phase = "searching" /\ AllDone
    /\ results' \in DedupAndRank(out)
    /\ phase' = "ranked"
    /\ UNCHANGED <<limit, page, replied, out, errs, printed>>

(* The loop over the rows; an index below zero panics.                     *)
PrintPage ==
    /\ phase = "ranked"
    /\ IF Start < 0 /\ Start < End
       THEN phase' = "panicked" /\ UNCHANGED printed
       ELSE /\ phase' = "printed"
            /\ printed' = SubSeq(results, Start + 1, End)
    /\ UNCHANGED <<limit, page, replied, out, errs, results>>

Next == (\E i \in Indexers : Reply(i)) \/ Rank \/ PrintPage

Spec == Init /\ [][Next]_vars

(* Rank and PrintPage, by what they do to the phase.                       *)
MovesOn ==
    /\ (phase = "searching" /\ AllDone) \/ phase = "ranked"
    /\ phase' \in {"ranked", "printed", "panicked"}

(* Every indexer answers before the aggregator's timeout or fails at it.   *)
Replying == \E i \in Indexers : Reply(i)

FairSpec == Spec /\ WF_vars(Replying) /\ WF_phase(MovesOn)

-----------------------------------------------------------------------------

(* Every variable has its type.                                            *)
TypeOK ==
    /\ limit \in Limits /\ page \in Pages
    /\ DOMAIN replied = Indexers /\ errs \subseteq Replied
    /\ phase \in {"searching", "ranked", "printed", "panicked"}

(* The ranking stands for the answers of all indexers, however they were   *)
(* interleaved, and names those that failed (search.go 39-71, 136-195).    *)
RankingIsComplete ==
    phase # "searching" =>
        LET ok == {i \in Replied : ~replied[i].err}
        IN /\ errs = Indexers \ ok
           /\ Faithful(UNION {ToSet(replied[i].res) : i \in ok}, results)

(* As long as the page's last index fits an int, the rows printed are the  *)
(* page that was asked for: row k is on page k / n of the pages counted,   *)
(* so that going through the pages shows each row once, and a page beyond  *)
(* the last is said to be out of range (main.go 238-271).                  *)
PagesPartition ==
    PageNumber * PageSize <= MaxInt /\ phase \notin {"searching", "ranked"} =>
        /\ phase = "printed"
        /\ ToSet(printed) = {results[k] : k \in {j \in DOMAIN results :
                                ((j - 1) \div PageSize) + 1 = PageNumber}}
        /\ Len(results) + PageSize <= MaxInt =>
              /\ OutOfRange <=> (PageNumber > TotalPages /\ results # <<>>)
              /\ \A j \in DOMAIN results : ((j - 1) \div PageSize) + 1 \in 1 .. TotalPages

(* The command comes to an end whatever the indexers do.                   *)
SearchReturns == []<>(phase \in {"printed", "panicked"})
=============================================================================
