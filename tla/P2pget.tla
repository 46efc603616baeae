------------------------------- MODULE P2pget -------------------------------
(***************************************************************************)
(* What the program does beside the engine and the crawler, each of which  *)
(* has a composition of its own (MCEngine, MCCrawler).  A behaviour        *)
(* follows one activity:                                                   *)
(*                                                                         *)
(*   "downloads"  the download list of the TUI             (Tui)           *)
(*   "search tab" the streaming search of the TUI          (Search)        *)
(*   "search"     the search command                       (SearchCommand) *)
(*   "get"        the get command                          (Get)           *)
(*   "bootstrap"  the resolution of the DHT's start nodes  (Bootstrap)     *)
(*                                                                         *)
(* They are different processes, or parts of one that share no state: the  *)
(* two tabs of the TUI meet only in the add command, which Tui lets come   *)
(* at any time and for any hash.                                           *)
(***************************************************************************)
EXTENDS Integers

CONSTANTS
    Nil,
    Hashes, DownloadIds, Files, Adders, Threshold, MaxGap, Faults,       \* Tui
    Torrents, Vocabulary, Malformed, Indexers, Catalogue,                \* Results
    Queries, MaxSearches,                                                \* Search
    Words, Limits, Pages, MaxInt,                                        \* SearchCommand
    Contents,                                                            \* Get
    Callers, Hosts, Endpoints, Records, Addresses, Fallback              \* Bootstrap

VARIABLES
    activity,
    dl, downloads, have, dead, loop, rest, due, ticking,
    dlList, fileView, confirmDelete, adds,
    searchGen, query, reply, ch, closed, waiting, searchAcc, searchErrs, shown, final,
    limit, page, replied, out, errs, results, printed, phase,
    command, reason, awaiter, known, dropped, failure, selected, onDisk, interrupted,
    once, runner, host, endpoint, expired, found, asked, addrs, nodes

(* Where a part has a module of theorems, the instance is of that module:  *)
(* it extends the specification, and the theorems come along.              *)
Downloads == INSTANCE TuiProofs
SearchTab == INSTANCE SearchProofs
Searching == INSTANCE SearchCommandProofs
Getting   == INSTANCE Get
Starting  == INSTANCE Bootstrap

ASSUME DownloadsAssumption == Downloads!TuiAssumption
ASSUME SearchTabAssumption == SearchTab!SearchAssumption
ASSUME SearchingAssumption == Searching!SearchCommandAssumption
ASSUME GettingAssumption   == Getting!GetAssumption
ASSUME StartingAssumption  == Starting!BootstrapAssumption

downloadsVars == <<dl, downloads, have, dead, loop, rest, due, ticking,
                   dlList, fileView, confirmDelete, adds>>
searchTabVars == <<searchGen, query, reply, ch, closed, waiting,
                   searchAcc, searchErrs, shown, final>>
searchingVars == <<limit, page, replied, out, errs, results, printed, phase>>
gettingVars   == <<command, reason, awaiter, known, dropped, failure,
                   selected, onDisk, interrupted>>
startingVars  == <<once, runner, host, endpoint, expired, found, asked, addrs, nodes>>

vars == <<activity, downloadsVars, searchTabVars, searchingVars, gettingVars, startingVars>>

-----------------------------------------------------------------------------

(* What is not followed is left in one of its initial states.              *)
Init ==
    /\ activity \in {"downloads", "search tab", "search", "get", "bootstrap"}
    /\ Downloads!Init
    /\ activity # "downloads" =>
          /\ downloads = [h \in Hashes |-> Nil]
          /\ have = [h \in Hashes |-> {}]
    /\ SearchTab!Init
    /\ Searching!Init
    /\ activity # "search" => limit = 20 /\ page = 1
    /\ Getting!Init
    /\ activity # "get" => onDisk = {}
    /\ Starting!Init

DownloadsStep ==
    /\ activity = "downloads" /\ Downloads!Next
    /\ UNCHANGED <<activity, searchTabVars, searchingVars, gettingVars, startingVars>>

SearchTabStep ==
    /\ activity = "search tab" /\ SearchTab!Next
    /\ UNCHANGED <<activity, downloadsVars, searchingVars, gettingVars, startingVars>>

SearchingStep ==
    /\ activity = "search" /\ Searching!Next
    /\ UNCHANGED <<activity, downloadsVars, searchTabVars, gettingVars, startingVars>>

GettingStep ==
    /\ activity = "get" /\ Getting!Next
    /\ UNCHANGED <<activity, downloadsVars, searchTabVars, searchingVars, startingVars>>

StartingStep ==
    /\ activity = "bootstrap" /\ Starting!Next
    /\ UNCHANGED <<activity, downloadsVars, searchTabVars, searchingVars, gettingVars>>

Next ==
    \/ DownloadsStep
    \/ SearchTabStep
    \/ SearchingStep
    \/ GettingStep
    \/ StartingStep

Spec == Init /\ [][Next]_vars

(* The fairness of each module, for the activity that is followed.         *)
FairSpec ==
    /\ Spec
    /\ WF_downloadsVars(activity = "downloads" /\ Downloads!EventLoop)
    /\ WF_<<ch, closed, waiting>>(activity = "search tab" /\ SearchTab!Streams)
    /\ WF_waiting(activity = "search tab" /\ SearchTab!Messages)
    /\ WF_searchingVars(activity = "search" /\ Searching!Replying)
    /\ WF_phase(activity = "search" /\ Searching!MovesOn)
    /\ WF_gettingVars(activity = "get" /\ Getting!Waits)
    /\ WF_startingVars(activity = "bootstrap" /\ Starting!Runs)

-----------------------------------------------------------------------------

(* The variables of each module have their types.                          *)
TypeOK ==
    /\ Downloads!TypeOK /\ SearchTab!TypeOK /\ Searching!TypeOK
    /\ Getting!TypeOK /\ Starting!TypeOK

(* The list on the screen is the engine's, object for object.              *)
ListFresh == Downloads!ListFresh

(* The modal's download stays in the engine.                               *)
ModalKeepsLive == Downloads!ModalKeepsLive

(* The watchdog restarts what it has found stalled for the whole           *)
(* threshold, or the retry that has replaced it.                           *)
RestartedWasStalled == Downloads!RestartedWasStalled

(* A finished task leaves the list.                                        *)
DoneIsPruned == Downloads!DoneIsPruned

(* A task whose peers are gone is restarted.                               *)
StalledIsRestarted == Downloads!StalledIsRestarted

(* The results shown are those of the current search, each torrent once.   *)
ShownIsAccumulated == SearchTab!ShownIsAccumulated

(* The final count waits for every indexer.                                *)
FinalIsComplete == SearchTab!FinalIsComplete

(* No stream outlives its indexers, read or not.                           *)
ProducersEnd == SearchTab!ProducersEnd

(* The current search comes to its final count.                            *)
SearchCompletes == SearchTab!SearchCompletes

(* The search command ranks what every indexer answered.                   *)
RankingIsComplete == Searching!RankingIsComplete

(* Its pages partition the ranking.                                        *)
PagesPartition == Searching!PagesPartition

(* Once run, it ends (Searching!SearchReturns).                            *)
SearchReturns == []<>(activity = "search" => phase \in {"printed", "panicked"})

(* Who waits for metadata is told why there is none.                       *)
FailureIsExplained == Getting!FailureIsExplained

(* Waiting for metadata ends.                                              *)
WaitInfoEnds == Getting!WaitInfoEnds

(* Every DHT server starts from the same addresses.                        *)
NodesComplete == Starting!NodesComplete

(* The hardcoded addresses are the last resort.                            *)
FallbackIsLast == Starting!FallbackIsLast

(* The resolution, once begun, ends (Starting!BootstrapEnds).              *)
BootstrapEnds == []<>(activity = "bootstrap" => \A c \in Callers : nodes[c] # Nil)
=============================================================================
