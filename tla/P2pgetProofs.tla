---------------------------- MODULE P2pgetProofs ----------------------------
(***************************************************************************)
(* The composition behaves, in the variables of each part, as the part's   *)
(* specification says, so the theorems about the parts are theorems about  *)
(* it.                                                                     *)
(***************************************************************************)
EXTENDS P2pget, TLAPS

(* In the variables of Tui, every step is a step of Tui or none.           *)
LEMMA DownloadsPart == Spec => Downloads!Spec
<1> USE DEF Downloads!vars, Downloads!engineVars, Downloads!screenVars, downloadsVars
<1>1. Init => Downloads!Init BY DEF Init
<1>2. [Next]_vars => [Downloads!Next]_Downloads!vars
      BY DEF Next, vars, DownloadsStep, SearchTabStep, SearchingStep, GettingStep,
             StartingStep
<1> QED BY <1>1, <1>2, PTL DEF Spec, Downloads!Spec

(* In the variables of Search, every step is a step of Search or none.     *)
LEMMA SearchTabPart == Spec => SearchTab!Spec
<1> USE DEF SearchTab!vars, SearchTab!streamVars, SearchTab!modelVars, searchTabVars
<1>1. Init => SearchTab!Init BY DEF Init
<1>2. [Next]_vars => [SearchTab!Next]_SearchTab!vars
      BY DEF Next, vars, DownloadsStep, SearchTabStep, SearchingStep, GettingStep,
             StartingStep
<1> QED BY <1>1, <1>2, PTL DEF Spec, SearchTab!Spec

(* In those of SearchCommand.                                              *)
LEMMA SearchingPart == Spec => Searching!Spec
<1> USE DEF Searching!vars, searchingVars
<1>1. Init => Searching!Init BY DEF Init
<1>2. [Next]_vars => [Searching!Next]_Searching!vars
      BY DEF Next, vars, DownloadsStep, SearchTabStep, SearchingStep, GettingStep,
             StartingStep
<1> QED BY <1>1, <1>2, PTL DEF Spec, Searching!Spec

(* In those of Get.                                                        *)
LEMMA GettingPart == Spec => Getting!Spec
<1> USE DEF Getting!vars, Getting!torrentVars, gettingVars
<1>1. Init => Getting!Init BY DEF Init
<1>2. [Next]_vars => [Getting!Next]_Getting!vars
      BY DEF Next, vars, DownloadsStep, SearchTabStep, SearchingStep, GettingStep,
             StartingStep
<1> QED BY <1>1, <1>2, PTL DEF Spec, Getting!Spec

(* And in those of Bootstrap.                                              *)
LEMMA StartingPart == Spec => Starting!Spec
<1> USE DEF Starting!vars, Starting!loopVars, startingVars
<1>1. Init => Starting!Init BY DEF Init
<1>2. [Next]_vars => [Starting!Next]_Starting!vars
      BY DEF Next, vars, DownloadsStep, SearchTabStep, SearchingStep, GettingStep,
             StartingStep
<1> QED BY <1>1, <1>2, PTL DEF Spec, Starting!Spec

-----------------------------------------------------------------------------
(***************************************************************************)
(* The get command, for every torrent.                                     *)
(***************************************************************************)

(* awaitMetadata drops the torrent after recording the error, and nothing  *)
(* else drops it while the command still waits.                            *)
DropInv ==
    /\ awaiter = "timed out" => failure = "metadata timeout"
    /\ command \in {"add", "waiting"} /\ dropped => failure = "metadata timeout"
    /\ command = "add" => ~selected /\ awaiter = "none"

GettingInv == Getting!TypeOK /\ DropInv /\ Getting!FailureIsExplained

LEMMA GettingInit ==
    ASSUME Getting!Init
    PROVE  GettingInv
BY GettingAssumption
DEF Getting!GetAssumption, Getting!Init, GettingInv, Getting!TypeOK, DropInv,
    Getting!FailureIsExplained

LEMMA GettingNext ==
    ASSUME GettingInv, [Getting!Next]_Getting!vars
    PROVE  GettingInv'
<1> USE GettingAssumption
      DEF Getting!GetAssumption, GettingInv, Getting!TypeOK, DropInv,
          Getting!FailureIsExplained, Getting!Ended, Getting!torrentVars
<1>1. CASE Getting!Add BY <1>1 DEF Getting!Add
<1>2. CASE Getting!AddFails BY <1>2 DEF Getting!AddFails
<1>3. CASE Getting!Interrupt BY <1>3 DEF Getting!Interrupt
<1>4. CASE Getting!AwaiterSelects BY <1>4 DEF Getting!AwaiterSelects, Getting!Ready
<1>5. CASE Getting!AwaiterTimesOut BY <1>5 DEF Getting!AwaiterTimesOut, Getting!Recorded
<1>6. CASE Getting!AwaiterDrops BY <1>6 DEF Getting!AwaiterDrops
<1>7. CASE Getting!InfoArrived BY <1>7 DEF Getting!InfoArrived
<1>8. CASE Getting!TorrentClosed BY <1>8 DEF Getting!TorrentClosed, Getting!SeesClosed
<1>9. CASE Getting!Cancelled BY <1>9 DEF Getting!Cancelled
<1>10. CASE Getting!Complete BY <1>10 DEF Getting!Complete, Getting!Closes
<1>11. CASE Getting!Stop BY <1>11 DEF Getting!Stop, Getting!Closes
<1>12. CASE Getting!MetadataArrives BY <1>12 DEF Getting!MetadataArrives
<1>13. ASSUME NEW f \in Contents, Getting!ContentArrives(f) PROVE GettingInv'
       BY <1>13 DEF Getting!ContentArrives
<1>14. CASE UNCHANGED Getting!vars BY <1>14 DEF Getting!vars
<1> QED
  BY <1>1, <1>2, <1>3, <1>4, <1>5, <1>6, <1>7, <1>8, <1>9, <1>10, <1>11, <1>12,
     <1>13, <1>14
  DEF Getting!Next, Getting!AwaitMetadata, Getting!WaitInfo

LEMMA GettingInductive ==
    Getting!Spec => []GettingInv
<1>1. Getting!Init => GettingInv BY GettingInit
<1>2. GettingInv /\ [Getting!Next]_Getting!vars => GettingInv' BY GettingNext
<1> QED BY <1>1, <1>2, PTL DEF Getting!Spec

-----------------------------------------------------------------------------
(***************************************************************************)
(* The resolution of the start nodes, for every number of callers, hosts   *)
(* and endpoints, and every answer they may give.                          *)
(***************************************************************************)

Pairs == (1 .. Hosts) \X (1 .. Endpoints)

(* The queries made before the one of host h and endpoint e.               *)
Before(h, e) ==
    {p \in Pairs : p[1] < h \/ (p[1] = h /\ p[2] < e)}

(* As long as nothing is found and the deadline has not passed, the        *)
(* queries that failed are those before the one under way.                 *)
AskedInv ==
    (found = {} /\ ~expired) => asked = Before(host, endpoint)

(* Nobody has addresses before the resolution is over, and they are never  *)
(* none; it is over once the last host is.                                 *)
OnceInv ==
    /\ endpoint \in 1 .. Endpoints
    /\ once = "new" => host = 1
    /\ host > Hosts => endpoint = 1
    /\ once = "done" => addrs # {} /\ host = Hosts + 1
    /\ once # "done" => \A c \in Callers : nodes[c] = Nil

StartingInv == Starting!TypeOK /\ OnceInv /\ AskedInv /\ Starting!NodesComplete

LEMMA StartingInit ==
    ASSUME Starting!Init
    PROVE  StartingInv
<1> USE StartingAssumption DEF Starting!Init, Starting!BootstrapAssumption
<1>1. Starting!TypeOK
  <2>1. found \subseteq (1 .. Hosts) \X Addresses /\ asked \subseteq (1 .. Hosts) \X Nat
        OBVIOUS
  <2>2. addrs \subseteq ((1 .. Hosts) \X Addresses) \cup Fallback OBVIOUS
  <2>3. nodes \in [Callers -> {Nil} \cup SUBSET (((1 .. Hosts) \X Addresses) \cup Fallback)]
        OBVIOUS
  <2>4. host \in 1 .. Hosts + 1 /\ endpoint \in Nat OBVIOUS
  <2> QED BY <2>1, <2>2, <2>3, <2>4 DEF Starting!TypeOK
<1>2. OnceInv BY DEF OnceInv
<1>3. Before(1, 1) = {} BY DEF Before, Pairs
<1>4. AskedInv BY <1>3 DEF AskedInv
<1> QED BY <1>1, <1>2, <1>4 DEF StartingInv, Starting!NodesComplete

(* Going on after a failed query: the one after (h, e) is the next         *)
(* endpoint, or the next host.                                             *)
LEMMA BeforeNext ==
    ASSUME NEW h \in 1 .. Hosts, NEW e \in 1 .. Endpoints
    PROVE  /\ e = Endpoints => Before(h + 1, 1) = Before(h, e) \cup {<<h, e>>}
           /\ Before(h, e + 1) = Before(h, e) \cup {<<h, e>>}
<1> USE StartingAssumption DEF Starting!BootstrapAssumption, Before, Pairs
<1>1. ASSUME NEW p \in Pairs
      PROVE  /\ p \in Before(h, e + 1) <=> p \in Before(h, e) \/ p = <<h, e>>
             /\ e = Endpoints => (p \in Before(h + 1, 1) <=> p \in Before(h, e) \/ p = <<h, e>>)
  <2>1. p = <<p[1], p[2]>> /\ p[1] \in 1 .. Hosts /\ p[2] \in 1 .. Endpoints BY <1>1
  <2>2. p = <<h, e>> <=> p[1] = h /\ p[2] = e BY <2>1
  <2> QED BY <2>1, <2>2
<1>2. <<h, e>> \in Pairs OBVIOUS
<1> QED BY <1>1, <1>2

LEMMA FailureStep ==
    ASSUME StartingInv, Starting!Resolving, Starting!AfterFailure
    PROVE  /\ host' \in 1 .. Hosts + 1 /\ endpoint' \in 1 .. Endpoints
           /\ host' > Hosts => endpoint' = 1
           /\ Before(host', endpoint') = Before(host, endpoint) \cup {<<host, endpoint>>}
<1> USE StartingAssumption
      DEF Starting!BootstrapAssumption, StartingInv, Starting!TypeOK, OnceInv,
          Starting!Resolving
<1>1. host \in 1 .. Hosts /\ endpoint \in 1 .. Endpoints OBVIOUS
<1>2. CASE Starting!LastEndpoint
      BY <1>1, <1>2, BeforeNext
            DEF Starting!AfterFailure, Starting!NextHost, Starting!LastEndpoint
<1>3. CASE ~Starting!LastEndpoint
      BY <1>1, <1>3, BeforeNext DEF Starting!AfterFailure, Starting!LastEndpoint
<1> QED BY <1>2, <1>3

LEMMA StartingNext ==
    ASSUME StartingInv, [Starting!Next]_Starting!vars
    PROVE  StartingInv'
<1> USE StartingAssumption
      DEF Starting!BootstrapAssumption, StartingInv, Starting!TypeOK, OnceInv,
          AskedInv, Starting!NodesComplete
<1>1. ASSUME NEW c \in Callers, Starting!Enter(c) PROVE StartingInv'
      BY <1>1 DEF Starting!Enter, Starting!loopVars
<1>2. ASSUME NEW c \in Callers, Starting!Return(c) PROVE StartingInv'
      BY <1>2 DEF Starting!Return, Starting!DoReturns, Starting!loopVars
<1>3. ASSUME NEW records \in SUBSET Records, Starting!QueryEnds(records)
      PROVE  StartingInv'
  <2> USE <1>3 DEF Starting!QueryEnds, Starting!Answered
  <2>1. CASE records \cap Addresses # {}
    <3>1. PICK r \in records \cap Addresses : TRUE BY <2>1
    <3>2. host \in 1 .. Hosts BY DEF Starting!Resolving
    <3>3. <<host, r>> \in found' BY <2>1, <3>1
    <3>4. {host} \X (records \cap Addresses) \subseteq (1 .. Hosts) \X Addresses
          BY <3>2
    <3>5. found' # {} /\ found' \subseteq (1 .. Hosts) \X Addresses
          BY <2>1, <3>3, <3>4
    <3>6. host' \in 1 .. Hosts + 1 /\ endpoint' = 1 /\ asked' = asked
          BY <2>1, <3>2 DEF Starting!NextHost
    <3> QED BY <3>5, <3>6 DEF Starting!Resolving
  <2>2. CASE records \cap Addresses = {}
    <3>1. Starting!AfterFailure /\ Starting!Resolving BY <2>2
    <3>2. asked' = asked \cup {<<host, endpoint>>} /\ found' = found BY <2>2
    <3>3. asked' \subseteq (1 .. Hosts) \X Nat BY <3>2, <3>1 DEF Starting!Resolving
    <3>4. AskedInv' BY <3>1, <3>2, FailureStep
    <3> QED BY <3>1, <3>2, <3>3, <3>4, FailureStep DEF Starting!Resolving
  <2> QED BY <2>1, <2>2
<1>4. CASE Starting!Expire BY <1>4 DEF Starting!Expire, Starting!Resolving
<1>5. CASE Starting!QueryCancelled
      BY <1>5, FailureStep DEF Starting!QueryCancelled, Starting!Resolving
<1>6. CASE Starting!Finish
  <2>1. /\ Starting!Resolved # {}
        /\ Starting!Resolved \subseteq ((1 .. Hosts) \X Addresses) \cup Fallback
        BY DEF Starting!Resolved
  <2>2. host = Hosts + 1 BY <1>6 DEF Starting!Finish
  <2> QED BY <1>6, <2>1, <2>2 DEF Starting!Finish, Starting!loopVars
<1>7. CASE UNCHANGED Starting!vars BY <1>7 DEF Starting!vars, Starting!loopVars
<1> QED BY <1>1, <1>2, <1>3, <1>4, <1>5, <1>6, <1>7 DEF Starting!Next

LEMMA StartingInductive ==
    Starting!Spec => []StartingInv
<1>1. Starting!Init => StartingInv BY StartingInit
<1>2. StartingInv /\ [Starting!Next]_Starting!vars => StartingInv' BY StartingNext
<1> QED BY <1>1, <1>2, PTL DEF Starting!Spec

(* Once the last host is done, every query there is has been made.         *)
LEMMA AllAsked ==
    ASSUME StartingInv
    PROVE  Starting!FallbackIsLast
<1>1. SUFFICES ASSUME once = "done", found = {}, ~expired
               PROVE  asked = (1 .. Hosts) \X (1 .. Endpoints)
      BY DEF Starting!FallbackIsLast
<1>2. asked = Before(Hosts + 1, 1)
      BY <1>1, StartingAssumption
      DEF StartingInv, AskedInv, OnceInv, Starting!BootstrapAssumption
<1>3. ASSUME NEW p \in Pairs PROVE p \in Before(Hosts + 1, 1)
  <2>1. p[1] \in 1 .. Hosts BY <1>3 DEF Pairs
  <2>2. p[1] < Hosts + 1 BY <2>1, StartingAssumption DEF Starting!BootstrapAssumption
  <2> QED BY <2>2 DEF Before
<1> QED BY <1>2, <1>3 DEF Before, Pairs

-----------------------------------------------------------------------------
(* Every variable of every part has its type.                              *)
THEOREM TypeCorrect == Spec => []TypeOK
<1>1. Downloads!Spec => []Downloads!TypeOK
      BY DownloadsAssumption, Downloads!TypeCorrect
<1>2. SearchTab!Spec => []SearchTab!TypeOK
      BY SearchTabAssumption, SearchTab!TypeCorrect
<1>3. Searching!Spec => []Searching!TypeOK
      BY SearchingAssumption, Searching!TypeCorrect
<1>4. GettingInv => Getting!TypeOK BY DEF GettingInv
<1>5. StartingInv => Starting!TypeOK BY DEF StartingInv
<1>6. Downloads!TypeOK /\ SearchTab!TypeOK /\ Searching!TypeOK /\ Getting!TypeOK
          /\ Starting!TypeOK => TypeOK
      BY DEF TypeOK
<1> QED
  BY <1>1, <1>2, <1>3, <1>4, <1>5, <1>6, DownloadsPart, SearchTabPart, SearchingPart,
     GettingPart, StartingPart, GettingInductive, StartingInductive, PTL

(* The list on the screen is the engine's, object for object (app.go       *)
(* 399-413).                                                               *)
THEOREM ScreenIsFresh == Spec => []ListFresh
<1>1. Downloads!Spec => []Downloads!ListFresh
      BY DownloadsAssumption, Downloads!ScreenIsFresh
<1>2. Downloads!ListFresh => ListFresh BY DEF ListFresh
<1> QED BY <1>1, <1>2, DownloadsPart, PTL

(* The modal's download stays in the engine (app.go 422-433, 464-466).     *)
THEOREM ModalIsLive == Spec => []ModalKeepsLive
<1>1. Downloads!Spec => []Downloads!ModalKeepsLive
      BY DownloadsAssumption, Downloads!ModalIsLive
<1>2. Downloads!ModalKeepsLive => ModalKeepsLive BY DEF ModalKeepsLive
<1> QED BY <1>1, <1>2, DownloadsPart, PTL

(* The watchdog restarts only what it has found stalled for the whole      *)
(* threshold, or the retry of that task once failed; if it is paused, an   *)
(* add that has not reported did it (app.go 376-380, 458-484).             *)
THEOREM RestartIsJustified == Spec => RestartedWasStalled
<1>1. Downloads!Spec => Downloads!RestartedWasStalled
      BY DownloadsAssumption, Downloads!RestartIsJustified
<1>2. Downloads!RestartedWasStalled => RestartedWasStalled BY DEF RestartedWasStalled
<1> QED BY <1>1, <1>2, DownloadsPart

(* The final count of the search tab waits for every indexer (search.go    *)
(* 80-107, app.go 291-295).                                                *)
THEOREM FinalCountComplete == Spec => []FinalIsComplete
<1>1. SearchTab!Spec => []SearchTab!FinalIsComplete
      BY SearchTabAssumption, SearchTab!FinalCountComplete
<1>2. SearchTab!FinalIsComplete => FinalIsComplete BY DEF FinalIsComplete
<1> QED BY <1>1, <1>2, SearchTabPart, PTL

(* The rows shown stand for what the current search has sent, in whatever  *)
(* order it was read: each torrent once, best first, with all that was     *)
(* found of it (app.go 291-306, search.go 136-195).                        *)
THEOREM AccumulatedShown == Spec => []ShownIsAccumulated
<1>1. SearchTab!Spec => []SearchTab!ShownIsAccumulated
      BY SearchTabAssumption, SearchTab!AccumulatedShown
<1>2. SearchTab!ShownIsAccumulated => ShownIsAccumulated BY DEF ShownIsAccumulated
<1> QED BY <1>1, <1>2, SearchTabPart, PTL

(* The search command ranks what every indexer answered, in whatever order *)
(* (search.go 39-71, 136-195).                                             *)
THEOREM CompleteRanking == Spec => []RankingIsComplete
<1>1. Searching!Spec => []Searching!RankingIsComplete
      BY SearchingAssumption, Searching!CompleteRanking
<1>2. Searching!RankingIsComplete => RankingIsComplete BY DEF RankingIsComplete
<1> QED BY <1>1, <1>2, SearchingPart, PTL

(* Its pages partition the ranking (main.go 238-271).                      *)
THEOREM PagesCover == Spec => []PagesPartition
<1>1. Searching!Spec => []Searching!PagesPartition
      BY SearchingAssumption, Searching!PagesCover
<1>2. Searching!PagesPartition => PagesPartition BY DEF PagesPartition
<1> QED BY <1>1, <1>2, SearchingPart, PTL

(* Who waits for metadata that is given up is told the cause, never that   *)
(* the torrent was closed (engine.go 299-306, 522-538).                    *)
THEOREM TimeoutIsReported == Spec => []FailureIsExplained
<1>1. GettingInv => FailureIsExplained BY DEF GettingInv, FailureIsExplained
<1> QED BY <1>1, GettingPart, GettingInductive, PTL

(* Every DHT server starts from the same addresses, and from at least one, *)
(* whoever resolves them and whatever the network does (bootstrap.go       *)
(* 54-86).                                                                 *)
THEOREM SameNodes == Spec => []NodesComplete
<1>1. StartingInv => NodesComplete BY DEF StartingInv, NodesComplete
<1> QED BY <1>1, StartingPart, StartingInductive, PTL

(* The hardcoded addresses are used only when every endpoint was asked for *)
(* every host, or the deadline has passed (bootstrap.go 63-86).            *)
THEOREM LastResort == Spec => []FallbackIsLast
<1>1. StartingInv => FallbackIsLast BY AllAsked DEF FallbackIsLast
<1> QED BY <1>1, StartingPart, StartingInductive, PTL
=============================================================================
