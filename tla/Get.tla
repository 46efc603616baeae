-------------------------------- MODULE Get --------------------------------
(***************************************************************************)
(* "p2pget get" (cmd/p2pget): adds one torrent, waits for its metadata in  *)
(* WaitInfo beside the goroutine awaitMetadata, which may give up on it,   *)
(* and polls the download until it is complete or the user interrupts.     *)
(***************************************************************************)
EXTENDS FiniteSets

CONSTANTS
    Contents, \* the files of the torrent that are not empty
    Nil       \* no value

(* Assumed of the constants, by P2pget and by every instance.              *)
GetAssumption == Nil \notin {"metadata timeout", "torrent closed"}

VARIABLES
    command,     \* "add", "waiting", "polling", or how it ended: "complete",
                 \* "interrupted", "killed" or "failed"
    reason,      \* the error it failed with
    awaiter,     \* awaitMetadata: "none", "select", "timed out" or "done"
    known,       \* GotInfo: the metadata is there
    dropped,     \* Closed: the torrent is dropped
    failure,     \* Download.err
    selected,    \* initSelection has run, every file is wanted
    onDisk,      \* the files that are complete on disk
    interrupted  \* the signal has come

torrentVars == <<known, dropped, failure, selected, onDisk>>
vars == <<command, reason, awaiter, torrentVars, interrupted>>

Init ==
    /\ command = "add" /\ reason = Nil /\ awaiter = "none"
    /\ known = FALSE /\ dropped = FALSE /\ failure = Nil /\ selected = FALSE
    /\ onDisk \in SUBSET Contents
    /\ interrupted = FALSE

Ended == command \notin {"add", "waiting", "polling"}

(* AddTorrentFile and AddTorrentURL bring the metadata, AddMagnet and      *)
(* AddInfoHash do not.                                                     *)
Add ==
    /\ command = "add"
    /\ command' = "waiting" /\ awaiter' = "select"
    /\ known' \in BOOLEAN
    /\ UNCHANGED <<reason, dropped, failure, selected, onDisk, interrupted>>

AddFails ==
    /\ command = "add"
    /\ command' = "failed" /\ reason' = "not added"
    /\ UNCHANGED <<awaiter, torrentVars, interrupted>>

(* Before the torrent is added nobody catches the signal.                  *)
Interrupt ==
    /\ ~interrupted /\ ~Ended
    /\ interrupted' = TRUE
    /\ command' = IF command = "add" THEN "killed" ELSE command
    /\ UNCHANGED <<reason, awaiter, torrentVars>>

-----------------------------------------------------------------------------
(* awaitMetadata.  Metadata and timer may both be there: either may win.   *)

(* Sanity variant: the selection is made without the metadata.             *)
Ready_Always == TRUE

Ready == known

AwaiterSelects ==
    /\ ~Ended /\ awaiter = "select" /\ Ready
    /\ awaiter' = "done" /\ selected' = TRUE
    /\ UNCHANGED <<command, reason, known, dropped, failure, onDisk, interrupted>>

(* Sanity variant: the torrent is dropped and no error recorded.           *)
Recorded_Nothing == Nil

Recorded == "metadata timeout"

AwaiterTimesOut ==
    /\ ~Ended /\ awaiter = "select"
    /\ awaiter' = "timed out" /\ failure' = Recorded
    /\ UNCHANGED <<command, reason, known, dropped, selected, onDisk, interrupted>>

AwaiterDrops ==
    /\ ~Ended /\ awaiter = "timed out"
    /\ awaiter' = "done" /\ dropped' = TRUE
    /\ UNCHANGED <<command, reason, known, failure, selected, onDisk, interrupted>>

-----------------------------------------------------------------------------
(* WaitInfo: a select of three cases.                                      *)

InfoArrived ==
    /\ command = "waiting" /\ known
    /\ command' = "polling"
    /\ UNCHANGED <<reason, awaiter, torrentVars, interrupted>>

(* Sanity variant: WaitInfo does not look at Closed.                       *)
SeesClosed_Not == FALSE

SeesClosed == dropped

TorrentClosed ==
    /\ command = "waiting" /\ SeesClosed
    /\ command' = "failed"
    /\ reason' = IF failure # Nil THEN failure ELSE "torrent closed"
    /\ UNCHANGED <<awaiter, torrentVars, interrupted>>

Cancelled ==
    /\ command = "waiting" /\ interrupted
    /\ command' = "failed" /\ reason' = "cancelled"
    /\ UNCHANGED <<awaiter, torrentVars, interrupted>>

-----------------------------------------------------------------------------
(* The polling loop.  Both ways out close the engine.                      *)

Closes(outcome) ==
    /\ command' = outcome /\ dropped' = TRUE
    /\ UNCHANGED <<reason, awaiter, known, failure, selected, onDisk, interrupted>>

(* A torrent without content never counts as complete.                     *)
Complete == command = "polling" /\ Contents # {} /\ onDisk = Contents /\ Closes("complete")

Stop == command = "polling" /\ interrupted /\ Closes("interrupted")

-----------------------------------------------------------------------------
(* The network.                                                            *)

MetadataArrives ==
    /\ ~Ended /\ awaiter # "none" /\ ~known /\ ~dropped
    /\ known' = TRUE
    /\ UNCHANGED <<command, reason, awaiter, dropped, failure, selected, onDisk, interrupted>>

ContentArrives(f) ==
    /\ ~Ended /\ selected /\ ~dropped /\ f \notin onDisk
    /\ onDisk' = onDisk \cup {f}
    /\ UNCHANGED <<command, reason, awaiter, known, dropped, failure, selected, interrupted>>

-----------------------------------------------------------------------------

AwaitMetadata == AwaiterSelects \/ AwaiterTimesOut \/ AwaiterDrops

WaitInfo == InfoArrived \/ TorrentClosed \/ Cancelled

Next ==
    \/ Add \/ AddFails
    \/ AwaitMetadata
    \/ WaitInfo
    \/ Complete \/ Stop
    \/ Interrupt
    \/ MetadataArrives \/ \E f \in Contents : ContentArrives(f)

Spec == Init /\ [][Next]_vars

(* Goroutines run and the timer fires.                                     *)
Waits == AwaitMetadata \/ WaitInfo

FairSpec == Spec /\ WF_vars(Waits)

-----------------------------------------------------------------------------

(* Every variable has its type, and files are selected of known metadata.  *)
TypeOK ==
    /\ command \in {"add", "waiting", "polling", "complete", "interrupted", "killed", "failed"}
    /\ reason \in {Nil, "not added", "metadata timeout", "torrent closed", "cancelled"}
    /\ awaiter \in {"none", "select", "timed out", "done"}
    /\ known \in BOOLEAN /\ dropped \in BOOLEAN /\ selected \in BOOLEAN
    /\ failure \in {Nil, "metadata timeout"}
    /\ onDisk \subseteq Contents /\ (selected => known)
    /\ interrupted \in BOOLEAN

(* Whoever waits for the metadata of a torrent that is given up is told    *)
(* why: the error is there when the drop is seen (engine.go 299-306,       *)
(* 522-538).                                                               *)
FailureIsExplained == reason # "torrent closed"

(* Waiting for metadata ends, without an interrupt, though the metadata of *)
(* a dropped torrent never comes (engine.go 518-521).                      *)
WaitInfoEnds == []<>(command # "waiting")
=============================================================================
