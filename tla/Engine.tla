------------------------------- MODULE Engine -------------------------------
(***************************************************************************)
(* internal/engine: the download manager.  Threads that call it:           *)
(*                                                                         *)
(*   Adders    the command goroutines of the TUI, each adding one result   *)
(*             at a time (addDownload);                                    *)
(*   Managers  the TUI's event loop, which removes, restarts, pauses and   *)
(*             selects files, and finally closes the engine;               *)
(*                                                                         *)
(* and one goroutine per Download, awaitMetadata.  A caller's operation is *)
(* cut where another thread can observe it: at the engine's mutex, at each *)
(* library call and at each file-system call.  The save of the task list   *)
(* (persistState) is the tail of every adding, removing and restarting     *)
(* operation.                                                              *)
(***************************************************************************)
EXTENDS TorrentClient, FiniteSets, Integers

CONSTANTS
    DownloadIds,    \* identities of the Download objects of a session (a bound)
    Adders,         \* goroutines that add torrents
    Managers,       \* the thread that manages them
    Faults,         \* which calls may fail: a subset of FaultKinds
    TimeoutEnabled, \* FALSE when the metadata timeout is negative
    Torn            \* the content of a file that was being written

Procs == Adders \cup Managers

FileImages == [Hashes -> {Nil} \cup SUBSET Files]

(* A write or a rename of the state file; its read, or the parse of what   *)
(* was read; the library's answer to the re-add of a task.                 *)
FaultKinds == {"disk", "read", "readd"}

ASSUME NilAssumption ==
    /\ Nil \notin Hashes \cup TorrentIds \cup DownloadIds \cup Procs
    /\ \A S \in SUBSET Files : S # Nil
    /\ \A S \in SUBSET Hashes : S # Nil
    /\ \A image \in FileImages : image # Nil
ASSUME TornAssumption == Torn # Nil /\ \A image \in FileImages : image # Torn
ASSUME FaultsAssumption == Faults \subseteq FaultKinds
ASSUME TimeoutAssumption == TimeoutEnabled \in BOOLEAN
ASSUME ThreadsAssumption == Adders \cap Managers = {}

VARIABLES
    session,   \* "down", "restoring" (inside New) or "up"
    todo,      \* the records New has still to re-add
    dl,        \* every Download object of this session
    downloads, \* Engine.downloads: the Download of each hash
    pc,        \* where each calling thread is
    job,       \* the local variables of its operation
    stateMu,   \* the thread inside persistState
    snap,      \* its list of downloads, less those already recorded
    recs,      \* the records it has made
    early,     \* history: those made before their task had its selection
    tmpFile,   \* statePath + ".tmp"
    stateFile  \* statePath: for each hash the recorded Skip, or no record

opVars      == <<pc, job>>
persistVars == <<stateMu, snap, recs, early, tmpFile, stateFile>>
listVars    == <<dl, downloads>>
vars == <<session, todo, torrent, listVars, opVars, persistVars>>

-----------------------------------------------------------------------------
(* Download.  "wanted" is the user's selection, Nil until initSelection has *)
(* run; "stage" is where awaitMetadata is.                                  *)

NoDownload == [t |-> Nil, skip |-> {}, wanted |-> Nil, paused |-> FALSE,
               err |-> FALSE, stage |-> "free"]

NewDownload(t, skip) ==
    [NoDownload EXCEPT !.t = t, !.skip = skip, !.stage = "waiting"]

FreeDownloads == {d \in DownloadIds : dl[d].stage = "free"}
Fresh == CHOOSE d \in DownloadIds : d \in FreeDownloads

Stages == {"free", "waiting", "recovering", "dropping", "done"}

(* Sanity variant: the record lists the wanted files.                      *)
SkipOf_Inverted(d) ==
    IF torrent[dl[d].t].info /\ dl[d].wanted # Nil THEN dl[d].wanted ELSE {}

(* Files(): the indices it reports as not wanted.  Before the metadata it  *)
(* reports no file, and before initSelection every file as wanted.         *)
SkipOf(d) ==
    IF torrent[dl[d].t].info /\ dl[d].wanted # Nil
    THEN Files \ dl[d].wanted ELSE {}

(* Sanity variant: the projection forgets the pause.                       *)
Applied_IgnoresPause(d, wanted, paused) ==
    IF wanted = Nil THEN torrent ELSE Prioritised(dl[d].t, wanted)

(* applyLocked: project (wanted, paused) onto the file priorities.         *)
Applied(d, wanted, paused) ==
    IF wanted = Nil THEN torrent
    ELSE Prioritised(dl[d].t, IF paused THEN {} ELSE wanted)

(* The writers of wanted and paused, each one critical section of d.mu.    *)
Choose(d, wanted, paused) ==
    /\ dl' = [dl EXCEPT ![d] = [@ EXCEPT !.wanted = wanted, !.paused = paused]]
    /\ torrent' = Applied(d, wanted, paused)

-----------------------------------------------------------------------------
(* Callers.                                                                *)

NoJob == [op |-> "none", h |-> Nil, t |-> Nil, d |-> Nil, skip |-> {},
          info |-> FALSE, paused |-> FALSE]

Job(op, h) == [NoJob EXCEPT !.op = op, !.h = h]

Labels == {"idle", "snapshot", "drop", "readd", "track", "plock", "pread",
           "pwrite", "prename", "pause", "exit"}

Goto(p, label) == pc' = [pc EXCEPT ![p] = label]

(* An operation starts only if the bounds leave it the identities it will  *)
(* need to finish: Committed threads are those that have yet to take theirs. *)
Committed == {p \in Procs : \/ pc[p] \in {"snapshot", "readd", "track"}
                            \/ pc[p] = "drop" /\ job[p].op = "restart"}
RoomToAdd ==
    /\ Cardinality(UnusedTorrents) > Cardinality(Committed)
    /\ Cardinality(FreeDownloads) > Cardinality(Committed)

Ready(p) == session = "up" /\ pc[p] = "idle"

(* AddMagnet and AddInfoHash up to the return of the library's call;       *)
(* "paused" is addDownload's argument.  AddTorrentFile and AddTorrentURL,  *)
(* whose metadata is there from the start, behave as this step followed at *)
(* once by GotInfo.                                                        *)
AddTorrent(p, h, paused) ==
    /\ Ready(p) /\ p \in Adders /\ RoomToAdd
    /\ ClientAdd(h, FALSE)
    /\ job' = [job EXCEPT ![p] = [Job("add", h) EXCEPT
                  !.t = HandleFor(h), !.paused = paused]]
    /\ Goto(p, "track")
    /\ UNCHANGED <<session, todo, listVars, persistVars>>

Healthy(h) == downloads[h] # Nil /\ ~dl[downloads[h]].err

(* The new-Download branch of track.                                       *)
Register(h, t, skip) ==
    /\ FreeDownloads # {}
    /\ dl' = [dl EXCEPT ![Fresh] = NewDownload(t, skip)]
    /\ downloads' = [downloads EXCEPT ![h] = Fresh]

(* What an operation still needs once its Download d is tracked: only the  *)
(* pause of addDownload looks at d again.                                  *)
Tracked(p, d) ==
    job' = [job EXCEPT ![p] =
               IF job[p].paused
               THEN [Job("add", job[p].h) EXCEPT !.d = d, !.paused = TRUE]
               ELSE NoJob]

(* Sanity variant: track hands back whatever entry there is.               *)
Track_KeepsFailed(p) ==
    /\ pc[p] = "track"
    /\ LET h == job[p].h IN
       \/ /\ downloads[h] # Nil
          /\ Tracked(p, downloads[h])
          /\ UNCHANGED listVars
       \/ /\ downloads[h] = Nil
          /\ Register(h, job[p].t, job[p].skip)
          /\ Tracked(p, Fresh)
    /\ Goto(p, "plock")
    /\ UNCHANGED <<session, todo, torrent, persistVars>>

(* track, one critical section of e.mu: reuse the healthy Download of this *)
(* hash, or register a new one, whose awaitMetadata starts.                *)
Track(p) ==
    /\ pc[p] = "track"
    /\ LET h == job[p].h IN
       \/ /\ Healthy(h)
          /\ Tracked(p, downloads[h])
          /\ UNCHANGED listVars
       \/ /\ ~Healthy(h)
          /\ Register(h, job[p].t, job[p].skip)
          /\ Tracked(p, Fresh)
    /\ Goto(p, "plock")
    /\ UNCHANGED <<session, todo, torrent, persistVars>>

(* addDownload's SetPaused(true), after AddMagnet has returned.            *)
AddPause(p) ==
    /\ pc[p] = "pause"
    /\ Choose(job[p].d, dl[job[p].d].wanted, TRUE)
    /\ job' = [job EXCEPT ![p] = NoJob]
    /\ Goto(p, "idle")
    /\ UNCHANGED <<session, todo, downloads, persistVars>>

-----------------------------------------------------------------------------
(* persistState.  Taking stateMu and copying the map are one step: nothing *)
(* but another persistState waits for stateMu.                             *)

NoEntry == [h \in Hashes |-> Nil]

(* Sanity variant: a save does not wait for the one under way.             *)
PersistLock_NoMutex(p) ==
    /\ pc[p] = "plock"
    /\ stateMu' = p
    /\ snap' = downloads
    /\ recs' = NoEntry
    /\ Goto(p, "pread")
    /\ UNCHANGED <<session, todo, torrent, listVars, job, early, tmpFile, stateFile>>

PersistLock(p) ==
    /\ pc[p] = "plock" /\ stateMu = Nil
    /\ stateMu' = p
    /\ snap' = downloads
    /\ recs' = NoEntry
    /\ Goto(p, "pread")
    /\ UNCHANGED <<session, todo, torrent, listVars, job, early, tmpFile, stateFile>>

(* One turn of the loop over the copied list, in the map's order (any).    *)
PersistRead(p, h) ==
    /\ pc[p] = "pread" /\ snap[h] # Nil
    /\ recs' = [recs EXCEPT ![h] = SkipOf(snap[h])]
    /\ early' = IF dl[snap[h]].wanted = Nil THEN early \cup {h} ELSE early
    /\ snap' = [snap EXCEPT ![h] = Nil]
    /\ UNCHANGED <<session, todo, torrent, listVars, opVars,
                   stateMu, tmpFile, stateFile>>

(* Sanity variant: the state file itself is truncated.                     *)
PersistWrite_InPlace(p) ==
    /\ pc[p] = "pread" /\ snap = NoEntry
    /\ tmpFile' = Torn /\ stateFile' = Torn
    /\ Goto(p, "pwrite")
    /\ UNCHANGED <<session, todo, torrent, listVars, job,
                   stateMu, snap, recs, early>>

(* WriteFile truncates, then fills, the temporary file.                    *)
PersistWrite(p) ==
    /\ pc[p] = "pread" /\ snap = NoEntry
    /\ tmpFile' = Torn
    /\ Goto(p, "pwrite")
    /\ UNCHANGED <<session, todo, torrent, listVars, job,
                   stateMu, snap, recs, early, stateFile>>

PersistWritten(p) ==
    /\ pc[p] = "pwrite"
    /\ tmpFile' = recs
    /\ Goto(p, "prename")
    /\ UNCHANGED <<session, todo, torrent, listVars, job,
                   stateMu, snap, recs, early, stateFile>>

(* What the caller does once persistState has returned and released its    *)
(* mutex: addDownload pauses, Close goes on, the others return.  A file a  *)
(* failed save leaves behind is truncated by the next, and never read.     *)
AfterPersist(p) ==
    /\ stateMu' = Nil /\ snap' = NoEntry /\ recs' = NoEntry /\ early' = {}
    /\ tmpFile' = Nil
    /\ Goto(p, CASE job[p].op = "quit" -> "exit"
                 [] job[p].op = "add"  -> "pause"
                 [] OTHER              -> "idle")
    /\ UNCHANGED <<session, todo, torrent, listVars, job>>

PersistRename(p) ==
    /\ pc[p] = "prename"
    /\ stateFile' = tmpFile
    /\ AfterPersist(p)

(* Sanity variant: the error return forgets to unlock.                     *)
PersistFault_KeepsMutex(p) ==
    /\ "disk" \in Faults /\ pc[p] \in {"pwrite", "prename"}
    /\ Goto(p, "idle")
    /\ UNCHANGED <<session, todo, torrent, listVars, job, persistVars>>

(* The write or the rename fails; the error is dropped.                    *)
PersistFault(p) ==
    /\ "disk" \in Faults /\ pc[p] \in {"pwrite", "prename"}
    /\ UNCHANGED stateFile
    /\ AfterPersist(p)

-----------------------------------------------------------------------------
(* Remove and Restart.                                                     *)

(* The entry leaves the map under e.mu; the rest works on the pointer.     *)
Take(p, h, op, label) ==
    /\ Ready(p) /\ p \in Managers /\ downloads[h] # Nil
    /\ downloads' = [downloads EXCEPT ![h] = Nil]
    /\ job' = [job EXCEPT ![p] = [Job(op, h) EXCEPT !.d = downloads[h],
                                                    !.t = dl[downloads[h]].t]]
    /\ Goto(p, label)
    /\ UNCHANGED <<session, todo, torrent, dl, persistVars>>

RemoveTake(p, h)  == Take(p, h, "remove", "drop")
RestartTake(p, h) == RoomToAdd /\ Take(p, h, "restart", "snapshot")

(* Restart reads the metainfo and the selection, one step: metadata or a   *)
(* selection that appears between the two reads leaves the same "skip".    *)
RestartSnapshot(p) ==
    /\ pc[p] = "snapshot"
    /\ LET old == job[p].d
           known == torrent[job[p].t].info
       IN job' = [job EXCEPT ![p] =
                     [@ EXCEPT !.d = Nil, !.info = known,
                               !.skip = IF ~known /\ SkipOf(old) = {}
                                        THEN dl[old].skip ELSE SkipOf(old)]]
    /\ Goto(p, "drop")
    /\ UNCHANGED <<session, todo, torrent, listVars, persistVars>>

(* Sanity variant: Remove does not save.                                   *)
Drop_NoSave(p) ==
    /\ pc[p] = "drop"
    /\ ClientDrop(job[p].t)
    /\ IF job[p].op = "restart"
       THEN Goto(p, "readd") /\ UNCHANGED job
       ELSE Goto(p, "idle") /\ job' = [job EXCEPT ![p] = NoJob]
    /\ UNCHANGED <<session, todo, listVars, persistVars>>

(* t.Drop().  Remove then saves, Restart adds again.                       *)
Drop(p) ==
    /\ pc[p] = "drop"
    /\ ClientDrop(job[p].t)
    /\ IF job[p].op = "restart"
       THEN Goto(p, "readd") /\ UNCHANGED job
       ELSE Goto(p, "plock") /\ job' = [job EXCEPT ![p] = NoJob]
    /\ UNCHANGED <<session, todo, listVars, persistVars>>

RestartReadd(p) ==
    /\ pc[p] = "readd"
    /\ LET h == job[p].h IN
       /\ ClientAdd(h, job[p].info)
       /\ job' = [job EXCEPT ![p] = [@ EXCEPT !.t = HandleFor(h), !.info = FALSE]]
    /\ Goto(p, "track")
    /\ UNCHANGED <<session, todo, listVars, persistVars>>

(* The library refuses: Restart returns the error, without a save.         *)
RestartRefused(p) ==
    /\ "readd" \in Faults /\ pc[p] = "readd"
    /\ job' = [job EXCEPT ![p] = NoJob]
    /\ Goto(p, "idle")
    /\ UNCHANGED <<session, todo, torrent, listVars, persistVars>>

-----------------------------------------------------------------------------
(* The selection, set by the managing thread on a listed download.         *)

Managing(p, d) == Ready(p) /\ p \in Managers /\ \E h \in Hashes : downloads[h] = d

SetPaused(p, d, paused) ==
    /\ Managing(p, d)
    /\ Choose(d, dl[d].wanted, paused)
    /\ UNCHANGED <<session, todo, downloads, opVars, persistVars>>

(* Sanity variant: no bounds check; Nil stands for an index beyond the end. *)
SetFileWanted_NoBound(p, d, f, want) ==
    /\ Managing(p, d) /\ dl[d].wanted # Nil
    /\ Choose(d, IF want THEN dl[d].wanted \cup {f, Nil} ELSE dl[d].wanted \ {f},
              dl[d].paused)
    /\ UNCHANGED <<session, todo, downloads, opVars, persistVars>>

(* SetFileWanted refuses, and SetAllWanted ignores, the call before        *)
(* initSelection.                                                          *)
SetFileWanted(p, d, f, want) ==
    /\ Managing(p, d) /\ dl[d].wanted # Nil
    /\ Choose(d, IF want THEN dl[d].wanted \cup {f} ELSE dl[d].wanted \ {f},
              dl[d].paused)
    /\ UNCHANGED <<session, todo, downloads, opVars, persistVars>>

SetAllWanted(p, d, want) ==
    /\ Managing(p, d) /\ dl[d].wanted # Nil
    /\ Choose(d, IF want THEN Files ELSE {}, dl[d].paused)
    /\ UNCHANGED <<session, todo, downloads, opVars, persistVars>>

-----------------------------------------------------------------------------
(* awaitMetadata, the goroutine of each Download.                          *)

At(d, stage) == session # "down" /\ dl[d].stage = stage
AwaitFrame == UNCHANGED <<session, todo, downloads, opVars, persistVars>>

(* GotInfo fired: recoverExistingData verifies what is on disk.            *)
AwaitInfo(d) ==
    /\ At(d, "waiting") /\ torrent[dl[d].t].info
    /\ dl' = [dl EXCEPT ![d].stage = "recovering"]
    /\ UNCHANGED torrent /\ AwaitFrame

(* initSelection.                                                          *)
AwaitSelected(d) ==
    /\ At(d, "recovering")
    /\ LET w == Files \ dl[d].skip IN
       /\ dl' = [dl EXCEPT ![d] = [@ EXCEPT !.wanted = w, !.stage = "done"]]
       /\ torrent' = Applied(d, w, dl[d].paused)
    /\ AwaitFrame

(* Sanity variant: Closed() is only selected on beside the timer.          *)
AwaitClosed_TimerOnly(d) ==
    /\ TimeoutEnabled /\ At(d, "waiting") /\ ~torrent[dl[d].t].open
    /\ dl' = [dl EXCEPT ![d].stage = "done"]
    /\ UNCHANGED torrent /\ AwaitFrame

(* The torrent was dropped by someone else.                                *)
AwaitClosed(d) ==
    /\ At(d, "waiting") /\ ~torrent[dl[d].t].open
    /\ dl' = [dl EXCEPT ![d].stage = "done"]
    /\ UNCHANGED torrent /\ AwaitFrame

(* Sanity variant: the timer reports the error and keeps waiting.          *)
AwaitTimeout_KeepsWaiting(d) ==
    /\ TimeoutEnabled /\ At(d, "waiting")
    /\ dl' = [dl EXCEPT ![d].err = TRUE]
    /\ UNCHANGED torrent /\ AwaitFrame

(* The timer fired; select may pick it though the metadata is there too.   *)
AwaitTimeout(d) ==
    /\ TimeoutEnabled /\ At(d, "waiting")
    /\ dl' = [dl EXCEPT ![d] = [@ EXCEPT !.err = TRUE, !.stage = "dropping"]]
    /\ UNCHANGED torrent /\ AwaitFrame

AwaitDrop(d) ==
    /\ At(d, "dropping")
    /\ ClientDrop(dl[d].t)
    /\ dl' = [dl EXCEPT ![d].stage = "done"]
    /\ AwaitFrame

(* A peer's doing.                                                         *)
GotInfo(t) ==
    /\ MetadataArrives(t)
    /\ UNCHANGED <<session, todo, listVars, opVars, persistVars>>

-----------------------------------------------------------------------------
(* Sessions.                                                               *)

NoDownloads == [d \in DownloadIds |-> NoDownload]
AllIdle     == [p \in Procs |-> "idle"]
NoJobs      == [p \in Procs |-> NoJob]

(* Before the first session the file is whatever an earlier one left.      *)
Init ==
    /\ session = "down" /\ todo = {}
    /\ ClientInit
    /\ dl = NoDownloads /\ downloads = NoEntry
    /\ pc = AllIdle /\ job = NoJobs
    /\ stateMu = Nil /\ snap = NoEntry /\ recs = NoEntry /\ early = {}
    /\ tmpFile = Nil
    /\ stateFile \in FileImages

(* The process ends; only the files survive.                               *)
Die ==
    /\ session' = "down" /\ todo' = {}
    /\ torrent' = [t \in TorrentIds |-> NoTorrent]
    /\ dl' = NoDownloads /\ downloads' = NoEntry
    /\ pc' = AllIdle /\ job' = NoJobs
    /\ stateMu' = Nil /\ snap' = NoEntry /\ recs' = NoEntry /\ early' = {}
    /\ tmpFile' = Nil
    /\ UNCHANGED stateFile

(* Close: save, then close the client, then leave main, which kills the    *)
(* goroutines still running.                                               *)
Quit(p) ==
    /\ Ready(p) /\ p \in Managers
    /\ job' = [job EXCEPT ![p] = [NoJob EXCEPT !.op = "quit"]]
    /\ Goto(p, "plock")
    /\ UNCHANGED <<session, todo, torrent, listVars, persistVars>>

Exit(p) == pc[p] = "exit" /\ Die

Crash == session # "down" /\ Die

(* The hashes the state file has a record of: a torn one does not parse.   *)
Saved == IF stateFile = Torn THEN {} ELSE {h \in Hashes : stateFile[h] # Nil}

(* New, up to restore's read of the file.  Whatever the read or the parse  *)
(* fails with is taken for "no prior state": the session comes up empty,   *)
(* and its first save replaces the list.                                   *)
Boot ==
    /\ session = "down"
    /\ session' = "restoring"
    /\ \/ todo' = Saved
       \/ "read" \in Faults /\ todo' = {}
    /\ UNCHANGED <<torrent, listVars, opVars, persistVars>>

(* restore adds one record of the file.  No other caller runs inside New,  *)
(* and the file has one record for each hash, so track always registers.   *)
RestoreTask(h) ==
    /\ session = "restoring" /\ h \in todo
    /\ ClientAdd(h, FALSE)
    /\ Register(h, HandleFor(h), stateFile[h])
    /\ todo' = todo \ {h}
    /\ UNCHANGED <<session, opVars, persistVars>>

(* A record whose magnet or hash is refused is skipped, without a word.    *)
RestoreRefused(h) ==
    /\ "readd" \in Faults
    /\ session = "restoring" /\ h \in todo
    /\ todo' = todo \ {h}
    /\ UNCHANGED <<session, torrent, listVars, opVars, persistVars>>

(* Sanity variant: New returns before restore has finished.                *)
RestoreDone_Early ==
    /\ session = "restoring"
    /\ session' = "up"
    /\ UNCHANGED <<todo, torrent, listVars, opVars, persistVars>>

RestoreDone ==
    /\ session = "restoring" /\ todo = {}
    /\ session' = "up"
    /\ UNCHANGED <<todo, torrent, listVars, opVars, persistVars>>

-----------------------------------------------------------------------------
(* Steps a thread takes on its own once its operation has begun.           *)
PersistStep(p) ==
    \/ \E h \in Hashes : PersistRead(p, h)
    \/ PersistWrite(p) \/ PersistWritten(p) \/ PersistRename(p) \/ PersistFault(p)

CallStep(p) ==
    \/ Track(p) \/ AddPause(p) \/ RestartSnapshot(p) \/ Drop(p)
    \/ RestartReadd(p) \/ RestartRefused(p) \/ PersistStep(p) \/ Exit(p)

AwaitStep(d) ==
    \/ AwaitInfo(d) \/ AwaitSelected(d) \/ AwaitClosed(d)
    \/ AwaitTimeout(d) \/ AwaitDrop(d)

RestoreStep == RestoreDone \/ \E h \in Hashes : RestoreTask(h) \/ RestoreRefused(h)

(* What users, peers and the machine may do, at any time or never.         *)
UserStep(p) ==
    \/ \E h \in Hashes, paused \in BOOLEAN : AddTorrent(p, h, paused)
    \/ \E h \in Hashes : RemoveTake(p, h) \/ RestartTake(p, h)
    \/ \E d \in DownloadIds :
          \/ \E b \in BOOLEAN : SetPaused(p, d, b) \/ SetAllWanted(p, d, b)
          \/ \E f \in Files, b \in BOOLEAN : SetFileWanted(p, d, f, b)
    \/ Quit(p)

Next ==
    \/ \E p \in Procs : UserStep(p) \/ PersistLock(p) \/ CallStep(p)
    \/ \E d \in DownloadIds : AwaitStep(d)
    \/ \E t \in TorrentIds : GotInfo(t)
    \/ RestoreStep \/ Boot \/ Crash

Spec == Init /\ [][Next]_vars

(* The scheduler runs every goroutine, timers fire, system calls return;   *)
(* sync.Mutex hands itself to a waiter that has starved for 1 ms, which    *)
(* makes the contended lock strongly fair.                                 *)
Fairness ==
    /\ \A p \in Procs : WF_vars(CallStep(p)) /\ SF_vars(PersistLock(p))
    /\ \A d \in DownloadIds : WF_vars(AwaitStep(d))
    /\ WF_vars(RestoreStep)

FairSpec == Spec /\ Fairness

-----------------------------------------------------------------------------
(* Properties.                                                             *)

DownloadType == [t: TorrentIds \cup {Nil}, skip: SUBSET Files,
                 wanted: {Nil} \cup SUBSET Files, paused: BOOLEAN,
                 err: BOOLEAN, stage: Stages]

JobType == [op: {"none", "add", "remove", "restart", "quit"},
            h: Hashes \cup {Nil}, t: TorrentIds \cup {Nil},
            d: DownloadIds \cup {Nil}, skip: SUBSET Files,
            info: BOOLEAN, paused: BOOLEAN]

(* Every variable stays in the range its Go type and use give it.          *)
TypeOK ==
    /\ session \in {"down", "restoring", "up"}
    /\ todo \in SUBSET Hashes
    /\ torrent \in [TorrentIds -> TorrentType]
    /\ dl \in [DownloadIds -> DownloadType]
    /\ downloads \in [Hashes -> DownloadIds \cup {Nil}]
    /\ pc \in [Procs -> Labels]
    /\ job \in [Procs -> JobType]
    /\ stateMu \in Procs \cup {Nil}
    /\ snap \in [Hashes -> DownloadIds \cup {Nil}]
    /\ recs \in FileImages
    /\ early \in SUBSET Hashes
    /\ tmpFile \in {Nil, Torn} \cup FileImages
    /\ stateFile \in {Torn} \cup FileImages

Listed == {h \in Hashes : downloads[h] # Nil}

(* The threads with an operation under way that a save will still follow.  *)
Unsaved == {p \in Procs : pc[p] \in {"snapshot", "drop", "readd", "track", "plock"}}

(* Saves are whole: the state file is never a half-written one, whatever   *)
(* the order in which the threads save, and wherever a crash or a full     *)
(* disk cuts a save (persistState writes a temporary file and renames it). *)
StateFileNeverTorn == stateFile # Torn

(* No lost save: once every operation has returned, the hashes on disk are *)
(* those in Engine.downloads, though each operation changed the map, left  *)
(* the mutex, and only then queued for its save (no disk error assumed).   *)
QuiescentStateFileMatches ==
    session = "up" /\ (\A p \in Procs : pc[p] \in {"idle", "pause"}) => Saved = Listed

(* The selection the user has made of d: the one carried from the state    *)
(* file until initSelection has run, the current one from then on.         *)
Selection(d) == IF dl[d].wanted = Nil THEN Files \ dl[d].skip ELSE dl[d].wanted

(* What Close is about to put in place holds the user's selection of every *)
(* listed task, never a stale or a mixed one, though adds go on meanwhile; *)
(* only the record made before a task had its selection in this session is *)
(* empty instead.  An add that still waits for its own save may have       *)
(* changed the list since (engine.go:455-489).                             *)
SavedSelectionExact ==
    \A p \in Procs :
        pc[p] = "prename" /\ job[p].op = "quit" /\ (\A q \in Adders : pc[q] # "plock")
          => /\ tmpFile \in FileImages
             /\ \A h \in Listed :
                   \/ tmpFile[h] = Files \ Selection(downloads[h])
                   \/ h \in early /\ tmpFile[h] = {}

(* engine.go:448-449: "so a partial file selection survives a restart      *)
(* instead of reverting to a full download".                               *)
CleanQuitSavesSelection ==
    (\E p \in Procs : pc[p] = "exit") /\ (\A p \in Adders : pc[p] = "idle")
       => \A h \in Listed : stateFile[h] = Files \ Selection(downloads[h])

BeingTaken(h) == \E p \in Managers : job[p].h = h /\ pc[p] \in {"snapshot", "drop"}

(* What the client requests is what the user asked for: an open torrent's  *)
(* priorities are the projection of its listed Download's selection and    *)
(* pause, though initSelection, the event loop and an adder's late pause   *)
(* all write them, and old and new Downloads may share the torrent.  While *)
(* a manager is about to drop the torrent anything goes.                   *)
PriorityFollowsSelection ==
    \A h \in Listed :
        LET d == dl[downloads[h]] IN
        torrent[d.t].open /\ d.wanted # Nil /\ ~BeingTaken(h)
          => torrent[d.t].prio = IF d.paused THEN {} ELSE d.wanted

(* A listed task that failed never starts, even if its metadata comes with *)
(* the timer, and its torrent is closed by the time awaitMetadata ends.    *)
FailedNeverStarts ==
    \A h \in Listed :
        LET d == dl[downloads[h]] IN
        d.err => d.wanted = Nil /\ (d.stage = "done" => ~torrent[d.t].open)

(* engine.go:263-268 and the README ("no longer hangs forever"): a task on *)
(* the list whose awaitMetadata has ended has a selection or an error to   *)
(* show; adding it again never hands back a dead torrent.                  *)
TrackedNeverHangs ==
    \A h \in Listed :
        dl[downloads[h]].stage = "done" /\ ~BeingTaken(h)
          => dl[downloads[h]].err \/ dl[downloads[h]].wanted # Nil

(* Restart's doc, engine.go:382-383: it preserves "the user's current file *)
(* selection".                                                             *)
RestartKeepsSelection ==
    [][\A p \in Managers : pc[p] = "snapshot" /\ pc'[p] = "drop"
          => Files \ job'[p].skip = Selection(job[p].d)]_vars

(* A failed task is really retried: when an add or a restart has tracked   *)
(* its torrent, the listed Download is one that has not failed.            *)
AddRetriesFailed ==
    [][\A p \in Procs : pc[p] = "track" /\ pc'[p] = "plock"
          => ~dl'[downloads'[job[p].h]].err]_vars

(* Every operation ends: nobody waits for stateMu forever.                 *)
OperationsEnd == \A p \in Procs : pc[p] # "idle" ~> pc[p] = "idle"

(* No goroutine leaks: once its torrent is dropped, by whichever thread,   *)
(* awaitMetadata ends, even with the timeout disabled.                     *)
AwaitEnds ==
    \A d \in DownloadIds :
        dl[d].stage = "waiting" /\ ~torrent[dl[d].t].open
          ~> dl[d].stage \in {"free", "done"}

-----------------------------------------------------------------------------
(* The engine implements TaskList.                                         *)
StatusOf(h) ==
    IF downloads[h] = Nil THEN "absent"
    ELSE IF dl[downloads[h]].err THEN "failed"
    ELSE IF dl[downloads[h]].wanted # Nil THEN "active" ELSE "waiting"

ListImage == [h \in Hashes |-> StatusOf(h)]
PendImage ==
    IF stateMu = Nil THEN Nil ELSE {h \in Hashes : snap[h] # Nil \/ recs[h] # Nil}
RestartImage ==
    [p \in Managers |-> IF job[p].op = "restart" THEN job[p].h ELSE Nil]

Tasks == INSTANCE TaskList WITH
    None <- Nil, mode <- session, status <- ListImage,
    saved <- Saved, pend <- PendImage, restarting <- RestartImage

(* The saved list is always one the map really held; the list changes only *)
(* as an add, a removal, a restart, a metadata arrival or a timeout changes *)
(* it; a restart puts its task back and a new session brings back what was *)
(* saved, whatever else goes on.  Only a refused re-add loses the task it  *)
(* was for, and only an unreadable state file the whole list.              *)
ImplementsTaskList == Tasks!Spec
=============================================================================
