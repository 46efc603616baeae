-------------------------------- MODULE Tui --------------------------------
(***************************************************************************)
(* internal/tui, the download list: bubbletea's event loop, which handles  *)
(* one message at a time (a key, the refresh tick, the outcome of an add), *)
(* beside the goroutines that change the engine under it: the add commands *)
(* (addDownload), awaitMetadata and the torrent client.                    *)
(*                                                                         *)
(* A tick is not atomic for those goroutines: it samples the rates, prunes *)
(* the completed tasks, restarts the stalled ones and rebuilds the list,   *)
(* each from a snapshot (Engine.List) of its own.  Engine operations are   *)
(* single steps here; Engine.tla takes them apart.  So is the look at one   *)
(* completed task and its removal: what comes between them changes neither *)
(* that the hash leaves the map nor what is left.  The watchdog's look and *)
(* its restart are two steps.                                              *)
(***************************************************************************)
EXTENDS FiniteSets, Integers

CONSTANTS
    Hashes,      \* info-hashes
    DownloadIds, \* identities of Download objects (a bound; see Referenced)
    Files,       \* file indices; every torrent has these files
    Adders,      \* add commands that may run at the same time (a bound)
    Threshold,   \* stallRestartThreshold, in units of the tick
    MaxGap,      \* longest time between two ticks (a bound), in the same unit
    Faults,      \* {"readd"} when the client may refuse a re-add
    Nil          \* no value

(* Assumed of the constants, by P2pget and by every instance.              *)
TuiAssumption ==
    /\ Threshold \in Nat \ {0} /\ MaxGap \in Nat \ {0}
    /\ Nil \notin Hashes \cup DownloadIds
    /\ \A S \in SUBSET Files : S # Nil
    /\ \A age \in 0 .. Threshold : age # Nil
    /\ \E ids \in [Hashes -> DownloadIds] : \A g, h \in Hashes : ids[g] = ids[h] => g = h

VARIABLES
    dl,            \* the Download objects
    downloads,     \* Engine.downloads
    have,          \* the files of each torrent that the client has complete
    dead,          \* the torrents whose peers are gone for good
    loop,          \* "idle", or the part of a tick that is running
    rest,          \* the part of its snapshot it is not done with
    due,           \* the Download of it the watchdog has found stalled
    ticking,       \* the next refresh tick is armed
    dlList,        \* Model.dlList, the downloads on the screen
    fileView,      \* the file-selection modal: its Download, the files shown wanted
    confirmDelete, \* the hash the delete prompt is about
    adds           \* the add commands in flight

engineVars == <<dl, downloads, have, dead>>
screenVars == <<dlList, fileView, confirmDelete>>
vars == <<engineVars, screenVars, loop, rest, due, ticking, adds>>

-----------------------------------------------------------------------------
(* Download.  "stall" is how long ago stallSince was set, as of the last    *)
(* sample (Nil when it is zero); "quiet" is a history variable, the time    *)
(* since the download last showed life or was first sampled.                *)

NoDownload == [hash |-> Nil, info |-> FALSE, wanted |-> Nil, skip |-> {},
               paused |-> FALSE, err |-> FALSE, sampled |-> FALSE,
               stall |-> Nil, quiet |-> 0]

NewDownload(h, info, skip) ==
    [NoDownload EXCEPT !.hash = h, !.info = info, !.skip = skip]

Ages == 0 .. Threshold
Older(age, gap) == IF age + gap > Threshold THEN Threshold ELSE age + gap

NoView == [d |-> Nil, files |-> {}]
NoAdd  == [pc |-> "none", h |-> Nil, d |-> Nil]

(* A Download's torrent is open until it is dropped: by a failure, or when *)
(* the Download leaves the map.                                            *)
Open(d) == ~dl[d].err /\ downloads[dl[d].hash] = d

(* The files Status counts; before initSelection every file counts.        *)
WantedFiles(d) == IF dl[d].wanted = Nil THEN Files ELSE dl[d].wanted

(* isCompleted(d.Status()).                                                *)
Complete(d) ==
    /\ dl[d].info /\ WantedFiles(d) # {}
    /\ WantedFiles(d) \subseteq have[dl[d].hash]

(* Engine.List, less its order.                                            *)
List(map) == {map[h] : h \in Hashes} \ {Nil}

(* The Downloads that are read: from the map, in a tick, on the screen.    *)
InUse == (List(downloads) \cup dlList \cup rest \cup {fileView.d}) \ {Nil}

(* Every pointer to a Download; an add only sets the pause of its own.  Go *)
(* reuses the address of an object only when nothing points to it, so an   *)
(* unreferenced identity is free again.                                    *)
Referenced == InUse \cup ({adds[a].d : a \in Adders} \ {Nil})

(* What is left of a Download that is neither in the map nor in a tick's   *)
(* snapshot: nothing samples it, starts its selection or looks at its      *)
(* clock and its pause again.                                              *)
Stale(object) ==
    [object EXCEPT !.skip = {}, !.paused = FALSE, !.sampled = FALSE,
                   !.stall = Nil, !.quiet = 0]

(* What is left of one that only an add points to.                         *)
Husk(object) == [NoDownload EXCEPT !.hash = object.hash]

(* The Downloads after a step: dropped references are collected.           *)
Heap(objects) ==
    dl' = [d \in DownloadIds |->
             IF d \notin Referenced' THEN NoDownload
             ELSE IF d \in List(downloads') \cup rest' THEN objects[d]
             ELSE IF d \in InUse' THEN Stale(objects[d])
             ELSE Husk(objects[d])]

FreeDownloads == {d \in DownloadIds : dl[d].hash = Nil}
Fresh == CHOOSE d \in FreeDownloads : TRUE

-----------------------------------------------------------------------------
(* The engine, as the event loop sees it.                                  *)

Registered(h, info, skip) == [dl EXCEPT ![Fresh] = NewDownload(h, info, skip)]
Unlisted(h) == [downloads EXCEPT ![h] = Nil]

(* Sanity variant: the list is rebuilt only when its hashes change.        *)
SameDownloads_ByHash(map) ==
    {h \in Hashes : map[h] # Nil} = {dl[d].hash : d \in dlList}

(* sameDownloads: the objects are compared, not their hashes.              *)
SameDownloads(map) == List(map) = dlList

(* refreshDownloads, when the engine's map is "map".                       *)
RefreshDownloads(map) ==
    dlList' = IF SameDownloads(map) THEN dlList ELSE List(map)

(* Remove(h, FALSE) and the refresh, which only a success is followed by.  *)
RemoveAndRefresh(h) ==
    /\ downloads' = Unlisted(h)
    /\ IF downloads[h] = Nil THEN UNCHANGED dlList ELSE RefreshDownloads(Unlisted(h))

-----------------------------------------------------------------------------
(* The tick.                                                               *)

(* Sanity variant: a sign of life leaves the stall clock running.          *)
SampleRate_KeepsStall(d, alive, gap) ==
    [dl[d] EXCEPT
        !.sampled = TRUE,
        !.stall = IF @ # Nil THEN Older(@, gap)
                  ELSE IF alive \/ ~dl[d].sampled THEN Nil ELSE 0,
        !.quiet = IF alive \/ ~dl[d].sampled THEN 0 ELSE Older(@, gap)]

(* Sanity variant: every dead sample sets stallSince.                      *)
SampleRate_Restamps(d, alive, gap) ==
    [dl[d] EXCEPT
        !.sampled = TRUE,
        !.stall = IF alive \/ ~dl[d].sampled THEN Nil ELSE 0,
        !.quiet = IF alive \/ ~dl[d].sampled THEN 0 ELSE Older(@, gap)]

(* SampleRate and, through the age it leaves, StallDuration.  "alive" says *)
(* that bytes came in since the last sample or that a peer is active; the  *)
(* first sample has no rate and touches no clock.                          *)
SampleRate(d, alive, gap) ==
    [dl[d] EXCEPT
        !.sampled = TRUE,
        !.stall = IF alive \/ ~dl[d].sampled THEN Nil
                  ELSE IF @ = Nil THEN 0 ELSE Older(@, gap),
        !.quiet = IF alive \/ ~dl[d].sampled THEN 0 ELSE Older(@, gap)]

CanBeAlive(d) == Open(d) /\ ~dead[dl[d].hash]

(* SampleRates, then the snapshot pruneCompleted takes.  The time since    *)
(* the last tick is longer than its period when the loop was busy or the   *)
(* machine slept.                                                          *)
Tick(gap) ==
    /\ loop = "idle" /\ ticking
    /\ loop' = "prune" /\ rest' = List(downloads) /\ ticking' = FALSE
    /\ UNCHANGED <<downloads, have, dead, screenVars, due, adds>>
    /\ \E alive \in SUBSET {d \in List(downloads) : CanBeAlive(d)} :
          Heap([d \in DownloadIds |->
                  IF d \in List(downloads) THEN SampleRate(d, d \in alive, gap) ELSE dl[d]])

(* Sanity variant: the download the modal shows is pruned too.             *)
Finished_IgnoresModal(d) == Complete(d)

Finished(d) == fileView.d # d /\ Complete(d)

(* pruneCompleted, one download of the snapshot: Remove goes by its hash,  *)
(* and fails if the hash has left the map.                                 *)
Prune(d) ==
    /\ loop = "prune" /\ d \in rest
    /\ rest' = rest \ {d}
    /\ downloads' = IF Finished(d) THEN Unlisted(dl[d].hash) ELSE downloads
    /\ UNCHANGED <<have, dead, screenVars, loop, due, ticking, adds>>
    /\ Heap(dl)

PruneEnds ==
    /\ loop = "prune" /\ rest = {}
    /\ loop' = "restart" /\ rest' = List(downloads)
    /\ UNCHANGED <<engineVars, screenVars, due, ticking, adds>>

(* The test of restartStalled, less the look at the active peers.  A rate  *)
(* of a byte per second or more needs no conjunct: the sample that saw it  *)
(* cleared the clock.                                                      *)
Stalled(d) ==
    /\ fileView.d # d
    /\ dl[d].info /\ ~dl[d].paused /\ ~Complete(d)
    /\ dl[d].stall # Nil /\ dl[d].stall >= Threshold

WatchdogSkips(d) ==
    /\ loop = "restart" /\ d \in rest /\ due = Nil
    /\ ~Stalled(d) \/ CanBeAlive(d)
    /\ rest' = rest \ {d}
    /\ UNCHANGED <<downloads, have, dead, screenVars, loop, due, ticking, adds>>
    /\ Heap(dl)

(* What Restart saves of the selection.                                    *)
SkipOf(d) == IF dl[d].wanted = Nil THEN {} ELSE Files \ dl[d].wanted

(* Restart of the hash's current download.  The client may refuse the      *)
(* re-add, and the task is then gone.  The metadata is re-added with it:   *)
(* Stalled asked for it.  Without an entry in the map nothing happens.     *)
Restart(h, refused) ==
    LET old == downloads[h] IN
    IF old = Nil THEN UNCHANGED downloads /\ Heap(dl)
    ELSE IF refused THEN downloads' = Unlisted(h) /\ Heap(dl)
    ELSE /\ FreeDownloads # {}
         /\ downloads' = [downloads EXCEPT ![h] = Fresh]
         /\ Heap(Registered(h, dl[old].info, SkipOf(old)))

WatchdogFinds(d) ==
    /\ loop = "restart" /\ d \in rest /\ due = Nil
    /\ Stalled(d)
    /\ due' = d
    /\ UNCHANGED <<engineVars, screenVars, loop, rest, ticking, adds>>

(* Restart goes by the hash of what was found, and asks nothing again.     *)
WatchdogRestarts ==
    /\ due # Nil
    /\ rest' = rest \ {due} /\ due' = Nil
    /\ UNCHANGED <<have, dead, screenVars, loop, ticking, adds>>
    /\ \E refused \in {"readd" \in Faults, FALSE} : Restart(dl[due].hash, refused)

(* Sanity variant: an open modal returns from the handler before the end.  *)
Rearmed_NotInModal == fileView = NoView

Rearmed == TRUE

(* The rest of the tick: the list, the modal's files, the next tick.       *)
Refresh ==
    /\ loop = "restart" /\ rest = {}
    /\ RefreshDownloads(downloads)
    /\ fileView' = IF fileView = NoView THEN NoView
                   ELSE [fileView EXCEPT !.files = WantedFiles(fileView.d)]
    /\ loop' = "idle" /\ ticking' = Rearmed
    /\ UNCHANGED <<downloads, have, dead, confirmDelete, rest, due, adds>>
    /\ Heap(dl)

-----------------------------------------------------------------------------
(* Keys.  An open modal takes every key, then a pending delete prompt.     *)

AtList == loop = "idle" /\ fileView = NoView /\ confirmDelete = Nil

(* "d": the selected item may be stale; Remove goes by its hash.           *)
KeyRemove(d) ==
    /\ AtList /\ d \in dlList
    /\ RemoveAndRefresh(dl[d].hash)
    /\ UNCHANGED <<have, dead, fileView, confirmDelete, loop, rest, due, ticking, adds>>
    /\ Heap(dl)

(* "p" on the download list.                                               *)
KeyPause(d) ==
    /\ AtList /\ d \in dlList
    /\ UNCHANGED <<downloads, have, dead, screenVars, loop, rest, due, ticking, adds>>
    /\ Heap([dl EXCEPT ![d].paused = ~@])

(* "D" keeps the hash, not the download.                                   *)
KeyDelete(d) ==
    /\ AtList /\ d \in dlList
    /\ confirmDelete' = dl[d].hash
    /\ UNCHANGED <<engineVars, dlList, fileView, loop, rest, due, ticking, adds>>

(* The torrents whose files Remove(h, TRUE) may delete: it deletes by the  *)
(* torrent's name.  With the metadata that is the directory of its files,  *)
(* and of any other torrent of that name; before, it is the magnet's.  Of  *)
(* another torrent the client need not notice.                             *)
Wipes(h) ==
    IF downloads[h] = Nil THEN {{}}
    ELSE {hashes \in SUBSET Hashes : dl[downloads[h]].info => h \in hashes}

ConfirmYes ==
    /\ loop = "idle" /\ confirmDelete # Nil
    /\ confirmDelete' = Nil
    /\ RemoveAndRefresh(confirmDelete)
    /\ \E wiped \in Wipes(confirmDelete) :
          have' = [h \in Hashes |-> IF h \in wiped THEN {} ELSE have[h]]
    /\ UNCHANGED <<dead, fileView, loop, rest, due, ticking, adds>>
    /\ Heap(dl)

ConfirmNo ==
    /\ loop = "idle" /\ confirmDelete # Nil
    /\ confirmDelete' = Nil
    /\ UNCHANGED <<engineVars, dlList, fileView, loop, rest, due, ticking, adds>>

(* "enter" on the download list, once Files() is not nil.                  *)
KeyFiles(d) ==
    /\ AtList /\ d \in dlList
    /\ dl[d].info
    /\ fileView' = [d |-> d, files |-> WantedFiles(d)]
    /\ UNCHANGED <<engineVars, dlList, confirmDelete, loop, rest, due, ticking, adds>>

InModal == loop = "idle" /\ fileView # NoView

ModalClose ==
    /\ InModal
    /\ fileView' = NoView
    /\ RefreshDownloads(downloads)
    /\ UNCHANGED <<downloads, have, dead, confirmDelete, loop, rest, due, ticking, adds>>
    /\ Heap(dl)

(* SetFileWanted and SetAllWanted do nothing before initSelection has run. *)
Select(d, wanted) ==
    /\ dl[d].wanted # Nil
    /\ dl' = [dl EXCEPT ![d].wanted = wanted]
    /\ fileView' = [fileView EXCEPT !.files = wanted]
    /\ UNCHANGED <<downloads, have, dead, dlList, confirmDelete, loop, rest, due, ticking, adds>>

(* " ": the file gets the opposite of what the modal shows.                *)
ModalToggle(f) ==
    /\ InModal
    /\ Select(fileView.d, IF f \in fileView.files THEN WantedFiles(fileView.d) \ {f}
                          ELSE WantedFiles(fileView.d) \cup {f})

ModalAll  == InModal /\ Select(fileView.d, Files)
ModalNone == InModal /\ Select(fileView.d, {})

-----------------------------------------------------------------------------
(* addDownload: a command that runs beside the loop and ends in a message. *)

(* "enter" or "p" on a search result.  Which of them it was matters only   *)
(* once the engine has the task, and is told there.                        *)
AddDownload(a, h) ==
    /\ AtList /\ adds[a].pc = "none"
    /\ adds' = [adds EXCEPT ![a] = [pc |-> "add", h |-> h, d |-> Nil]]
    /\ UNCHANGED <<engineVars, screenVars, loop, rest, due, ticking>>

(* AddMagnet or AddInfoHash: track hands back a healthy task, and replaces *)
(* a failed one.                                                           *)
AddTracks(a, paused) ==
    /\ adds[a].pc = "add"
    /\ UNCHANGED <<have, dead, screenVars, loop, rest, due, ticking>>
    /\ LET h == adds[a].h
           old == downloads[h]
           healthy == IF old = Nil THEN FALSE ELSE ~dl[old].err
           d == IF healthy THEN old ELSE Fresh
       IN /\ healthy \/ FreeDownloads # {}
          /\ downloads' = [downloads EXCEPT ![h] = d]
          /\ adds' = [adds EXCEPT ![a].pc = IF paused THEN "pause" ELSE "added",
                                  ![a].d = IF paused THEN d ELSE Nil]
          /\ Heap(IF healthy THEN dl ELSE Registered(h, FALSE, {}))

(* SetPaused(true) of an add with "p": of the Download track returned,     *)
(* though it may be an old task or have left the map since.                *)
AddPauses(a) ==
    /\ adds[a].pc = "pause"
    /\ adds' = [adds EXCEPT ![a].pc = "added", ![a].d = Nil]
    /\ UNCHANGED <<downloads, have, dead, screenVars, loop, rest, due, ticking>>
    /\ Heap([dl EXCEPT ![adds[a].d].paused = TRUE])

(* The client refuses the magnet: the message carries the error and the    *)
(* list is not refreshed.                                                  *)
AddRefused(a) ==
    /\ adds[a].pc = "add"
    /\ adds' = [adds EXCEPT ![a] = NoAdd]
    /\ UNCHANGED <<engineVars, screenVars, loop, rest, due, ticking>>

(* downloadAddedMsg.                                                       *)
DownloadAdded(a) ==
    /\ loop = "idle" /\ adds[a].pc = "added"
    /\ adds' = [adds EXCEPT ![a] = NoAdd]
    /\ RefreshDownloads(downloads)
    /\ UNCHANGED <<downloads, have, dead, fileView, confirmDelete, loop, rest, due, ticking>>
    /\ Heap(dl)

-----------------------------------------------------------------------------
(* awaitMetadata, the client and the network.                              *)

Changes(d, new) ==
    /\ dl' = [dl EXCEPT ![d] = new]
    /\ UNCHANGED <<downloads, have, dead, screenVars, loop, rest, due, ticking, adds>>

GotInfo(d) ==
    /\ dl[d].hash # Nil /\ CanBeAlive(d) /\ ~dl[d].info
    /\ Changes(d, [dl[d] EXCEPT !.info = TRUE])

(* initSelection.  Nothing reads the restored skip list after it: Restart  *)
(* falls back on it only without metadata, and Stalled asks for metadata.  *)
InitSelection(d) ==
    /\ dl[d].hash # Nil /\ Open(d) /\ dl[d].info /\ dl[d].wanted = Nil
    /\ Changes(d, [dl[d] EXCEPT !.wanted = Files \ dl[d].skip, !.skip = {}])

(* The metadata timeout: the error and the drop.  It may win the select    *)
(* against metadata that has just come.  The skip list is not read again.  *)
MetadataTimeout(d) ==
    /\ dl[d].hash # Nil /\ Open(d) /\ dl[d].wanted = Nil
    /\ Changes(d, [dl[d] EXCEPT !.err = TRUE, !.skip = {}])

FileCompletes(h, f) ==
    /\ downloads[h] # Nil
    /\ LET d == downloads[h] IN
       CanBeAlive(d) /\ dl[d].wanted # Nil /\ f \in dl[d].wanted /\ ~dl[d].paused
    /\ have' = [have EXCEPT ![h] = @ \cup {f}]
    /\ UNCHANGED <<dl, downloads, dead, screenVars, loop, rest, due, ticking, adds>>

PeersVanish(h) ==
    /\ ~dead[h]
    /\ dead' = [dead EXCEPT ![h] = TRUE]
    /\ UNCHANGED <<dl, downloads, have, screenVars, loop, rest, due, ticking, adds>>

-----------------------------------------------------------------------------

(* The list a previous session left behind has been restored by New.       *)
Init ==
    /\ \E restored \in SUBSET Hashes, skip \in [Hashes -> SUBSET Files] :
          LET ids == CHOOSE f \in [Hashes -> DownloadIds] :
                         \A g, h \in Hashes : f[g] = f[h] => g = h IN
          /\ downloads = [h \in Hashes |-> IF h \in restored THEN ids[h] ELSE Nil]
          /\ dl = [d \in DownloadIds |->
                     IF \E h \in restored : ids[h] = d
                     THEN LET h == CHOOSE g \in restored : ids[g] = d
                          IN NewDownload(h, FALSE, skip[h])
                     ELSE NoDownload]
    /\ have \in [Hashes -> SUBSET Files]
    /\ dead = [h \in Hashes |-> FALSE]
    /\ loop = "idle" /\ rest = {} /\ due = Nil /\ ticking = TRUE
    /\ dlList = {} /\ fileView = NoView /\ confirmDelete = Nil
    /\ adds = [a \in Adders |-> NoAdd]

EventLoop ==
    \/ \E gap \in 1 .. MaxGap : Tick(gap)
    \/ \E d \in DownloadIds : Prune(d) \/ WatchdogSkips(d) \/ WatchdogFinds(d)
    \/ WatchdogRestarts
    \/ PruneEnds
    \/ Refresh

Keys ==
    \/ \E d \in DownloadIds : KeyRemove(d) \/ KeyPause(d) \/ KeyDelete(d) \/ KeyFiles(d)
    \/ ConfirmYes
    \/ ConfirmNo
    \/ ModalClose
    \/ \E f \in Files : ModalToggle(f)
    \/ ModalAll
    \/ ModalNone
    \/ \E a \in Adders, h \in Hashes : AddDownload(a, h)

AddCommands ==
    \E a \in Adders :
        \/ \E paused \in BOOLEAN : AddTracks(a, paused)
        \/ AddPauses(a)
        \/ AddRefused(a)
        \/ DownloadAdded(a)

Environment ==
    \/ \E d \in DownloadIds : GotInfo(d) \/ InitSelection(d) \/ MetadataTimeout(d)
    \/ \E h \in Hashes, f \in Files : FileCompletes(h, f)
    \/ \E h \in Hashes : PeersVanish(h)

Next == EventLoop \/ Keys \/ AddCommands \/ Environment

Spec == Init /\ [][Next]_vars

(* bubbletea serves its message queue: an armed tick is handled, and a     *)
(* handler that has begun runs to its end.                                 *)
FairSpec == Spec /\ WF_vars(EventLoop)

-----------------------------------------------------------------------------

(* Every variable has its type.                                            *)
TypeOK ==
    /\ dl \in [DownloadIds ->
                 [hash: Hashes \cup {Nil}, info: BOOLEAN,
                  wanted: {Nil} \cup SUBSET Files, skip: SUBSET Files,
                  paused: BOOLEAN, err: BOOLEAN, sampled: BOOLEAN,
                  stall: {Nil} \cup Ages, quiet: Ages]]
    /\ downloads \in [Hashes -> DownloadIds \cup {Nil}]
    /\ have \in [Hashes -> SUBSET Files]
    /\ dead \in [Hashes -> BOOLEAN]
    /\ loop \in {"idle", "prune", "restart"}
    /\ rest \subseteq DownloadIds /\ due \in rest \cup {Nil} /\ ticking \in BOOLEAN
    /\ dlList \subseteq DownloadIds
    /\ fileView \in [d: DownloadIds \cup {Nil}, files: SUBSET Files]
    /\ confirmDelete \in Hashes \cup {Nil}
    /\ adds \in [Adders -> [pc: {"none", "add", "pause", "added"}, h: Hashes \cup {Nil},
                            d: DownloadIds \cup {Nil}]]
    /\ \A d \in Referenced : dl[d].hash # Nil

(* The add has changed the map and has yet to say so.                      *)
Reporting(a) == adds[a].pc \in {"pause", "added"}

(* Between two messages the screen shows the engine's downloads, object    *)
(* for object, unless an add is about to report or no tick has come yet:   *)
(* every handler that changes the map refreshes the list, and a restarted  *)
(* or replaced task under an old hash is not taken for the old one (app.go *)
(* 399-413).                                                               *)
ListFresh ==
    (loop = "idle" /\ \A a \in Adders : ~Reporting(a))
        => \/ dlList = List(downloads)
           \/ dlList = {} /\ \A d \in List(downloads) : ~dl[d].sampled

(* While the modal is open its download stays the engine's, unless it had  *)
(* failed: neither the prune nor the watchdog hands it a dropped torrent   *)
(* (app.go 422-433, 464-466).                                              *)
ModalKeepsLive ==
    fileView.d # Nil => \/ downloads[dl[fileView.d].hash] = fileView.d
                        \/ dl[fileView.d].err

(* The watchdog replaces a healthy task only when the Download it had      *)
(* looked at has its metadata, has shown no life for the whole threshold,  *)
(* and is that task or the failed one which an add of the same hash has    *)
(* replaced since.  No task the user paused with a key is restarted: if    *)
(* the Download is paused now, an add with "p" did it after the look, and  *)
(* has not reported yet.  It may have completed since the look (app.go     *)
(* 376-380, 458-484, download.go 109-123).                                 *)
RestartedWasStalled ==
    [][\A h \in Hashes :
          (/\ loop = "restart" /\ downloads[h] # Nil /\ downloads'[h] # downloads[h]
           /\ ~dl[downloads[h]].err)
              => /\ due # Nil /\ dl[due].hash = h
                 /\ due = downloads[h] \/ dl[due].err
                 /\ dl[due].info /\ dl[due].quiet >= Threshold
                 /\ dl[due].paused =>
                       \E a \in Adders : adds[a].pc = "added" /\ adds[a].h = h]_vars

(* A finished task leaves the list, however long a modal is open on        *)
(* another one (app.go 310-322, 427-449).                                  *)
DoneIsPruned ==
    \A h \in Hashes :
        []<>(downloads[h] # Nil /\ Complete(downloads[h]) => fileView.d = downloads[h])

(* A task whose peers are gone for good does not stay: it is replaced by a *)
(* fresh one, unless the user pauses it, looks at its files or is content  *)
(* with what is there (app.go 451-486, download.go 93-135).                *)
StalledIsRestarted ==
    \A h \in Hashes :
        []<>(downloads[h] # Nil /\ dead[h] /\ dl[downloads[h]].info
                => \/ ~dl[downloads[h]].sampled \/ dl[downloads[h]].paused
                   \/ Complete(downloads[h]) \/ fileView.d = downloads[h])
=============================================================================
