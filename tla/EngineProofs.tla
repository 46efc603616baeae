---------------------------- MODULE EngineProofs ----------------------------
(***************************************************************************)
(* Theorems about Engine, for any number of hashes, files, threads and     *)
(* identities.                                                             *)
(***************************************************************************)
EXTENDS Engine, TLAPS

Saving == {"pread", "pwrite", "prename"}

(* What an operation has in its local variables when it needs them.        *)
JobInv ==
    \A p \in Procs :
        /\ pc[p] \in {"snapshot", "drop", "readd", "track"} => job[p].h \in Hashes
        /\ pc[p] \in {"snapshot", "drop", "track"} => job[p].t \in TorrentIds
        /\ pc[p] \in {"snapshot", "pause"} => job[p].d \in DownloadIds
        /\ pc[p] \in Saving \cup {"plock"} /\ job[p].op = "add"
              => job[p].d \in DownloadIds

(* No caller runs outside a session, and restore's list is the file's.     *)
SessionInv ==
    /\ session # "up" => \A p \in Procs : pc[p] = "idle"
    /\ session = "restoring" =>
          \A h \in todo : stateFile # Torn /\ stateFile[h] # Nil

(* A listed Download has a handle.                                         *)
ListInv == \A h \in Listed : dl[downloads[h]].t \in TorrentIds

TypeInv == TypeOK /\ JobInv /\ SessionInv /\ ListInv

(* One thread saves at a time, and what it is about to rename is whole.    *)
SaveInv ==
    /\ \A p \in Procs :
          /\ pc[p] \in Saving => stateMu = p
          /\ pc[p] \in {"pwrite", "prename"} => snap = NoEntry
          /\ pc[p] = "prename" => tmpFile = recs
    /\ stateFile \in FileImages

Inv == TypeInv /\ SaveInv

-----------------------------------------------------------------------------
(* The identities CHOOSE picks exist.                                      *)
LEMMA FreshType == FreeDownloads # {} => Fresh \in DownloadIds
BY DEF Fresh, FreeDownloads

(* The handle an add returns is one of the session's.                      *)
LEMMA HandleType ==
    ASSUME NEW h, OpenTorrents(h) \cup UnusedTorrents # {}
    PROVE  HandleFor(h) \in TorrentIds
BY DEF HandleFor, OpenTorrents, UnusedTorrents

(* The library's operations keep the handles well-typed.                   *)
LEMMA ClientAddType ==
    ASSUME NEW h \in Hashes, NEW known \in BOOLEAN,
           torrent \in [TorrentIds -> TorrentType], ClientAdd(h, known)
    PROVE  /\ torrent' \in [TorrentIds -> TorrentType]
           /\ HandleFor(h) \in TorrentIds
<1> DEFINE H == HandleFor(h)
           r == [hash |-> h, open |-> TRUE, prio |-> torrent[H].prio,
                 info |-> torrent[H].info \/ known]
<1>1. H \in TorrentIds BY HandleType DEF ClientAdd
<1>2. torrent' = [torrent EXCEPT ![H] = r] BY DEF ClientAdd
<1>3. r \in TorrentType BY <1>1 DEF TorrentType
<1> HIDE DEF H, r
<1>4. torrent' \in [TorrentIds -> TorrentType] BY <1>1, <1>2, <1>3
<1> QED BY <1>1, <1>4 DEF H

(* Drop keeps the handles well-typed.                                      *)
LEMMA ClientDropType ==
    ASSUME NEW t, torrent \in [TorrentIds -> TorrentType], ClientDrop(t)
    PROVE  torrent' \in [TorrentIds -> TorrentType]
<1>1. ASSUME t \in TorrentIds
      PROVE  [torrent[t] EXCEPT !.open = FALSE, !.prio = {}] \in TorrentType
      BY <1>1 DEF TorrentType
<1> QED BY <1>1 DEF ClientDrop

(* So does setting file priorities.                                        *)
LEMMA PrioritisedType ==
    ASSUME NEW t, NEW files \in SUBSET Files, torrent \in [TorrentIds -> TorrentType]
    PROVE  Prioritised(t, files) \in [TorrentIds -> TorrentType]
BY DEF Prioritised, TorrentType

(* So does applyLocked.                                                    *)
LEMMA AppliedType ==
    ASSUME NEW d, NEW wanted \in {Nil} \cup SUBSET Files, NEW paused \in BOOLEAN,
           torrent \in [TorrentIds -> TorrentType]
    PROVE  Applied(d, wanted, paused) \in [TorrentIds -> TorrentType]
BY PrioritisedType DEF Applied

(* A writer of the selection keeps Downloads well-typed, and their handles.*)
LEMMA ChooseType ==
    ASSUME NEW d, NEW wanted \in {Nil} \cup SUBSET Files, NEW paused \in BOOLEAN,
           torrent \in [TorrentIds -> TorrentType], dl \in [DownloadIds -> DownloadType],
           Choose(d, wanted, paused)
    PROVE  /\ torrent' \in [TorrentIds -> TorrentType]
           /\ dl' \in [DownloadIds -> DownloadType]
           /\ \A e \in DownloadIds : dl'[e].t = dl[e].t
<1>1. torrent' \in [TorrentIds -> TorrentType] BY AppliedType DEF Choose
<1>2. dl' \in [DownloadIds -> DownloadType] BY DEF Choose, DownloadType
<1>3. \A e \in DownloadIds : dl'[e].t = dl[e].t BY DEF Choose, DownloadType
<1> QED BY <1>1, <1>2, <1>3

(* A record lists file indices.                                            *)
LEMMA SkipType ==
    ASSUME NEW d
    PROVE  SkipOf(d) \in SUBSET Files
BY DEF SkipOf

(* track's new Download is well-typed.                                     *)
LEMMA RegisterType ==
    ASSUME NEW h, NEW t \in TorrentIds \cup {Nil}, NEW skip \in SUBSET Files,
           dl \in [DownloadIds -> DownloadType],
           downloads \in [Hashes -> DownloadIds \cup {Nil}], Register(h, t, skip)
    PROVE  /\ dl' \in [DownloadIds -> DownloadType]
           /\ downloads' \in [Hashes -> DownloadIds \cup {Nil}]
           /\ Fresh \in DownloadIds
<1>1. Fresh \in DownloadIds BY FreshType DEF Register
<1>2. NewDownload(t, skip) \in DownloadType
      BY DEF NewDownload, NoDownload, DownloadType, Stages
<1> QED BY <1>1, <1>2 DEF Register

(* A newly listed Download has the handle it was given.                    *)
LEMMA RegisterList ==
    ASSUME NEW h \in Hashes, NEW t \in TorrentIds, NEW skip \in SUBSET Files,
           dl \in [DownloadIds -> DownloadType],
           downloads \in [Hashes -> DownloadIds \cup {Nil}], ListInv,
           Register(h, t, skip)
    PROVE  ListInv'
<1>1. Fresh \in DownloadIds BY FreshType DEF Register
<1>2. NewDownload(t, skip).t = t BY DEF NewDownload, NoDownload
<1> QED BY <1>1, <1>2 DEF Register, ListInv, Listed

-----------------------------------------------------------------------------
(* Type correctness.                                                       *)

(* The program starts with well-typed variables.                           *)
LEMMA TypeInit == Init => TypeInv
<1> SUFFICES ASSUME Init PROVE TypeInv OBVIOUS
<1>1. NoDownload \in DownloadType BY DEF NoDownload, DownloadType, Stages
<1>2. NoJob \in JobType BY DEF NoJob, JobType
<1>3. NoTorrent \in TorrentType BY DEF NoTorrent, TorrentType
<1>4. TypeOK
      BY <1>1, <1>2, <1>3 DEF Init, ClientInit, NoDownloads, NoJobs, AllIdle,
         NoEntry, TypeOK, Labels, FileImages
<1>5. JobInv /\ SessionInv /\ ListInv
      BY DEF Init, AllIdle, NoJobs, NoJob, NoEntry, JobInv, SessionInv, ListInv,
         Listed, Saving
<1> QED BY <1>4, <1>5 DEF TypeInv

(* Adding, up to the tracking of the torrent.                              *)
LEMMA TypeAdd ==
    ASSUME TypeInv, NEW p \in Procs,
           \/ \E h \in Hashes, paused \in BOOLEAN : AddTorrent(p, h, paused)
           \/ Track(p) \/ AddPause(p)
    PROVE  TypeInv'
<1> USE DEF TypeInv
<1>1. ASSUME NEW h \in Hashes, NEW paused \in BOOLEAN, AddTorrent(p, h, paused)
      PROVE  TypeInv'
  <2>1. /\ torrent' \in [TorrentIds -> TorrentType]
        /\ HandleFor(h) \in TorrentIds
        BY <1>1, ClientAddType DEF AddTorrent, TypeOK
  <2> DEFINE j == [Job("add", h) EXCEPT !.t = HandleFor(h), !.paused = paused]
  <2>2. j \in JobType /\ j.h = h /\ j.t \in TorrentIds
        BY <2>1 DEF Job, NoJob, JobType
  <2>3. /\ job' = [job EXCEPT ![p] = j] /\ pc' = [pc EXCEPT ![p] = "track"]
        /\ session = "up" /\ UNCHANGED <<session, todo, listVars, persistVars>>
        BY <1>1 DEF AddTorrent, Goto, Ready
  <2> HIDE DEF j
  <2>4. TypeOK' BY <2>1, <2>2, <2>3 DEF TypeOK, Labels, listVars, persistVars
  <2>5. JobInv' BY <2>2, <2>3 DEF JobInv, TypeOK, Saving, Labels
  <2>6. SessionInv' /\ ListInv'
        BY <2>3 DEF SessionInv, ListInv, Listed, TypeOK, persistVars, listVars
  <2> QED BY <2>4, <2>5, <2>6
<1>2. CASE Track(p)
  <2> DEFINE h == job[p].h
  <2>1. h \in Hashes /\ job[p] \in JobType /\ job[p].t \in TorrentIds
        BY <1>2 DEF Track, JobInv, TypeOK
  <2>2. /\ dl' \in [DownloadIds -> DownloadType]
        /\ downloads' \in [Hashes -> DownloadIds \cup {Nil}]
        /\ \E d \in DownloadIds : Tracked(p, d)
        /\ ListInv'
    <3>1. CASE Healthy(h) /\ Tracked(p, downloads[h]) /\ UNCHANGED listVars
          BY <3>1, <2>1 DEF Healthy, TypeOK, listVars, ListInv, Listed
    <3>2. CASE Register(h, job[p].t, job[p].skip) /\ Tracked(p, Fresh)
          BY <3>2, <2>1, RegisterType, RegisterList DEF TypeOK, JobType
    <3> QED BY <1>2, <3>1, <3>2 DEF Track
  <2>3. PICK d \in DownloadIds : Tracked(p, d) BY <2>2
  <2> DEFINE j == IF job[p].paused
                  THEN [Job("add", job[p].h) EXCEPT !.d = d, !.paused = TRUE]
                  ELSE NoJob
  <2>4. j \in JobType /\ (j.op = "add" => j.d \in DownloadIds)
        BY <2>1 DEF Job, NoJob, JobType
  <2>5. /\ job' = [job EXCEPT ![p] = j] /\ pc' = [pc EXCEPT ![p] = "plock"]
        /\ session = "up" /\ UNCHANGED <<session, todo, torrent, persistVars>>
        BY <1>2, <2>3 DEF Track, Tracked, Goto, SessionInv
  <2> HIDE DEF j
  <2>6. TypeOK' BY <2>2, <2>4, <2>5 DEF TypeOK, Labels, persistVars
  <2>7. JobInv' BY <2>4, <2>5 DEF JobInv, TypeOK, Saving, Labels
  <2>8. SessionInv' BY <2>5 DEF SessionInv, TypeOK, persistVars
  <2> QED BY <2>2, <2>6, <2>7, <2>8
<1>3. CASE AddPause(p)
  <2>1. job[p].d \in DownloadIds BY <1>3 DEF AddPause, JobInv
  <2>2. dl[job[p].d].wanted \in {Nil} \cup SUBSET Files
        BY <2>1 DEF TypeOK, DownloadType
  <2>3. /\ torrent' \in [TorrentIds -> TorrentType]
        /\ dl' \in [DownloadIds -> DownloadType]
        /\ \A d \in DownloadIds : dl'[d].t = dl[d].t
        BY <1>3, <2>2, ChooseType DEF AddPause, TypeOK
  <2>4. NoJob \in JobType /\ NoJob.op # "add" BY DEF NoJob, JobType
  <2>5. TypeOK' BY <1>3, <2>3, <2>4 DEF AddPause, Goto, TypeOK, Labels, persistVars
  <2>6. JobInv' BY <1>3, <2>4 DEF AddPause, Goto, JobInv, TypeOK, Saving, Labels
  <2>7. SessionInv' BY <1>3 DEF AddPause, Goto, SessionInv, TypeOK, persistVars
  <2>8. ListInv' BY <1>3, <2>3 DEF AddPause, ListInv, Listed, TypeOK
  <2> QED BY <2>5, <2>6, <2>7, <2>8
<1> QED BY <1>1, <1>2, <1>3

(* Saving the list; that the renamed file is whole comes from SaveInv.     *)
LEMMA TypePersist ==
    ASSUME Inv, NEW p \in Procs, PersistLock(p) \/ PersistStep(p)
    PROVE  TypeInv'
<1> USE DEF Inv, TypeInv
<1>1. CASE PersistLock(p)
  <2>1. TypeOK'
        BY <1>1 DEF PersistLock, Goto, TypeOK, Labels, FileImages, NoEntry, listVars
  <2>2. JobInv' BY <1>1 DEF PersistLock, Goto, JobInv, TypeOK, Saving
  <2>3. SessionInv' /\ ListInv'
        BY <1>1 DEF PersistLock, Goto, SessionInv, ListInv, Listed, listVars
  <2> QED BY <2>1, <2>2, <2>3
<1>2. ASSUME NEW h \in Hashes, PersistRead(p, h) PROVE TypeInv'
  <2>1. SkipOf(snap[h]) \in SUBSET Files BY SkipType
  <2>2. TypeOK' BY <1>2, <2>1 DEF PersistRead, TypeOK, FileImages, listVars, opVars
  <2>3. JobInv' /\ SessionInv' /\ ListInv'
        BY <1>2 DEF PersistRead, JobInv, SessionInv, ListInv, Listed, listVars, opVars
  <2> QED BY <2>2, <2>3
<1>3. CASE PersistWrite(p)
  <2>1. TypeOK' BY <1>3 DEF PersistWrite, Goto, TypeOK, Labels, listVars
  <2>2. JobInv' BY <1>3 DEF PersistWrite, Goto, JobInv, TypeOK, Saving, listVars
  <2>3. SessionInv' /\ ListInv'
        BY <1>3 DEF PersistWrite, Goto, SessionInv, ListInv, Listed, listVars
  <2> QED BY <2>1, <2>2, <2>3
<1>4. CASE PersistWritten(p)
  <2>1. TypeOK' BY <1>4 DEF PersistWritten, Goto, TypeOK, Labels, listVars
  <2>2. JobInv' BY <1>4 DEF PersistWritten, Goto, JobInv, TypeOK, Saving, listVars
  <2>3. SessionInv' /\ ListInv'
        BY <1>4 DEF PersistWritten, Goto, SessionInv, ListInv, Listed, listVars
  <2> QED BY <2>1, <2>2, <2>3
<1>5. ASSUME AfterPersist(p), pc[p] \in {"pwrite", "prename"},
             stateFile' \in {Torn} \cup FileImages
      PROVE  TypeInv'
  <2>1. \E l \in {"exit", "pause", "idle"} :
           /\ pc' = [pc EXCEPT ![p] = l]
           /\ l = "pause" => job[p].op = "add"
        BY <1>5 DEF AfterPersist, Goto
  <2>2. PICK l \in {"exit", "pause", "idle"} :
           /\ pc' = [pc EXCEPT ![p] = l]
           /\ l = "pause" => job[p].op = "add"
        BY <2>1
  <2>3. TypeOK'
        BY <1>5, <2>2 DEF AfterPersist, TypeOK, Labels, FileImages, NoEntry, listVars
  <2>4. JobInv' BY <1>5, <2>2 DEF AfterPersist, JobInv, TypeOK, Saving
  <2>5. SessionInv' /\ ListInv'
        BY <1>5, <2>2 DEF AfterPersist, SessionInv, ListInv, Listed, TypeOK, listVars
  <2> QED BY <2>3, <2>4, <2>5
<1>6. CASE PersistRename(p)
  <2>1. stateFile' \in FileImages BY <1>6 DEF PersistRename, SaveInv, TypeOK
  <2> QED BY <1>5, <1>6, <2>1 DEF PersistRename
<1>7. CASE PersistFault(p)
      BY <1>5, <1>7 DEF PersistFault, TypeOK
<1> QED BY <1>1, <1>2, <1>3, <1>4, <1>6, <1>7 DEF PersistStep

(* Removing and restarting.                                                *)
LEMMA TypeManage ==
    ASSUME TypeInv, NEW p \in Procs,
           \/ \E h \in Hashes : RemoveTake(p, h) \/ RestartTake(p, h)
           \/ RestartSnapshot(p) \/ Drop(p) \/ RestartReadd(p) \/ RestartRefused(p)
    PROVE  TypeInv'
<1> USE DEF TypeInv
<1>1. ASSUME NEW h \in Hashes, NEW op \in {"remove", "restart"},
             NEW label \in {"drop", "snapshot"}, Take(p, h, op, label)
      PROVE  TypeInv'
  <2> DEFINE d == downloads[h]
             j == [Job(op, h) EXCEPT !.d = d, !.t = dl[d].t]
  <2>1. d \in DownloadIds /\ dl[d].t \in TorrentIds
        BY <1>1 DEF Take, TypeOK, ListInv, Listed
  <2>2. j \in JobType /\ j.h = h /\ j.d = d /\ j.op = op /\ j.t = dl[d].t
        BY <2>1 DEF Job, NoJob, JobType, TypeOK, DownloadType
  <2>3. /\ job' = [job EXCEPT ![p] = j] /\ pc' = [pc EXCEPT ![p] = label]
        /\ session = "up" /\ UNCHANGED <<session, todo, torrent, dl, persistVars>>
        /\ downloads' = [downloads EXCEPT ![h] = Nil]
        BY <1>1 DEF Take, Goto, Ready
  <2> HIDE DEF j
  <2>4. TypeOK' BY <2>2, <2>3 DEF TypeOK, Labels, persistVars
  <2>5. JobInv' BY <2>1, <2>2, <2>3 DEF JobInv, TypeOK, Saving, Labels
  <2>6. SessionInv' /\ ListInv'
        BY <2>3 DEF SessionInv, ListInv, Listed, TypeOK, persistVars
  <2> QED BY <2>4, <2>5, <2>6
<1>2. CASE RestartSnapshot(p)
  <2> DEFINE old == job[p].d
             known == torrent[job[p].t].info
             skip == IF ~known /\ SkipOf(old) = {} THEN dl[old].skip ELSE SkipOf(old)
             j == [job[p] EXCEPT !.d = Nil, !.info = known, !.skip = skip]
  <2>1. /\ job[p] \in JobType /\ old \in DownloadIds /\ job[p].h \in Hashes
        /\ job[p].t \in TorrentIds
        BY <1>2 DEF RestartSnapshot, TypeOK, JobInv
  <2>2. known \in BOOLEAN BY <2>1 DEF TypeOK, TorrentType
  <2>3. skip \in SUBSET Files BY <2>1, SkipType DEF TypeOK, DownloadType
  <2>4. /\ job' = [job EXCEPT ![p] = j] /\ pc' = [pc EXCEPT ![p] = "drop"]
        /\ pc[p] = "snapshot"
        /\ UNCHANGED <<session, todo, torrent, listVars, persistVars>>
        BY <1>2 DEF RestartSnapshot, Goto
  <2> HIDE DEF known, skip
  <2>5. j \in JobType /\ j.h = job[p].h /\ j.t = job[p].t
        BY <2>1, <2>2, <2>3 DEF JobType
  <2> HIDE DEF j
  <2>6. TypeOK' BY <2>4, <2>5 DEF TypeOK, Labels, persistVars, listVars
  <2>7. JobInv' BY <2>1, <2>4, <2>5 DEF JobInv, TypeOK, Saving, listVars
  <2>8. SessionInv' /\ ListInv'
        BY <2>4 DEF SessionInv, ListInv, Listed, TypeOK, persistVars, listVars
  <2> QED BY <2>6, <2>7, <2>8
<1>3. CASE Drop(p)
  <2>1. torrent' \in [TorrentIds -> TorrentType]
        BY <1>3, ClientDropType DEF Drop, TypeOK
  <2>2. PICK l \in {"readd", "plock"} :
           /\ pc' = [pc EXCEPT ![p] = l]
           /\ job' = IF l = "readd" THEN job ELSE [job EXCEPT ![p] = NoJob]
        BY <1>3 DEF Drop, Goto
  <2>3. NoJob \in JobType /\ NoJob.op # "add" BY DEF NoJob, JobType
  <2>4. TypeOK'
        BY <1>3, <2>1, <2>2, <2>3 DEF Drop, TypeOK, Labels, listVars, persistVars
  <2>5. JobInv' BY <1>3, <2>2, <2>3 DEF Drop, JobInv, TypeOK, Saving
  <2>6. SessionInv' /\ ListInv'
        BY <1>3, <2>2
        DEF Drop, SessionInv, ListInv, Listed, TypeOK, persistVars, listVars
  <2> QED BY <2>4, <2>5, <2>6
<1>4. CASE RestartReadd(p)
  <2> DEFINE h == job[p].h
             j == [job[p] EXCEPT !.t = HandleFor(h), !.info = FALSE]
  <2>1. job[p] \in JobType /\ h \in Hashes
        BY <1>4 DEF RestartReadd, TypeOK, JobInv
  <2>2. job[p].info \in BOOLEAN BY <2>1 DEF JobType
  <2>3. torrent' \in [TorrentIds -> TorrentType] /\ HandleFor(h) \in TorrentIds
        BY <1>4, <2>1, <2>2, ClientAddType DEF RestartReadd, TypeOK
  <2>4. /\ job' = [job EXCEPT ![p] = j] /\ pc' = [pc EXCEPT ![p] = "track"]
        /\ pc[p] = "readd" /\ UNCHANGED <<session, todo, listVars, persistVars>>
        BY <1>4 DEF RestartReadd, Goto
  <2>5. j \in JobType /\ j.h = h /\ j.t \in TorrentIds BY <2>1, <2>3 DEF JobType
  <2> HIDE DEF j
  <2>6. TypeOK' BY <2>3, <2>4, <2>5 DEF TypeOK, Labels, persistVars, listVars
  <2>7. JobInv' BY <2>1, <2>4, <2>5 DEF JobInv, TypeOK, Saving
  <2>8. SessionInv' /\ ListInv'
        BY <2>4 DEF SessionInv, ListInv, Listed, TypeOK, persistVars, listVars
  <2> QED BY <2>6, <2>7, <2>8
<1>5. CASE RestartRefused(p)
  <2>1. NoJob \in JobType /\ NoJob.op # "add" BY DEF NoJob, JobType
  <2>2. TypeOK'
        BY <1>5, <2>1 DEF RestartRefused, Goto, TypeOK, Labels, listVars, persistVars
  <2>3. JobInv' BY <1>5, <2>1 DEF RestartRefused, Goto, JobInv, TypeOK, Saving
  <2>4. SessionInv' /\ ListInv'
        BY <1>5 DEF RestartRefused, Goto, SessionInv, ListInv, Listed, TypeOK,
                    persistVars, listVars
  <2> QED BY <2>2, <2>3, <2>4
<1> QED BY <1>1, <1>2, <1>3, <1>4, <1>5 DEF RemoveTake, RestartTake

(* Selecting files and pausing.                                            *)
LEMMA TypeSelect ==
    ASSUME TypeInv, NEW p \in Procs, NEW d \in DownloadIds, NEW b \in BOOLEAN,
           \/ SetPaused(p, d, b) \/ SetAllWanted(p, d, b)
           \/ \E f \in Files : SetFileWanted(p, d, f, b)
    PROVE  TypeInv'
<1> USE DEF TypeInv
<1>1. dl[d] \in DownloadType BY DEF TypeOK
<1>2. PICK wanted \in {Nil} \cup SUBSET Files, paused \in BOOLEAN :
         /\ Choose(d, wanted, paused)
         /\ UNCHANGED <<session, todo, downloads, opVars, persistVars>>
  <2>1. CASE SetPaused(p, d, b) BY <1>1, <2>1 DEF SetPaused, DownloadType
  <2>2. CASE SetAllWanted(p, d, b) BY <1>1, <2>2 DEF SetAllWanted, DownloadType
  <2>3. ASSUME NEW f \in Files, SetFileWanted(p, d, f, b)
        PROVE  \E wanted \in {Nil} \cup SUBSET Files, paused \in BOOLEAN :
                  /\ Choose(d, wanted, paused)
                  /\ UNCHANGED <<session, todo, downloads, opVars, persistVars>>
    <3> DEFINE w == IF b THEN dl[d].wanted \cup {f} ELSE dl[d].wanted \ {f}
    <3>1. dl[d].wanted \in SUBSET Files
          BY <1>1, <2>3 DEF SetFileWanted, DownloadType
    <3>2. w \in {Nil} \cup SUBSET Files /\ dl[d].paused \in BOOLEAN
          BY <1>1, <2>3, <3>1 DEF DownloadType
    <3>3. Choose(d, w, dl[d].paused) BY <2>3 DEF SetFileWanted
    <3>4. UNCHANGED <<session, todo, downloads, opVars, persistVars>>
          BY <2>3 DEF SetFileWanted
    <3> QED BY <3>2, <3>3, <3>4
  <2> QED BY <2>1, <2>2, <2>3
<1>3. /\ torrent' \in [TorrentIds -> TorrentType]
      /\ dl' \in [DownloadIds -> DownloadType]
      /\ \A e \in DownloadIds : dl'[e].t = dl[e].t
      BY <1>2, ChooseType DEF TypeOK
<1>4. TypeOK' BY <1>2, <1>3 DEF TypeOK, opVars, persistVars
<1>5. JobInv' /\ SessionInv' BY <1>2 DEF JobInv, SessionInv, opVars, persistVars
<1>6. ListInv' BY <1>2, <1>3 DEF ListInv, Listed, TypeOK
<1> QED BY <1>4, <1>5, <1>6

(* awaitMetadata and the arrival of metadata.                              *)
LEMMA TypeAwait ==
    ASSUME TypeInv,
           \/ \E d \in DownloadIds : AwaitStep(d)
           \/ \E t \in TorrentIds : GotInfo(t)
    PROVE  TypeInv'
<1> USE DEF TypeInv
<1>1. ASSUME NEW d \in DownloadIds, AwaitStep(d)
      PROVE  /\ torrent' \in [TorrentIds -> TorrentType]
             /\ dl' \in [DownloadIds -> DownloadType]
             /\ \A e \in DownloadIds : dl'[e].t = dl[e].t
             /\ AwaitFrame
  <2> USE DEF AwaitStep, TypeOK
  <2>1. CASE AwaitInfo(d)
        BY <2>1 DEF AwaitInfo, AwaitFrame, DownloadType, Stages
  <2>2. CASE AwaitSelected(d)
    <3> DEFINE w == Files \ dl[d].skip
    <3>1. dl[d] \in DownloadType /\ w \in SUBSET Files /\ dl[d].paused \in BOOLEAN
          BY DEF DownloadType
    <3>2. torrent' \in [TorrentIds -> TorrentType]
          BY <2>2, <3>1, AppliedType DEF AwaitSelected
    <3> QED BY <2>2, <3>1, <3>2 DEF AwaitSelected, AwaitFrame, DownloadType, Stages
  <2>3. CASE AwaitClosed(d)
        BY <2>3 DEF AwaitClosed, AwaitFrame, DownloadType, Stages
  <2>4. CASE AwaitTimeout(d)
        BY <2>4 DEF AwaitTimeout, AwaitFrame, DownloadType, Stages
  <2>5. CASE AwaitDrop(d)
    <3>1. torrent' \in [TorrentIds -> TorrentType]
          BY <2>5, ClientDropType DEF AwaitDrop
    <3> QED BY <2>5, <3>1 DEF AwaitDrop, AwaitFrame, DownloadType, Stages
  <2> QED BY <1>1, <2>1, <2>2, <2>3, <2>4, <2>5
<1>2. ASSUME NEW d \in DownloadIds, AwaitStep(d) PROVE TypeInv'
  <2>1. TypeOK' BY <1>1, <1>2 DEF TypeOK, AwaitFrame, opVars, persistVars
  <2>2. JobInv' /\ SessionInv'
        BY <1>1, <1>2 DEF JobInv, SessionInv, AwaitFrame, opVars, persistVars
  <2>3. ListInv' BY <1>1, <1>2 DEF ListInv, Listed, TypeOK, AwaitFrame
  <2> QED BY <2>1, <2>2, <2>3
<1>3. ASSUME NEW t \in TorrentIds, GotInfo(t) PROVE TypeInv'
  <2> DEFINE r == [torrent[t] EXCEPT !.info = TRUE]
  <2>0. torrent' = [torrent EXCEPT ![t] = r] BY <1>3 DEF GotInfo, MetadataArrives
  <2>1. torrent' \in [TorrentIds -> TorrentType]
    <3>1. r \in TorrentType BY DEF TypeOK, TorrentType
    <3> QED BY <2>0, <3>1 DEF TypeOK
  <2>2. TypeOK' BY <1>3, <2>1 DEF GotInfo, TypeOK, listVars, opVars, persistVars
  <2>3. JobInv' /\ SessionInv' /\ ListInv'
        BY <1>3 DEF GotInfo, JobInv, SessionInv, ListInv, Listed,
                    listVars, opVars, persistVars
  <2> QED BY <2>2, <2>3
<1> QED BY <1>2, <1>3

(* The beginning and the end of a session.                                 *)
LEMMA TypeSession ==
    ASSUME TypeInv,
           \/ RestoreStep \/ Boot \/ Crash
           \/ \E p \in Procs : Quit(p) \/ Exit(p)
    PROVE  TypeInv'
<1> USE DEF TypeInv
<1>1. CASE Die
  <2>1. NoDownload \in DownloadType BY DEF NoDownload, DownloadType, Stages
  <2>2. NoJob \in JobType BY DEF NoJob, JobType
  <2>3. NoTorrent \in TorrentType BY DEF NoTorrent, TorrentType
  <2>4. TypeOK'
        BY <1>1, <2>1, <2>2, <2>3 DEF Die, NoDownloads, NoJobs, AllIdle, NoEntry,
           TypeOK, Labels, FileImages
  <2>5. JobInv' /\ SessionInv' /\ ListInv'
        BY <1>1 DEF Die, AllIdle, NoJobs, NoJob, NoEntry, JobInv, SessionInv,
           ListInv, Listed, Saving
  <2> QED BY <2>4, <2>5
<1>2. ASSUME NEW p \in Procs, Quit(p) PROVE TypeInv'
  <2> DEFINE j == [NoJob EXCEPT !.op = "quit"]
  <2>1. j \in JobType /\ j.op # "add" BY DEF NoJob, JobType
  <2>2. /\ job' = [job EXCEPT ![p] = j] /\ pc' = [pc EXCEPT ![p] = "plock"]
        /\ session = "up" /\ UNCHANGED <<session, todo, torrent, listVars, persistVars>>
        BY <1>2 DEF Quit, Goto, Ready
  <2> HIDE DEF j
  <2>3. TypeOK' BY <2>1, <2>2 DEF TypeOK, Labels, listVars, persistVars
  <2>4. JobInv' BY <2>1, <2>2 DEF JobInv, TypeOK, Saving, listVars
  <2>5. SessionInv' /\ ListInv'
        BY <2>2 DEF SessionInv, ListInv, Listed, listVars, persistVars
  <2> QED BY <2>3, <2>4, <2>5
<1>3. CASE Boot
  <2>1. TypeOK' BY <1>3 DEF Boot, Saved, TypeOK, listVars, opVars, persistVars
  <2>2. JobInv' /\ SessionInv' /\ ListInv'
        BY <1>3 DEF Boot, Saved, JobInv, SessionInv, ListInv, Listed,
                    listVars, opVars, persistVars
  <2> QED BY <2>1, <2>2
<1>4. ASSUME NEW h \in Hashes, RestoreTask(h) PROVE TypeInv'
  <2>1. stateFile[h] \in SUBSET Files
        BY <1>4 DEF RestoreTask, SessionInv, TypeOK, FileImages
  <2>2. torrent' \in [TorrentIds -> TorrentType] /\ HandleFor(h) \in TorrentIds
        BY <1>4, ClientAddType DEF RestoreTask, TypeOK
  <2>3. /\ dl' \in [DownloadIds -> DownloadType]
        /\ downloads' \in [Hashes -> DownloadIds \cup {Nil}]
        /\ ListInv'
        BY <1>4, <2>1, <2>2, RegisterType, RegisterList DEF RestoreTask, TypeOK
  <2>4. TypeOK' BY <1>4, <2>2, <2>3 DEF RestoreTask, TypeOK, opVars, persistVars
  <2>5. JobInv' /\ SessionInv'
        BY <1>4 DEF RestoreTask, JobInv, SessionInv, opVars, persistVars
  <2> QED BY <2>3, <2>4, <2>5
<1>5. CASE RestoreDone
  <2>1. TypeOK' BY <1>5 DEF RestoreDone, TypeOK, listVars, opVars, persistVars
  <2>2. JobInv' /\ SessionInv' /\ ListInv'
        BY <1>5 DEF RestoreDone, JobInv, SessionInv, ListInv, Listed,
                    listVars, opVars, persistVars
  <2> QED BY <2>1, <2>2
<1>6. ASSUME NEW h \in Hashes, RestoreRefused(h) PROVE TypeInv'
  <2>1. TypeOK' BY <1>6 DEF RestoreRefused, TypeOK, listVars, opVars, persistVars
  <2>2. JobInv' /\ SessionInv' /\ ListInv'
        BY <1>6 DEF RestoreRefused, JobInv, SessionInv, ListInv, Listed,
                    listVars, opVars, persistVars
  <2> QED BY <2>1, <2>2
<1> QED BY <1>1, <1>2, <1>3, <1>4, <1>5, <1>6 DEF RestoreStep, Crash, Exit
-----------------------------------------------------------------------------
(* Saves exclude each other, and only whole files are renamed.             *)
LEMMA SaveInit == Init => SaveInv
BY DEF Init, AllIdle, SaveInv, Saving

(* No other step touches what the thread that saves holds.                 *)
LEMMA SaveKept ==
    ASSUME Inv, UNCHANGED persistVars,
           \A p \in Procs : pc'[p] \in Saving => pc'[p] = pc[p]
    PROVE  SaveInv'
BY DEF Inv, SaveInv, Saving, persistVars

(* Every step keeps SaveInv.                                               *)
LEMMA SaveStep ==
    ASSUME Inv, Next
    PROVE  SaveInv'
<1> USE DEF Inv, TypeInv
<1>1. ASSUME NEW p \in Procs, PersistLock(p) PROVE SaveInv'
      BY <1>1, NilAssumption DEF PersistLock, Goto, SaveInv, TypeOK, Saving
<1>2. ASSUME NEW p \in Procs, NEW h \in Hashes, PersistRead(p, h) PROVE SaveInv'
      BY <1>2 DEF PersistRead, SaveInv, TypeOK, Saving, opVars
<1>3. ASSUME NEW p \in Procs, PersistWrite(p) PROVE SaveInv'
      BY <1>3 DEF PersistWrite, Goto, SaveInv, TypeOK, Saving
<1>4. ASSUME NEW p \in Procs, PersistWritten(p) PROVE SaveInv'
      BY <1>4 DEF PersistWritten, Goto, SaveInv, TypeOK, Saving
<1>5. ASSUME NEW p \in Procs, AfterPersist(p), pc[p] \in Saving,
             stateFile' \in FileImages
      PROVE  SaveInv'
  <2>1. PICK l \in {"exit", "pause", "idle"} : pc' = [pc EXCEPT ![p] = l]
        BY <1>5 DEF AfterPersist, Goto
  <2>2. \A q \in Procs : pc'[q] \notin Saving
        BY <1>5, <2>1, NilAssumption DEF SaveInv, TypeOK, Saving
  <2> QED BY <1>5, <2>2 DEF SaveInv, Saving
<1>6. ASSUME NEW p \in Procs, PersistRename(p) \/ PersistFault(p) PROVE SaveInv'
  <2>1. stateFile' \in FileImages /\ AfterPersist(p) /\ pc[p] \in Saving
        BY <1>6 DEF PersistRename, PersistFault, SaveInv, TypeOK, Saving
  <2> QED BY <1>5, <2>1
<1>7. ASSUME NEW p \in Procs,
             \/ UserStep(p) \/ Track(p) \/ AddPause(p) \/ RestartSnapshot(p)
             \/ Drop(p) \/ RestartReadd(p) \/ RestartRefused(p)
      PROVE  SaveInv'
  <2>1. /\ UNCHANGED persistVars
        /\ \A q \in Procs : pc'[q] \in Saving => pc'[q] = pc[q]
        BY <1>7 DEF UserStep, AddTorrent, RemoveTake, RestartTake, Take, SetPaused,
           SetAllWanted, SetFileWanted, Quit, Track, AddPause, RestartSnapshot, Drop,
           RestartReadd, RestartRefused, Goto, opVars, TypeOK, Saving
  <2> QED BY <2>1, SaveKept
<1>8. CASE Die BY <1>8 DEF Die, AllIdle, SaveInv, Saving
<1>9. CASE \/ \E d \in DownloadIds : AwaitStep(d)
           \/ \E t \in TorrentIds : GotInfo(t)
           \/ RestoreStep \/ Boot
  <2>1. UNCHANGED <<opVars, persistVars>>
        BY <1>9 DEF AwaitStep, AwaitInfo, AwaitSelected, AwaitClosed, AwaitTimeout,
           AwaitDrop, AwaitFrame, GotInfo, RestoreStep, RestoreDone, RestoreTask, RestoreRefused, Boot
  <2> QED BY <2>1, SaveKept DEF opVars
<1> QED
    BY <1>1, <1>2, <1>3, <1>4, <1>6, <1>7, <1>8, <1>9
    DEF Next, CallStep, PersistStep, Exit, Crash

(* The inductive invariant.                                                *)
LEMMA InvStep == Inv /\ [Next]_vars => Inv'
<1>1. ASSUME Inv, Next PROVE TypeInv'
  <2>1. ASSUME NEW p \in Procs, UserStep(p) PROVE TypeInv'
        BY <1>1, <2>1, TypeAdd, TypeManage, TypeSelect, TypeSession DEF UserStep, Inv
  <2>2. ASSUME NEW p \in Procs, CallStep(p) \/ PersistLock(p) PROVE TypeInv'
        BY <1>1, <2>2, TypeAdd, TypeManage, TypePersist, TypeSession DEF CallStep, Inv
  <2> QED BY <1>1, <2>1, <2>2, TypeAwait, TypeSession DEF Next, Inv
<1>2. ASSUME Inv, UNCHANGED vars PROVE Inv'
      BY <1>2 DEF Inv, TypeInv, TypeOK, JobInv, SessionInv, ListInv, Listed, SaveInv,
         vars, listVars, opVars, persistVars
<1> QED BY <1>1, <1>2, SaveStep DEF Inv

(* Inv holds in every reachable state.                                     *)
LEMMA Invariance == Spec => []Inv
<1>1. Init => Inv BY TypeInit, SaveInit DEF Inv
<1> QED BY <1>1, InvStep, PTL DEF Spec

(* Type correctness of the engine.                                         *)
THEOREM TypeCorrect == Spec => []TypeOK
<1>1. Inv => TypeOK BY DEF Inv, TypeInv
<1> QED BY <1>1, Invariance, PTL

(* The state file is never half-written, whatever the number of threads    *)
(* saving, and wherever crashes and disk errors strike.                    *)
THEOREM StateFileWhole == Spec => []StateFileNeverTorn
<1>1. Inv => StateFileNeverTorn
      BY TornAssumption DEF Inv, SaveInv, StateFileNeverTorn
<1> QED BY <1>1, Invariance, PTL
-----------------------------------------------------------------------------
(* Downloads, and the handles they share.  A handle that was created keeps *)
(* its hash and, once closed, stays closed; so a Download's own state says *)
(* what its handle may do.                                                 *)

Aged ==
    \A t \in TorrentIds : torrent[t].hash # Nil =>
        /\ torrent'[t].hash = torrent[t].hash
        /\ torrent[t].info => torrent'[t].info
        /\ torrent'[t].open => torrent[t].open

(* Where awaitMetadata is tells whether d failed, was selected, and what   *)
(* became of its handle.                                                   *)
Consistent(d) ==
    /\ dl[d].stage # "free" =>
          dl[d].t \in TorrentIds /\ torrent[dl[d].t].hash \in Hashes
    /\ dl[d].stage \in {"free", "waiting", "recovering"} =>
          ~dl[d].err /\ dl[d].wanted = Nil
    /\ dl[d].stage = "recovering" \/ dl[d].wanted # Nil => torrent[dl[d].t].info
    /\ dl[d].stage = "dropping" => dl[d].err
    /\ dl[d].err => dl[d].wanted = Nil /\ (dl[d].stage = "done" => ~torrent[dl[d].t].open)

DownloadsInv == \A d \in DownloadIds : Consistent(d)

(* What is listed under a hash, and what an operation holds, is of it.     *)
ListedInv ==
    \A h \in Listed : /\ dl[downloads[h]].stage # "free"
                      /\ torrent[dl[downloads[h]].t].hash = h
HandleInv ==
    \A p \in Procs : pc[p] \in {"snapshot", "drop", "track"} =>
                         torrent[job[p].t].hash = job[p].h

(* A session starts from nothing and restores each record once, but for    *)
(* what it could not read and what was refused.                            *)
RestoreInv ==
    /\ session = "down" => Listed = {}
    /\ session = "restoring" =>
          /\ Listed \cap todo = {}
          /\ \/ Listed \cup todo = Saved
             \/ "read" \in Faults /\ Listed \cup todo = {}
             \/ "readd" \in Faults /\ Listed \cup todo \subseteq Saved

(* Which operation is at which place; only managers remove, restart, quit. *)
OpAt(p, l, j) ==
    /\ j.op = "restart" => p \in Managers /\ l \in {"snapshot", "drop", "readd", "track"}
    /\ l \in {"snapshot", "readd"} => j.op = "restart"
    /\ l = "drop" => j.op \in {"remove", "restart"} /\ p \in Managers
    /\ j.op = "quit" => p \in Managers /\ l \in Saving \cup {"plock", "exit"}
    /\ l = "exit" => j.op = "quit"

OpInv == \A p \in Procs : OpAt(p, pc[p], job[p])

TaskInv == Inv /\ DownloadsInv /\ ListedInv /\ HandleInv /\ OpInv /\ RestoreInv

(* Adding returns a handle that was open for the hash, or never used.      *)
LEMMA HandleReused ==
    ASSUME NEW h \in Hashes, NEW known \in BOOLEAN,
           torrent \in [TorrentIds -> TorrentType], ClientAdd(h, known)
    PROVE  /\ HandleFor(h) \in TorrentIds
           /\ \/ torrent[HandleFor(h)].hash = h /\ torrent[HandleFor(h)].open
              \/ torrent[HandleFor(h)].hash = Nil
           /\ torrent'[HandleFor(h)].hash = h
           /\ torrent'[HandleFor(h)].open
           /\ torrent'[HandleFor(h)].prio = torrent[HandleFor(h)].prio
           /\ torrent[HandleFor(h)].info => torrent'[HandleFor(h)].info
           /\ \A t \in TorrentIds : t # HandleFor(h) => torrent'[t] = torrent[t]
<1> DEFINE H == HandleFor(h)
           S == IF OpenTorrents(h) # {} THEN OpenTorrents(h) ELSE UnusedTorrents
<1>1. S # {} /\ S \subseteq TorrentIds
      BY DEF ClientAdd, OpenTorrents, UnusedTorrents
<1>2. H \in S
  <2> HIDE DEF S
  <2>1. H = CHOOSE t \in TorrentIds : t \in S BY DEF HandleFor, S
  <2> QED BY <1>1, <2>1
<1>3. H \in TorrentIds BY <1>1, <1>2
<1>4. (torrent[H].hash = h /\ torrent[H].open) \/ torrent[H].hash = Nil
      BY <1>2 DEF OpenTorrents, UnusedTorrents
<1>5. torrent' = [torrent EXCEPT ![H] =
                    [hash |-> h, open |-> TRUE, prio |-> torrent[H].prio,
                     info |-> torrent[H].info \/ known]]
      BY DEF ClientAdd
<1> HIDE DEF H
<1>6. /\ torrent'[H].hash = h /\ torrent'[H].open
      /\ torrent'[H].prio = torrent[H].prio
      /\ torrent[H].info => torrent'[H].info
      /\ \A t \in TorrentIds : t # H => torrent'[t] = torrent[t]
      BY <1>3, <1>5
<1> QED BY <1>3, <1>4, <1>6 DEF H

(* Each of the library's operations only ages the handles.                 *)
LEMMA AddAges ==
    ASSUME NEW h \in Hashes, NEW known \in BOOLEAN,
           torrent \in [TorrentIds -> TorrentType], ClientAdd(h, known)
    PROVE  Aged
BY HandleReused, NilAssumption DEF Aged

(* Dropping closes the handle, and ages it.                                *)
LEMMA DropAges ==
    ASSUME NEW t, torrent \in [TorrentIds -> TorrentType], ClientDrop(t)
    PROVE  Aged /\ (t \in TorrentIds => ~torrent'[t].open)
BY DEF Aged, ClientDrop, TorrentType

(* Priorities have nothing to do with a handle's age.                      *)
LEMMA AppliedAges ==
    ASSUME NEW d, NEW wanted, NEW paused,
           torrent \in [TorrentIds -> TorrentType], torrent' = Applied(d, wanted, paused)
    PROVE  Aged
BY DEF Aged, Applied, Prioritised, TorrentType

(* What a step leaves of it: Downloads it does not touch,                  *)
LEMMA ConsistentKept ==
    ASSUME Aged, NEW d \in DownloadIds, Consistent(d), dl'[d] = dl[d]
    PROVE  Consistent(d)'
<1>1. dl[d].stage # "free" => torrent[dl[d].t].hash # Nil BY NilAssumption DEF Consistent
<1>2. dl[d].wanted # Nil \/ dl[d].err \/ dl[d].stage = "recovering"
         => dl[d].stage # "free"
      BY DEF Consistent
<1> QED BY <1>1, <1>2 DEF Consistent, Aged

(* the list, when it only loses entries,                                   *)
LEMMA ListedKept ==
    ASSUME TaskInv, Aged,
           \A h \in Hashes : downloads'[h] \in {downloads[h], Nil},
           \A d \in DownloadIds : /\ dl'[d].t = dl[d].t
                                  /\ dl[d].stage # "free" => dl'[d].stage # "free"
    PROVE  ListedInv'
<1> SUFFICES ASSUME NEW h \in Hashes, downloads'[h] # Nil
             PROVE  /\ dl'[downloads'[h]].stage # "free"
                    /\ torrent'[dl'[downloads'[h]].t].hash = h
    BY DEF ListedInv, Listed
<1>1. downloads'[h] = downloads[h] /\ h \in Listed BY DEF Listed
<1>2. downloads[h] \in DownloadIds BY <1>1 DEF TaskInv, Inv, TypeInv, TypeOK, Listed
<1>3. dl[downloads[h]].t \in TorrentIds BY <1>1 DEF TaskInv, Inv, TypeInv, ListInv
<1>4. /\ dl[downloads[h]].stage # "free"
      /\ torrent[dl[downloads[h]].t].hash = h /\ h # Nil
      BY <1>1, NilAssumption DEF TaskInv, ListedInv
<1> QED BY <1>1, <1>2, <1>3, <1>4 DEF Aged

(* and the handles operations hold, when one thread moves on.              *)
LEMMA HandleKept ==
    ASSUME TaskInv, Aged, NEW p \in Procs, NEW l, NEW j,
           pc' = [pc EXCEPT ![p] = l], job' = [job EXCEPT ![p] = j],
           l \in {"snapshot", "drop", "track"} => torrent'[j.t].hash = j.h
    PROVE  HandleInv'
<1> SUFFICES ASSUME NEW q \in Procs, pc'[q] \in {"snapshot", "drop", "track"}
             PROVE  torrent'[job'[q].t].hash = job'[q].h
    BY DEF HandleInv
<1>1. CASE q = p BY <1>1 DEF TaskInv, Inv, TypeInv, TypeOK
<1>2. CASE q # p
  <2>1. pc[q] \in {"snapshot", "drop", "track"} /\ job'[q] = job[q]
        BY <1>2 DEF TaskInv, Inv, TypeInv, TypeOK
  <2>2. /\ job[q].t \in TorrentIds
        /\ torrent[job[q].t].hash = job[q].h /\ job[q].h # Nil
        BY <2>1, NilAssumption DEF TaskInv, Inv, TypeInv, JobInv, HandleInv
  <2> QED BY <2>1, <2>2 DEF Aged
<1> QED BY <1>1, <1>2

(* No operation, no change of a handle either.                             *)
LEMMA HandleSame ==
    ASSUME TaskInv, Aged, UNCHANGED opVars
    PROVE  HandleInv'
<1> SUFFICES ASSUME NEW q \in Procs, pc[q] \in {"snapshot", "drop", "track"}
             PROVE  torrent'[job[q].t].hash = job[q].h
    BY DEF HandleInv, opVars
<1>1. /\ job[q].t \in TorrentIds
      /\ torrent[job[q].t].hash = job[q].h /\ job[q].h # Nil
      BY NilAssumption DEF TaskInv, Inv, TypeInv, JobInv, HandleInv
<1> QED BY <1>1 DEF Aged

(* Tracking a handle of h lists a consistent, new Download under h only.   *)
LEMMA RegisterTask ==
    ASSUME TaskInv, Aged, NEW h \in Hashes, NEW t \in TorrentIds, NEW skip,
           Register(h, t, skip), torrent'[t].hash = h
    PROVE  /\ DownloadsInv' /\ ListedInv'
           /\ Fresh \in DownloadIds /\ dl[Fresh].stage = "free"
           /\ \A k \in Hashes : downloads[k] # Fresh
<1>1. Fresh \in DownloadIds /\ dl[Fresh].stage = "free"
  <2>1. \E d \in DownloadIds : d \in FreeDownloads BY DEF Register, FreeDownloads
  <2> QED BY <2>1 DEF Fresh, FreeDownloads
<1>2. /\ dl' = [dl EXCEPT ![Fresh] = NewDownload(t, skip)]
      /\ downloads' = [downloads EXCEPT ![h] = Fresh]
      BY DEF Register
<1> DEFINE n == NewDownload(t, skip)
<1>3. n.t = t /\ n.stage = "waiting" /\ ~n.err /\ n.wanted = Nil
      BY DEF NewDownload, NoDownload
<1> HIDE DEF n
<1>4. \A k \in Hashes : downloads[k] # Fresh
      BY <1>1, NilAssumption DEF TaskInv, ListedInv, Listed
<1>5. dl'[Fresh] = n /\ \A d \in DownloadIds : d # Fresh => dl'[d] = dl[d]
      BY <1>1, <1>2 DEF TaskInv, Inv, TypeInv, TypeOK, n
<1>6. ASSUME NEW d \in DownloadIds, d # Fresh PROVE Consistent(d)'
      BY <1>5, <1>6, ConsistentKept DEF TaskInv, DownloadsInv
<1>7. DownloadsInv'
  <2>1. ASSUME NEW d \in DownloadIds PROVE Consistent(d)'
    <3>1. CASE d = Fresh BY <3>1, <1>3, <1>5 DEF Consistent
    <3> QED BY <1>6, <3>1
  <2> QED BY <2>1 DEF DownloadsInv
<1>8. ASSUME NEW k \in Hashes, downloads'[k] # Nil
      PROVE  /\ dl'[downloads'[k]].stage # "free"
             /\ torrent'[dl'[downloads'[k]].t].hash = k
  <2>1. CASE k = h
    <3>1. downloads'[k] = Fresh BY <1>2, <2>1 DEF TaskInv, Inv, TypeInv, TypeOK
    <3> QED BY <3>1, <2>1, <1>3, <1>5
  <2>2. CASE k # h
    <3>1. downloads'[k] = downloads[k] /\ k \in Listed
          BY <1>2, <1>8, <2>2 DEF TaskInv, Inv, TypeInv, TypeOK, Listed
    <3>2. downloads[k] \in DownloadIds /\ downloads[k] # Fresh
          BY <3>1, <1>4 DEF TaskInv, Inv, TypeInv, TypeOK, Listed
    <3>3. /\ dl[downloads[k]].t \in TorrentIds /\ dl[downloads[k]].stage # "free"
          /\ torrent[dl[downloads[k]].t].hash = k /\ k # Nil
          BY <3>1, NilAssumption DEF TaskInv, Inv, TypeInv, ListInv, ListedInv
    <3> QED BY <3>1, <3>2, <3>3, <1>5 DEF Aged
  <2> QED BY <2>1, <2>2
<1> QED BY <1>1, <1>4, <1>7, <1>8 DEF ListedInv, Listed

(* Writing the selection and the pause changes no stage.                   *)
LEMMA ChooseTask ==
    ASSUME TaskInv, NEW d \in DownloadIds, NEW wanted, NEW paused,
           wanted = Nil <=> dl[d].wanted = Nil,
           Choose(d, wanted, paused), UNCHANGED downloads
    PROVE  Aged /\ DownloadsInv' /\ ListedInv'
<1>1. Aged BY AppliedAges DEF Choose, TaskInv, Inv, TypeInv, TypeOK
<1>2. \A e \in DownloadIds :
         /\ dl'[e].t = dl[e].t /\ dl'[e].stage = dl[e].stage
         /\ dl'[e].err = dl[e].err
         /\ dl'[e].wanted = Nil <=> dl[e].wanted = Nil
      BY DEF Choose, TaskInv, Inv, TypeInv, TypeOK, DownloadType
<1>3. ASSUME NEW e \in DownloadIds PROVE Consistent(e)'
  <2>1. Consistent(e) BY DEF TaskInv, DownloadsInv
  <2>2. dl[e].stage # "free" => torrent[dl[e].t].hash # Nil
        BY <2>1, NilAssumption DEF Consistent
  <2>3. dl[e].wanted # Nil \/ dl[e].err \/ dl[e].stage = "recovering"
           => dl[e].stage # "free"
        BY <2>1 DEF Consistent
  <2> QED BY <1>1, <1>2, <2>1, <2>2, <2>3 DEF Consistent, Aged
<1>4. ListedInv' BY <1>1, <1>2, ListedKept
<1> QED BY <1>1, <1>3, <1>4 DEF DownloadsInv

(* Every step of awaitMetadata leaves its Download consistent.             *)
LEMMA AwaitTask ==
    ASSUME TaskInv, NEW d \in DownloadIds, AwaitStep(d)
    PROVE  Aged /\ DownloadsInv' /\ ListedInv' /\ AwaitFrame
<1> USE DEF TaskInv, Inv, TypeInv
<1>1. /\ torrent \in [TorrentIds -> TorrentType] /\ dl \in [DownloadIds -> DownloadType]
      /\ dl[d] \in DownloadType
      BY DEF TypeOK
<1>2. Consistent(d) BY DEF DownloadsInv
<1>3. Aged /\ AwaitFrame
  <2>1. UNCHANGED torrent => Aged BY DEF Aged
  <2>2. CASE AwaitSelected(d) BY <2>2, <1>1, AppliedAges DEF AwaitSelected
  <2>3. CASE AwaitDrop(d) BY <2>3, <1>1, DropAges DEF AwaitDrop
  <2> QED BY <2>1, <2>2, <2>3 DEF AwaitStep, AwaitInfo, AwaitClosed, AwaitTimeout
<1>4. /\ \A e \in DownloadIds : e # d => dl'[e] = dl[e]
      /\ dl'[d].t = dl[d].t /\ dl[d].stage # "free" /\ dl'[d].stage # "free"
  <2> USE <1>1 DEF At, DownloadType
  <2>1. CASE AwaitInfo(d) BY <2>1 DEF AwaitInfo
  <2>2. CASE AwaitSelected(d) BY <2>2 DEF AwaitSelected
  <2>3. CASE AwaitClosed(d) BY <2>3 DEF AwaitClosed
  <2>4. CASE AwaitTimeout(d) BY <2>4 DEF AwaitTimeout
  <2>5. CASE AwaitDrop(d) BY <2>5 DEF AwaitDrop
  <2> QED BY <2>1, <2>2, <2>3, <2>4, <2>5 DEF AwaitStep
<1>5. dl[d].t \in TorrentIds /\ torrent[dl[d].t].hash # Nil
      BY <1>2, <1>4, NilAssumption DEF Consistent
<1>6. /\ torrent'[dl[d].t].hash = torrent[dl[d].t].hash
      /\ torrent[dl[d].t].info => torrent'[dl[d].t].info
      /\ torrent'[dl[d].t].open => torrent[dl[d].t].open
      BY <1>3, <1>5 DEF Aged
<1>7. Consistent(d)'
  <2> USE DEF Consistent
  <2>1. CASE AwaitInfo(d)
        BY <2>1, <1>1, <1>2, <1>5, <1>6 DEF AwaitInfo, At, DownloadType
  <2>2. CASE AwaitSelected(d)
    <3>1. /\ dl'[d].wanted = Files \ dl[d].skip /\ dl'[d].wanted # Nil
          /\ dl'[d].stage = "done" /\ dl'[d].err = dl[d].err
          /\ dl[d].stage = "recovering"
          BY <2>2, <1>1, NilAssumption DEF AwaitSelected, At, DownloadType
    <3> QED BY <3>1, <1>2, <1>4, <1>5, <1>6
  <2>3. CASE AwaitClosed(d)
        BY <2>3, <1>1, <1>2, <1>5, <1>6 DEF AwaitClosed, At, DownloadType
  <2>4. CASE AwaitTimeout(d)
        BY <2>4, <1>1, <1>2, <1>5, <1>6 DEF AwaitTimeout, At, DownloadType
  <2>5. CASE AwaitDrop(d)
    <3>1. /\ dl'[d].stage = "done" /\ dl'[d].err = dl[d].err
          /\ dl'[d].wanted = dl[d].wanted /\ dl[d].stage = "dropping"
          BY <2>5, <1>1 DEF AwaitDrop, At, DownloadType
    <3>2. ~torrent'[dl[d].t].open BY <2>5, <1>1, <1>5, DropAges DEF AwaitDrop
    <3> QED BY <3>1, <3>2, <1>2, <1>4, <1>5, <1>6
  <2> QED BY <2>1, <2>2, <2>3, <2>4, <2>5 DEF AwaitStep
<1>8. DownloadsInv'
  <2>1. ASSUME NEW e \in DownloadIds, e # d PROVE Consistent(e)'
        BY <2>1, <1>3, <1>4, ConsistentKept DEF DownloadsInv
  <2> QED BY <2>1, <1>7 DEF DownloadsInv
<1>9. ListedInv'
  <2>1. \A e \in DownloadIds : /\ dl'[e].t = dl[e].t
                               /\ dl[e].stage # "free" => dl'[e].stage # "free"
        BY <1>4
  <2>2. UNCHANGED downloads BY <1>3 DEF AwaitFrame
  <2> QED BY <2>1, <2>2, <1>3, ListedKept
<1> QED BY <1>3, <1>8, <1>9

(* Steps of a session that is up: there is nothing to restore.             *)
LEMMA RestoreOver == ASSUME session' = "up" PROVE RestoreInv'
BY DEF RestoreInv

(* The managing thread's calls each write the selection, and neither make  *)
(* nor lose one.                                                           *)
LEMMA ManagedChoice ==
    ASSUME TypeInv, NEW p \in Procs, NEW d \in DownloadIds, NEW b \in BOOLEAN,
           \/ SetPaused(p, d, b) \/ SetAllWanted(p, d, b)
           \/ \E f \in Files : SetFileWanted(p, d, f, b)
    PROVE  \E wanted, paused :
              /\ wanted = Nil <=> dl[d].wanted = Nil
              /\ Choose(d, wanted, paused)
              /\ UNCHANGED <<session, downloads, opVars, persistVars>>
<1>1. dl[d].wanted \in {Nil} \cup SUBSET Files BY DEF TypeInv, TypeOK, DownloadType
<1>2. CASE SetPaused(p, d, b) BY <1>2 DEF SetPaused
<1>3. CASE SetAllWanted(p, d, b)
  <2>1. (IF b THEN Files ELSE {}) # Nil BY NilAssumption
  <2> QED BY <1>3, <2>1 DEF SetAllWanted
<1>4. ASSUME NEW f \in Files, SetFileWanted(p, d, f, b)
      PROVE  \E wanted, paused :
                /\ wanted = Nil <=> dl[d].wanted = Nil
                /\ Choose(d, wanted, paused)
                /\ UNCHANGED <<session, downloads, opVars, persistVars>>
  <2> DEFINE w == IF b THEN dl[d].wanted \cup {f} ELSE dl[d].wanted \ {f}
  <2>1. dl[d].wanted \in SUBSET Files BY <1>1, <1>4 DEF SetFileWanted
  <2>2. w \in SUBSET Files BY <2>1
  <2>3. w # Nil BY <2>2, NilAssumption
  <2> QED BY <1>4, <2>3 DEF SetFileWanted
<1> QED BY <1>2, <1>3, <1>4

(* One thread moves on.                                                    *)
LEMMA OpKept ==
    ASSUME TypeInv, OpInv, NEW p \in Procs, NEW l, NEW j,
           pc' = [pc EXCEPT ![p] = l], job' = [job EXCEPT ![p] = j], OpAt(p, l, j)
    PROVE  OpInv'
<1> SUFFICES ASSUME NEW q \in Procs PROVE OpAt(q, pc'[q], job'[q])
    BY DEF OpInv, OpAt
<1>1. CASE q = p
  <2>1. pc'[q] = l /\ job'[q] = j BY <1>1 DEF TypeInv, TypeOK
  <2> QED BY <1>1, <2>1
<1>2. CASE q # p
  <2>1. pc'[q] = pc[q] /\ job'[q] = job[q] BY <1>2 DEF TypeInv, TypeOK
  <2> QED BY <2>1 DEF OpInv
<1> QED BY <1>1, <1>2

(* Each step of a caller leads from one place of its operation to the next.*)
LEMMA OpCall ==
    ASSUME TypeInv, OpInv, NEW p \in Procs,
           UserStep(p) \/ PersistLock(p) \/ CallStep(p), ~Exit(p)
    PROVE  OpInv'
<1> USE DEF TypeInv
<1>0. /\ job[p] \in JobType /\ pc[p] \in Labels /\ OpAt(p, pc[p], job[p])
      /\ job = [job EXCEPT ![p] = job[p]] /\ pc = [pc EXCEPT ![p] = pc[p]]
      BY DEF TypeOK, OpInv
<1>1. ASSUME NEW h \in Hashes, NEW paused \in BOOLEAN, AddTorrent(p, h, paused)
      PROVE  OpInv'
  <2> DEFINE j == [Job("add", h) EXCEPT !.t = HandleFor(h), !.paused = paused]
  <2>1. j.op = "add" BY DEF Job, NoJob
  <2>2. job' = [job EXCEPT ![p] = j] /\ pc' = [pc EXCEPT ![p] = "track"]
        BY <1>1 DEF AddTorrent, Goto
  <2> HIDE DEF j
  <2>3. OpAt(p, "track", j) BY <2>1 DEF OpAt
  <2> QED BY <2>2, <2>3, OpKept
<1>2. ASSUME NEW h \in Hashes, RemoveTake(p, h) \/ RestartTake(p, h)
      PROVE  OpInv'
  <2>1. PICK op, label : /\ Take(p, h, op, label)
                         /\ \/ op = "remove" /\ label = "drop"
                            \/ op = "restart" /\ label = "snapshot"
        BY <1>2 DEF RemoveTake, RestartTake
  <2> DEFINE j == [Job(op, h) EXCEPT !.d = downloads[h], !.t = dl[downloads[h]].t]
  <2>2. j.op = op BY DEF Job, NoJob
  <2>3. /\ job' = [job EXCEPT ![p] = j] /\ pc' = [pc EXCEPT ![p] = label]
        /\ p \in Managers
        BY <2>1 DEF Take, Goto
  <2> HIDE DEF j
  <2>4. OpAt(p, label, j) BY <2>1, <2>2, <2>3 DEF OpAt
  <2> QED BY <2>3, <2>4, OpKept
<1>3. CASE Quit(p)
  <2> DEFINE j == [NoJob EXCEPT !.op = "quit"]
  <2>1. j.op = "quit" BY DEF NoJob
  <2>2. /\ job' = [job EXCEPT ![p] = j] /\ pc' = [pc EXCEPT ![p] = "plock"]
        /\ p \in Managers
        BY <1>3 DEF Quit, Goto
  <2> HIDE DEF j
  <2>3. OpAt(p, "plock", j) BY <2>1, <2>2 DEF OpAt
  <2> QED BY <2>2, <2>3, OpKept
<1>4. ASSUME NEW d \in DownloadIds, NEW b \in BOOLEAN,
             \/ SetPaused(p, d, b) \/ SetAllWanted(p, d, b)
             \/ \E f \in Files : SetFileWanted(p, d, f, b)
      PROVE  OpInv'
      BY <1>4 DEF SetPaused, SetAllWanted, SetFileWanted, opVars, OpInv
<1>5. CASE Track(p)
  <2>1. PICK d : Tracked(p, d) BY <1>5 DEF Track
  <2>2. [Job("add", job[p].h) EXCEPT !.d = d, !.paused = TRUE].op = "add"
        /\ NoJob.op = "none"
        BY DEF Job, NoJob
  <2>3. PICK j : job' = [job EXCEPT ![p] = j] /\ j.op \in {"add", "none"}
        BY <2>1, <2>2 DEF Tracked
  <2>4. pc' = [pc EXCEPT ![p] = "plock"] BY <1>5 DEF Track, Goto
  <2>5. OpAt(p, "plock", j) BY <2>3 DEF OpAt
  <2> QED BY <2>3, <2>4, <2>5, OpKept
<1>6. CASE AddPause(p) \/ RestartRefused(p)
  <2>1. PICK l \in {"idle", "plock"} : /\ job' = [job EXCEPT ![p] = NoJob]
                                       /\ pc' = [pc EXCEPT ![p] = l]
        BY <1>6 DEF AddPause, RestartRefused, Goto
  <2>2. NoJob.op = "none" BY DEF NoJob
  <2>3. OpAt(p, l, NoJob) BY <2>1, <2>2 DEF OpAt
  <2> QED BY <2>1, <2>3, OpKept
<1>7. CASE RestartSnapshot(p)
  <2> DEFINE k == torrent[job[p].t].info
             s == IF ~k /\ SkipOf(job[p].d) = {} THEN dl[job[p].d].skip ELSE SkipOf(job[p].d)
             j == [job[p] EXCEPT !.d = Nil, !.info = k, !.skip = s]
  <2>1. /\ job' = [job EXCEPT ![p] = j] /\ pc' = [pc EXCEPT ![p] = "drop"]
        /\ pc[p] = "snapshot"
        BY <1>7 DEF RestartSnapshot, Goto
  <2>2. j.op = job[p].op BY <1>0 DEF JobType
  <2> HIDE DEF j
  <2>3. OpAt(p, "drop", j) BY <1>0, <2>1, <2>2 DEF OpAt
  <2> QED BY <2>1, <2>3, OpKept
<1>8. CASE Drop(p)
  <2>1. NoJob.op = "none" BY DEF NoJob
  <2>2. PICK l, j : /\ job' = [job EXCEPT ![p] = j] /\ pc' = [pc EXCEPT ![p] = l]
                    /\ \/ l = "readd" /\ j = job[p] /\ job[p].op = "restart"
                       \/ l = "plock" /\ j = NoJob
        BY <1>0, <1>8 DEF Drop, Goto
  <2>3. OpAt(p, l, j) BY <1>0, <1>8, <2>1, <2>2 DEF OpAt, Drop
  <2> QED BY <2>2, <2>3, OpKept
<1>9. CASE RestartReadd(p)
  <2> DEFINE j == [job[p] EXCEPT !.t = HandleFor(job[p].h), !.info = FALSE]
  <2>1. /\ job' = [job EXCEPT ![p] = j] /\ pc' = [pc EXCEPT ![p] = "track"]
        /\ pc[p] = "readd"
        BY <1>9 DEF RestartReadd, Goto
  <2>2. j.op = job[p].op BY <1>0 DEF JobType
  <2> HIDE DEF j
  <2>3. OpAt(p, "track", j) BY <1>0, <2>1, <2>2 DEF OpAt
  <2> QED BY <2>1, <2>3, OpKept
<1>10. CASE PersistLock(p) \/ PersistStep(p)
  <2>1. /\ pc[p] \in Saving \cup {"plock"} /\ job' = [job EXCEPT ![p] = job[p]]
        BY <1>0, <1>10 DEF PersistLock, PersistStep, PersistRead, PersistWrite,
           PersistWritten, PersistRename, PersistFault, AfterPersist, opVars, Saving
  <2>2. PICK l \in Saving \cup {"exit", "pause", "idle"} :
           /\ pc' = [pc EXCEPT ![p] = l]
           /\ l = "exit" <=> (job[p].op = "quit" /\ l \notin Saving)
    <3>1. ASSUME NEW h \in Hashes, PersistRead(p, h)
          PROVE  pc' = [pc EXCEPT ![p] = "pread"]
          BY <1>0, <3>1 DEF PersistRead, opVars
    <3>2. CASE AfterPersist(p)
      <4>1. CASE job[p].op = "quit"
        <5>1. pc' = [pc EXCEPT ![p] = "exit"] BY <3>2, <4>1 DEF AfterPersist, Goto
        <5> QED BY <4>1, <5>1 DEF Saving
      <4>2. CASE job[p].op # "quit"
        <5>1. PICK l \in {"pause", "idle"} : pc' = [pc EXCEPT ![p] = l]
              BY <3>2, <4>2 DEF AfterPersist, Goto
        <5> QED BY <4>2, <5>1
      <4> QED BY <4>1, <4>2
    <3>3. CASE PersistLock(p) \/ PersistWrite(p) \/ PersistWritten(p)
      <4>1. PICK l \in Saving : pc' = [pc EXCEPT ![p] = l]
            BY <3>3 DEF PersistLock, PersistWrite, PersistWritten, Goto, Saving
      <4> QED BY <4>1 DEF Saving
    <3> QED BY <1>10, <3>1, <3>2, <3>3 DEF PersistStep, PersistRename, PersistFault, Saving
  <2>3. OpAt(p, l, job[p]) BY <1>0, <2>1, <2>2 DEF OpAt, Saving
  <2> QED BY <2>1, <2>2, <2>3, OpKept
<1> QED
    BY <1>1, <1>2, <1>3, <1>4, <1>5, <1>6, <1>7, <1>8, <1>9, <1>10
    DEF UserStep, CallStep

(* The calls of users and what follows from them.                          *)
LEMMA CallTask ==
    ASSUME TaskInv, NEW p \in Procs,
           UserStep(p) \/ PersistLock(p) \/ CallStep(p), ~Exit(p)
    PROVE  Aged /\ DownloadsInv' /\ ListedInv' /\ HandleInv' /\ RestoreInv'
<1> USE DEF TaskInv, Inv, TypeInv
<1>1. torrent \in [TorrentIds -> TorrentType] /\ dl \in [DownloadIds -> DownloadType]
      BY DEF TypeOK
<1>2. UNCHANGED torrent => Aged BY DEF Aged
<1>3. Aged /\ UNCHANGED listVars => DownloadsInv' /\ ListedInv'
      BY ConsistentKept, ListedKept DEF DownloadsInv, listVars
<1>4. RestoreInv'
  <2>1. session' = "up"
        BY DEF SessionInv, UserStep, AddTorrent, RemoveTake, RestartTake, Take, Ready,
           SetPaused, SetAllWanted, SetFileWanted, Managing, Quit, PersistLock, CallStep,
           Track, AddPause, RestartSnapshot, Drop, RestartReadd, RestartRefused,
           PersistStep, PersistRead, PersistWrite, PersistWritten, PersistRename,
           PersistFault, AfterPersist, Exit
  <2> QED BY <2>1, RestoreOver
<1>5. ASSUME NEW h \in Hashes, NEW paused \in BOOLEAN, AddTorrent(p, h, paused)
      PROVE  Aged /\ DownloadsInv' /\ ListedInv' /\ HandleInv'
  <2> DEFINE j == [Job("add", h) EXCEPT !.t = HandleFor(h), !.paused = paused]
  <2>1. Aged /\ torrent'[HandleFor(h)].hash = h
        BY <1>1, <1>5, HandleReused, AddAges DEF AddTorrent
  <2>2. j.t = HandleFor(h) /\ j.h = h BY DEF Job, NoJob
  <2>3. job' = [job EXCEPT ![p] = j] /\ pc' = [pc EXCEPT ![p] = "track"]
        BY <1>5 DEF AddTorrent, Goto
  <2> HIDE DEF j
  <2>4. HandleInv' BY <2>1, <2>2, <2>3, HandleKept
  <2> QED BY <1>3, <1>5, <2>1, <2>4 DEF AddTorrent
<1>6. ASSUME NEW h \in Hashes, RemoveTake(p, h) \/ RestartTake(p, h)
      PROVE  Aged /\ DownloadsInv' /\ ListedInv' /\ HandleInv'
  <2>1. PICK op \in {"remove", "restart"}, label \in {"drop", "snapshot"} :
           Take(p, h, op, label)
        BY <1>6 DEF RemoveTake, RestartTake
  <2> DEFINE j == [Job(op, h) EXCEPT !.d = downloads[h], !.t = dl[downloads[h]].t]
  <2>2. j.t = dl[downloads[h]].t /\ j.h = h BY DEF Job, NoJob
  <2>3. /\ job' = [job EXCEPT ![p] = j] /\ pc' = [pc EXCEPT ![p] = label]
        /\ downloads' = [downloads EXCEPT ![h] = Nil] /\ h \in Listed
        /\ UNCHANGED <<torrent, dl>>
        BY <2>1 DEF Take, Goto, Listed
  <2> HIDE DEF j
  <2>4. Aged BY <1>2, <2>3
  <2>5. HandleInv' BY <2>2, <2>3, <2>4, HandleKept DEF ListedInv
  <2>6. DownloadsInv' BY <2>3, <2>4, ConsistentKept DEF DownloadsInv
  <2>7. ListedInv' BY <2>3, <2>4, ListedKept DEF TypeOK
  <2> QED BY <2>4, <2>5, <2>6, <2>7
<1>7. ASSUME NEW d \in DownloadIds, NEW b \in BOOLEAN,
             \/ SetPaused(p, d, b) \/ SetAllWanted(p, d, b)
             \/ \E f \in Files : SetFileWanted(p, d, f, b)
      PROVE  Aged /\ DownloadsInv' /\ ListedInv' /\ HandleInv'
  <2>1. PICK wanted, paused :
           /\ wanted = Nil <=> dl[d].wanted = Nil
           /\ Choose(d, wanted, paused) /\ UNCHANGED <<downloads, opVars>>
        BY <1>7, ManagedChoice
  <2>2. Aged /\ DownloadsInv' /\ ListedInv' BY <2>1, ChooseTask
  <2> QED BY <2>1, <2>2, HandleSame
<1>8. CASE Track(p)
  <2> DEFINE h == job[p].h
  <2>1. /\ h \in Hashes /\ job[p].t \in TorrentIds /\ torrent[job[p].t].hash = h
        /\ UNCHANGED torrent
        BY <1>8 DEF Track, JobInv, HandleInv
  <2>2. Aged BY <1>2, <2>1
  <2>3. DownloadsInv' /\ ListedInv'
    <3>1. CASE Register(h, job[p].t, job[p].skip) BY <2>1, <2>2, <3>1, RegisterTask
    <3>2. CASE UNCHANGED listVars BY <1>3, <2>2, <3>2
    <3> QED BY <1>8, <3>1, <3>2 DEF Track
  <2>4. PICK j : job' = [job EXCEPT ![p] = j]
        BY <1>8 DEF Track, Tracked
  <2>5. HandleInv' BY <1>8, <2>2, <2>4, HandleKept DEF Track, Goto
  <2> QED BY <1>4, <2>2, <2>3, <2>5
<1>9. CASE AddPause(p)
  <2>1. /\ job[p].d \in DownloadIds /\ UNCHANGED downloads
        /\ Choose(job[p].d, dl[job[p].d].wanted, TRUE)
        BY <1>9 DEF AddPause, JobInv
  <2>2. Aged /\ DownloadsInv' /\ ListedInv' BY <2>1, ChooseTask
  <2>3. HandleInv' BY <1>9, <2>2, HandleKept DEF AddPause, Goto
  <2> QED BY <1>4, <2>2, <2>3
<1>10. CASE RestartSnapshot(p)
  <2> DEFINE k == torrent[job[p].t].info
             s == IF ~k /\ SkipOf(job[p].d) = {} THEN dl[job[p].d].skip ELSE SkipOf(job[p].d)
             j == [job[p] EXCEPT !.d = Nil, !.info = k, !.skip = s]
  <2>1. /\ job' = [job EXCEPT ![p] = j] /\ pc' = [pc EXCEPT ![p] = "drop"]
        /\ pc[p] = "snapshot" /\ UNCHANGED <<torrent, listVars>>
        BY <1>10 DEF RestartSnapshot, Goto
  <2>2. j.t = job[p].t /\ j.h = job[p].h BY DEF TypeOK, JobType
  <2> HIDE DEF j
  <2>3. HandleInv' BY <1>2, <2>1, <2>2, HandleKept DEF HandleInv
  <2> QED BY <1>4, <1>2, <1>3, <2>1, <2>3
<1>11. CASE Drop(p)
  <2>1. Aged BY <1>1, <1>11, DropAges DEF Drop
  <2>2. \E l \in {"readd", "plock"} : \E j :
           job' = [job EXCEPT ![p] = j] /\ pc' = [pc EXCEPT ![p] = l]
    <3>1. job = [job EXCEPT ![p] = job[p]] BY DEF TypeOK
    <3> QED BY <1>11, <3>1 DEF Drop, Goto
  <2>3. HandleInv' BY <2>1, <2>2, HandleKept
  <2> QED BY <1>4, <1>3, <1>11, <2>1, <2>3 DEF Drop
<1>12. CASE RestartReadd(p)
  <2> DEFINE h == job[p].h
             j == [job[p] EXCEPT !.t = HandleFor(h), !.info = FALSE]
  <2>1. h \in Hashes /\ job[p] \in JobType /\ job[p].info \in BOOLEAN
        BY <1>12 DEF RestartReadd, JobInv, TypeOK, JobType
  <2>2. Aged /\ torrent'[HandleFor(h)].hash = h
        BY <1>1, <1>12, <2>1, HandleReused, AddAges DEF RestartReadd
  <2>3. j.t = HandleFor(h) /\ j.h = h BY <2>1 DEF JobType
  <2>4. job' = [job EXCEPT ![p] = j] /\ pc' = [pc EXCEPT ![p] = "track"]
        BY <1>12 DEF RestartReadd, Goto
  <2> HIDE DEF j
  <2>5. HandleInv' BY <2>2, <2>3, <2>4, HandleKept
  <2> QED BY <1>4, <1>3, <1>12, <2>2, <2>5 DEF RestartReadd
<1>13. CASE RestartRefused(p) \/ Quit(p)
  <2>1. \E l \in {"idle", "plock"} : \E j :
           job' = [job EXCEPT ![p] = j] /\ pc' = [pc EXCEPT ![p] = l]
        BY <1>13 DEF RestartRefused, Quit, Goto
  <2>2. UNCHANGED <<torrent, listVars>> BY <1>13 DEF RestartRefused, Quit
  <2> QED BY <1>4, <1>2, <1>3, <2>1, <2>2, HandleKept
<1>14. CASE PersistLock(p) \/ PersistStep(p)
  <2>1. UNCHANGED <<torrent, listVars, job>>
        BY <1>14 DEF PersistLock, PersistStep, PersistRead, PersistWrite,
           PersistWritten, PersistRename, PersistFault, AfterPersist, opVars
  <2>2. \E l \in Saving \cup {"exit", "pause", "idle"} : pc' = [pc EXCEPT ![p] = l]
    <3>1. ASSUME NEW h \in Hashes, PersistRead(p, h)
          PROVE  pc' = [pc EXCEPT ![p] = "pread"]
          BY <3>1 DEF PersistRead, opVars, TypeOK
    <3> QED BY <1>14, <3>1 DEF PersistLock, PersistStep, PersistWrite,
           PersistWritten, PersistRename, PersistFault, AfterPersist, Goto, Saving
  <2>3. job' = [job EXCEPT ![p] = job[p]] BY <2>1 DEF TypeOK
  <2>4. HandleInv' BY <1>2, <2>1, <2>2, <2>3, HandleKept DEF Saving
  <2> QED BY <1>4, <1>2, <1>3, <2>1, <2>4
<1> QED
    BY <1>4, <1>5, <1>6, <1>7, <1>8, <1>9, <1>10, <1>11, <1>12, <1>13, <1>14
    DEF UserStep, CallStep

(* Starting, restoring and ending a session.                               *)
LEMMA SessionTask ==
    ASSUME TaskInv, RestoreStep \/ Boot \/ Die
    PROVE  DownloadsInv' /\ ListedInv' /\ HandleInv' /\ OpInv' /\ RestoreInv'
<1> USE DEF TaskInv, Inv, TypeInv
<1>1. UNCHANGED torrent => Aged BY DEF Aged
<1>2. CASE Die
  <2>1. /\ \A d \in DownloadIds : dl'[d] = NoDownload
        /\ \A h \in Hashes : downloads'[h] = Nil
        /\ \A p \in Procs : pc'[p] = "idle"
        /\ \A p \in Procs : job'[p].op = "none"
        /\ session' = "down"
        BY <1>2 DEF Die, NoDownloads, NoEntry, AllIdle, NoJobs, NoJob
  <2>2. DownloadsInv' BY <2>1 DEF DownloadsInv, Consistent, NoDownload
  <2>3. ListedInv' /\ HandleInv' /\ OpInv' /\ RestoreInv'
        BY <2>1 DEF ListedInv, Listed, HandleInv, OpInv, OpAt, RestoreInv
  <2> QED BY <2>2, <2>3
<1>3. CASE Boot \/ RestoreDone
  <2>1. UNCHANGED <<torrent, listVars, opVars, persistVars>>
        BY <1>3 DEF Boot, RestoreDone
  <2>2. DownloadsInv' /\ ListedInv'
        BY <1>1, <2>1, ConsistentKept, ListedKept DEF DownloadsInv, listVars
  <2>3. HandleInv' /\ OpInv' BY <1>1, <2>1, HandleSame DEF OpInv, opVars
  <2>4. RestoreInv'
    <3>1. UNCHANGED <<Listed, Saved>> BY <2>1 DEF Listed, Saved, listVars, persistVars
    <3> QED BY <1>3, <3>1 DEF Boot, RestoreDone, RestoreInv
  <2> QED BY <2>2, <2>3, <2>4
<1>4. ASSUME NEW h \in Hashes, RestoreTask(h)
      PROVE  DownloadsInv' /\ ListedInv' /\ HandleInv' /\ OpInv' /\ RestoreInv'
  <2>1. Aged /\ torrent'[HandleFor(h)].hash = h /\ HandleFor(h) \in TorrentIds
        BY <1>4, HandleReused, AddAges DEF RestoreTask, TypeOK
  <2>2. DownloadsInv' /\ ListedInv' BY <1>4, <2>1, RegisterTask DEF RestoreTask
  <2>3. HandleInv' /\ OpInv'
        BY <1>4, <2>1, HandleSame DEF RestoreTask, OpInv, opVars
  <2>4. downloads' = [downloads EXCEPT ![h] = Fresh] /\ Fresh # Nil
        BY <1>4, FreshType, NilAssumption DEF RestoreTask, Register
  <2>5. Listed' = Listed \cup {h} BY <2>4 DEF Listed, TypeOK
  <2>6. /\ h \in todo /\ todo' = todo \ {h} /\ session = "restoring"
        /\ UNCHANGED <<session, stateFile>>
        BY <1>4 DEF RestoreTask, persistVars
  <2>7. Saved' = Saved /\ Listed' \cup todo' = Listed \cup todo
        BY <2>5, <2>6 DEF Saved
  <2>8. RestoreInv' BY <2>5, <2>6, <2>7 DEF RestoreInv
  <2> QED BY <2>2, <2>3, <2>8
<1>5. ASSUME NEW h \in Hashes, RestoreRefused(h)
      PROVE  DownloadsInv' /\ ListedInv' /\ HandleInv' /\ OpInv' /\ RestoreInv'
  <2>1. UNCHANGED <<session, torrent, listVars, opVars, persistVars>>
        BY <1>5 DEF RestoreRefused
  <2>2. DownloadsInv' /\ ListedInv'
        BY <1>1, <2>1, ConsistentKept, ListedKept DEF DownloadsInv, listVars
  <2>3. HandleInv' /\ OpInv' BY <1>1, <2>1, HandleSame DEF OpInv, opVars
  <2>4. UNCHANGED <<Listed, Saved>> BY <2>1 DEF Listed, Saved, listVars, persistVars
  <2>5. RestoreInv' BY <1>5, <2>4 DEF RestoreRefused, RestoreInv
  <2> QED BY <2>2, <2>3, <2>5
<1> QED BY <1>2, <1>3, <1>4, <1>5 DEF RestoreStep

(* The goroutines and the peers do their part in any session.              *)
LEMMA BackgroundTask ==
    ASSUME TaskInv, \/ \E d \in DownloadIds : AwaitStep(d)
                    \/ \E t \in TorrentIds : GotInfo(t)
    PROVE  DownloadsInv' /\ ListedInv' /\ HandleInv' /\ OpInv' /\ RestoreInv'
<1> USE DEF TaskInv, Inv, TypeInv
<1>1. Aged /\ DownloadsInv' /\ ListedInv' /\ AwaitFrame
  <2>1. ASSUME NEW t \in TorrentIds, GotInfo(t)
        PROVE  Aged /\ UNCHANGED listVars /\ AwaitFrame
        BY <2>1 DEF GotInfo, MetadataArrives, Aged, AwaitFrame, listVars, TypeOK,
                    TorrentType
  <2>2. Aged /\ UNCHANGED listVars => DownloadsInv' /\ ListedInv'
        BY ConsistentKept, ListedKept DEF DownloadsInv, listVars
  <2> QED BY <2>1, <2>2, AwaitTask
<1>2. HandleInv' /\ OpInv' BY <1>1, HandleSame DEF AwaitFrame, OpInv, opVars
<1>3. RestoreInv'
      BY <1>1 DEF AwaitFrame, RestoreInv, Listed, Saved, persistVars
<1> QED BY <1>1, <1>2, <1>3

(* Every step keeps TaskInv.                                               *)
LEMMA TaskStep == TaskInv /\ [Next]_vars => TaskInv'
<1>1. ASSUME TaskInv, Next PROVE DownloadsInv' /\ ListedInv' /\ HandleInv' /\ OpInv' /\ RestoreInv'
      BY <1>1, CallTask, OpCall, SessionTask, BackgroundTask
      DEF Next, CallStep, Exit, Crash, TaskInv, Inv
<1>2. ASSUME TaskInv, UNCHANGED vars
      PROVE  DownloadsInv' /\ ListedInv' /\ HandleInv' /\ OpInv' /\ RestoreInv'
      BY <1>2 DEF TaskInv, DownloadsInv, Consistent, ListedInv, Listed, HandleInv,
         OpInv, RestoreInv, Saved, vars, listVars, opVars, persistVars
<1> QED BY <1>1, <1>2, InvStep DEF TaskInv

(* TaskInv holds in every reachable state.                                 *)
LEMMA TaskInvariance == Spec => []TaskInv
<1>1. Init => TaskInv
  <2>1. Init => Inv BY TypeInit, SaveInit DEF Inv
  <2>2. Init => DownloadsInv
        BY DEF Init, NoDownloads, NoDownload, DownloadsInv, Consistent
  <2>3. Init => ListedInv /\ HandleInv /\ OpInv /\ RestoreInv
        BY DEF Init, NoEntry, AllIdle, NoJobs, NoJob, ListedInv, Listed, HandleInv,
           OpInv, OpAt, RestoreInv
  <2> QED BY <2>1, <2>2, <2>3 DEF TaskInv
<1> QED BY <1>1, TaskStep, PTL DEF Spec

(* A listed task that failed has no selection, and its torrent is closed   *)
(* once awaitMetadata has ended, however the timer, the metadata, removals *)
(* and additions of the same hash interleave.                              *)
THEOREM FailedStaysIdle == Spec => []FailedNeverStarts
<1>1. TaskInv => FailedNeverStarts
  <2> SUFFICES ASSUME TaskInv, NEW h \in Listed,
                      dl[downloads[h]].err
               PROVE  /\ dl[downloads[h]].wanted = Nil
                      /\ dl[downloads[h]].stage = "done"
                            => ~torrent[dl[downloads[h]].t].open
      BY DEF FailedNeverStarts
  <2>1. downloads[h] \in DownloadIds BY DEF TaskInv, Inv, TypeInv, TypeOK, Listed
  <2> QED BY <2>1 DEF TaskInv, DownloadsInv, Consistent
<1> QED BY <1>1, TaskInvariance, PTL

(* Whatever an add or a restart finds on the list when it comes to track   *)
(* its torrent, it leaves a Download that has not failed.                  *)
THEOREM RetryIsFresh == Spec => AddRetriesFailed
<1> DEFINE Retried == \A p \in Procs : pc[p] = "track" /\ pc'[p] = "plock"
                          => ~dl'[downloads'[job[p].h]].err
<1>1. TaskInv /\ [Next]_vars => [Retried]_vars
  <2> SUFFICES ASSUME TaskInv, Next, NEW p \in Procs,
                      pc[p] = "track", pc'[p] = "plock"
               PROVE  ~dl'[downloads'[job[p].h]].err
      OBVIOUS
  <2> USE DEF TaskInv, Inv, TypeInv
  <2>1. job[p].h \in Hashes /\ job[p].t \in TorrentIds /\ torrent[job[p].t].hash = job[p].h
        BY DEF JobInv, HandleInv
  <2>2. Track(p)
    <3>1. ASSUME NEW q \in Procs, q # p,
                 UserStep(q) \/ PersistLock(q) \/ CallStep(q), ~Exit(q)
          PROVE  pc'[p] = pc[p]
          BY <3>1 DEF UserStep, AddTorrent, RemoveTake, RestartTake, Take, SetPaused,
             SetAllWanted, SetFileWanted, Quit, PersistLock, CallStep, Track, AddPause,
             RestartSnapshot, Drop, RestartReadd, RestartRefused, PersistStep,
             PersistRead, PersistWrite, PersistWritten, PersistRename, PersistFault,
             AfterPersist, Goto, opVars, TypeOK
    <3>2. Die => pc'[p] = "idle" BY DEF Die, AllIdle
    <3>3. UserStep(p) \/ PersistLock(p) \/ CallStep(p) => Track(p) \/ Exit(p)
          BY DEF UserStep, AddTorrent, RemoveTake, RestartTake, Take, SetPaused,
             SetAllWanted, SetFileWanted, Managing, Ready, Quit, PersistLock, CallStep,
             AddPause, RestartSnapshot, Drop, RestartReadd, RestartRefused, PersistStep,
             PersistRead, PersistWrite, PersistWritten, PersistRename, PersistFault
    <3>4. (\E d \in DownloadIds : AwaitStep(d)) \/ (\E t \in TorrentIds : GotInfo(t))
             \/ RestoreStep \/ Boot => UNCHANGED pc
          BY DEF AwaitStep, AwaitInfo, AwaitSelected, AwaitClosed, AwaitTimeout,
             AwaitDrop, AwaitFrame, GotInfo, RestoreStep, RestoreDone, RestoreTask, RestoreRefused, Boot,
             opVars
    <3> QED BY <3>1, <3>2, <3>3, <3>4 DEF Next, Exit, Crash
  <2>3. CASE Healthy(job[p].h) /\ UNCHANGED listVars
        BY <2>3 DEF Healthy, listVars
  <2>4. CASE Register(job[p].h, job[p].t, job[p].skip)
    <3>1. UNCHANGED torrent BY <2>2 DEF Track
    <3>2. Fresh \in DownloadIds BY <2>4, FreshType DEF Register
    <3>3. dl'[Fresh] = NewDownload(job[p].t, job[p].skip)
          /\ downloads'[job[p].h] = Fresh
          BY <2>1, <2>4, <3>2 DEF Register, TypeOK
    <3> QED BY <3>3 DEF NewDownload, NoDownload
  <2> QED BY <2>2, <2>3, <2>4 DEF Track
<1> QED BY <1>1, TaskInvariance, PTL DEF Spec, AddRetriesFailed
-----------------------------------------------------------------------------
(* No lost save.  The claim about quiet states is not inductive: it holds  *)
(* because, at any time, somebody has yet to take the list, or the one who *)
(* took it took the list as it still is, or the file is already right.     *)

Pending == {h \in Hashes : snap[h] # Nil \/ recs[h] # Nil}
NotTaken == {"snapshot", "drop", "readd", "track", "plock"}

ListSaved ==
    \/ \E p \in Procs : pc[p] \in NotTaken
    \/ (\E p \in Procs : pc[p] \in Saving) /\ Pending = Listed
    \/ (\A p \in Procs : pc[p] \notin Saving) /\ Saved = Listed

QuietInv == session = "up" => ListSaved

(* The program starts with no session.                                     *)
LEMMA QuietInit == Init => QuietInv
BY DEF Init, QuietInv

(* A step after which a thread has yet to save proves itself.              *)
LEMMA QuietStart ==
    ASSUME Inv, NEW p \in Procs, NEW l \in NotTaken, Goto(p, l), UNCHANGED session,
           session = "up"
    PROVE  QuietInv'
BY DEF Inv, TypeInv, TypeOK, Goto, QuietInv, ListSaved

(* So does a step that changes neither the list nor the savers.            *)
LEMMA QuietSame ==
    ASSUME QuietInv, UNCHANGED <<session, todo, downloads, pc, persistVars>>
    PROVE  QuietInv'
BY DEF QuietInv, ListSaved, Listed, Saved, Pending, persistVars

(* The save itself, without disk errors.                                   *)
LEMMA QuietPersist ==
    ASSUME Inv, QuietInv, Faults = {}, NEW p \in Procs, PersistLock(p) \/ PersistStep(p)
    PROVE  QuietInv'
<1> USE DEF Inv, TypeInv
<1>1. session = "up"
      BY DEF SessionInv, PersistLock, PersistStep, PersistRead, PersistWrite,
             PersistWritten, PersistRename, PersistFault
<1> SUFFICES ListSaved' /\ session' = "up" BY DEF QuietInv
<1>2. session' = "up"
      BY <1>1 DEF PersistLock, PersistStep, PersistRead, PersistWrite,
             PersistWritten, PersistRename, PersistFault, AfterPersist
<1>3. ListSaved BY <1>1 DEF QuietInv
<1>4. CASE PersistLock(p)
  <2>1. Pending' = Listed' BY <1>4 DEF PersistLock, Pending, Listed, NoEntry, listVars
  <2>2. pc'[p] \in Saving BY <1>4 DEF PersistLock, Goto, TypeOK, Saving
  <2> QED BY <1>2, <2>1, <2>2 DEF ListSaved
<1>5. ASSUME NEW h \in Hashes, PersistRead(p, h) PROVE ListSaved'
  <2>1. SkipOf(snap[h]) # Nil BY SkipType, NilAssumption
  <2>2. Pending' = Pending BY <1>5, <2>1 DEF PersistRead, Pending, TypeOK, FileImages
  <2>3. UNCHANGED <<pc, downloads, stateFile>>
        BY <1>5 DEF PersistRead, listVars, opVars
  <2> QED BY <1>3, <2>2, <2>3 DEF ListSaved, Listed, Saved
<1>6. CASE PersistWrite(p) \/ PersistWritten(p)
  <2>1. PICK l \in {"pwrite", "prename"} : pc' = [pc EXCEPT ![p] = l]
        BY <1>6 DEF PersistWrite, PersistWritten, Goto
  <2>2. pc[p] \in Saving BY <1>6 DEF PersistWrite, PersistWritten, Saving
  <2>3. UNCHANGED <<downloads, snap, recs, stateFile>>
        BY <1>6 DEF PersistWrite, PersistWritten, listVars
  <2>4. pc'[p] \in Saving BY <2>1 DEF TypeOK, Saving
  <2>5. \A q \in Procs : pc[q] \in NotTaken => pc'[q] \in NotTaken
        BY <2>1, <2>2 DEF TypeOK, Saving, NotTaken
  <2> QED
      BY <1>2, <1>3, <2>2, <2>3, <2>4, <2>5 DEF ListSaved, Listed, Saved, Pending
<1>7. CASE PersistRename(p)
  <2>1. PICK l \in {"exit", "pause", "idle"} : pc' = [pc EXCEPT ![p] = l]
        BY <1>7 DEF PersistRename, AfterPersist, Goto
  <2>2. pc[p] \in Saving /\ stateFile' = recs /\ snap = NoEntry
        BY <1>7 DEF PersistRename, SaveInv, Saving
  <2>3. UNCHANGED downloads BY <1>7 DEF PersistRename, AfterPersist, listVars
  <2>4. ASSUME NEW q \in Procs, pc[q] \in NotTaken PROVE ListSaved'
    <3>1. pc'[q] \in NotTaken BY <2>1, <2>2, <2>4 DEF TypeOK, Saving, NotTaken
    <3> QED BY <3>1 DEF ListSaved
  <2>5. CASE Pending = Listed
    <3>1. \A q \in Procs : pc'[q] \notin Saving
          BY <2>1, <2>2, NilAssumption DEF SaveInv, TypeOK, Saving
    <3>2. Saved' = {h \in Hashes : recs[h] # Nil}
          BY <2>2, TornAssumption DEF Saved, TypeOK
    <3>3. Pending = {h \in Hashes : recs[h] # Nil}
          BY <2>2 DEF Pending, NoEntry
    <3> QED BY <1>2, <2>3, <2>5, <3>1, <3>2, <3>3 DEF ListSaved, Listed
  <2> QED BY <1>2, <1>3, <2>2, <2>4, <2>5 DEF ListSaved
<1> QED BY <1>4, <1>5, <1>6, <1>7, <1>2 DEF PersistStep, PersistFault

(* Starting, restoring and ending a session: restore has listed exactly    *)
(* what the file records.                                                  *)
LEMMA QuietSession ==
    ASSUME TaskInv, QuietInv, Faults = {}, RestoreStep \/ Boot \/ Die
    PROVE  QuietInv'
<1> USE DEF TaskInv, Inv, TypeInv
<1>1. CASE Die BY <1>1 DEF Die, QuietInv
<1>2. CASE Boot BY <1>2 DEF Boot, QuietInv
<1>3. ASSUME NEW h \in Hashes, RestoreTask(h) PROVE QuietInv'
      BY <1>3 DEF RestoreTask, QuietInv
<1>4. CASE RestoreDone
  <2>1. Saved' = Listed' /\ session' = "up"
        BY <1>4 DEF RestoreDone, RestoreInv, Saved, Listed, listVars, persistVars
  <2>2. \A p \in Procs : pc'[p] \notin Saving
        BY <1>4 DEF RestoreDone, SessionInv, opVars, Saving
  <2> QED BY <2>1, <2>2 DEF QuietInv, ListSaved
<1> QED BY <1>1, <1>2, <1>3, <1>4 DEF RestoreStep, RestoreRefused

(* Every step keeps QuietInv, when no save and no restart fails.           *)
LEMMA QuietStep ==
    ASSUME TaskInv, QuietInv, Faults = {}, Next
    PROVE  QuietInv'
<1> USE DEF TaskInv, Inv, TypeInv
<1>1. ASSUME NEW p \in Procs, UserStep(p) PROVE QuietInv'
  <2>1. CASE \/ \E h \in Hashes, paused \in BOOLEAN : AddTorrent(p, h, paused)
             \/ \E h \in Hashes : RemoveTake(p, h) \/ RestartTake(p, h)
             \/ Quit(p)
    <3>1. \E l \in NotTaken : Goto(p, l) /\ UNCHANGED session /\ session = "up"
          BY <2>1 DEF AddTorrent, RemoveTake, RestartTake, Take, Quit, Ready, NotTaken
    <3> QED BY <3>1, QuietStart
  <2>2. ASSUME NEW d \in DownloadIds, NEW b \in BOOLEAN,
               \/ SetPaused(p, d, b) \/ SetAllWanted(p, d, b)
               \/ \E f \in Files : SetFileWanted(p, d, f, b)
        PROVE  QuietInv'
        BY <2>2, QuietSame DEF SetPaused, SetAllWanted, SetFileWanted, opVars
  <2> QED BY <1>1, <2>1, <2>2 DEF UserStep
<1>2. ASSUME NEW p \in Procs,
             Track(p) \/ RestartSnapshot(p) \/ Drop(p) \/ RestartReadd(p)
      PROVE  QuietInv'
  <2>1. \E l \in NotTaken : Goto(p, l) /\ UNCHANGED session /\ session = "up"
        BY <1>2 DEF Track, RestartSnapshot, Drop, RestartReadd, NotTaken, SessionInv
  <2> QED BY <2>1, QuietStart
<1>3. ASSUME NEW p \in Procs, AddPause(p) PROVE QuietInv'
  <2>1. pc[p] = "pause" /\ pc' = [pc EXCEPT ![p] = "idle"]
        /\ UNCHANGED <<session, todo, downloads, persistVars>>
        BY <1>3 DEF AddPause, Goto
  <2>2. session = "up" BY <2>1 DEF SessionInv
  <2>3. \A q \in Procs : /\ pc[q] \in NotTaken <=> pc'[q] \in NotTaken
                         /\ pc[q] \in Saving <=> pc'[q] \in Saving
        BY <2>1 DEF TypeOK, NotTaken, Saving
  <2> QED BY <2>1, <2>2, <2>3
          DEF QuietInv, ListSaved, Listed, Saved, Pending, persistVars
<1>4. ASSUME NEW p \in Procs, RestartRefused(p) PROVE QuietInv'
      BY <1>4 DEF RestartRefused
<1>5. CASE \/ \E d \in DownloadIds : AwaitStep(d)
           \/ \E t \in TorrentIds : GotInfo(t)
  <2>1. UNCHANGED <<session, todo, downloads, opVars, persistVars>>
        BY <1>5 DEF AwaitStep, AwaitInfo, AwaitSelected, AwaitClosed, AwaitTimeout,
           AwaitDrop, AwaitFrame, GotInfo, listVars
  <2> QED BY <2>1, QuietSame DEF opVars
<1> QED
    BY <1>1, <1>2, <1>3, <1>4, <1>5, QuietPersist, QuietSession
    DEF Next, CallStep, Exit, Crash

(* Without faults, once every operation has returned the hashes on disk    *)
(* are those on the list, for any number of threads adding, removing and   *)
(* restarting.                                                             *)
THEOREM NoLostSave ==
    ASSUME Faults = {}
    PROVE  Spec => []QuiescentStateFileMatches
<1>1. TaskInv /\ QuietInv /\ [Next]_vars => QuietInv'
  <2>1. ASSUME QuietInv, UNCHANGED vars PROVE QuietInv'
        BY <2>1, QuietSame DEF vars, listVars, opVars
  <2> QED BY <2>1, QuietStep
<1>2. QuietInv => QuiescentStateFileMatches
      BY DEF QuietInv, ListSaved, NotTaken, Saving, QuiescentStateFileMatches
<1> QED BY <1>1, <1>2, QuietInit, TaskInvariance, PTL DEF Spec
-----------------------------------------------------------------------------
(* Engine implements TaskList.  Each step maps to the one the abstract     *)
(* list takes, or leaves its image alone.                                  *)

(* The task the operation j of a manager has to put back.                  *)
Held(j) == IF j.op = "restart" THEN j.h ELSE Nil

(* One thread moves on, from, into or within a restart, or outside any.    *)
LEMMA RestartMoves ==
    ASSUME TaskInv, NEW p \in Procs, NEW j, job' = [job EXCEPT ![p] = j]
    PROVE  /\ RestartImage' = [RestartImage EXCEPT ![p] = Held(j)]
           /\ Held(j) = Held(job[p]) => RestartImage' = RestartImage
BY DEF RestartImage, Held, TaskInv, Inv, TypeInv, TypeOK, Procs

(* The image only depends on which Downloads are listed, on whether each   *)
(* has failed or has a selection, and on the restarts under way.           *)
LEMMA ImageSame ==
    ASSUME TaskInv, UNCHANGED <<session, downloads, persistVars, RestartImage>>,
           \A d \in DownloadIds : /\ dl'[d].err = dl[d].err
                                  /\ dl'[d].wanted = Nil <=> dl[d].wanted = Nil
    PROVE  UNCHANGED Tasks!listVars
<1>1. ASSUME NEW h \in Hashes PROVE StatusOf(h)' = StatusOf(h)
      BY DEF StatusOf, TaskInv, Inv, TypeInv, TypeOK
<1>2. ListImage' = ListImage BY <1>1 DEF ListImage
<1>3. Saved' = Saved /\ PendImage' = PendImage BY DEF Saved, PendImage, persistVars
<1> QED BY <1>2, <1>3 DEF Tasks!listVars

(* A step that moves one hash only.                                        *)
LEMMA ImageBecome ==
    ASSUME NEW h \in Hashes, NEW from, NEW to,
           UNCHANGED <<session, persistVars>>,
           StatusOf(h) \in from, StatusOf(h)' = to,
           \A k \in Hashes : k # h => StatusOf(k)' = StatusOf(k)
    PROVE  Tasks!Become(h, from, to)
<1>1. ListImage[h] \in from BY DEF ListImage
<1>2. ListImage' = [ListImage EXCEPT ![h] = to] BY DEF ListImage
<1>3. Saved' = Saved /\ PendImage' = PendImage BY DEF Saved, PendImage, persistVars
<1> QED BY <1>1, <1>2, <1>3 DEF Tasks!Become

(* A new Download starts its hash, and only its hash.                      *)
LEMMA ImageRegister ==
    ASSUME TaskInv, NEW h \in Hashes, NEW t \in TorrentIds, NEW skip,
           Register(h, t, skip), ~Healthy(h), UNCHANGED <<session, persistVars>>
    PROVE  /\ Tasks!Become(h, {"absent", "failed"}, "waiting")
           /\ downloads[h] = Nil => Tasks!Become(h, {"absent"}, "waiting")
<1> USE DEF TaskInv, Inv, TypeInv
<1>1. Fresh \in DownloadIds /\ dl[Fresh].stage = "free"
  <2>1. \E d \in DownloadIds : d \in FreeDownloads BY DEF Register, FreeDownloads
  <2> QED BY <2>1 DEF Fresh, FreeDownloads
<1>2. \A k \in Hashes : downloads[k] # Fresh
      BY <1>1, NilAssumption DEF ListedInv, Listed
<1> DEFINE n == NewDownload(t, skip)
<1>3. ~n.err /\ n.wanted = Nil BY DEF NewDownload, NoDownload
<1> HIDE DEF n
<1>4. /\ dl' = [dl EXCEPT ![Fresh] = n] /\ downloads' = [downloads EXCEPT ![h] = Fresh]
      BY DEF Register, n
<1>5. StatusOf(h)' = "waiting"
  <2>1. downloads'[h] = Fresh /\ dl'[Fresh] = n /\ Fresh # Nil
        BY <1>1, <1>4, NilAssumption DEF TypeOK
  <2> QED BY <2>1, <1>3 DEF StatusOf
<1>6. ASSUME NEW k \in Hashes, k # h PROVE StatusOf(k)' = StatusOf(k)
  <2>1. downloads'[k] = downloads[k] BY <1>4, <1>6 DEF TypeOK
  <2>2. downloads[k] # Nil => dl'[downloads[k]] = dl[downloads[k]]
        BY <1>2, <1>4 DEF TypeOK
  <2> QED BY <2>1, <2>2 DEF StatusOf
<1>7. /\ StatusOf(h) \in {"absent", "failed"}
      /\ downloads[h] = Nil => StatusOf(h) \in {"absent"}
      BY DEF StatusOf, Healthy
<1> QED BY <1>5, <1>6, <1>7, ImageBecome

(* What awaitMetadata does to a Download shows under its hash, if listed.  *)
LEMMA ImageAwait ==
    ASSUME TaskInv, NEW d \in DownloadIds, AwaitStep(d)
    PROVE  [Tasks!Next]_Tasks!listVars
<1> USE DEF TaskInv, Inv, TypeInv
<1>1. UNCHANGED <<session, downloads, persistVars, RestartImage>>
      BY DEF AwaitStep, AwaitInfo, AwaitSelected, AwaitClosed, AwaitTimeout, AwaitDrop,
             AwaitFrame, RestartImage, opVars
<1>2. /\ dl \in [DownloadIds -> DownloadType] /\ dl[d] \in DownloadType
      BY DEF TypeOK
<1>3. CASE AwaitInfo(d) \/ AwaitClosed(d) \/ AwaitDrop(d)
  <2>1. \A e \in DownloadIds : /\ dl'[e].err = dl[e].err
                               /\ dl'[e].wanted = Nil <=> dl[e].wanted = Nil
        BY <1>2, <1>3 DEF AwaitInfo, AwaitClosed, AwaitDrop, DownloadType
  <2> QED BY <1>1, <2>1, ImageSame
<1>4. ASSUME NEW to \in {"active", "failed"},
             session # "down",
             dl[d].stage \in {"waiting", "recovering"},
             \A e \in DownloadIds : e # d => dl'[e] = dl[e],
             to = "active" => ~dl'[d].err /\ dl'[d].wanted # Nil,
             to = "failed" => dl'[d].err
      PROVE  [Tasks!Next]_Tasks!listVars
  <2>1. ~dl[d].err /\ dl[d].wanted = Nil BY <1>4 DEF DownloadsInv, Consistent
  <2>2. ASSUME \A h \in Hashes : downloads[h] # d
        PROVE  UNCHANGED Tasks!listVars
    <3>1. ASSUME NEW h \in Hashes PROVE StatusOf(h)' = StatusOf(h)
      <4>1. downloads[h] # Nil => dl'[downloads[h]] = dl[downloads[h]]
            BY <1>4, <2>2 DEF TypeOK
      <4> QED BY <1>1, <4>1 DEF StatusOf
    <3>2. ListImage' = ListImage BY <3>1 DEF ListImage
    <3>3. Saved' = Saved /\ PendImage' = PendImage
          BY <1>1 DEF Saved, PendImage, persistVars
    <3> QED BY <1>1, <3>2, <3>3 DEF Tasks!listVars
  <2>3. ASSUME NEW h \in Hashes, downloads[h] = d
        PROVE  Tasks!Become(h, {"waiting"}, to)
    <3>1. d # Nil BY NilAssumption
    <3>2. StatusOf(h) \in {"waiting"} BY <2>1, <2>3, <3>1 DEF StatusOf
    <3>3. StatusOf(h)' = to BY <1>1, <1>4, <2>3, <3>1 DEF StatusOf
    <3>4. ASSUME NEW k \in Hashes, k # h PROVE StatusOf(k)' = StatusOf(k)
      <4>1. downloads[k] # d
            BY <2>3, <3>1, <3>4 DEF ListedInv, Listed
      <4>2. downloads[k] # Nil => dl'[downloads[k]] = dl[downloads[k]]
            BY <1>4, <4>1 DEF TypeOK
      <4> QED BY <1>1, <4>2 DEF StatusOf
    <3> QED BY <1>1, <3>2, <3>3, <3>4, ImageBecome
  <2> QED BY <1>1, <1>4, <2>2, <2>3 DEF Tasks!Next, Tasks!Activate, Tasks!Fail
<1>5. CASE AwaitSelected(d)
  <2>1. /\ session # "down" /\ dl[d].stage = "recovering"
        /\ \A e \in DownloadIds : e # d => dl'[e] = dl[e]
        /\ dl'[d].err = dl[d].err /\ dl'[d].wanted # Nil
        BY <1>2, <1>5, NilAssumption DEF AwaitSelected, At, DownloadType
  <2>2. ~dl[d].err BY <2>1 DEF DownloadsInv, Consistent
  <2> QED BY <1>4, <2>1, <2>2
<1>6. CASE AwaitTimeout(d)
  <2>1. /\ session # "down" /\ dl[d].stage = "waiting"
        /\ \A e \in DownloadIds : e # d => dl'[e] = dl[e]
        /\ dl'[d].err
        BY <1>2, <1>6 DEF AwaitTimeout, At, DownloadType
  <2> QED BY <1>4, <2>1
<1> QED BY <1>3, <1>5, <1>6 DEF AwaitStep

(* Calls that leave the list and the saves alone do not show.              *)
LEMMA ImageQuiet ==
    ASSUME TaskInv, UNCHANGED <<session, listVars, persistVars, RestartImage>>
    PROVE  UNCHANGED Tasks!listVars
BY ImageSame DEF listVars

(* A save commits the list it copied, or, after a disk error, nothing.     *)
LEMMA ImagePersist ==
    ASSUME TaskInv, NEW p \in Procs, PersistLock(p) \/ PersistStep(p)
    PROVE  [Tasks!Next]_Tasks!listVars
<1> USE DEF TaskInv, Inv, TypeInv
<1>1. /\ session = "up" /\ UNCHANGED <<session, dl, downloads, RestartImage>>
      BY DEF SessionInv, PersistLock, PersistStep, PersistRead, PersistWrite,
             PersistWritten, PersistRename, PersistFault, AfterPersist, listVars,
             opVars, RestartImage
<1>2. ListImage' = ListImage BY <1>1 DEF ListImage, StatusOf
<1>3. p # Nil BY NilAssumption
<1>4. CASE PersistLock(p)
  <2>1. /\ stateMu = Nil /\ stateMu' = p /\ snap' = downloads /\ recs' = NoEntry
        /\ UNCHANGED stateFile
        BY <1>4 DEF PersistLock
  <2>2. PendImage = Nil BY <2>1 DEF PendImage
  <2>3. PendImage' = Listed BY <2>1, <1>3 DEF PendImage, NoEntry, Listed
  <2>4. Tasks!Present = Listed BY DEF Tasks!Present, ListImage, StatusOf, Listed
  <2>5. Saved' = Saved BY <2>1 DEF Saved
  <2> QED BY <1>1, <1>2, <2>2, <2>3, <2>4, <2>5 DEF Tasks!Next, Tasks!BeginSave
<1>5. ASSUME NEW h \in Hashes, PersistRead(p, h) PROVE UNCHANGED Tasks!listVars
  <2>1. SkipOf(snap[h]) # Nil BY SkipType, NilAssumption
  <2>2. /\ recs' = [recs EXCEPT ![h] = SkipOf(snap[h])]
        /\ snap' = [snap EXCEPT ![h] = Nil] /\ snap[h] # Nil
        /\ UNCHANGED <<stateMu, stateFile>>
        BY <1>5 DEF PersistRead
  <2>3. PendImage' = PendImage BY <2>1, <2>2 DEF PendImage, TypeOK, FileImages
  <2>4. Saved' = Saved BY <2>2 DEF Saved
  <2> QED BY <1>1, <1>2, <2>3, <2>4 DEF Tasks!listVars
<1>6. CASE PersistWrite(p) \/ PersistWritten(p)
  <2>1. UNCHANGED <<stateMu, snap, recs, stateFile>>
        BY <1>6 DEF PersistWrite, PersistWritten
  <2> QED BY <1>1, <1>2, <2>1 DEF Tasks!listVars, PendImage, Saved
<1>7. CASE PersistRename(p) \/ PersistFault(p)
  <2>1. /\ stateMu = p /\ snap = NoEntry /\ stateMu' = Nil
        BY <1>7 DEF PersistRename, PersistFault, AfterPersist, SaveInv, Saving
  <2> DEFINE R == {h \in Hashes : recs[h] # Nil}
  <2>2. PendImage = R BY <1>3, <2>1 DEF PendImage, NoEntry
  <2>3. PendImage # Nil
    <3>1. R \in SUBSET Hashes OBVIOUS
    <3> QED BY <2>2, <3>1, NilAssumption
  <2>4. PendImage' = Nil BY <2>1 DEF PendImage
  <2>5. \/ Saved' = PendImage
        \/ "disk" \in Faults /\ Saved' = Saved
    <3>1. CASE PersistRename(p)
      <4>1. stateFile' = recs /\ recs # Torn
            BY <3>1, TornAssumption DEF PersistRename, SaveInv, TypeOK
      <4> QED BY <2>2, <4>1 DEF Saved
    <3>2. CASE PersistFault(p) BY <3>2 DEF PersistFault, Saved
    <3> QED BY <1>7, <3>1, <3>2
  <2> QED BY <1>1, <1>2, <2>3, <2>4, <2>5 DEF Tasks!Next, Tasks!EndSave
<1> QED BY <1>4, <1>5, <1>6, <1>7 DEF PersistStep

(* The callers' other steps.                                               *)
LEMMA ImageCall ==
    ASSUME TaskInv, NEW p \in Procs, UserStep(p) \/ CallStep(p), ~Exit(p), ~PersistStep(p)
    PROVE  [Tasks!Next]_Tasks!listVars
<1> USE DEF TaskInv, Inv, TypeInv
<1>0. /\ job[p] \in JobType /\ OpAt(p, pc[p], job[p])
      /\ pc[p] \notin {"snapshot", "drop", "readd", "track"} => Held(job[p]) = Nil
      BY DEF TypeOK, OpInv, OpAt, Held
<1>1. ASSUME NEW h \in Hashes, RemoveTake(p, h) \/ RestartTake(p, h)
      PROVE  Tasks!Next
  <2>1. PICK op, label : /\ Take(p, h, op, label) /\ op \in {"remove", "restart"}
        BY <1>1 DEF RemoveTake, RestartTake
  <2>2. /\ session = "up" /\ downloads[h] # Nil /\ p \in Managers /\ pc[p] = "idle"
        /\ downloads' = [downloads EXCEPT ![h] = Nil]
        /\ UNCHANGED <<session, dl, persistVars>>
        BY <2>1 DEF Take, Ready
  <2>3. StatusOf(h) \in Tasks!Alive BY <2>2 DEF StatusOf, Tasks!Alive
  <2>4. StatusOf(h)' = "absent" BY <2>2 DEF StatusOf, TypeOK
  <2>5. \A k \in Hashes : k # h => StatusOf(k)' = StatusOf(k)
        BY <2>2 DEF StatusOf, TypeOK
  <2>6. Tasks!Become(h, Tasks!Alive, "absent")
        BY <2>2, <2>3, <2>4, <2>5, ImageBecome
  <2> DEFINE j == [Job(op, h) EXCEPT !.d = downloads[h], !.t = dl[downloads[h]].t]
  <2>7. Held(j) = IF op = "restart" THEN h ELSE Nil BY DEF Job, NoJob, Held
  <2>8. job' = [job EXCEPT ![p] = j] BY <2>1 DEF Take
  <2> HIDE DEF j
  <2>9. Held(job[p]) = Nil /\ RestartImage[p] = Nil
        BY <1>0, <2>2 DEF RestartImage, Held
  <2>10. CASE op = "remove"
    <3>1. UNCHANGED RestartImage BY <2>7, <2>8, <2>9, <2>10, RestartMoves
    <3> QED BY <2>2, <2>6, <3>1 DEF Tasks!Next, Tasks!Forget
  <2>11. CASE op = "restart"
    <3>1. RestartImage' = [RestartImage EXCEPT ![p] = h]
          BY <2>7, <2>8, <2>11, RestartMoves
    <3>2. Tasks!Restart(p, h) BY <2>2, <2>6, <2>9, <3>1 DEF Tasks!Restart
    <3> QED BY <2>2, <3>2 DEF Tasks!Next
  <2> QED BY <2>1, <2>10, <2>11
<1>2. ASSUME NEW d \in DownloadIds, NEW b \in BOOLEAN,
             \/ SetPaused(p, d, b) \/ SetAllWanted(p, d, b)
             \/ \E f \in Files : SetFileWanted(p, d, f, b)
      PROVE  UNCHANGED Tasks!listVars
  <2>1. PICK wanted, paused :
           /\ wanted = Nil <=> dl[d].wanted = Nil
           /\ Choose(d, wanted, paused)
           /\ UNCHANGED <<session, downloads, opVars, persistVars>>
        BY <1>2, ManagedChoice
  <2>2. \A e \in DownloadIds : /\ dl'[e].err = dl[e].err
                               /\ dl'[e].wanted = Nil <=> dl[e].wanted = Nil
        BY <2>1 DEF Choose, TypeOK, DownloadType
  <2>3. UNCHANGED RestartImage BY <2>1 DEF RestartImage, opVars
  <2> QED BY <2>1, <2>2, <2>3, ImageSame
<1>3. CASE Track(p)
  <2>0. PICK h \in Hashes : h = job[p].h BY <1>3 DEF Track, JobInv
  <2>1. /\ session = "up" /\ UNCHANGED <<session, persistVars>>
        /\ h = job[p].h /\ job[p].t \in TorrentIds
        BY <1>3, <2>0 DEF Track, SessionInv, JobInv
  <2>2. PICK j : job' = [job EXCEPT ![p] = j] /\ Held(j) = Nil
    <3>1. PICK d : Tracked(p, d) BY <1>3 DEF Track
    <3>2. [Job("add", job[p].h) EXCEPT !.d = d, !.paused = TRUE].op = "add"
          /\ NoJob.op = "none"
          BY DEF Job, NoJob
    <3> QED BY <3>1, <3>2 DEF Tracked, Held
  <2>3. CASE job[p].op # "restart"
    <3>1. UNCHANGED RestartImage BY <2>2, <2>3, RestartMoves DEF Held
    <3>2. CASE UNCHANGED listVars BY <2>1, <3>1, <3>2, ImageQuiet
    <3>3. CASE ~Healthy(h) /\ Register(h, job[p].t, job[p].skip)
      <4>1. Tasks!Become(h, {"absent", "failed"}, "waiting")
            BY <2>1, <3>3, ImageRegister
      <4> QED BY <2>1, <3>1, <4>1 DEF Tasks!Next, Tasks!Start
    <3> QED BY <1>3, <2>1, <3>2, <3>3 DEF Track
  <2>4. CASE job[p].op = "restart"
    <3>1. p \in Managers BY <1>0, <2>4 DEF OpAt
    <3>2. /\ RestartImage[p] = h
          /\ RestartImage' = [RestartImage EXCEPT ![p] = Nil]
          BY <2>1, <2>2, <2>4, <3>1, RestartMoves DEF RestartImage
    <3>3. \/ Tasks!Become(h, {"absent", "failed"}, "waiting")
          \/ Tasks!Become(h, {"waiting", "active"}, ListImage[h])
      <4>1. CASE Healthy(h) /\ UNCHANGED listVars
        <5>1. StatusOf(h) \in {"waiting", "active"} BY <4>1 DEF StatusOf, Healthy
        <5>2. \A k \in Hashes : StatusOf(k)' = StatusOf(k)
              BY <4>1 DEF StatusOf, listVars
        <5>3. PICK s : s = StatusOf(h) OBVIOUS
        <5>4. Tasks!Become(h, {"waiting", "active"}, s)
              BY <2>1, <5>1, <5>2, <5>3, ImageBecome
        <5>5. ListImage[h] = s BY <5>3 DEF ListImage
        <5> QED BY <5>4, <5>5
      <4>2. CASE ~Healthy(h) /\ Register(h, job[p].t, job[p].skip)
            BY <2>1, <4>2, ImageRegister
      <4> QED BY <1>3, <2>1, <4>1, <4>2 DEF Track
    <3>4. Tasks!Restarted(p, h) BY <2>1, <3>2, <3>3 DEF Tasks!Restarted
    <3> QED BY <2>1, <3>1, <3>4 DEF Tasks!Next
  <2> QED BY <2>3, <2>4
<1>4. CASE AddPause(p)
  <2>1. /\ UNCHANGED <<session, downloads, persistVars>> /\ job[p].d \in DownloadIds
        /\ Choose(job[p].d, dl[job[p].d].wanted, TRUE)
        /\ job' = [job EXCEPT ![p] = NoJob] /\ pc[p] = "pause"
        BY <1>4 DEF AddPause, JobInv
  <2>2. \A e \in DownloadIds : dl'[e].err = dl[e].err /\ dl'[e].wanted = dl[e].wanted
        BY <2>1 DEF Choose, TypeOK, DownloadType
  <2>3. Held(NoJob) = Nil BY DEF NoJob, Held
  <2>4. UNCHANGED RestartImage BY <1>0, <2>1, <2>3, RestartMoves
  <2> QED BY <2>1, <2>2, <2>4, ImageSame
<1>5. ASSUME UNCHANGED <<session, listVars, persistVars>>,
             \E j : job' = [job EXCEPT ![p] = j] /\ Held(j) = Held(job[p])
      PROVE  UNCHANGED Tasks!listVars
      BY <1>5, RestartMoves, ImageQuiet
<1>6. ASSUME NEW h \in Hashes, NEW paused \in BOOLEAN, AddTorrent(p, h, paused)
      PROVE  UNCHANGED Tasks!listVars
  <2> DEFINE j == [Job("add", h) EXCEPT !.t = HandleFor(h), !.paused = paused]
  <2>1. Held(j) = Nil BY DEF Job, NoJob, Held
  <2>2. job' = [job EXCEPT ![p] = j] /\ pc[p] = "idle"
        BY <1>6 DEF AddTorrent, Ready
  <2> HIDE DEF j
  <2> QED BY <1>0, <1>5, <1>6, <2>1, <2>2 DEF AddTorrent
<1>7. CASE Quit(p)
  <2> DEFINE j == [NoJob EXCEPT !.op = "quit"]
  <2>1. Held(j) = Nil BY DEF NoJob, Held
  <2>2. job' = [job EXCEPT ![p] = j] /\ pc[p] = "idle" BY <1>7 DEF Quit, Ready
  <2> HIDE DEF j
  <2> QED BY <1>0, <1>5, <1>7, <2>1, <2>2 DEF Quit
<1>8. CASE RestartSnapshot(p)
  <2> DEFINE k == torrent[job[p].t].info
             s == IF ~k /\ SkipOf(job[p].d) = {} THEN dl[job[p].d].skip ELSE SkipOf(job[p].d)
             j == [job[p] EXCEPT !.d = Nil, !.info = k, !.skip = s]
  <2>1. job' = [job EXCEPT ![p] = j] BY <1>8 DEF RestartSnapshot
  <2>2. j.op = job[p].op /\ j.h = job[p].h BY <1>0 DEF JobType
  <2> HIDE DEF j
  <2>3. Held(j) = Held(job[p]) BY <2>2 DEF Held
  <2> QED BY <1>5, <1>8, <2>1, <2>3 DEF RestartSnapshot
<1>9. CASE Drop(p)
  <2>1. job = [job EXCEPT ![p] = job[p]] BY DEF TypeOK
  <2>2. Held(NoJob) = Nil BY DEF NoJob, Held
  <2>3. \E j : job' = [job EXCEPT ![p] = j] /\ Held(j) = Held(job[p])
    <3>1. CASE job[p].op = "restart" BY <1>9, <2>1, <3>1 DEF Drop
    <3>2. CASE job[p].op # "restart"
      <4>1. job' = [job EXCEPT ![p] = NoJob] BY <1>9, <3>2 DEF Drop
      <4>2. Held(job[p]) = Nil BY <3>2 DEF Held
      <4> QED BY <2>2, <4>1, <4>2
    <3> QED BY <3>1, <3>2
  <2> QED BY <1>5, <1>9, <2>3 DEF Drop
<1>10. CASE RestartReadd(p)
  <2> DEFINE j == [job[p] EXCEPT !.t = HandleFor(job[p].h), !.info = FALSE]
  <2>1. job' = [job EXCEPT ![p] = j] BY <1>10 DEF RestartReadd
  <2>2. j.op = job[p].op /\ j.h = job[p].h BY <1>0 DEF JobType
  <2> HIDE DEF j
  <2>3. Held(j) = Held(job[p]) BY <2>2 DEF Held
  <2> QED BY <1>5, <1>10, <2>1, <2>3 DEF RestartReadd
<1>11. CASE RestartRefused(p)
  <2>1. /\ "readd" \in Faults /\ job' = [job EXCEPT ![p] = NoJob]
        /\ UNCHANGED <<session, listVars, persistVars>>
        /\ p \in Managers /\ job[p].op = "restart" /\ job[p].h \in Hashes
        BY <1>0, <1>11 DEF RestartRefused, OpAt, JobInv
  <2>2. Held(NoJob) = Nil BY DEF NoJob, Held
  <2>3. /\ RestartImage[p] = job[p].h
        /\ RestartImage' = [RestartImage EXCEPT ![p] = Nil]
        BY <2>1, <2>2, RestartMoves DEF RestartImage
  <2>4. UNCHANGED <<ListImage, Saved, PendImage>>
        BY <2>1 DEF ListImage, StatusOf, Saved, PendImage, listVars, persistVars
  <2>5. Tasks!Refused(p, job[p].h) BY <2>1, <2>3, <2>4 DEF Tasks!Refused
  <2> QED BY <2>1, <2>5 DEF Tasks!Next
<1> QED
    BY <1>1, <1>2, <1>3, <1>4, <1>6, <1>7, <1>8, <1>9, <1>10, <1>11
    DEF UserStep, CallStep

(* Starting, restoring and ending a session.                               *)
LEMMA ImageSession ==
    ASSUME TaskInv, RestoreStep \/ Boot \/ (session # "down" /\ Die)
    PROVE  [Tasks!Next]_Tasks!listVars
<1> USE DEF TaskInv, Inv, TypeInv
<1>1. CASE session # "down" /\ Die
  <2>1. /\ session' = "down" /\ downloads' = NoEntry /\ stateMu' = Nil
        /\ UNCHANGED stateFile
        BY <1>1 DEF Die
  <2>2. ListImage' = Tasks!Empty
        BY <2>1 DEF ListImage, StatusOf, NoEntry, Tasks!Empty
  <2>3. PendImage' = Nil /\ Saved' = Saved BY <2>1 DEF PendImage, Saved
  <2>4. RestartImage' = Tasks!NoRestart
        BY <1>1 DEF Die, NoJobs, NoJob, RestartImage, Tasks!NoRestart, Procs
  <2> QED BY <1>1, <2>1, <2>2, <2>3, <2>4 DEF Tasks!Next, Tasks!Stop
<1>2. CASE Boot
  <2>1. UNCHANGED <<listVars, persistVars, RestartImage>>
        BY <1>2 DEF Boot, RestartImage, opVars
  <2>2. ListImage' = ListImage BY <2>1 DEF ListImage, StatusOf, listVars
  <2>3. PendImage' = PendImage /\ Saved' = Saved
        BY <2>1 DEF PendImage, Saved, persistVars
  <2> QED BY <1>2, <2>1, <2>2, <2>3 DEF Boot, Tasks!Next, Tasks!Boot
<1>3. CASE RestoreDone
  <2>1. /\ session = "restoring" /\ todo = {} /\ session' = "up"
        /\ UNCHANGED <<listVars, persistVars, RestartImage>>
        BY <1>3 DEF RestoreDone, RestartImage, opVars
  <2>2. ListImage' = ListImage BY <2>1 DEF ListImage, StatusOf, listVars
  <2>3. PendImage' = PendImage /\ Saved' = Saved
        BY <2>1 DEF PendImage, Saved, persistVars
  <2>4. Tasks!Present = Listed BY DEF Tasks!Present, ListImage, StatusOf, Listed
  <2>5. \/ Listed = Saved
        \/ "read" \in Faults /\ Listed = {}
        \/ "readd" \in Faults /\ Listed \subseteq Saved
        BY <2>1 DEF RestoreInv
  <2> QED BY <2>1, <2>2, <2>3, <2>4, <2>5 DEF Tasks!Next, Tasks!Restored
<1>4. ASSUME NEW h \in Hashes, RestoreTask(h) PROVE Tasks!Next
  <2>1. /\ session = "restoring" /\ h \in Saved /\ downloads[h] = Nil
        /\ UNCHANGED <<session, persistVars, RestartImage>>
        BY <1>4 DEF RestoreTask, RestoreInv, SessionInv, Saved, Listed, RestartImage,
                    opVars
  <2>2. HandleFor(h) \in TorrentIds BY <1>4, ClientAddType DEF RestoreTask, TypeOK
  <2>3. Tasks!Become(h, {"absent"}, "waiting")
        BY <1>4, <2>1, <2>2, ImageRegister DEF RestoreTask, Healthy
  <2> QED BY <2>1, <2>3 DEF Tasks!Next, Tasks!Restore
<1>5. ASSUME NEW h \in Hashes, RestoreRefused(h) PROVE UNCHANGED Tasks!listVars
      BY <1>5, ImageQuiet DEF RestoreRefused, RestartImage, opVars
<1> QED BY <1>1, <1>2, <1>3, <1>4, <1>5 DEF RestoreStep

(* The engine implements the abstract task list for every set of faults:   *)
(* whatever its threads, goroutines and crashes do, the list moves as an   *)
(* add, a removal, a metadata arrival or a timeout moves it, the saved     *)
(* list is one the map really held, a restart puts its task back unless    *)
(* the re-add may be refused, and a session starts from what was saved     *)
(* unless the read of the file or a re-add may fail.                       *)
THEOREM TaskListImplemented == Spec => ImplementsTaskList
<1>1. Init => Tasks!Init
  <2> SUFFICES ASSUME Init PROVE Tasks!Init OBVIOUS
  <2>1. ListImage = Tasks!Empty
        BY DEF Init, ListImage, StatusOf, NoEntry, Tasks!Empty
  <2>2. PendImage = Nil /\ Saved \in SUBSET Hashes BY DEF Init, PendImage, Saved
  <2>3. RestartImage = Tasks!NoRestart
        BY DEF Init, NoJobs, NoJob, RestartImage, Tasks!NoRestart, Procs
  <2> QED BY <2>1, <2>2, <2>3 DEF Init, Tasks!Init
<1>2. TaskInv /\ [Next]_vars => [Tasks!Next]_Tasks!listVars
  <2> SUFFICES ASSUME TaskInv, [Next]_vars PROVE [Tasks!Next]_Tasks!listVars OBVIOUS
  <2>1. CASE UNCHANGED vars
        BY <2>1, ImageQuiet DEF vars, opVars, RestartImage
  <2>2. ASSUME NEW p \in Procs, UserStep(p) \/ PersistLock(p) \/ CallStep(p)
        PROVE  [Tasks!Next]_Tasks!listVars
    <3>1. CASE Exit(p)
      <4>1. session # "down" /\ Die
            BY <3>1 DEF Exit, TaskInv, Inv, TypeInv, SessionInv
      <4> QED BY <4>1, ImageSession
    <3>2. CASE PersistLock(p) \/ PersistStep(p) BY <3>2, ImagePersist
    <3> QED BY <2>2, <3>1, <3>2, ImageCall
  <2>3. ASSUME NEW t \in TorrentIds, GotInfo(t) PROVE UNCHANGED Tasks!listVars
        BY <2>3, ImageQuiet DEF GotInfo, opVars, RestartImage
  <2>4. ASSUME NEW d \in DownloadIds, AwaitStep(d)
        PROVE  [Tasks!Next]_Tasks!listVars
        BY <2>4, ImageAwait
  <2>5. CASE RestoreStep \/ Boot \/ Crash
    <3>1. RestoreStep \/ Boot \/ (session # "down" /\ Die) BY <2>5 DEF Crash
    <3> QED BY <3>1, ImageSession
  <2> QED BY <2>1, <2>2, <2>3, <2>4, <2>5 DEF Next
<1> QED BY <1>1, <1>2, TaskInvariance, PTL DEF Spec, ImplementsTaskList, Tasks!Spec
-----------------------------------------------------------------------------
(* Priorities follow the selection.  A Download that is no longer listed   *)
(* may still share the open handle of one that is: then it has failed and  *)
(* is about to drop it, or a manager is.                                   *)

Taker(t) == \E p \in Managers : pc[p] \in {"snapshot", "drop"} /\ job[p].t = t

OpenInv ==
    \A d \in DownloadIds :
        dl[d].stage # "free" /\ torrent[dl[d].t].open =>
            \/ \E h \in Hashes : downloads[h] = d
            \/ dl[d].stage = "dropping"
            \/ Taker(dl[d].t)

(* The handle of a listed Download requests what was asked for.            *)
Projected(h) ==
    LET d == dl[downloads[h]] IN
    torrent[d.t].open /\ d.wanted # Nil /\ ~Taker(d.t)
      => torrent[d.t].prio = IF d.paused THEN {} ELSE d.wanted

PrioInv == \A h \in Listed : Projected(h)

ShareInv == OpenInv /\ PrioInv

(* A step of another thread, or before or within its own taking, leaves a  *)
(* taker a taker.                                                          *)
LEMMA TakerKept ==
    ASSUME TypeInv, NEW p \in Procs, NEW l, NEW j,
           pc' = [pc EXCEPT ![p] = l], job' = [job EXCEPT ![p] = j],
           pc[p] \in {"snapshot", "drop"} => l = "drop" /\ j.t = job[p].t,
           NEW t, Taker(t)
    PROVE  Taker(t)'
<1>1. PICK q \in Managers : pc[q] \in {"snapshot", "drop"} /\ job[q].t = t BY DEF Taker
<1>2. q \in Procs BY DEF Procs
<1>3. pc'[q] \in {"snapshot", "drop"} /\ job'[q].t = t
      BY <1>1, <1>2 DEF TypeInv, TypeOK
<1> QED BY <1>3 DEF Taker

(* An unlisted Download keeps its excuse unless its handle closes.         *)
LEMMA OpenKept ==
    ASSUME TaskInv, OpenInv, Aged,
           \A d \in DownloadIds :
               /\ dl'[d].t = dl[d].t
               /\ dl'[d].stage # "free" => dl[d].stage # "free"
               /\ dl[d].stage = "dropping" /\ torrent'[dl[d].t].open
                     => dl'[d].stage = "dropping",
           \A h \in Hashes : downloads'[h] # downloads[h] /\ downloads[h] # Nil =>
               \A t \in TorrentIds : t = dl[downloads[h]].t => Taker(t)',
           \A t \in TorrentIds : Taker(t) => Taker(t)' \/ ~torrent'[t].open
    PROVE  OpenInv'
<1> SUFFICES ASSUME NEW d \in DownloadIds, dl'[d].stage # "free",
                    torrent'[dl'[d].t].open
             PROVE  \/ \E h \in Hashes : downloads'[h] = d
                    \/ dl'[d].stage = "dropping"
                    \/ \A t \in TorrentIds : t = dl[d].t => Taker(t)'
    BY DEF OpenInv, Taker, TaskInv, DownloadsInv, Consistent
<1>1. /\ dl[d].stage # "free" /\ dl'[d].t = dl[d].t /\ torrent'[dl[d].t].open
      OBVIOUS
<1>2. dl[d].t \in TorrentIds /\ torrent[dl[d].t].hash # Nil
      BY <1>1, NilAssumption DEF TaskInv, DownloadsInv, Consistent
<1>3. torrent[dl[d].t].open BY <1>1, <1>2 DEF Aged
<1>4. ASSUME NEW h \in Hashes, downloads[h] = d
      PROVE  downloads'[h] = d \/ \A t \in TorrentIds : t = dl[d].t => Taker(t)'
      BY <1>4, NilAssumption
<1> QED BY <1>1, <1>2, <1>3, <1>4 DEF OpenInv

(* A listed Download that is left alone keeps its priorities, unless its   *)
(* handle closes.                                                          *)
LEMMA PrioKept ==
    ASSUME TaskInv, PrioInv, Aged, NEW h \in Hashes,
           downloads'[h] # Nil, downloads'[h] = downloads[h],
           dl'[downloads[h]].t = dl[downloads[h]].t,
           dl'[downloads[h]].wanted = dl[downloads[h]].wanted,
           dl'[downloads[h]].paused = dl[downloads[h]].paused,
           LET t == dl[downloads[h]].t IN
               torrent'[t].open => torrent'[t].prio = torrent[t].prio,
           \A t \in TorrentIds : Taker(t) => Taker(t)' \/ ~torrent'[t].open
    PROVE  Projected(h)'
<1> DEFINE d == downloads[h]
           t == dl[d].t
<1>1. h \in Listed BY DEF Listed
<1>2. /\ d \in DownloadIds /\ t \in TorrentIds /\ torrent[t].hash # Nil
      BY <1>1, NilAssumption
      DEF TaskInv, Inv, TypeInv, TypeOK, Listed, ListInv, ListedInv
<1>3. torrent'[t].open => torrent[t].open BY <1>2 DEF Aged
<1>4. torrent[t].open /\ dl[d].wanted # Nil /\ ~Taker(t)
        => torrent[t].prio = IF dl[d].paused THEN {} ELSE dl[d].wanted
      BY <1>1 DEF PrioInv, Projected
<1>5. dl'[downloads'[h]].t = t BY DEF d, t
<1>6. ASSUME NEW u \in TorrentIds, u = t
      PROVE  /\ Taker(u) = Taker(t)
             /\ Taker(t)' = Taker(u)'
      BY <1>5, <1>6 DEF Taker
<1> SUFFICES ASSUME torrent'[t].open, dl[d].wanted # Nil, ~Taker(t)'
             PROVE  torrent'[t].prio = IF dl[d].paused THEN {} ELSE dl[d].wanted
    BY <1>5 DEF Projected
<1> QED BY <1>2, <1>3, <1>4, <1>6

(* Writing a selection to the handle of one Download disturbs no other:    *)
(* those it could share an open handle with are taken.                     *)
LEMMA AppliedPrio ==
    ASSUME TaskInv, ShareInv, NEW d \in DownloadIds, NEW w, NEW b,
           torrent' = Applied(d, w, b),
           w # Nil => dl[d].stage \notin {"free", "dropping"},
           \A e \in DownloadIds : e # d => dl'[e] = dl[e],
           dl'[d].t = dl[d].t, dl'[d].wanted = w, dl'[d].paused = b,
           UNCHANGED downloads,
           \A t \in TorrentIds : Taker(t) => Taker(t)'
    PROVE  PrioInv'
<1> USE DEF TaskInv, Inv, TypeInv
<1>1. Aged /\ torrent \in [TorrentIds -> TorrentType]
      BY AppliedAges DEF TypeOK
<1> SUFFICES ASSUME NEW h \in Hashes, downloads'[h] # Nil PROVE Projected(h)'
    BY DEF PrioInv, Listed
<1> DEFINE e == downloads[h]
           t == dl[e].t
<1>2. /\ h \in Listed /\ e \in DownloadIds /\ t \in TorrentIds
      /\ torrent[t].hash = h /\ dl[e].stage # "free"
      BY DEF Listed, TypeOK, ListInv, ListedInv
<1>3. CASE e = d
  <2>1. w # Nil => torrent' = [torrent EXCEPT
                      ![t].prio = IF torrent[t].open THEN IF b THEN {} ELSE w ELSE {}]
        BY <1>3 DEF Applied, Prioritised
  <2>2. w # Nil /\ torrent'[t].open => torrent'[t].prio = IF b THEN {} ELSE w
    <3> DEFINE prio == IF torrent[t].open THEN IF b THEN {} ELSE w ELSE {}
    <3>1. w # Nil => torrent'[t] = [torrent[t] EXCEPT !.prio = prio]
          BY <1>1, <1>2, <2>1
    <3>2. torrent[t] \in TorrentType BY <1>1, <1>2
    <3> QED BY <3>1, <3>2 DEF TorrentType
  <2> QED BY <1>3, <2>2 DEF Projected
<1>4. CASE e # d
  <2>1. dl'[e] = dl[e] BY <1>2, <1>4
  <2>2. CASE w = Nil \/ dl[d].t # t
    <3>1. torrent'[t] = torrent[t]
          BY <1>1, <1>2, <2>2 DEF Applied, Prioritised, TorrentType
    <3> QED BY <1>1, <1>2, <2>1, <3>1, PrioKept DEF ShareInv
  <2>3. CASE w # Nil /\ dl[d].t = t
    <3>1. torrent'[t].open => torrent[t].open
          BY <1>1, <1>2, NilAssumption DEF Aged
    <3>2. ASSUME NEW k \in Hashes, downloads[k] = d PROVE FALSE
      <4>1. k \in Listed BY <3>2, NilAssumption DEF Listed
      <4>2. torrent[dl[d].t].hash = k BY <3>2, <4>1 DEF ListedInv
      <4> QED BY <1>2, <1>4, <2>3, <3>2, <4>2
    <3>3. torrent'[t].open => Taker(t)'
          BY <1>2, <2>3, <3>1, <3>2 DEF ShareInv, OpenInv
    <3>4. dl'[downloads'[h]].t = t BY <2>1
    <3> QED BY <3>3, <3>4 DEF Projected, Taker
  <2> QED BY <2>2, <2>3
<1> QED BY <1>3, <1>4

(* Dropping a handle leaves what the others request.                       *)
LEMMA DropPrio ==
    ASSUME NEW t, torrent \in [TorrentIds -> TorrentType], ClientDrop(t),
           NEW u \in TorrentIds, torrent'[u].open
    PROVE  torrent'[u].prio = torrent[u].prio
<1>1. CASE u = t
  <2>1. torrent'[u] = [torrent[u] EXCEPT !.open = FALSE, !.prio = {}]
        BY <1>1 DEF ClientDrop
  <2> QED BY <2>1 DEF TorrentType
<1>2. CASE u # t BY <1>2 DEF ClientDrop
<1> QED BY <1>1, <1>2

(* A new Download requests nothing yet, and the failed one it replaces has *)
(* closed its handle or is about to.                                       *)
LEMMA ShareRegister ==
    ASSUME TaskInv, ShareInv, Aged, NEW h \in Hashes, NEW t \in TorrentIds, NEW skip,
           Register(h, t, skip), torrent'[t].hash = h, ~Healthy(h),
           \A u \in TorrentIds : /\ torrent'[u].prio = torrent[u].prio
                                 /\ Taker(u) => Taker(u)'
    PROVE  ShareInv'
<1> USE DEF TaskInv, Inv, TypeInv
<1>1. /\ Fresh \in DownloadIds /\ dl[Fresh].stage = "free"
      /\ \A k \in Hashes : downloads[k] # Fresh
      BY RegisterTask
<1> DEFINE n == NewDownload(t, skip)
<1>2. /\ dl' = [dl EXCEPT ![Fresh] = n] /\ downloads' = [downloads EXCEPT ![h] = Fresh]
      BY DEF Register
<1>3. n.wanted = Nil BY DEF NewDownload, NoDownload
<1> HIDE DEF n
<1>4. dl'[Fresh] = n /\ \A d \in DownloadIds : d # Fresh => dl'[d] = dl[d]
      BY <1>1, <1>2 DEF TypeOK
<1>5. downloads'[h] = Fresh /\ \A k \in Hashes : k # h => downloads'[k] = downloads[k]
      BY <1>2 DEF TypeOK
<1>6. OpenInv'
  <2> SUFFICES ASSUME NEW d \in DownloadIds, dl'[d].stage # "free",
                      torrent'[dl'[d].t].open, \A k \in Hashes : downloads'[k] # d
               PROVE  \/ dl'[d].stage = "dropping"
                      \/ \A u \in TorrentIds : u = dl[d].t => Taker(u)'
    <3>1. \A d \in DownloadIds : dl'[d].stage # "free" =>
             d = Fresh \/ (dl'[d].t = dl[d].t /\ dl[d].t \in TorrentIds)
          BY <1>4 DEF DownloadsInv, Consistent
    <3> QED BY <1>5, <3>1 DEF OpenInv, Taker
  <2>1. d # Fresh /\ dl'[d] = dl[d] BY <1>4, <1>5
  <2>2. dl[d].t \in TorrentIds /\ torrent[dl[d].t].hash # Nil
        BY <2>1, NilAssumption DEF DownloadsInv, Consistent
  <2>3. torrent[dl[d].t].open BY <2>1, <2>2 DEF Aged
  <2>4. CASE \E k \in Hashes : downloads[k] = d
    <3>1. downloads[h] = d BY <1>5, <2>4
    <3>2. dl[d].err BY <3>1, NilAssumption DEF Healthy
    <3>3. dl[d].stage = "dropping"
          BY <2>1, <2>3, <3>2 DEF DownloadsInv, Consistent, TypeOK, DownloadType, Stages
    <3> QED BY <2>1, <3>3
  <2> QED BY <2>1, <2>2, <2>3, <2>4 DEF ShareInv, OpenInv
<1>7. PrioInv'
  <2> SUFFICES ASSUME NEW k \in Hashes, downloads'[k] # Nil PROVE Projected(k)'
      BY DEF PrioInv, Listed
  <2>1. CASE k = h BY <2>1, <1>3, <1>4, <1>5 DEF Projected
  <2>2. CASE k # h
    <3>1. /\ downloads'[k] = downloads[k] /\ dl'[downloads[k]] = dl[downloads[k]]
          /\ dl[downloads[k]].t \in TorrentIds
          BY <1>1, <1>4, <1>5, <2>2 DEF TypeOK, ListInv, Listed
    <3> QED BY <3>1, PrioKept DEF ShareInv
  <2> QED BY <2>1, <2>2
<1> QED BY <1>6, <1>7 DEF ShareInv

(* Steps that touch no Download and no priority of an open handle.         *)
LEMMA ShareKept ==
    ASSUME TaskInv, ShareInv, Aged, UNCHANGED listVars,
           \A t \in TorrentIds :
               /\ torrent'[t].open => torrent'[t].prio = torrent[t].prio
               /\ Taker(t) => Taker(t)' \/ ~torrent'[t].open
    PROVE  ShareInv'
<1>1. OpenInv' BY OpenKept DEF ShareInv, listVars
<1>2. ASSUME NEW h \in Hashes, downloads'[h] # Nil PROVE Projected(h)'
  <2>1. dl[downloads[h]].t \in TorrentIds
        BY <1>2 DEF TaskInv, Inv, TypeInv, ListInv, Listed, listVars
  <2> QED BY <1>2, <2>1, PrioKept DEF ShareInv, listVars
<1> QED BY <1>1, <1>2 DEF ShareInv, PrioInv, Listed

(* The writers of the selection and the pause.                             *)
LEMMA ShareChoose ==
    ASSUME TaskInv, ShareInv, NEW d \in DownloadIds, NEW wanted, NEW paused,
           wanted = Nil <=> dl[d].wanted = Nil,
           Choose(d, wanted, paused), UNCHANGED downloads,
           \A t \in TorrentIds : Taker(t) => Taker(t)'
    PROVE  ShareInv'
<1>1. Aged BY ChooseTask
<1>2. /\ \A e \in DownloadIds : /\ dl'[e].t = dl[e].t /\ dl'[e].stage = dl[e].stage
                                /\ e # d => dl'[e] = dl[e]
      /\ dl'[d].wanted = wanted /\ dl'[d].paused = paused
      BY DEF Choose, TaskInv, Inv, TypeInv, TypeOK, DownloadType
<1>3. OpenInv' BY <1>1, <1>2, OpenKept DEF ShareInv
<1>4. wanted # Nil => dl[d].stage \notin {"free", "dropping"}
      BY DEF TaskInv, DownloadsInv, Consistent
<1>5. \A t : Taker(t) => t \in TorrentIds
  <2>1. ASSUME NEW t, NEW p \in Managers, pc[p] \in {"snapshot", "drop"}, job[p].t = t
        PROVE  t \in TorrentIds
        BY <2>1 DEF Procs, TaskInv, Inv, TypeInv, JobInv
  <2> QED BY <2>1 DEF Taker
<1>6. PrioInv' BY <1>2, <1>4, <1>5, AppliedPrio DEF Choose
<1> QED BY <1>3, <1>6 DEF ShareInv

(* awaitMetadata: initSelection writes what the handle requests, a timeout *)
(* closes it.                                                              *)
LEMMA ShareAwait ==
    ASSUME TaskInv, ShareInv, NEW d \in DownloadIds, AwaitStep(d)
    PROVE  ShareInv'
<1> USE DEF TaskInv, Inv, TypeInv
<1>1. Aged /\ AwaitFrame BY AwaitTask
<1>2. \A t : Taker(t) => Taker(t)' BY <1>1 DEF AwaitFrame, Taker, opVars
<1>3. /\ dl \in [DownloadIds -> DownloadType] /\ dl[d] \in DownloadType
      /\ torrent \in [TorrentIds -> TorrentType] /\ UNCHANGED downloads
      BY <1>1 DEF TypeOK, AwaitFrame
<1>4. Consistent(d) BY DEF DownloadsInv
<1>5. CASE AwaitSelected(d)
  <2> DEFINE w == Files \ dl[d].skip
  <2>1. /\ dl[d].stage = "recovering" /\ torrent' = Applied(d, w, dl[d].paused)
        /\ \A e \in DownloadIds : e # d => dl'[e] = dl[e]
        /\ dl'[d].t = dl[d].t /\ dl'[d].wanted = w /\ dl'[d].paused = dl[d].paused
        /\ dl'[d].stage = "done"
        BY <1>3, <1>5 DEF AwaitSelected, At, DownloadType
  <2> HIDE DEF w
  <2>2. PrioInv' BY <1>2, <1>3, <2>1, AppliedPrio
  <2>3. \A e \in DownloadIds :
           /\ dl'[e].t = dl[e].t
           /\ dl'[e].stage # "free" => dl[e].stage # "free"
           /\ dl[e].stage = "dropping" => dl'[e].stage = "dropping"
        BY <2>1
  <2>4. OpenInv' BY <1>1, <1>2, <1>3, <2>3, OpenKept DEF ShareInv
  <2> QED BY <2>2, <2>4 DEF ShareInv
<1>6. CASE AwaitInfo(d) \/ AwaitClosed(d) \/ AwaitTimeout(d) \/ AwaitDrop(d)
  <2>1. /\ \A e \in DownloadIds :
              /\ dl'[e].t = dl[e].t /\ dl'[e].wanted = dl[e].wanted
              /\ dl'[e].paused = dl[e].paused
              /\ e # d => dl'[e] = dl[e]
        /\ dl[d].stage # "free"
    <3> USE <1>3 DEF At, DownloadType
    <3>1. CASE AwaitInfo(d) BY <3>1 DEF AwaitInfo
    <3>2. CASE AwaitClosed(d) BY <3>2 DEF AwaitClosed
    <3>3. CASE AwaitTimeout(d) BY <3>3 DEF AwaitTimeout
    <3>4. CASE AwaitDrop(d) BY <3>4 DEF AwaitDrop
    <3> QED BY <1>6, <3>1, <3>2, <3>3, <3>4
  <2>2. dl[d].t \in TorrentIds BY <1>4, <2>1 DEF Consistent
  <2>3. \A t \in TorrentIds : torrent'[t].open => torrent'[t].prio = torrent[t].prio
        BY <1>3, <1>6, DropPrio DEF AwaitInfo, AwaitClosed, AwaitTimeout, AwaitDrop
  <2>4. dl[d].stage = "dropping" => ~torrent'[dl[d].t].open
        BY <1>3, <1>6, <2>2, DropAges
        DEF AwaitInfo, AwaitClosed, AwaitTimeout, AwaitDrop, At
  <2>5. OpenInv' BY <1>1, <1>2, <1>3, <2>1, <2>4, OpenKept DEF ShareInv
  <2>6. ASSUME NEW h \in Hashes, downloads'[h] # Nil PROVE Projected(h)'
    <3>1. downloads[h] \in DownloadIds /\ dl[downloads[h]].t \in TorrentIds
          BY <1>3, <2>6 DEF TypeOK, ListInv, Listed
    <3> QED BY <1>1, <1>2, <1>3, <2>1, <2>3, <2>6, <3>1, PrioKept DEF ShareInv
  <2> QED BY <2>5, <2>6 DEF ShareInv, PrioInv, Listed
<1> QED BY <1>5, <1>6 DEF AwaitStep

(* The calls of users and what follows from them.                          *)
LEMMA ShareCall ==
    ASSUME TaskInv, ShareInv, NEW p \in Procs,
           UserStep(p) \/ PersistLock(p) \/ CallStep(p), ~Exit(p)
    PROVE  ShareInv'
<1> USE DEF TaskInv, Inv, TypeInv
<1>1. torrent \in [TorrentIds -> TorrentType] /\ dl \in [DownloadIds -> DownloadType]
      BY DEF TypeOK
<1>2. Aged BY CallTask
<1>3. UNCHANGED torrent =>
         \A t \in TorrentIds : torrent'[t].open => torrent'[t].prio = torrent[t].prio
      OBVIOUS
<1>4. ASSUME NEW h \in Hashes, NEW known \in BOOLEAN, ClientAdd(h, known)
      PROVE  \A t \in TorrentIds : torrent'[t].prio = torrent[t].prio
      BY <1>1, <1>4, HandleReused
<1>5. ASSUME NEW h \in Hashes, NEW paused \in BOOLEAN, AddTorrent(p, h, paused)
      PROVE  ShareInv'
  <2>1. PICK j : /\ pc[p] = "idle" /\ job' = [job EXCEPT ![p] = j]
                 /\ pc' = [pc EXCEPT ![p] = "track"]
        BY <1>5 DEF AddTorrent, Ready, Goto
  <2>2. \A t \in TorrentIds : Taker(t) => Taker(t)' BY <2>1, TakerKept
  <2> QED BY <1>2, <1>4, <1>5, <2>2, ShareKept DEF AddTorrent
<1>6. ASSUME NEW h \in Hashes, RemoveTake(p, h) \/ RestartTake(p, h)
      PROVE  ShareInv'
  <2>1. PICK op \in {"remove", "restart"}, label \in {"drop", "snapshot"} :
           Take(p, h, op, label)
        BY <1>6 DEF RemoveTake, RestartTake
  <2> DEFINE j == [Job(op, h) EXCEPT !.d = downloads[h], !.t = dl[downloads[h]].t]
  <2>2. j.t = dl[downloads[h]].t BY DEF Job, NoJob
  <2>3. /\ job' = [job EXCEPT ![p] = j] /\ pc' = [pc EXCEPT ![p] = label]
        /\ downloads' = [downloads EXCEPT ![h] = Nil] /\ pc[p] = "idle"
        /\ p \in Managers /\ UNCHANGED <<torrent, dl>>
        BY <2>1 DEF Take, Ready, Goto
  <2> HIDE DEF j
  <2>4. \A t \in TorrentIds : Taker(t) => Taker(t)' BY <2>3, TakerKept
  <2>5. \A t \in TorrentIds : t = dl[downloads[h]].t => Taker(t)'
    <3>1. pc'[p] = label /\ job'[p] = j BY <2>3 DEF TypeOK
    <3> QED BY <2>2, <2>3, <3>1 DEF Taker
  <2>6. \A k \in Hashes : downloads'[k] = IF k = h THEN Nil ELSE downloads[k]
        BY <2>3 DEF TypeOK
  <2>7. OpenInv' BY <1>2, <2>3, <2>4, <2>5, <2>6, OpenKept DEF ShareInv
  <2>8. ASSUME NEW k \in Hashes, downloads'[k] # Nil PROVE Projected(k)'
        BY <1>2, <2>3, <2>4, <2>6, <2>8, PrioKept DEF ShareInv
  <2> QED BY <2>7, <2>8 DEF ShareInv, PrioInv, Listed
<1>7. ASSUME NEW d \in DownloadIds, NEW b \in BOOLEAN,
             \/ SetPaused(p, d, b) \/ SetAllWanted(p, d, b)
             \/ \E f \in Files : SetFileWanted(p, d, f, b)
      PROVE  ShareInv'
  <2>1. PICK wanted, paused :
           /\ wanted = Nil <=> dl[d].wanted = Nil
           /\ Choose(d, wanted, paused) /\ UNCHANGED <<downloads, opVars>>
        BY <1>7, ManagedChoice
  <2>2. \A t \in TorrentIds : Taker(t) => Taker(t)' BY <2>1 DEF Taker, opVars
  <2> QED BY <2>1, <2>2, ShareChoose
<1>8. CASE AddPause(p)
  <2>1. /\ job[p].d \in DownloadIds /\ UNCHANGED downloads /\ pc[p] = "pause"
        /\ Choose(job[p].d, dl[job[p].d].wanted, TRUE)
        /\ job' = [job EXCEPT ![p] = NoJob] /\ pc' = [pc EXCEPT ![p] = "idle"]
        BY <1>8 DEF AddPause, JobInv, Goto
  <2>2. \A t \in TorrentIds : Taker(t) => Taker(t)' BY <2>1, TakerKept
  <2> QED BY <2>1, <2>2, ShareChoose
<1>9. CASE Track(p)
  <2>1. /\ job[p].h \in Hashes /\ job[p].t \in TorrentIds
        /\ torrent[job[p].t].hash = job[p].h /\ UNCHANGED torrent
        BY <1>9 DEF Track, JobInv, HandleInv
  <2>2. PICK j : /\ pc[p] = "track" /\ job' = [job EXCEPT ![p] = j]
                 /\ pc' = [pc EXCEPT ![p] = "plock"]
        BY <1>9 DEF Track, Tracked, Goto
  <2>3. \A t \in TorrentIds : Taker(t) => Taker(t)' BY <2>2, TakerKept
  <2>4. CASE UNCHANGED listVars BY <1>2, <1>3, <2>1, <2>3, <2>4, ShareKept
  <2>5. CASE ~Healthy(job[p].h) /\ Register(job[p].h, job[p].t, job[p].skip)
        BY <1>2, <2>1, <2>3, <2>5, ShareRegister
  <2> QED BY <1>9, <2>4, <2>5 DEF Track
<1>10. CASE RestartSnapshot(p)
  <2> DEFINE k == torrent[job[p].t].info
             s == IF ~k /\ SkipOf(job[p].d) = {} THEN dl[job[p].d].skip ELSE SkipOf(job[p].d)
             j == [job[p] EXCEPT !.d = Nil, !.info = k, !.skip = s]
  <2>1. /\ job' = [job EXCEPT ![p] = j] /\ pc' = [pc EXCEPT ![p] = "drop"]
        /\ UNCHANGED <<torrent, listVars>>
        BY <1>10 DEF RestartSnapshot, Goto
  <2>2. j.t = job[p].t BY DEF TypeOK, JobType
  <2> HIDE DEF j
  <2>3. \A t \in TorrentIds : Taker(t) => Taker(t)' BY <2>1, <2>2, TakerKept
  <2> QED BY <1>2, <1>3, <2>1, <2>3, ShareKept
<1>11. CASE Drop(p)
  <2>1. job[p].t \in TorrentIds /\ ~torrent'[job[p].t].open /\ UNCHANGED listVars
        BY <1>1, <1>11, DropAges DEF Drop, JobInv
  <2>2. \A t \in TorrentIds : torrent'[t].open => torrent'[t].prio = torrent[t].prio
        BY <1>1, <1>11, DropPrio DEF Drop
  <2>3. \A q \in Procs : q # p => pc'[q] = pc[q] /\ job'[q] = job[q]
        BY <1>11 DEF Drop, Goto, TypeOK
  <2>4. \A t \in TorrentIds : Taker(t) => Taker(t)' \/ ~torrent'[t].open
        BY <2>1, <2>3 DEF Taker, Procs
  <2> QED BY <1>2, <2>1, <2>2, <2>4, ShareKept
<1>12. CASE RestartReadd(p)
  <2>1. job[p].h \in Hashes /\ job[p].info \in BOOLEAN
        BY <1>12 DEF RestartReadd, JobInv, TypeOK, JobType
  <2>2. \A t \in TorrentIds : torrent'[t].prio = torrent[t].prio
        BY <1>4, <1>12, <2>1 DEF RestartReadd
  <2>3. PICK j : /\ pc[p] = "readd" /\ job' = [job EXCEPT ![p] = j]
                 /\ pc' = [pc EXCEPT ![p] = "track"]
        BY <1>12 DEF RestartReadd, Goto
  <2>4. \A t \in TorrentIds : Taker(t) => Taker(t)' BY <2>3, TakerKept
  <2> QED BY <1>2, <1>12, <2>2, <2>4, ShareKept DEF RestartReadd
<1>13. CASE RestartRefused(p) \/ Quit(p)
  <2>1. \E l \in {"idle", "plock"} : \E j :
           /\ pc[p] \notin {"snapshot", "drop"}
           /\ job' = [job EXCEPT ![p] = j] /\ pc' = [pc EXCEPT ![p] = l]
        BY <1>13 DEF RestartRefused, Quit, Ready, Goto
  <2>2. \A t \in TorrentIds : Taker(t) => Taker(t)' BY <2>1, TakerKept
  <2> QED BY <1>2, <1>3, <1>13, <2>2, ShareKept DEF RestartRefused, Quit
<1>14. CASE PersistLock(p) \/ PersistStep(p)
  <2>1. /\ UNCHANGED <<torrent, listVars, job>> /\ pc[p] \notin {"snapshot", "drop"}
        BY <1>14 DEF PersistLock, PersistStep, PersistRead, PersistWrite,
           PersistWritten, PersistRename, PersistFault, AfterPersist, opVars
  <2>2. \A q \in Procs : q # p => pc'[q] = pc[q]
        BY <1>14 DEF PersistLock, PersistStep, PersistRead, PersistWrite,
           PersistWritten, PersistRename, PersistFault, AfterPersist, Goto, opVars, TypeOK
  <2>3. \A t \in TorrentIds : Taker(t) => Taker(t)'
        BY <2>1, <2>2 DEF Taker, Procs
  <2> QED BY <1>2, <1>3, <2>1, <2>3, ShareKept
<1> QED
    BY <1>5, <1>6, <1>7, <1>8, <1>9, <1>10, <1>11, <1>12, <1>13, <1>14
    DEF UserStep, CallStep

(* The beginning and the end of a session, and the peers.                  *)
LEMMA ShareSession ==
    ASSUME TaskInv, ShareInv,
           RestoreStep \/ Boot \/ Die \/ \E t \in TorrentIds : GotInfo(t)
    PROVE  ShareInv'
<1> USE DEF TaskInv, Inv, TypeInv
<1>1. CASE Die
  <2>1. \A d \in DownloadIds : dl'[d].stage = "free"
        BY <1>1 DEF Die, NoDownloads, NoDownload
  <2>2. \A h \in Hashes : downloads'[h] = Nil BY <1>1 DEF Die, NoEntry
  <2> QED BY <2>1, <2>2 DEF ShareInv, OpenInv, PrioInv, Listed
<1>2. CASE Boot \/ RestoreDone
  <2>1. UNCHANGED <<torrent, listVars, opVars>> BY <1>2 DEF Boot, RestoreDone
  <2> QED BY <2>1, ShareKept DEF Aged, Taker, opVars
<1>3. ASSUME NEW t \in TorrentIds, GotInfo(t) PROVE ShareInv'
  <2>1. UNCHANGED <<listVars, opVars>> BY <1>3 DEF GotInfo
  <2>2. Aged /\ \A u \in TorrentIds : torrent'[u].prio = torrent[u].prio
        BY <1>3 DEF GotInfo, MetadataArrives, Aged, TypeOK, TorrentType
  <2> QED BY <2>1, <2>2, ShareKept DEF Taker, opVars
<1>4. ASSUME NEW h \in Hashes, RestoreTask(h) PROVE ShareInv'
  <2>1. /\ Aged /\ HandleFor(h) \in TorrentIds /\ torrent'[HandleFor(h)].hash = h
        /\ \A u \in TorrentIds : torrent'[u].prio = torrent[u].prio
        BY <1>4, HandleReused, AddAges DEF RestoreTask, TypeOK
  <2>2. ~Healthy(h) BY <1>4 DEF RestoreTask, RestoreInv, Listed, Healthy
  <2>3. \A u \in TorrentIds : Taker(u) => Taker(u)'
        BY <1>4 DEF RestoreTask, Taker, opVars
  <2> QED BY <1>4, <2>1, <2>2, <2>3, ShareRegister DEF RestoreTask
<1>5. ASSUME NEW h \in Hashes, RestoreRefused(h) PROVE ShareInv'
      BY <1>5, ShareKept DEF RestoreRefused, Aged, Taker, opVars
<1> QED BY <1>1, <1>2, <1>3, <1>4, <1>5 DEF RestoreStep

(* What the client requests is what the user asked for, in any number of   *)
(* threads: while a handle is open and nobody is about to drop it, only    *)
(* its listed Download has a say in its priorities.                        *)
THEOREM PrioritiesFollow == Spec => []PriorityFollowsSelection
<1>1. Init => ShareInv
      BY DEF Init, NoDownloads, NoDownload, NoEntry, ShareInv, OpenInv, PrioInv, Listed
<1>2. TaskInv /\ ShareInv /\ [Next]_vars => ShareInv'
  <2>1. ASSUME TaskInv, ShareInv, UNCHANGED vars PROVE ShareInv'
        BY <2>1, ShareKept DEF vars, opVars, Aged, Taker
  <2>2. ASSUME TaskInv, ShareInv, Next PROVE ShareInv'
        BY <2>2, ShareCall, ShareAwait, ShareSession DEF Next, CallStep, Exit, Crash
  <2> QED BY <2>1, <2>2
<1>3. TaskInv /\ ShareInv => PriorityFollowsSelection
  <2> SUFFICES ASSUME TaskInv, ShareInv, NEW h \in Listed, ~BeingTaken(h),
                      torrent[dl[downloads[h]].t].open, dl[downloads[h]].wanted # Nil
               PROVE  torrent[dl[downloads[h]].t].prio =
                         IF dl[downloads[h]].paused THEN {} ELSE dl[downloads[h]].wanted
      BY DEF PriorityFollowsSelection
  <2>1. torrent[dl[downloads[h]].t].hash = h BY DEF TaskInv, ListedInv
  <2>2. ~Taker(dl[downloads[h]].t)
        BY <2>1 DEF Taker, BeingTaken, TaskInv, HandleInv, Procs
  <2> QED BY <2>2 DEF ShareInv, PrioInv, Projected
<1> QED BY <1>1, <1>2, <1>3, TaskInvariance, PTL DEF Spec
-----------------------------------------------------------------------------
(* What Close saves.  While the thread that leaves saves, no other save    *)
(* goes on and nobody changes a selection; each task it copied is either   *)
(* still to be recorded or recorded exactly, until an add changes the list *)
(* and queues for a save of its own.                                       *)

OneManager == \A p, q \in Managers : p = q

(* The record r of h holds d's selection, or was made before d had one.    *)
Exact(r, h, d) == r = Files \ Selection(d) \/ (h \in early /\ r = {})

Taken(h) ==
    \/ snap[h] = downloads[h]
    \/ snap[h] = Nil /\ Exact(recs[h], h, downloads[h])

CloseInv ==
    \A p \in Procs :
        job[p].op = "quit" /\ pc[p] \in Saving
          => (\E q \in Adders : pc[q] = "plock") \/ \A h \in Listed : Taken(h)

(* A step that leaves selections, list and saves as they are, and nobody   *)
(* waiting any less.                                                       *)
LEMMA CloseKept ==
    ASSUME TaskInv, CloseInv, UNCHANGED <<downloads, persistVars>>,
           \A p \in Procs : job'[p].op = "quit" /\ pc'[p] \in Saving
                              => job[p].op = "quit" /\ pc[p] \in Saving,
           \A q \in Adders : pc[q] = "plock" => pc'[q] = "plock",
           \A d \in DownloadIds : Selection(d)' = Selection(d)
    PROVE  CloseInv'
<1> SUFFICES ASSUME NEW p \in Procs, job[p].op = "quit", pc[p] \in Saving,
                    \A q \in Adders : pc[q] # "plock", NEW h \in Listed
             PROVE  Taken(h)'
    BY DEF CloseInv, Listed
<1>1. Taken(h) BY DEF CloseInv
<1>2. downloads[h] \in DownloadIds BY DEF Listed, TaskInv, Inv, TypeInv, TypeOK
<1> QED BY <1>1, <1>2 DEF Taken, Exact, persistVars

(* What a save records of a Download now is exact.                         *)
LEMMA SkipExact ==
    ASSUME TaskInv, NEW h \in Hashes, NEW d \in DownloadIds
    PROVE  SkipOf(d) = Files \ Selection(d) \/ (dl[d].wanted = Nil /\ SkipOf(d) = {})
<1>1. dl[d].wanted # Nil => torrent[dl[d].t].info
      BY DEF TaskInv, DownloadsInv, Consistent
<1> QED BY <1>1 DEF SkipOf, Selection

(* The save itself.                                                        *)
LEMMA ClosePersist ==
    ASSUME TaskInv, CloseInv, OneManager, NEW p \in Procs, PersistLock(p) \/ PersistStep(p)
    PROVE  CloseInv'
<1> USE DEF TaskInv, Inv, TypeInv
<1>1. /\ UNCHANGED <<dl, downloads, job, Listed>>
      /\ \A d \in DownloadIds : Selection(d)' = Selection(d)
      BY DEF PersistLock, PersistStep, PersistRead, PersistWrite, PersistWritten,
             PersistRename, PersistFault, AfterPersist, listVars, opVars, Selection,
             Listed
<1>2. \A q \in Procs : q # p => pc'[q] = pc[q]
      BY DEF PersistLock, PersistStep, PersistRead, PersistWrite, PersistWritten,
             PersistRename, PersistFault, AfterPersist, Goto, opVars, TypeOK
<1>3. PersistStep(p) => pc[p] \in Saving
      BY DEF PersistStep, PersistRead, PersistWrite, PersistWritten, PersistRename,
             PersistFault, Saving
<1> SUFFICES ASSUME NEW q \in Procs, job[q].op = "quit", pc'[q] \in Saving,
                    \A r \in Adders : pc'[r] # "plock", NEW h \in Listed
             PROVE  Taken(h)'
    BY <1>1 DEF CloseInv
<1>4. q = p
  <2> SUFFICES ASSUME q # p PROVE FALSE OBVIOUS
  <2>1. pc[q] \in Saving /\ stateMu = q BY <1>2 DEF SaveInv
  <2>2. PersistLock(p) => stateMu = Nil BY DEF PersistLock
  <2> QED BY <1>3, <2>1, <2>2, NilAssumption DEF SaveInv
<1>5. downloads[h] \in DownloadIds BY DEF Listed, TypeOK
<1>6. CASE PersistLock(p) BY <1>1, <1>6 DEF PersistLock, Taken
<1>7. CASE PersistStep(p)
  <2>1. p \in Managers BY <1>4 DEF OpInv, OpAt
  <2>2. \A r \in Adders : pc[r] # "plock"
        BY <1>2, <2>1, ThreadsAssumption DEF Procs
  <2>3. Taken(h) BY <1>3, <1>4, <1>7, <2>2 DEF CloseInv
  <2>4. ASSUME NEW k \in Hashes, PersistRead(p, k) PROVE Taken(h)'
    <3>1. /\ recs' = [recs EXCEPT ![k] = SkipOf(snap[k])] /\ snap[k] # Nil
          /\ snap' = [snap EXCEPT ![k] = Nil]
          /\ early' = IF dl[snap[k]].wanted = Nil THEN early \cup {k} ELSE early
          BY <2>4 DEF PersistRead
    <3>2. CASE k = h
      <4>1. snap[h] = downloads[h] BY <2>3, <3>1, <3>2 DEF Taken
      <4>2. /\ recs'[h] = SkipOf(downloads[h]) /\ snap'[h] = Nil
            /\ dl[downloads[h]].wanted = Nil => h \in early'
            BY <3>1, <3>2, <4>1 DEF TypeOK, FileImages, Listed
      <4> QED BY <1>1, <1>5, <4>2, SkipExact DEF Taken, Exact, Listed
    <3>3. CASE k # h
      <4>1. snap'[h] = snap[h] /\ recs'[h] = recs[h] /\ early \subseteq early'
            BY <3>1, <3>3 DEF TypeOK, FileImages, Listed
      <4> QED BY <1>1, <1>5, <2>3, <4>1 DEF Taken, Exact
    <3> QED BY <3>2, <3>3
  <2>5. CASE PersistWrite(p) \/ PersistWritten(p)
    <3>1. UNCHANGED <<snap, recs, early>> BY <2>5 DEF PersistWrite, PersistWritten
    <3> QED BY <1>1, <1>5, <2>3, <3>1 DEF Taken, Exact
  <2>6. CASE AfterPersist(p)
    <3>1. pc'[p] \in {"exit", "pause", "idle"} BY <2>6 DEF AfterPersist, Goto, TypeOK
    <3> QED BY <1>4, <3>1 DEF Saving
  <2> QED BY <1>7, <2>4, <2>5, <2>6 DEF PersistStep, PersistRename, PersistFault
<1> QED BY <1>6, <1>7

(* Every other step of a caller.                                           *)
LEMMA CloseCall ==
    ASSUME TaskInv, CloseInv, OneManager, NEW p \in Procs,
           UserStep(p) \/ CallStep(p), ~PersistStep(p), ~Exit(p)
    PROVE  CloseInv'
<1> USE DEF TaskInv, Inv, TypeInv
<1>1. /\ \A q \in Procs : q # p => pc'[q] = pc[q] /\ job'[q] = job[q]
      /\ pc'[p] \notin Saving
      /\ pc[p] \notin Saving \cup {"plock"}
      /\ UNCHANGED persistVars
  <2>1. CASE UserStep(p)
        BY <2>1 DEF UserStep, AddTorrent, RemoveTake, RestartTake, Take, SetPaused,
           SetAllWanted, SetFileWanted, Managing, Ready, Quit, Goto, opVars, TypeOK,
           Saving
  <2>2. CASE CallStep(p)
        BY <2>2 DEF CallStep, Track, Tracked, AddPause, RestartSnapshot, Drop,
           RestartReadd, RestartRefused, Goto, TypeOK, Saving
  <2> QED BY <2>1, <2>2
<1> SUFFICES ASSUME NEW q \in Procs, job[q].op = "quit", pc[q] \in Saving,
                    pc'[q] = pc[q], job'[q] = job[q]
             PROVE  \/ \E r \in Adders : pc'[r] = "plock"
                    \/ \A h \in Listed' : Taken(h)'
    BY <1>1 DEF CloseInv
<1>2. p \in Adders /\ p \notin Managers
  <2>1. q \in Managers BY DEF OpInv, OpAt
  <2>2. p # q BY <1>1
  <2> QED BY <2>1, <2>2 DEF OneManager, Procs
<1>3. CASE Track(p)
  <2>1. pc'[p] = "plock" BY <1>3 DEF Track, Goto, TypeOK
  <2> QED BY <1>2, <2>1
<1>4. CASE ~Track(p)
  <2>1. \/ \E h \in Hashes, paused \in BOOLEAN : AddTorrent(p, h, paused)
        \/ AddPause(p)
    <3>1. pc[p] \notin {"snapshot", "drop", "readd"} BY <1>2 DEF OpInv, OpAt
    <3> QED BY <1>2, <1>4, <3>1
        DEF UserStep, CallStep, RemoveTake, RestartTake, Take, SetPaused, SetAllWanted,
            SetFileWanted, Managing, Quit, RestartSnapshot, Drop, RestartReadd,
            RestartRefused
  <2>2. UNCHANGED downloads /\ \A d \in DownloadIds : Selection(d)' = Selection(d)
    <3>1. CASE \E h \in Hashes, paused \in BOOLEAN : AddTorrent(p, h, paused)
          BY <3>1 DEF AddTorrent, listVars, Selection
    <3>2. CASE AddPause(p)
      <4>1. /\ Choose(job[p].d, dl[job[p].d].wanted, TRUE) /\ UNCHANGED downloads
            BY <3>2 DEF AddPause
      <4> QED BY <4>1 DEF Choose, Selection, TypeOK, DownloadType
    <3> QED BY <2>1, <3>1, <3>2
  <2>3. \A r \in Adders : pc[r] = "plock" => pc'[r] = "plock"
        BY <1>1 DEF Procs
  <2>4. \A r \in Procs : job'[r].op = "quit" /\ pc'[r] \in Saving
                           => job[r].op = "quit" /\ pc[r] \in Saving
        BY <1>1
  <2>5. CloseInv' BY <1>1, <2>2, <2>3, <2>4, CloseKept
  <2> QED BY <2>5 DEF CloseInv
<1> QED BY <1>3, <1>4

(* Every step keeps CloseInv, with one managing thread.                    *)
LEMMA CloseStep ==
    ASSUME TaskInv, CloseInv, OneManager, Next
    PROVE  CloseInv'
<1> USE DEF TaskInv, Inv, TypeInv
<1>1. ASSUME UNCHANGED <<downloads, opVars, persistVars>>,
             \A d \in DownloadIds : Selection(d)' = Selection(d)
      PROVE  CloseInv'
      BY <1>1, CloseKept DEF opVars
<1>2. ASSUME NEW d \in DownloadIds, AwaitStep(d) PROVE CloseInv'
  <2>1. UNCHANGED <<downloads, opVars, persistVars>>
        BY <1>2, AwaitTask DEF AwaitFrame
  <2>2. dl \in [DownloadIds -> DownloadType] /\ dl[d] \in DownloadType BY DEF TypeOK
  <2>3. CASE AwaitInfo(d) \/ AwaitClosed(d) \/ AwaitTimeout(d) \/ AwaitDrop(d)
    <3>1. \A e \in DownloadIds : dl'[e].skip = dl[e].skip /\ dl'[e].wanted = dl[e].wanted
      <4> USE <2>2 DEF DownloadType
      <4>1. CASE AwaitInfo(d) BY <4>1 DEF AwaitInfo
      <4>2. CASE AwaitClosed(d) BY <4>2 DEF AwaitClosed
      <4>3. CASE AwaitTimeout(d) BY <4>3 DEF AwaitTimeout
      <4>4. CASE AwaitDrop(d) BY <4>4 DEF AwaitDrop
      <4> QED BY <2>3, <4>1, <4>2, <4>3, <4>4
    <3> QED BY <1>1, <2>1, <3>1 DEF Selection
  <2>4. CASE AwaitSelected(d)
    <3> DEFINE w == Files \ dl[d].skip
    <3>1. w \in SUBSET Files OBVIOUS
    <3>2. w # Nil BY <3>1, NilAssumption
    <3>3. /\ dl[d].stage = "recovering" /\ \A e \in DownloadIds : e # d => dl'[e] = dl[e]
          /\ dl'[d].skip = dl[d].skip /\ dl'[d].wanted = w
          BY <2>2, <2>4 DEF AwaitSelected, At, DownloadType
    <3>4. dl[d].wanted = Nil BY <3>3 DEF DownloadsInv, Consistent
    <3>5. ASSUME NEW e \in DownloadIds PROVE Selection(e)' = Selection(e)
          BY <3>2, <3>3, <3>4 DEF Selection
    <3> QED BY <1>1, <2>1, <3>5
  <2> QED BY <1>2, <2>3, <2>4 DEF AwaitStep
<1>3. ASSUME NEW t \in TorrentIds, GotInfo(t) PROVE CloseInv'
      BY <1>1, <1>3 DEF GotInfo, listVars, Selection
<1>4. CASE Die
  <2>1. \A p \in Procs : pc'[p] = "idle" BY <1>4 DEF Die, AllIdle
  <2> QED BY <2>1 DEF CloseInv, Saving
<1>5. CASE RestoreStep \/ Boot
  <2>1. UNCHANGED opVars /\ session # "up"
        BY <1>5 DEF RestoreStep, RestoreDone, RestoreTask, RestoreRefused, Boot
  <2>2. \A p \in Procs : pc'[p] = "idle" BY <2>1 DEF SessionInv, opVars
  <2> QED BY <2>2 DEF CloseInv, Saving
<1> QED
    BY <1>2, <1>3, <1>4, <1>5, ClosePersist, CloseCall
    DEF Next, CallStep, Exit, Crash

(* With one managing thread, whatever faults there are, the file Close     *)
(* renames holds the exact selection of every listed task, or none for a   *)
(* task recorded before it had its selection: never one mixed from several *)
(* moments or Downloads.                                                   *)
THEOREM ClosingSaveExact ==
    ASSUME OneManager
    PROVE  Spec => []SavedSelectionExact
<1>1. Init => CloseInv
      BY DEF Init, AllIdle, CloseInv, Saving
<1>2. TaskInv /\ CloseInv /\ [Next]_vars => CloseInv'
  <2>1. ASSUME TaskInv, CloseInv, UNCHANGED vars PROVE CloseInv'
        BY <2>1, CloseKept DEF vars, opVars, listVars, Selection
  <2> QED BY <2>1, CloseStep
<1>3. TaskInv /\ CloseInv => SavedSelectionExact
  <2> SUFFICES ASSUME TaskInv, CloseInv, NEW p \in Procs,
                      pc[p] = "prename", job[p].op = "quit",
                      \A q \in Adders : pc[q] # "plock"
               PROVE  /\ tmpFile \in FileImages
                      /\ \A h \in Listed : Exact(tmpFile[h], h, downloads[h])
      BY DEF SavedSelectionExact, Exact
  <2>1. tmpFile = recs /\ recs \in FileImages /\ snap = NoEntry
        BY DEF TaskInv, Inv, TypeInv, TypeOK, SaveInv
  <2>2. \A h \in Listed : Taken(h) BY DEF CloseInv, Saving
  <2> QED BY <2>1, <2>2 DEF Taken, NoEntry, Listed
<1> QED BY <1>1, <1>2, <1>3, TaskInvariance, PTL DEF Spec
=============================================================================
