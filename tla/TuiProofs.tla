----------------------------- MODULE TuiProofs -----------------------------
(***************************************************************************)
(* Theorems about the download list, for any number of tasks, adds, files  *)
(* and ticks.  The strengthened invariant relates the three places that    *)
(* point to Downloads beside the engine's map: the list on the screen, the *)
(* snapshot a tick is working through and the file-selection modal.        *)
(***************************************************************************)
EXTENDS Tui, TLAPS

Object == [hash: Hashes \cup {Nil}, info: BOOLEAN,
           wanted: {Nil} \cup SUBSET Files, skip: SUBSET Files,
           paused: BOOLEAN, err: BOOLEAN, sampled: BOOLEAN,
           stall: {Nil} \cup Ages, quiet: Ages]

(* The engine's map goes by the hash of its Downloads.                     *)
Keyed == \A h \in Hashes : downloads[h] # Nil => dl[downloads[h]].hash = h

(* The stall clock is not older than the time without life.                *)
Clocked(object) == object.stall # Nil => object.stall <= object.quiet
ClockInv == \A d \in DownloadIds : Clocked(dl[d])

(* A modal shows a Download, the delete prompt is never open with it, and  *)
(* an add in flight has a hash.                                            *)
InputInv ==
    /\ fileView.d = Nil => fileView = NoView
    /\ confirmDelete # Nil => fileView = NoView
    /\ \A a \in Adders : adds[a].pc # "none" => adds[a].h # Nil

(* The engine lists d, or d has failed: track replaces only failed tasks,  *)
(* so what was listed stays Current until its own hash is removed or       *)
(* restarted.                                                              *)
Current(d) == downloads[dl[d].hash] = d \/ dl[d].err

(* A snapshot has one Download for each hash.  A step of the tick takes    *)
(* the one it is about out of the snapshot, and keeps the rest Current.    *)
RestInv ==
    /\ loop = "idle" => rest = {}
    /\ \A d \in rest : Current(d)
    /\ \A d \in rest : \A e \in rest : dl[d].hash = dl[e].hash => d = e

(* Between two messages what the screen lists is Current, also while an    *)
(* add that has replaced a failed task is about to report.                 *)
ShownInv == loop = "idle" => \A d \in dlList : Current(d)

(* The modal is opened on something Current.  The snapshots taken after    *)
(* that hold no other Download of its hash, so passing over the modal's    *)
(* own Download is enough.                                                 *)
ModalInv ==
    fileView.d # Nil =>
        /\ Current(fileView.d)
        /\ \/ dl[fileView.d].err
           \/ \A d \in rest : dl[d].hash = dl[fileView.d].hash => d = fileView.d

(* An add that is to pause a Download points to it, and to one of its own  *)
(* hash; no other add points to any.                                       *)
AddInv ==
    \A a \in Adders :
        /\ adds[a].pc = "pause" <=> adds[a].d # Nil
        /\ adds[a].d # Nil => dl[adds[a].d].hash = adds[a].h

(* What the watchdog has found stalled is so still, but for the pause of   *)
(* an add that has not reported.                                           *)
DueInv ==
    due # Nil =>
        /\ loop = "restart" /\ fileView.d # due
        /\ dl[due].info /\ dl[due].stall # Nil /\ dl[due].stall >= Threshold
        /\ dl[due].paused =>
              \E a \in Adders : adds[a].pc = "added" /\ adds[a].h = dl[due].hash

Inv ==
    /\ TypeOK /\ Keyed /\ ClockInv /\ InputInv /\ AddInv
    /\ RestInv /\ ShownInv /\ ModalInv /\ DueInv /\ ListFresh

(* The types of everything but the Downloads.                              *)
Frame ==
    /\ downloads \in [Hashes -> DownloadIds \cup {Nil}]
    /\ have \in [Hashes -> SUBSET Files]
    /\ dead \in [Hashes -> BOOLEAN]
    /\ loop \in {"idle", "prune", "restart"}
    /\ rest \subseteq DownloadIds /\ due \in rest \cup {Nil} /\ ticking \in BOOLEAN
    /\ dlList \subseteq DownloadIds
    /\ fileView \in [d: DownloadIds \cup {Nil}, files: SUBSET Files]
    /\ confirmDelete \in Hashes \cup {Nil}
    /\ adds \in [Adders -> [pc: {"none", "add", "pause", "added"}, h: Hashes \cup {Nil},
                            d: DownloadIds \cup {Nil}]]

-----------------------------------------------------------------------------
(* What a step leaves of the Downloads.                                    *)

(* The type invariant is the frame and the Downloads.                      *)
LEMMA TypeParts ==
    TypeOK <=> /\ Frame /\ dl \in [DownloadIds -> Object]
               /\ \A d \in Referenced : dl[d].hash # Nil
BY DEF TypeOK, Frame, Object

(* Only Downloads are referenced.                                          *)
LEMMA References ==
    ASSUME Frame
    PROVE  Referenced \subseteq DownloadIds /\ InUse \subseteq Referenced
BY DEF Frame, Referenced, InUse, List

(* What is left of a Download keeps its hash, and on the screen its error. *)
LEMMA Leftover ==
    ASSUME TuiAssumption, NEW object \in Object
    PROVE  /\ Stale(object) \in Object /\ Stale(object).hash = object.hash
           /\ Stale(object).err = object.err /\ ~Stale(object).sampled
           /\ Stale(object).stall = Nil
           /\ Husk(object) \in Object /\ Husk(object).hash = object.hash
           /\ Husk(object).stall = Nil
<1>1. 0 \in Ages BY DEF TuiAssumption, Ages
<1>2. object.hash \in Hashes \cup {Nil} BY DEF Object
<1> QED BY <1>1, <1>2 DEF Stale, Husk, NoDownload, Object

(* A collection keeps of "objects" what will be read of them.              *)
Collects(objects) ==
    /\ \A d \in DownloadIds : d \in Referenced' => dl'[d].hash = objects[d].hash
    /\ \A d \in DownloadIds : d \in InUse' =>
          /\ dl'[d].hash = objects[d].hash /\ dl'[d].err = objects[d].err
          /\ dl'[d].sampled => objects[d].sampled
    /\ \A d \in DownloadIds : d \in rest' => dl'[d] = objects[d]

LEMMA Collected ==
    ASSUME TuiAssumption, NEW objects \in [DownloadIds -> Object], Heap(objects), Frame',
           \A d \in DownloadIds : d \in Referenced' => objects[d].hash # Nil,
           \A d \in DownloadIds : Clocked(objects[d])
    PROVE  TypeOK' /\ ClockInv' /\ Collects(objects)
<1> DEFINE new(d) == IF d \notin Referenced' THEN NoDownload
                     ELSE IF d \in List(downloads') \cup rest' THEN objects[d]
                     ELSE IF d \in InUse' THEN Stale(objects[d])
                     ELSE Husk(objects[d])
<1>1. dl' = [d \in DownloadIds |-> new(d)] BY DEF Heap
<1>2. NoDownload \in Object /\ NoDownload.stall = Nil
      BY DEF TuiAssumption, NoDownload, Object, Ages
<1>3. ASSUME NEW d \in DownloadIds
      PROVE  /\ Stale(objects[d]) \in Object /\ Stale(objects[d]).hash = objects[d].hash
             /\ Stale(objects[d]).err = objects[d].err /\ ~Stale(objects[d]).sampled
             /\ Stale(objects[d]).stall = Nil
             /\ Husk(objects[d]) \in Object /\ Husk(objects[d]).hash = objects[d].hash
             /\ Husk(objects[d]).stall = Nil
      <2>1. objects[d] \in Object OBVIOUS
      <2> QED BY <2>1, Leftover
<1>4. ASSUME NEW d \in DownloadIds
      PROVE  new(d) \in Object /\ Clocked(new(d))
      BY <1>2, <1>3 DEF Clocked
<1>5. dl' \in [DownloadIds -> Object] BY <1>1, <1>4
<1>6. Collects(objects)
      <2>1. ASSUME NEW d \in DownloadIds, d \in Referenced'
            PROVE  dl'[d].hash = objects[d].hash
            BY <1>1, <1>3, <2>1
      <2>2. InUse' \subseteq Referenced' BY DEF Referenced
      <2>3. ASSUME NEW d \in DownloadIds, d \in InUse'
            PROVE  /\ dl'[d].hash = objects[d].hash /\ dl'[d].err = objects[d].err
                   /\ dl'[d].sampled => objects[d].sampled
            BY <1>1, <1>3, <2>2, <2>3
      <2>4. ASSUME NEW d \in DownloadIds, d \in rest'
            PROVE  dl'[d] = objects[d]
            <3>1. d \in Referenced' BY <2>4 DEF Referenced, InUse, TuiAssumption
            <3> QED BY <1>1, <2>4, <3>1
      <2> QED BY <2>1, <2>3, <2>4 DEF Collects
<1>7. ClockInv' BY <1>1, <1>4 DEF ClockInv
<1>8. \A d \in Referenced' : dl'[d].hash # Nil
      <2>1. Referenced' \subseteq DownloadIds BY DEF Frame, Referenced, InUse, List
      <2> QED BY <1>6, <2>1 DEF Collects
<1>9. TypeOK'
      BY <1>5, <1>8 DEF TypeOK, Frame, Object
<1> QED BY <1>6, <1>7, <1>9

(* A step that makes no Download.                                          *)
LEMMA HeapSame ==
    ASSUME TuiAssumption, TypeOK, ClockInv, Heap(dl), Frame',
           \A d \in DownloadIds : d \in Referenced' => d \in Referenced
    PROVE  TypeOK' /\ ClockInv' /\ Collects(dl)
<1>1. dl \in [DownloadIds -> Object] /\ \A d \in Referenced : dl[d].hash # Nil
      BY DEF TypeOK, Object
<1>2. \A d \in DownloadIds : d \in Referenced' => dl[d].hash # Nil BY <1>1
<1>3. \A d \in DownloadIds : Clocked(dl[d]) BY DEF ClockInv
<1> QED BY <1>1, <1>2, <1>3, Collected

(* A step that makes one: its identity is free, so nothing referenced is   *)
(* overwritten.                                                            *)
LEMMA HeapFresh ==
    ASSUME TuiAssumption, TypeOK, ClockInv, NEW h \in Hashes, NEW info \in BOOLEAN,
           NEW skip \in SUBSET Files, FreeDownloads # {},
           Heap(Registered(h, info, skip)), Frame',
           \A d \in DownloadIds : d \in Referenced' => d \in Referenced \/ d = Fresh
    PROVE  /\ TypeOK' /\ ClockInv'
           /\ Fresh \in DownloadIds /\ Fresh \notin Referenced
           /\ Fresh \in Referenced' => dl'[Fresh].hash = h
           /\ Fresh \in InUse' => ~dl'[Fresh].err /\ ~dl'[Fresh].sampled
           /\ \A d \in DownloadIds : d \in Referenced /\ d \in Referenced' =>
                 dl'[d].hash = dl[d].hash
           /\ \A d \in DownloadIds : d \in Referenced /\ d \in InUse' =>
                 /\ dl'[d].err = dl[d].err
                 /\ dl'[d].sampled => dl[d].sampled
           /\ \A d \in DownloadIds : d \in rest /\ d \in rest' => dl'[d] = dl[d]
<1> DEFINE object == NewDownload(h, info, skip)
           objects == Registered(h, info, skip)
<1>1. dl \in [DownloadIds -> Object] /\ \A d \in Referenced : dl[d].hash # Nil
      BY DEF TypeOK, Object
<1>2. Fresh \in DownloadIds /\ dl[Fresh].hash = Nil BY DEF Fresh, FreeDownloads
<1>3. Fresh \notin Referenced BY <1>1, <1>2
<1>4. 0 \in Ages BY DEF TuiAssumption, Ages
<1>5. /\ object \in Object /\ object.hash = h /\ ~object.err /\ ~object.sampled
      /\ object.stall = Nil
      BY <1>4 DEF Object, NewDownload, NoDownload
<1>6. /\ objects \in [DownloadIds -> Object] /\ objects[Fresh] = object
      /\ \A d \in DownloadIds : d # Fresh => objects[d] = dl[d]
      BY <1>1, <1>2, <1>5 DEF Registered
<1>7. h # Nil BY DEF TuiAssumption
<1>8. \A d \in DownloadIds : d \in Referenced' => objects[d].hash # Nil
      BY <1>1, <1>5, <1>6, <1>7
<1>9. \A d \in DownloadIds : Clocked(objects[d])
      BY <1>5, <1>6 DEF ClockInv, Clocked
<1>10. TypeOK' /\ ClockInv' /\ Collects(objects)
      <2> HIDE DEF objects
      <2> QED BY <1>6, <1>8, <1>9, Collected DEF objects
<1>11. rest \ {Nil} \subseteq Referenced BY DEF Referenced, InUse
<1>12. \A d \in DownloadIds : d \in Referenced => objects[d] = dl[d] BY <1>3, <1>6
<1> QED
    <2> HIDE DEF objects, object
    <2>1. \A d \in DownloadIds : d \in rest => d \in Referenced
          BY <1>11 DEF TuiAssumption
    <2> QED BY <1>2, <1>3, <1>5, <1>6, <1>10, <1>12, <2>1 DEF Collects

(* The map, the screen, the snapshot and the modal point to Downloads in   *)
(* use, which have hashes,                                                 *)
LEMMA Pointers ==
    ASSUME TuiAssumption, TypeOK
    PROVE  /\ \A h \in Hashes : downloads[h] # Nil =>
                 downloads[h] \in InUse /\ downloads[h] \in DownloadIds
           /\ \A d \in rest \cup dlList : d \in InUse /\ d \in DownloadIds
           /\ fileView.d # Nil => fileView.d \in InUse /\ fileView.d \in DownloadIds
           /\ \A d \in InUse : d \in Referenced
           /\ \A d \in Referenced : dl[d].hash \in Hashes
           /\ \A a \in Adders : adds[a].d # Nil =>
                 adds[a].d \in Referenced /\ adds[a].d \in DownloadIds
BY DEF TuiAssumption, TypeOK, Referenced, InUse, List

(* and so they do after the step.                                          *)
LEMMA PointersAfter ==
    ASSUME TuiAssumption, TypeOK'
    PROVE  /\ \A h \in Hashes : downloads'[h] # Nil =>
                 downloads'[h] \in InUse' /\ downloads'[h] \in DownloadIds
           /\ \A d \in rest' \cup dlList' : d \in InUse' /\ d \in DownloadIds
           /\ fileView'.d # Nil => fileView'.d \in InUse' /\ fileView'.d \in DownloadIds
           /\ \A d \in InUse' : d \in Referenced'
           /\ \A d \in Referenced' : dl'[d].hash \in Hashes
           /\ \A a \in Adders : adds'[a].d # Nil =>
                 adds'[a].d \in Referenced' /\ adds'[a].d \in DownloadIds
BY DEF TuiAssumption, TypeOK, Referenced, InUse, List

(* An add keeps its Download, or lets it go, and Downloads keep their      *)
(* hashes.                                                                 *)
LEMMA AddsKept ==
    ASSUME TuiAssumption, Inv, TypeOK',
           \A d \in DownloadIds : d \in Referenced /\ d \in Referenced' =>
              dl'[d].hash = dl[d].hash,
           \A a \in Adders :
              adds'[a] = adds[a] \/ (adds'[a].d = Nil /\ adds'[a].pc # "pause")
    PROVE  AddInv'
<1>1. ASSUME NEW a \in Adders
      PROVE  /\ adds'[a].pc = "pause" <=> adds'[a].d # Nil
             /\ adds'[a].d # Nil => dl'[adds'[a].d].hash = adds'[a].h
      <2>1. CASE adds'[a].d = Nil /\ adds'[a].pc # "pause" BY <2>1
      <2>2. CASE adds'[a] = adds[a]
            <3>1. adds[a].d # Nil =>
                     /\ adds[a].d \in Referenced /\ adds[a].d \in DownloadIds
                     /\ adds[a].d \in Referenced'
                  BY <2>2, Pointers, PointersAfter DEF Inv
            <3> QED BY <2>2, <3>1 DEF Inv, AddInv
      <2> QED BY <2>1, <2>2
<1> QED BY <1>1 DEF AddInv

(* The tick does nothing to what the watchdog has found but restart it.    *)
LEMMA DueKept ==
    ASSUME TuiAssumption, Inv, TypeOK', UNCHANGED <<loop, rest, due>>,
           fileView'.d = fileView.d,
           \A d \in DownloadIds : d \in rest /\ loop = "restart" =>
              /\ dl'[d].hash = dl[d].hash /\ dl'[d].stall = dl[d].stall
              /\ dl[d].info => dl'[d].info
              /\ dl'[d].paused =>
                    \/ dl[d].paused
                    \/ \E a \in Adders : adds'[a].pc = "added" /\ adds'[a].h = dl[d].hash,
           \A a \in Adders : adds[a].pc = "added" =>
              loop = "idle" \/ (adds'[a].pc = "added" /\ adds'[a].h = adds[a].h)
    PROVE  DueInv'
<1> SUFFICES ASSUME due # Nil PROVE DueInv' BY DEF DueInv
<1>1. due \in rest /\ due \in DownloadIds BY DEF Inv, TypeOK
<1>2. /\ loop = "restart" /\ fileView.d # due
      /\ dl[due].info /\ dl[due].stall # Nil /\ dl[due].stall >= Threshold
      /\ dl[due].paused =>
            \E a \in Adders : adds[a].pc = "added" /\ adds[a].h = dl[due].hash
      BY DEF Inv, DueInv
<1>3. /\ dl'[due].hash = dl[due].hash /\ dl'[due].stall = dl[due].stall
      /\ dl[due].info => dl'[due].info
      /\ dl'[due].paused =>
            \/ dl[due].paused
            \/ \E a \in Adders : adds'[a].pc = "added" /\ adds'[a].h = dl[due].hash
      BY <1>1, <1>2
<1>4. dl'[due].paused =>
         \E a \in Adders : adds'[a].pc = "added" /\ adds'[a].h = dl[due].hash
      BY <1>2, <1>3
<1> QED BY <1>2, <1>3, <1>4 DEF DueInv

(* Between two messages it has found nothing.                              *)
LEMMA NothingDue ==
    ASSUME TypeOK, rest = {}
    PROVE  DueInv
BY DEF TypeOK, DueInv

-----------------------------------------------------------------------------
(* The shapes a step can have.                                             *)

(* Whatever leaves the map, the screen, the snapshot and the modal's       *)
(* Download alone keeps the invariant, if no error is taken back.          *)
LEMMA Undisturbed ==
    ASSUME TuiAssumption, Inv, TypeOK', ClockInv', InputInv', AddInv', DueInv',
           UNCHANGED <<downloads, loop, rest, dlList>>,
           fileView'.d = fileView.d,
           \A d \in DownloadIds : d \in InUse =>
              /\ dl'[d].hash = dl[d].hash
              /\ dl[d].err => dl'[d].err
              /\ dl'[d].sampled => dl[d].sampled,
           \A a \in Adders : Reporting(a) => Reporting(a)'
    PROVE  Inv'
<1>1. /\ \A h \in Hashes : downloads[h] # Nil =>
            downloads[h] \in InUse /\ downloads[h] \in DownloadIds
      /\ \A d \in rest \cup dlList : d \in InUse /\ d \in DownloadIds
      /\ fileView.d # Nil => fileView.d \in InUse /\ fileView.d \in DownloadIds
      BY Pointers DEF Inv
<1>2. Keyed' BY <1>1 DEF Inv, Keyed
<1>3. ASSUME NEW d \in DownloadIds, d \in InUse, Current(d)
      PROVE  Current(d)'
      BY <1>3 DEF Current
<1>4. RestInv' BY <1>1, <1>3 DEF Inv, RestInv
<1>5. ShownInv' BY <1>1, <1>3 DEF Inv, ShownInv
<1>6. ModalInv' BY <1>1, <1>3 DEF Inv, ModalInv
<1>7. ListFresh' BY <1>1 DEF Inv, ListFresh, List
<1> QED BY <1>2, <1>4, <1>5, <1>6, <1>7 DEF Inv

(* A handler that ends with the refresh of the list.                       *)
LEMMA Refreshed ==
    ASSUME TuiAssumption, Inv, TypeOK', ClockInv', InputInv', AddInv', Keyed',
           loop' = "idle", rest' = {}, dlList' = List(downloads'),
           fileView'.d = Nil \/ (fileView'.d = fileView.d /\ Current(fileView.d)')
    PROVE  Inv'
<1>1. \A d \in List(downloads') : Current(d)' BY DEF Keyed, Current, List
<1>2. RestInv' BY DEF RestInv
<1>3. ShownInv' BY <1>1 DEF ShownInv
<1>4. ModalInv' BY DEF ModalInv
<1>5. ListFresh' BY DEF ListFresh
<1>6. DueInv' BY DEF DueInv, TypeOK
<1> QED BY <1>2, <1>3, <1>4, <1>5, <1>6 DEF Inv

(* A step of the tick that is done with d: at most the entry of its hash   *)
(* changes, and only if the modal is on another Download.                  *)
LEMMA PassedOver ==
    ASSUME TuiAssumption, Inv, TypeOK', ClockInv', Keyed', loop # "idle", due' = Nil,
           UNCHANGED <<loop, fileView, confirmDelete, adds>>,
           NEW d \in rest, rest' = rest \ {d},
           \A h \in Hashes : h # dl[d].hash => downloads'[h] = downloads[h],
           downloads' = downloads \/ fileView.d # d,
           \A e \in DownloadIds : e \in InUse /\ e \in InUse' =>
              dl'[e].hash = dl[e].hash /\ dl'[e].err = dl[e].err,
           \A e \in DownloadIds : e \in Referenced /\ e \in Referenced' =>
              dl'[e].hash = dl[e].hash
    PROVE  Inv'
<1>1. RestInv'
      <2>1. \A e \in rest' : e \in InUse /\ e \in InUse' /\ e \in DownloadIds
            BY Pointers, PointersAfter DEF Inv
      <2>2. \A e \in rest' : dl'[e].hash = dl[e].hash /\ dl'[e].err = dl[e].err
            BY <2>1
      <2>3. \A e \in rest' : dl[e].hash # dl[d].hash /\ Current(e)
            BY DEF Inv, RestInv
      <2>4. \A e \in rest' : dl[e].hash \in Hashes
            BY <2>1, Pointers DEF Inv
      <2>5. \A e \in rest' : Current(e)'
            BY <2>2, <2>3, <2>4 DEF Current
      <2> QED BY <2>2, <2>5 DEF Inv, RestInv
<1>2. ModalInv'
      <2> SUFFICES ASSUME fileView.d # Nil PROVE ModalInv' BY DEF ModalInv
      <2> DEFINE m == fileView.d
      <2>1. /\ m \in DownloadIds /\ m \in InUse /\ m \in InUse'
            /\ \A e \in rest : e \in DownloadIds /\ e \in InUse
            /\ \A e \in rest' : e \in InUse'
            BY Pointers, PointersAfter DEF Inv
      <2>2. dl'[m].hash = dl[m].hash /\ dl'[m].err = dl[m].err BY <2>1
      <2>3. dl[m].hash \in Hashes BY <2>1, Pointers DEF Inv
      <2>4. \A e \in rest' : dl'[e].hash = dl[e].hash BY <2>1
      <2>5. CASE dl[m].err BY <2>2, <2>5 DEF ModalInv, Current
      <2>6. CASE ~dl[m].err
            <3>1. /\ downloads[dl[m].hash] = m
                  /\ \A e \in rest : dl[e].hash = dl[m].hash => e = m
                  BY <2>6 DEF Inv, ModalInv, Current
            <3>2. downloads'[dl[m].hash] = m BY <2>3, <3>1
            <3> QED BY <2>2, <2>4, <3>1, <3>2 DEF ModalInv, Current
      <2> QED BY <2>5, <2>6
<1>3. ShownInv' /\ ListFresh' BY DEF ShownInv, ListFresh
<1>4. InputInv' BY DEF Inv, InputInv
<1>5. AddInv' BY AddsKept
<1>6. DueInv' BY DEF DueInv
<1> QED BY <1>1, <1>2, <1>3, <1>4, <1>5, <1>6 DEF Inv

-----------------------------------------------------------------------------
(* The tick.                                                               *)

(* A sample has its type, and its clock is not ahead of its quiet time.    *)
LEMMA Sampled ==
    ASSUME TuiAssumption, NEW d, dl[d] \in Object, Clocked(dl[d]),
           NEW alive \in BOOLEAN, NEW gap \in Nat
    PROVE  LET sample == SampleRate(d, alive, gap)
           IN  /\ sample \in Object /\ Clocked(sample)
               /\ sample.hash = dl[d].hash /\ sample.err = dl[d].err
<1> DEFINE object == dl[d]
<1>1. 0 \in Ages /\ Ages \subseteq Nat /\ Nil \notin Ages /\ Threshold \in Ages
      BY DEF TuiAssumption, Ages
<1>2. \A age \in Ages : Older(age, gap) \in Ages
      BY DEF TuiAssumption, Ages, Older
<1>3. \A x \in Ages : \A y \in Ages : x <= y => Older(x, gap) <= Older(y, gap)
      BY DEF TuiAssumption, Ages, Older
<1>4. \A age \in Ages : 0 <= age BY <1>1
<1> DEFINE stall == IF alive \/ ~object.sampled THEN Nil
                    ELSE IF object.stall = Nil THEN 0 ELSE Older(object.stall, gap)
           quiet == IF alive \/ ~object.sampled THEN 0 ELSE Older(object.quiet, gap)
<1>5. object.quiet \in Ages /\ object.stall \in {Nil} \cup Ages BY DEF Object
<1>0. object \in Object OBVIOUS
<1>6. stall \in {Nil} \cup Ages /\ quiet \in Ages BY <1>1, <1>2, <1>5
<1>7. stall # Nil => stall <= quiet BY <1>1, <1>2, <1>3, <1>4, <1>5 DEF Clocked
<1> HIDE DEF stall, quiet, object
<1>8. LET sample == [object EXCEPT !.sampled = TRUE, !.stall = stall, !.quiet = quiet]
      IN  /\ sample \in Object /\ sample.stall = stall /\ sample.quiet = quiet
          /\ sample.hash = object.hash /\ sample.err = object.err
      BY <1>0, <1>6 DEF Object
<1> QED BY <1>7, <1>8 DEF Clocked, SampleRate, stall, quiet, object

LEMMA TickInv ==
    ASSUME TuiAssumption, Inv, NEW gap \in 1 .. MaxGap, Tick(gap)
    PROVE  Inv'
<1>1. PICK alive \in SUBSET {d \in List(downloads) : CanBeAlive(d)} :
        Heap([d \in DownloadIds |->
                IF d \in List(downloads) THEN SampleRate(d, d \in alive, gap) ELSE dl[d]])
      BY DEF Tick
<1> DEFINE objects == [d \in DownloadIds |->
                         IF d \in List(downloads) THEN SampleRate(d, d \in alive, gap)
                         ELSE dl[d]]
<1>2. gap \in Nat BY DEF TuiAssumption
<1>3. ASSUME NEW d \in DownloadIds
      PROVE  /\ objects[d] \in Object /\ Clocked(objects[d])
             /\ objects[d].hash = dl[d].hash /\ objects[d].err = dl[d].err
      <2>1. dl[d] \in Object /\ Clocked(dl[d]) BY DEF Inv, TypeOK, Object, ClockInv
      <2>2. /\ SampleRate(d, d \in alive, gap) \in Object
            /\ Clocked(SampleRate(d, d \in alive, gap))
            /\ SampleRate(d, d \in alive, gap).hash = dl[d].hash
            /\ SampleRate(d, d \in alive, gap).err = dl[d].err
            <3> DEFINE b == d \in alive
            <3>1. b \in BOOLEAN OBVIOUS
            <3> HIDE DEF b
            <3>2. /\ SampleRate(d, b, gap) \in Object /\ Clocked(SampleRate(d, b, gap))
                  /\ SampleRate(d, b, gap).hash = dl[d].hash
                  /\ SampleRate(d, b, gap).err = dl[d].err
                  BY <1>2, <2>1, <3>1, Sampled
            <3> QED BY <3>2 DEF b
      <2> QED BY <2>1, <2>2
<1>4. objects \in [DownloadIds -> Object] BY <1>3
<1>0. due = Nil /\ due' = Nil BY DEF Tick, Inv, DueInv
<1>5. Frame'
      <2>1. /\ UNCHANGED <<downloads, have, dead, dlList, fileView, confirmDelete, adds>>
            /\ loop' = "prune" /\ rest' = List(downloads) /\ ticking' = FALSE
            BY DEF Tick, screenVars
      <2>2. List(downloads) \subseteq DownloadIds BY DEF Inv, TypeOK, List
      <2> QED BY <1>0, <2>1, <2>2 DEF Inv, TypeOK, Frame
<1>6. \A d \in DownloadIds : d \in Referenced' => d \in Referenced
      BY DEF Tick, screenVars, Referenced, InUse, List
<1>7. \A d \in DownloadIds : d \in Referenced' => objects[d].hash # Nil
      BY <1>3, <1>6 DEF Inv, TypeOK
<1>8. /\ TypeOK' /\ ClockInv'
      /\ \A d \in DownloadIds : d \in InUse' =>
            dl'[d].hash = dl[d].hash /\ dl'[d].err = dl[d].err
      /\ \A d \in DownloadIds : d \in Referenced' => dl'[d].hash = dl[d].hash
      <2> HIDE DEF objects
      <2>1. \A d \in DownloadIds : Clocked(objects[d]) BY <1>3
      <2>2. Heap(objects) BY <1>1 DEF objects
      <2>3. TypeOK' /\ ClockInv' /\ Collects(objects)
            BY <1>4, <1>5, <1>7, <2>1, <2>2, Collected
      <2> QED BY <1>3, <2>3 DEF Collects
<1>9. /\ UNCHANGED <<downloads, fileView, confirmDelete, adds>>
      /\ loop' # "idle" /\ rest' = List(downloads)
      BY DEF Tick, screenVars
<1>10. /\ \A h \in Hashes : downloads'[h] # Nil =>
             downloads'[h] \in InUse' /\ downloads'[h] \in DownloadIds
       /\ \A d \in rest' : d \in InUse' /\ d \in DownloadIds
       /\ fileView'.d # Nil => fileView'.d \in InUse' /\ fileView'.d \in DownloadIds
       BY <1>8, PointersAfter
<1>11. Keyed' BY <1>8, <1>9, <1>10 DEF Inv, Keyed
<1>12. RestInv' BY <1>9, <1>11 DEF RestInv, Current, Keyed, List
<1>13. ModalInv'
       BY <1>8, <1>9, <1>10, <1>11 DEF Inv, ModalInv, Current, Keyed, List
<1>14. InputInv' /\ ShownInv' /\ ListFresh'
       BY <1>9 DEF Inv, InputInv, ShownInv, ListFresh
<1>15. AddInv' BY <1>8, <1>9, AddsKept
<1>16. DueInv' BY <1>0 DEF DueInv
<1> QED BY <1>8, <1>11, <1>12, <1>13, <1>14, <1>15, <1>16 DEF Inv

(* Taking an entry out of the map leaves the rest of it keyed.             *)
LEMMA UnlistedKeyed ==
    ASSUME TuiAssumption, Inv, NEW h \in Hashes, TypeOK', downloads' = Unlisted(h),
           \A d \in DownloadIds : d \in InUse' => dl'[d].hash = dl[d].hash
    PROVE  Keyed'
<1>1. \A g \in Hashes : downloads'[g] # Nil =>
         downloads'[g] \in InUse' /\ downloads'[g] \in DownloadIds
      BY PointersAfter
<1>2. \A g \in Hashes : downloads'[g] # Nil => downloads'[g] = downloads[g]
      BY DEF Unlisted, Inv, TypeOK
<1> QED BY <1>1, <1>2 DEF Keyed, Inv

LEMMA PruneInv ==
    ASSUME TuiAssumption, Inv, NEW d \in DownloadIds, Prune(d)
    PROVE  Inv'
<1>1. d \in rest /\ d \in InUse /\ dl[d].hash \in Hashes
      BY Pointers DEF Prune, Inv
<1>0. due = Nil /\ due' = Nil BY DEF Prune, Inv, DueInv
<1>2. Frame' BY <1>0, <1>1 DEF Prune, Inv, TypeOK, Frame, screenVars, Unlisted
<1>3. \A e \in DownloadIds : e \in Referenced' => e \in Referenced
      BY <1>1 DEF Prune, screenVars, Referenced, InUse, List, Unlisted, Inv, TypeOK
<1>4. /\ TypeOK' /\ ClockInv'
      /\ \A e \in DownloadIds : e \in InUse' =>
            dl'[e].hash = dl[e].hash /\ dl'[e].err = dl[e].err
      /\ \A e \in DownloadIds : e \in Referenced' => dl'[e].hash = dl[e].hash
      <2>1. TypeOK' /\ ClockInv' /\ Collects(dl)
            BY <1>2, <1>3, HeapSame DEF Prune, Inv
      <2> QED BY <2>1 DEF Collects
<1>5. /\ UNCHANGED <<loop, fileView, confirmDelete, adds>>
      /\ loop # "idle" /\ rest' = rest \ {d}
      /\ \/ downloads' = downloads
         \/ downloads' = Unlisted(dl[d].hash) /\ fileView.d # d
      BY DEF Prune, screenVars, Finished
<1>6. /\ \A h \in Hashes : h # dl[d].hash => downloads'[h] = downloads[h]
      /\ downloads' = downloads \/ fileView.d # d
      BY <1>5 DEF Unlisted, Inv, TypeOK
<1>7. Keyed'
      <2>1. CASE downloads' = Unlisted(dl[d].hash) BY <1>1, <1>4, <2>1, UnlistedKeyed
      <2>2. CASE downloads' = downloads
            BY <1>4, <2>2, PointersAfter DEF Keyed, Inv
      <2> QED BY <1>5, <2>1, <2>2
<1> QED BY <1>0, <1>1, <1>4, <1>5, <1>6, <1>7, PassedOver

LEMMA PruneEndsInv ==
    ASSUME TuiAssumption, Inv, PruneEnds
    PROVE  Inv'
<1> USE DEF PruneEnds, engineVars, screenVars
<1>1. /\ UNCHANGED <<dl, downloads, fileView, dlList, confirmDelete, adds>> /\ rest = {}
      /\ rest' = List(downloads) /\ loop' # "idle"
      OBVIOUS
<1>0. due = Nil /\ due' = Nil BY DEF Inv, DueInv
<1>2. Referenced' = Referenced BY <1>1 DEF Referenced, InUse, List
<1>3. TypeOK' BY <1>0, <1>1, <1>2 DEF Inv, TypeOK, List
<1>4. ClockInv' /\ Keyed' BY DEF Inv, ClockInv, Keyed
<1>5. RestInv' BY <1>1 DEF Inv, RestInv, Current, Keyed, List
<1>6. ModalInv' BY <1>1 DEF Inv, ModalInv, Current, Keyed, List
<1>7. InputInv' /\ ShownInv' /\ ListFresh' BY <1>1 DEF Inv, InputInv, ShownInv, ListFresh
<1>8. AddInv' BY <1>1 DEF Inv, AddInv
<1>9. DueInv' BY <1>0 DEF DueInv
<1> QED BY <1>3, <1>4, <1>5, <1>6, <1>7, <1>8, <1>9 DEF Inv

LEMMA WatchdogSkipsInv ==
    ASSUME TuiAssumption, Inv, NEW d \in DownloadIds, WatchdogSkips(d)
    PROVE  Inv'
<1>1. d \in rest /\ d \in InUse /\ dl[d].hash \in Hashes
      BY Pointers DEF WatchdogSkips, Inv
<1>0. due' = Nil BY DEF WatchdogSkips
<1>2. Frame' BY <1>0, <1>1 DEF WatchdogSkips, Inv, TypeOK, Frame, screenVars
<1>3. \A e \in DownloadIds : e \in Referenced' => e \in Referenced
      BY DEF WatchdogSkips, screenVars, Referenced, InUse
<1>4. /\ TypeOK' /\ ClockInv'
      /\ \A e \in DownloadIds : e \in InUse' =>
            dl'[e].hash = dl[e].hash /\ dl'[e].err = dl[e].err
      /\ \A e \in DownloadIds : e \in Referenced' => dl'[e].hash = dl[e].hash
      <2>1. TypeOK' /\ ClockInv' /\ Collects(dl)
            BY <1>2, <1>3, HeapSame DEF WatchdogSkips, Inv
      <2> QED BY <2>1 DEF Collects
<1>5. /\ UNCHANGED <<loop, fileView, downloads, confirmDelete, adds>>
      /\ loop # "idle" /\ rest' = rest \ {d}
      BY DEF WatchdogSkips, screenVars
<1>6. Keyed' BY <1>4, <1>5, PointersAfter DEF Keyed, Inv
<1> QED BY <1>0, <1>1, <1>4, <1>5, <1>6, PassedOver

LEMMA WatchdogFindsInv ==
    ASSUME TuiAssumption, Inv, NEW d \in DownloadIds, WatchdogFinds(d)
    PROVE  Inv'
<1>1. /\ UNCHANGED <<dl, downloads, have, dead, dlList, fileView, confirmDelete, loop, rest,
                     ticking, adds>>
      /\ due' = d /\ d \in rest /\ loop = "restart" /\ Stalled(d)
      BY DEF WatchdogFinds, engineVars, screenVars
<1>2. Referenced' = Referenced BY <1>1 DEF Referenced, InUse, List
<1>3. TypeOK' BY <1>1, <1>2 DEF Inv, TypeOK
<1>4. DueInv' BY <1>1 DEF DueInv, Stalled
<1>5. ClockInv' /\ InputInv' /\ AddInv' BY <1>1 DEF Inv, ClockInv, InputInv, AddInv
<1>6. \A a \in Adders : Reporting(a) => Reporting(a)' BY <1>1 DEF Reporting
<1> QED BY <1>1, <1>3, <1>4, <1>5, <1>6, Undisturbed

(* Restart puts a fresh Download into the map, or takes the task out of it. *)
LEMMA WatchdogRestartsInv ==
    ASSUME TuiAssumption, Inv, NEW d \in DownloadIds, WatchdogRestarts, d = due
    PROVE  Inv'
<1> DEFINE h == dl[d].hash
<1>1. d \in rest /\ d \in InUse /\ h \in Hashes
      <2>1. d \in rest BY DEF WatchdogRestarts, Inv, TypeOK
      <2> QED BY <2>1, Pointers DEF Inv
<1>2. /\ UNCHANGED <<loop, fileView, dlList, have, dead, ticking, confirmDelete, adds>>
      /\ loop # "idle" /\ rest' = rest \ {d} /\ fileView.d # d /\ due' = Nil
      BY DEF WatchdogRestarts, Inv, DueInv, screenVars
<1>3. PICK refused \in {"readd" \in Faults, FALSE} : Restart(h, refused)
      BY DEF WatchdogRestarts
<1>4. CASE downloads[h] = Nil \/ (downloads[h] # Nil /\ refused)
      <2>1. /\ downloads' = downloads \/ downloads' = Unlisted(h)
            /\ Heap(dl)
            BY <1>3, <1>4 DEF Restart
      <2>2. Frame' BY <1>1, <1>2, <2>1 DEF Inv, TypeOK, Frame, Unlisted
      <2>3. \A e \in DownloadIds : e \in Referenced' => e \in Referenced
            BY <1>1, <1>2, <2>1 DEF Referenced, InUse, List, Unlisted, Inv, TypeOK
      <2>4. /\ TypeOK' /\ ClockInv'
            /\ \A e \in DownloadIds : e \in InUse' =>
                  dl'[e].hash = dl[e].hash /\ dl'[e].err = dl[e].err
            /\ \A e \in DownloadIds : e \in Referenced' => dl'[e].hash = dl[e].hash
            <3>1. TypeOK' /\ ClockInv' /\ Collects(dl)
                  BY <2>1, <2>2, <2>3, HeapSame DEF Inv
            <3> QED BY <3>1 DEF Collects
      <2>5. \A g \in Hashes : g # h => downloads'[g] = downloads[g]
            BY <2>1 DEF Unlisted, Inv, TypeOK
      <2>6. Keyed'
            <3>1. CASE downloads' = Unlisted(h) BY <1>1, <2>4, <3>1, UnlistedKeyed
            <3>2. CASE downloads' = downloads
                  BY <2>4, <3>2, PointersAfter DEF Keyed, Inv
            <3> QED BY <2>1, <3>1, <3>2
      <2> QED BY <1>1, <1>2, <2>4, <2>5, <2>6, PassedOver
<1>5. CASE downloads[h] # Nil /\ ~refused
      <2> DEFINE info == dl[downloads[h]].info
                 skip == SkipOf(downloads[h])
      <2>1. /\ FreeDownloads # {} /\ downloads' = [downloads EXCEPT ![h] = Fresh]
            /\ Heap(Registered(h, info, skip))
            BY <1>3, <1>5 DEF Restart
      <2>2. info \in BOOLEAN /\ skip \in SUBSET Files
            BY <1>1, <1>5 DEF Inv, TypeOK, SkipOf
      <2>3. Fresh \in DownloadIds BY <2>1 DEF Fresh, FreeDownloads
      <2>4. Frame' BY <1>1, <1>2, <2>1, <2>3 DEF Inv, TypeOK, Frame
      <2>5. \A e \in DownloadIds : e \in Referenced' => e \in Referenced \/ e = Fresh
            BY <1>1, <1>2, <2>1 DEF Referenced, InUse, List, Inv, TypeOK
      <2>6. /\ TypeOK' /\ ClockInv'
            /\ Fresh \in Referenced' => dl'[Fresh].hash = h
            /\ \A e \in DownloadIds : e \in Referenced /\ e \in Referenced' =>
                  dl'[e].hash = dl[e].hash
            /\ \A e \in DownloadIds : e \in Referenced /\ e \in InUse' =>
                  dl'[e].err = dl[e].err
            <3> HIDE DEF info, skip, h
            <3> QED BY <1>1, <2>1, <2>2, <2>4, <2>5, HeapFresh DEF Inv
      <2>9. \A e \in DownloadIds : e \in InUse /\ e \in InUse' =>
               dl'[e].hash = dl[e].hash /\ dl'[e].err = dl[e].err
            BY <2>6, Pointers, PointersAfter DEF Inv
      <2>7. /\ \A g \in Hashes : g # h => downloads'[g] = downloads[g]
            /\ downloads'[h] = Fresh
            BY <1>1, <2>1 DEF Inv, TypeOK
      <2>8. Keyed'
            BY <1>1, <2>3, <2>6, <2>7, Pointers, PointersAfter DEF Keyed, Inv
      <2> QED BY <1>1, <1>2, <2>6, <2>7, <2>8, <2>9, PassedOver
<1> QED BY <1>4, <1>5

-----------------------------------------------------------------------------
(* The end of the tick, the keys and the adds.                             *)

LEMMA WantedTyped ==
    ASSUME TypeOK, NEW d \in DownloadIds
    PROVE  WantedFiles(d) \in SUBSET Files
BY DEF TypeOK, WantedFiles

(* A handler that makes no Download, takes at most one entry out of the    *)
(* map, and that only under no modal, and refreshes the list.              *)
LEMMA Relisted ==
    ASSUME TuiAssumption, Inv, Heap(dl), Frame', InputInv', loop' = "idle", rest' = {},
           dlList' = List(downloads'),
           \A a \in Adders : adds'[a] = adds[a] \/ adds'[a] = NoAdd,
           \/ downloads' = downloads
           \/ (\E h \in Hashes : downloads' = Unlisted(h)) /\ fileView'.d = Nil,
           fileView'.d = Nil \/ fileView'.d = fileView.d
    PROVE  Inv'
<1>1. \A h \in Hashes : downloads'[h] # Nil => downloads'[h] = downloads[h]
      BY DEF Unlisted, Inv, TypeOK
<1>2. \A e \in DownloadIds : e \in Referenced' => e \in Referenced
      BY <1>1 DEF Referenced, InUse, List, NoAdd, NoView
<1>3. /\ TypeOK' /\ ClockInv'
      /\ \A e \in DownloadIds : e \in InUse' =>
            dl'[e].hash = dl[e].hash /\ dl'[e].err = dl[e].err
      /\ AddInv'
      <2>1. TypeOK' /\ ClockInv' /\ Collects(dl) BY <1>2, HeapSame DEF Inv
      <2>2. AddInv' BY <2>1, AddsKept DEF Collects, NoAdd
      <2> QED BY <2>1, <2>2 DEF Collects
<1>4. Keyed' BY <1>1, <1>3, PointersAfter DEF Inv, Keyed
<1>5. CASE fileView'.d = Nil BY <1>3, <1>4, <1>5, Refreshed
<1>6. CASE fileView'.d # Nil
      <2>1. downloads' = downloads /\ fileView'.d = fileView.d BY <1>6
      <2>2. Current(fileView.d) BY <1>6, <2>1 DEF Inv, ModalInv
      <2>3. fileView.d \in InUse' /\ fileView.d \in DownloadIds
            BY <1>3, <1>6, <2>1, PointersAfter
      <2>4. Current(fileView.d)' BY <1>3, <1>6, <2>1, <2>2, <2>3 DEF Current
      <2> QED BY <1>3, <1>4, <2>1, <2>4, Refreshed
<1> QED BY <1>5, <1>6

LEMMA RefreshInv ==
    ASSUME TuiAssumption, Inv, Refresh
    PROVE  Inv'
<1>1. /\ UNCHANGED <<downloads, have, dead, confirmDelete, due, adds>>
      /\ rest = {} /\ rest' = {}
      /\ loop' = "idle" /\ ticking' = TRUE /\ dlList' = List(downloads') /\ Heap(dl)
      /\ fileView' = IF fileView = NoView THEN NoView
                     ELSE [fileView EXCEPT !.files = WantedFiles(fileView.d)]
      BY DEF Refresh, RefreshDownloads, SameDownloads, Rearmed
<1>2. /\ fileView' \in [d: DownloadIds \cup {Nil}, files: SUBSET Files]
      /\ fileView'.d = fileView.d /\ (fileView = NoView => fileView' = NoView)
      <2>1. CASE fileView = NoView BY <1>1, <2>1 DEF NoView
      <2>2. CASE fileView # NoView
            <3>1. fileView.d \in DownloadIds
                  BY <2>2 DEF Inv, InputInv, TypeOK
            <3>2. WantedFiles(fileView.d) \in SUBSET Files
                  BY <3>1, WantedTyped DEF Inv
            <3> QED BY <1>1, <2>2, <3>2 DEF Inv, TypeOK
      <2> QED BY <2>1, <2>2
<1>3. List(downloads') \subseteq DownloadIds BY <1>1 DEF Inv, TypeOK, List
<1>4. Frame' BY <1>1, <1>2, <1>3 DEF Inv, TypeOK, Frame
<1>5. InputInv' BY <1>1, <1>2 DEF Inv, InputInv
<1> QED BY <1>1, <1>2, <1>4, <1>5, Relisted

LEMMA ModalCloseInv ==
    ASSUME TuiAssumption, Inv, ModalClose
    PROVE  Inv'
<1>1. /\ UNCHANGED <<downloads, have, dead, confirmDelete, loop, rest, due, ticking, adds>>
      /\ loop' = "idle" /\ dlList' = List(downloads') /\ Heap(dl) /\ fileView' = NoView
      BY DEF ModalClose, InModal, RefreshDownloads, SameDownloads
<1>2. List(downloads') \subseteq DownloadIds BY <1>1 DEF Inv, TypeOK, List
<1>3. Frame' BY <1>1, <1>2 DEF Inv, TypeOK, Frame, NoView
<1>4. InputInv' BY <1>1 DEF Inv, InputInv
<1>5. rest' = {} BY <1>1 DEF Inv, RestInv
<1> QED BY <1>1, <1>3, <1>4, <1>5, Relisted DEF NoView

LEMMA DownloadAddedInv ==
    ASSUME TuiAssumption, Inv, NEW a \in Adders, DownloadAdded(a)
    PROVE  Inv'
<1>1. /\ UNCHANGED <<downloads, have, dead, fileView, confirmDelete, loop, rest, due, ticking>>
      /\ loop' = "idle" /\ dlList' = List(downloads') /\ Heap(dl)
      /\ adds' = [adds EXCEPT ![a] = NoAdd]
      BY DEF DownloadAdded, RefreshDownloads, SameDownloads
<1>2. List(downloads') \subseteq DownloadIds BY <1>1 DEF Inv, TypeOK, List
<1>3. Frame' BY <1>1, <1>2 DEF Inv, TypeOK, Frame, NoAdd
<1>4. InputInv' BY <1>1 DEF Inv, InputInv, TypeOK, NoAdd
<1>5. rest' = {} BY <1>1 DEF Inv, RestInv
<1> QED BY <1>1, <1>3, <1>4, <1>5, Relisted

(* Remove and its refresh, between two messages and with no modal open.    *)
LEMMA RemoveInv ==
    ASSUME TuiAssumption, Inv, NEW h \in Hashes, RemoveAndRefresh(h), Heap(dl),
           loop = "idle", fileView = NoView,
           UNCHANGED <<fileView, loop, rest, due, adds, dead>>,
           have' \in [Hashes -> SUBSET Files], ticking' = ticking,
           confirmDelete' \in {Nil, confirmDelete}
    PROVE  Inv'
<1>1. downloads' \in [Hashes -> DownloadIds \cup {Nil}]
      BY DEF RemoveAndRefresh, Unlisted, Inv, TypeOK
<1>2. List(downloads') \subseteq DownloadIds BY <1>1 DEF List
<1>3. dlList' = dlList \/ dlList' = List(downloads')
      BY DEF RemoveAndRefresh, RefreshDownloads, SameDownloads
<1>4. Frame' BY <1>1, <1>2, <1>3 DEF Inv, TypeOK, Frame
<1>5. InputInv' BY DEF Inv, InputInv
<1>6. CASE downloads[h] = Nil
      <2>1. downloads' = downloads /\ dlList' = dlList
            BY <1>6 DEF RemoveAndRefresh, Unlisted, Inv, TypeOK
      <2>2. Referenced' = Referenced BY <2>1 DEF Referenced, InUse, List
      <2>3. TypeOK' /\ ClockInv' /\ Collects(dl) BY <1>4, <2>2, HeapSame DEF Inv
      <2>4. InUse' = InUse BY <2>1 DEF InUse, List
      <2>5. \A e \in DownloadIds : e \in InUse =>
                  /\ dl'[e].hash = dl[e].hash /\ dl'[e].err = dl[e].err
                  /\ dl'[e].sampled => dl[e].sampled
            BY <2>3, <2>4 DEF Collects
      <2>6. AddInv' BY <2>3, AddsKept DEF Collects
      <2>7. DueInv' BY <2>3 DEF Inv, RestInv, DueInv, TypeOK
      <2>8. \A a \in Adders : Reporting(a) => Reporting(a)' BY DEF Reporting
      <2> QED BY <1>5, <2>1, <2>3, <2>5, <2>6, <2>7, <2>8, Undisturbed
<1>7. CASE downloads[h] # Nil
      <2>1. dlList' = List(downloads') /\ downloads' = Unlisted(h)
            BY <1>7 DEF RemoveAndRefresh, RefreshDownloads, SameDownloads
      <2>2. rest' = {} BY DEF Inv, RestInv
      <2> QED BY <1>4, <1>5, <2>1, <2>2, Relisted DEF NoView
<1> QED BY <1>6, <1>7

LEMMA KeyRemoveInv ==
    ASSUME TuiAssumption, Inv, NEW d \in DownloadIds, KeyRemove(d)
    PROVE  Inv'
<1>1. dl[d].hash \in Hashes BY Pointers DEF KeyRemove, Inv
<1>2. have' \in [Hashes -> SUBSET Files] BY DEF KeyRemove, Inv, TypeOK
<1> QED BY <1>1, <1>2, RemoveInv DEF KeyRemove, AtList

LEMMA ConfirmYesInv ==
    ASSUME TuiAssumption, Inv, ConfirmYes
    PROVE  Inv'
<1>1. confirmDelete \in Hashes BY DEF ConfirmYes, Inv, TypeOK
<1>3. have' \in [Hashes -> SUBSET Files]
      <2>1. PICK wiped \in Wipes(confirmDelete) :
               have' = [h \in Hashes |-> IF h \in wiped THEN {} ELSE have[h]]
            BY DEF ConfirmYes
      <2> QED BY <2>1 DEF Inv, TypeOK
<1>4. fileView = NoView BY DEF ConfirmYes, Inv, InputInv
<1> QED BY <1>1, <1>3, <1>4, RemoveInv DEF ConfirmYes

LEMMA KeyPauseInv ==
    ASSUME TuiAssumption, Inv, NEW d \in DownloadIds, KeyPause(d)
    PROVE  Inv'
<1> DEFINE objects == [dl EXCEPT ![d].paused = ~@]
<1>1. /\ UNCHANGED <<downloads, have, dead, dlList, fileView, confirmDelete, loop, rest, due,
                     ticking, adds>>
      /\ loop = "idle" /\ Heap(objects)
      BY DEF KeyPause, AtList, screenVars
<1>2. Referenced' = Referenced BY <1>1 DEF Referenced, InUse, List
<1>3. dl \in [DownloadIds -> Object] /\ \A e \in Referenced : dl[e].hash # Nil
      BY DEF Inv, TypeOK, Object
<1>4. dl[d] \in Object BY <1>3
<1>5. LET object == [dl[d] EXCEPT !.paused = ~@]
      IN  /\ object \in Object /\ object.hash = dl[d].hash /\ object.err = dl[d].err
          /\ object.sampled = dl[d].sampled /\ object.stall = dl[d].stall
          /\ object.quiet = dl[d].quiet
      BY <1>4 DEF Object
<1>6. /\ objects \in [DownloadIds -> Object]
      /\ \A e \in DownloadIds :
            /\ objects[e].hash = dl[e].hash /\ objects[e].err = dl[e].err
            /\ objects[e].sampled = dl[e].sampled /\ objects[e].stall = dl[e].stall
            /\ objects[e].quiet = dl[e].quiet
      BY <1>3, <1>5
<1>7. Frame' BY <1>1 DEF Inv, TypeOK, Frame
<1>8. \A e \in DownloadIds : Clocked(objects[e])
      BY <1>6 DEF Inv, ClockInv, Clocked
<1>9. TypeOK' /\ ClockInv' /\ Collects(objects)
      <2> HIDE DEF objects
      <2>1. \A e \in DownloadIds : e \in Referenced' => objects[e].hash # Nil
            BY <1>2, <1>3, <1>6
      <2> QED BY <1>1, <1>6, <1>7, <1>8, <2>1, Collected
<1>10. InputInv' BY <1>1 DEF Inv, InputInv
<1>11. InUse' = InUse BY <1>1 DEF InUse, List
<1>12. \A e \in DownloadIds : e \in InUse =>
          /\ dl'[e].hash = dl[e].hash /\ dl'[e].err = dl[e].err
          /\ dl'[e].sampled => dl[e].sampled
       <2> HIDE DEF objects
       <2> QED BY <1>6, <1>9, <1>11 DEF Collects
<1>13. AddInv'
       <2> HIDE DEF objects
       <2> QED BY <1>1, <1>6, <1>9, AddsKept DEF Collects
<1>14. DueInv' BY <1>1, <1>9 DEF Inv, RestInv, DueInv, TypeOK
<1>15. \A a \in Adders : Reporting(a) => Reporting(a)' BY <1>1 DEF Reporting
<1> QED BY <1>1, <1>9, <1>10, <1>12, <1>13, <1>14, <1>15, Undisturbed

(* A step that leaves the Downloads as they are, or changes one of them    *)
(* where nobody points at it.                                              *)
LEMMA OneChanged ==
    ASSUME TuiAssumption, Inv, NEW d \in DownloadIds, NEW new \in Object, Clocked(new),
           new.hash = dl[d].hash, dl[d].err => new.err, new.sampled = dl[d].sampled,
           dl[d].info => new.info, new.stall = dl[d].stall, new.paused = dl[d].paused,
           dl' = [dl EXCEPT ![d] = new], Frame', InputInv',
           UNCHANGED <<downloads, loop, rest, due, dlList, adds>>, fileView'.d = fileView.d
    PROVE  Inv'
<1>1. dl \in [DownloadIds -> Object] /\ \A e \in Referenced : dl[e].hash # Nil
      BY DEF Inv, TypeOK, Object
<1>2. /\ dl' \in [DownloadIds -> Object] /\ dl'[d] = new
      /\ \A e \in DownloadIds : e # d => dl'[e] = dl[e]
      BY <1>1
<1>3. Referenced' = Referenced /\ Referenced \subseteq DownloadIds
      BY DEF Referenced, InUse, List, Inv, TypeOK
<1>4. \A e \in DownloadIds :
         /\ dl'[e].hash = dl[e].hash /\ dl'[e].stall = dl[e].stall
         /\ dl'[e].paused = dl[e].paused
         /\ dl[e].err => dl'[e].err
         /\ dl[e].info => dl'[e].info
         /\ dl'[e].sampled => dl[e].sampled
      BY <1>2
<1>5. \A e \in Referenced' : dl'[e].hash # Nil BY <1>1, <1>3, <1>4
<1>6. TypeOK' BY <1>2, <1>5 DEF TypeOK, Frame, Object
<1>7. ClockInv' BY <1>2 DEF Inv, ClockInv
<1>8. AddInv' BY <1>4, <1>6, AddsKept
<1>9. DueInv' BY <1>4, <1>6, DueKept
<1>10. \A a \in Adders : Reporting(a) => Reporting(a)' BY DEF Reporting
<1> QED BY <1>4, <1>6, <1>7, <1>8, <1>9, <1>10, Undisturbed

(* A step that does not touch a Download or a pointer to one.              *)
LEMMA Elsewhere ==
    ASSUME TuiAssumption, Inv, Frame', InputInv',
           UNCHANGED <<dl, downloads, loop, rest, due, dlList>>, fileView'.d = fileView.d,
           \A a \in Adders :
              \/ adds'[a] = adds[a]
              \/ /\ adds[a].pc \in {"none", "add"} /\ adds'[a].pc # "pause"
                 /\ adds'[a].d = Nil
    PROVE  Inv'
<1>1. \A d \in DownloadIds : d \in Referenced' => d \in Referenced
      BY DEF Referenced, InUse, List
<1>2. TypeOK'
      <2>1. Referenced' \subseteq DownloadIds BY DEF Frame, Referenced, InUse, List
      <2>2. \A d \in Referenced' : dl'[d].hash # Nil BY <1>1, <2>1 DEF Inv, TypeOK
      <2> QED BY <2>2 DEF Inv, TypeOK, Frame
<1>3. ClockInv' BY DEF Inv, ClockInv
<1>4. AddInv' BY <1>2, AddsKept
<1>5. DueInv' BY <1>2, DueKept
<1>6. \A a \in Adders : Reporting(a) => Reporting(a)' BY DEF Reporting
<1> QED BY <1>2, <1>3, <1>4, <1>5, <1>6, Undisturbed

LEMMA KeyDeleteInv ==
    ASSUME TuiAssumption, Inv, NEW d \in DownloadIds, KeyDelete(d)
    PROVE  Inv'
<1>1. dl[d].hash \in Hashes BY Pointers DEF KeyDelete, Inv
<1> USE DEF KeyDelete, AtList, engineVars
<1>2. Frame' BY <1>1 DEF Inv, TypeOK, Frame
<1>3. InputInv' BY DEF Inv, InputInv
<1> QED BY <1>2, <1>3, Elsewhere

LEMMA ConfirmNoInv ==
    ASSUME TuiAssumption, Inv, ConfirmNo
    PROVE  Inv'
<1> USE DEF ConfirmNo, engineVars
<1>1. Frame' BY DEF Inv, TypeOK, Frame
<1>2. InputInv' BY DEF Inv, InputInv
<1> QED BY <1>1, <1>2, Elsewhere

(* What the modal is opened on is Current, as everything on the screen is. *)
LEMMA KeyFilesInv ==
    ASSUME TuiAssumption, Inv, NEW d \in DownloadIds, KeyFiles(d)
    PROVE  Inv'
<1>1. /\ UNCHANGED <<dl, downloads, have, dead, dlList, confirmDelete, loop, rest, due,
                     ticking, adds>>
      /\ loop = "idle" /\ d \in dlList /\ fileView = NoView /\ confirmDelete = Nil
      /\ fileView' = [d |-> d, files |-> WantedFiles(d)]
      BY DEF KeyFiles, AtList, engineVars
<1>2. WantedFiles(d) \in SUBSET Files BY WantedTyped DEF Inv
<1>3. fileView'.d = d /\ d # Nil BY <1>1 DEF TuiAssumption
<1>4. Frame' BY <1>1, <1>2 DEF Inv, TypeOK, Frame
<1>5. Referenced' \subseteq Referenced BY <1>1, <1>3 DEF Referenced, InUse, List
<1>6. TypeOK' BY <1>1, <1>4, <1>5 DEF Inv, TypeOK, Frame
<1>7. ClockInv' /\ Keyed' BY <1>1 DEF Inv, ClockInv, Keyed
<1>8. InputInv' BY <1>1, <1>3 DEF Inv, InputInv
<1>9. RestInv' /\ ShownInv' BY <1>1 DEF Inv, RestInv, ShownInv, Current
<1>10. ModalInv' BY <1>1, <1>3 DEF Inv, ModalInv, ShownInv, RestInv, Current
<1>11. ListFresh' BY <1>1 DEF Inv, ListFresh, List, Reporting
<1>12. AddInv' BY <1>1 DEF Inv, AddInv
<1>13. DueInv' BY <1>1, <1>6 DEF Inv, RestInv, DueInv, TypeOK
<1> QED BY <1>6, <1>7, <1>8, <1>9, <1>10, <1>11, <1>12, <1>13 DEF Inv

LEMMA SelectInv ==
    ASSUME TuiAssumption, Inv, InModal, NEW wanted \in SUBSET Files,
           Select(fileView.d, wanted)
    PROVE  Inv'
<1> DEFINE d == fileView.d
           new == [dl[d] EXCEPT !.wanted = wanted]
<1>1. d \in DownloadIds BY DEF InModal, Inv, InputInv, TypeOK
<1>2. /\ UNCHANGED <<downloads, have, dead, dlList, confirmDelete, loop, rest, due, ticking,
                     adds>>
      /\ dl' = [dl EXCEPT ![d] = new] /\ fileView' = [fileView EXCEPT !.files = wanted]
      BY DEF Select
<1>3. /\ fileView' \in [d: DownloadIds \cup {Nil}, files: SUBSET Files]
      /\ fileView'.d = fileView.d /\ fileView.d # Nil
      BY <1>1, <1>2 DEF Inv, TypeOK, TuiAssumption
<1>4. Frame' BY <1>2, <1>3 DEF Inv, TypeOK, Frame
<1>5. InputInv' BY <1>2, <1>3 DEF Inv, InputInv, InModal
<1>6. dl[d] \in Object /\ Clocked(dl[d]) BY <1>1 DEF Inv, TypeOK, Object, ClockInv
<1>7. /\ new \in Object /\ new.hash = dl[d].hash /\ new.err = dl[d].err
      /\ new.sampled = dl[d].sampled /\ new.stall = dl[d].stall
      /\ new.quiet = dl[d].quiet /\ new.paused = dl[d].paused
      /\ new.info = dl[d].info
      BY <1>6 DEF Object
<1>8. Clocked(new) BY <1>6, <1>7 DEF Clocked
<1> HIDE DEF d, new
<1> QED BY <1>1, <1>2, <1>3, <1>4, <1>5, <1>7, <1>8, OneChanged

LEMMA ModalKeysInv ==
    ASSUME TuiAssumption, Inv, ModalAll \/ ModalNone \/ \E f \in Files : ModalToggle(f)
    PROVE  Inv'
<1>1. CASE ModalAll BY <1>1, SelectInv DEF ModalAll
<1>2. CASE ModalNone
      <2>1. {} \in SUBSET Files OBVIOUS
      <2> QED BY <1>2, <2>1, SelectInv DEF ModalNone
<1>3. ASSUME NEW f \in Files, ModalToggle(f) PROVE Inv'
      <2>1. fileView.d \in DownloadIds
            BY <1>3 DEF ModalToggle, InModal, Inv, InputInv, TypeOK
      <2>2. WantedFiles(fileView.d) \in SUBSET Files BY <2>1, WantedTyped DEF Inv
      <2>3. PICK wanted \in SUBSET Files : Select(fileView.d, wanted)
            BY <1>3, <2>2 DEF ModalToggle
      <2> QED BY <1>3, <2>3, SelectInv DEF ModalToggle
<1> QED BY <1>1, <1>2, <1>3

LEMMA AddDownloadInv ==
    ASSUME TuiAssumption, Inv, NEW a \in Adders, NEW h \in Hashes, AddDownload(a, h)
    PROVE  Inv'
<1>1. /\ UNCHANGED <<dl, downloads, have, dead, dlList, fileView, confirmDelete, loop,
                     rest, due, ticking>>
      /\ adds[a].pc = "none"
      /\ adds' = [adds EXCEPT ![a] = [pc |-> "add", h |-> h, d |-> Nil]]
      BY DEF AddDownload, engineVars, screenVars
<1>2. Frame' BY <1>1 DEF Inv, TypeOK, Frame
<1>3. InputInv' BY <1>1 DEF Inv, InputInv, TypeOK, TuiAssumption
<1>4. \A b \in Adders :
         \/ adds'[b] = adds[b]
         \/ /\ adds[b].pc \in {"none", "add"} /\ adds'[b].pc # "pause"
            /\ adds'[b].d = Nil
      BY <1>1 DEF Inv, TypeOK, NoAdd
<1> QED BY <1>1, <1>2, <1>3, <1>4, Elsewhere

LEMMA AddRefusedInv ==
    ASSUME TuiAssumption, Inv, NEW a \in Adders, AddRefused(a)
    PROVE  Inv'
<1>1. /\ UNCHANGED <<dl, downloads, have, dead, dlList, fileView, confirmDelete, loop,
                     rest, due, ticking>>
      /\ adds[a].pc = "add" /\ adds' = [adds EXCEPT ![a] = NoAdd]
      BY DEF AddRefused, engineVars, screenVars
<1>2. Frame' BY <1>1 DEF Inv, TypeOK, Frame, NoAdd
<1>3. InputInv' BY <1>1 DEF Inv, InputInv, TypeOK, NoAdd
<1>4. \A b \in Adders :
         \/ adds'[b] = adds[b]
         \/ /\ adds[b].pc \in {"none", "add"} /\ adds'[b].pc # "pause"
            /\ adds'[b].d = Nil
      BY <1>1 DEF Inv, TypeOK, NoAdd
<1> QED BY <1>1, <1>2, <1>3, <1>4, Elsewhere

(* track hands back the healthy task, or replaces what has failed.         *)
LEMMA AddTracksInv ==
    ASSUME TuiAssumption, Inv, NEW a \in Adders, NEW paused \in BOOLEAN,
           AddTracks(a, paused)
    PROVE  Inv'
<1> DEFINE h == adds[a].h
           old == downloads[h]
<1>1. h \in Hashes /\ adds[a].pc = "add" /\ adds[a].d = Nil
      BY DEF AddTracks, Inv, InputInv, AddInv, TypeOK
<1>2. /\ UNCHANGED <<have, dead, dlList, fileView, confirmDelete, loop, rest, due, ticking>>
      /\ adds' = [adds EXCEPT ![a].pc = IF paused THEN "pause" ELSE "added",
                              ![a].d = IF paused THEN downloads'[h] ELSE Nil]
      /\ \/ /\ old # Nil /\ ~dl[old].err /\ Heap(dl)
            /\ downloads' = [downloads EXCEPT ![h] = old]
         \/ /\ old = Nil \/ dl[old].err
            /\ FreeDownloads # {} /\ downloads' = [downloads EXCEPT ![h] = Fresh]
            /\ Heap(Registered(h, FALSE, {}))
      BY <1>1 DEF AddTracks, screenVars, Inv, TypeOK
<1>0. downloads'[h] \in DownloadIds /\ downloads'[h] # Nil
      <2>1. FreeDownloads # {} => Fresh \in DownloadIds BY DEF Fresh, FreeDownloads
      <2>2. downloads \in [Hashes -> DownloadIds \cup {Nil}] /\ Nil \notin DownloadIds
            BY DEF Inv, TypeOK, TuiAssumption
      <2>3. CASE downloads' = [downloads EXCEPT ![h] = old] /\ old # Nil
            BY <1>1, <2>2, <2>3
      <2>4. CASE downloads' = [downloads EXCEPT ![h] = Fresh] /\ FreeDownloads # {}
            <3> HIDE DEF h
            <3> QED BY <1>1, <2>1, <2>2, <2>4
      <2> QED BY <1>2, <2>3, <2>4
<1>3. /\ adds' \in [Adders -> [pc: {"none", "add", "pause", "added"},
                               h: Hashes \cup {Nil}, d: DownloadIds \cup {Nil}]]
      /\ \A b \in Adders : adds'[b].h = adds[b].h /\ (b # a => adds'[b] = adds[b])
      /\ \/ adds'[a].pc = "pause" /\ adds'[a].d = downloads'[h]
         \/ adds'[a].pc = "added" /\ adds'[a].d = Nil
      <2> DEFINE pc == IF paused THEN "pause" ELSE "added"
                 d == IF paused THEN downloads'[h] ELSE Nil
      <2>1. /\ pc \in {"none", "add", "pause", "added"} /\ d \in DownloadIds \cup {Nil}
            /\ (pc = "pause" /\ d = downloads'[h]) \/ (pc = "added" /\ d = Nil)
            BY <1>0
      <2>2. adds' = [adds EXCEPT ![a].pc = pc, ![a].d = d] BY <1>2
      <2> HIDE DEF pc, d, h
      <2> QED BY <2>1, <2>2 DEF Inv, TypeOK
<1>4. InputInv' BY <1>1, <1>2, <1>3 DEF Inv, InputInv, TuiAssumption
<1>7. \A b \in Adders : Reporting(b) => Reporting(b)'
      BY <1>1, <1>3 DEF Reporting
<1>8. /\ Reporting(a)'
      /\ \A b \in Adders : adds[b].pc = "added" =>
            adds'[b].pc = "added" /\ adds'[b].h = adds[b].h
      BY <1>1, <1>3 DEF Reporting
(* The new pointer goes to what the map now has under h.                   *)
<1>9. ASSUME TypeOK', Keyed',
             \A e \in DownloadIds : e \in Referenced /\ e \in Referenced' =>
                dl'[e].hash = dl[e].hash
      PROVE  AddInv'
      <2>1. ASSUME NEW b \in Adders, b # a
            PROVE  /\ adds'[b].pc = "pause" <=> adds'[b].d # Nil
                   /\ adds'[b].d # Nil => dl'[adds'[b].d].hash = adds'[b].h
            <3>1. adds'[b] = adds[b] BY <1>3, <2>1
            <3>2. adds[b].d # Nil =>
                     /\ adds[b].d \in Referenced /\ adds[b].d \in DownloadIds
                     /\ adds[b].d \in Referenced'
                  BY <1>9, <3>1, Pointers, PointersAfter DEF Inv
            <3> QED BY <1>9, <3>1, <3>2 DEF Inv, AddInv
      <2>2. dl'[downloads'[h]].hash = h BY <1>0, <1>1, <1>9 DEF Keyed
      <2>3. adds'[a].h = h BY <1>3
      <2> QED BY <1>0, <1>3, <2>1, <2>2, <2>3 DEF AddInv
<1>5. CASE old # Nil /\ ~dl[old].err
      <2>1. Heap(dl) /\ downloads' = downloads
            BY <1>1, <1>2, <1>5 DEF Inv, TypeOK
      <2>2. Frame' BY <1>2, <1>3, <2>1 DEF Inv, TypeOK, Frame
      <2>3. /\ \A e \in DownloadIds : e \in Referenced' => e \in Referenced
            /\ InUse' = InUse
            <3>1. InUse' = InUse BY <1>2, <2>1 DEF InUse, List
            <3>2. downloads'[h] \in InUse
                  BY <1>0, <1>1, <2>1, Pointers DEF Inv
            <3>3. \A b \in Adders : adds'[b].d = adds[b].d \/ adds'[b].d \in InUse \cup {Nil}
                  BY <1>3, <3>2
            <3> QED BY <3>1, <3>3 DEF Referenced
      <2>4. TypeOK' /\ ClockInv' /\ Collects(dl) BY <2>1, <2>2, <2>3, HeapSame DEF Inv
      <2>5. \A e \in DownloadIds : e \in InUse =>
               /\ dl'[e].hash = dl[e].hash /\ dl'[e].err = dl[e].err
               /\ dl'[e].sampled => dl[e].sampled
            BY <2>3, <2>4 DEF Collects
      <2>6. Keyed' BY <2>1, <2>4, <2>5, Pointers DEF Keyed, Inv
      <2>7. AddInv' BY <1>9, <2>4, <2>6 DEF Collects
      <2>8. DueInv'
            <3>1. \A e \in DownloadIds : e \in rest => dl'[e] = dl[e]
                  BY <1>2, <2>4 DEF Collects
            <3> QED BY <1>2, <1>8, <2>4, <3>1, DueKept
      <2> QED BY <1>2, <1>4, <1>7, <2>1, <2>4, <2>5, <2>7, <2>8, Undisturbed
<1>6. CASE old = Nil \/ dl[old].err
      <2>1. /\ FreeDownloads # {} /\ downloads' = [downloads EXCEPT ![h] = Fresh]
            /\ Heap(Registered(h, FALSE, {}))
            BY <1>2, <1>6
      <2>2. Fresh \in DownloadIds BY <2>1 DEF Fresh, FreeDownloads
      <2>7. /\ \A g \in Hashes : g # h => downloads'[g] = downloads[g]
            /\ downloads'[h] = Fresh
            BY <1>1, <2>1 DEF Inv, TypeOK
      <2>3. Frame' BY <1>1, <1>2, <1>3, <2>1, <2>2 DEF Inv, TypeOK, Frame
      <2>4. \A e \in DownloadIds : e \in Referenced' => e \in Referenced \/ e = Fresh
            <3>1. \A b \in Adders : adds'[b].d \in {adds[b].d, Nil, Fresh}
                  BY <1>3, <2>7
            <3>2. \A e \in DownloadIds : e \in InUse' => e \in InUse \/ e = Fresh
                  BY <1>1, <1>2, <2>1 DEF InUse, List, Inv, TypeOK
            <3> QED BY <3>1, <3>2 DEF Referenced
      <2>5. {} \in SUBSET Files OBVIOUS
      <2>6. /\ TypeOK' /\ ClockInv' /\ Fresh \notin Referenced
            /\ Fresh \in Referenced' => dl'[Fresh].hash = h
            /\ \A e \in DownloadIds : e \in Referenced /\ e \in Referenced' =>
                  dl'[e].hash = dl[e].hash
            /\ \A e \in DownloadIds : e \in Referenced /\ e \in InUse' =>
                  dl'[e].err = dl[e].err
            /\ \A e \in DownloadIds : e \in rest /\ e \in rest' => dl'[e] = dl[e]
            <3> HIDE DEF h
            <3> QED BY <1>1, <2>1, <2>3, <2>4, <2>5, HeapFresh DEF Inv
      <2>8. /\ \A g \in Hashes : downloads[g] # Nil => downloads[g] \in Referenced
            /\ \A e \in rest \cup dlList : e \in Referenced /\ e \in DownloadIds
            /\ fileView.d # Nil => fileView.d \in Referenced /\ fileView.d \in DownloadIds
            /\ \A e \in Referenced : dl[e].hash \in Hashes
            /\ \A g \in Hashes : downloads'[g] # Nil =>
                  downloads'[g] \in Referenced' /\ downloads'[g] \in DownloadIds
            /\ \A e \in rest \cup dlList : e \in InUse' /\ e \in Referenced'
            /\ fileView.d # Nil => fileView.d \in InUse' /\ fileView.d \in Referenced'
            BY <1>2, <2>6, Pointers, PointersAfter DEF Inv
      <2>9. Keyed' BY <1>1, <2>2, <2>6, <2>7, <2>8 DEF Inv, Keyed
      <2>10. ASSUME NEW e \in DownloadIds, e \in Referenced, e \in Referenced', e \in InUse',
                    Current(e)
             PROVE  Current(e)'
             <3>1. dl'[e].hash = dl[e].hash /\ dl'[e].err = dl[e].err BY <2>6, <2>10
             <3>2. dl[e].hash = h => dl[e].err
                   BY <1>1, <1>6, <2>10, Nil \notin DownloadIds
                   DEF Current, TuiAssumption
             <3> QED BY <2>7, <2>8, <2>10, <3>1, <3>2 DEF Current
      <2>11. RestInv'
             BY <1>2, <2>6, <2>8, <2>10 DEF Inv, RestInv
      <2>12. ShownInv' BY <1>2, <2>8, <2>10 DEF Inv, ShownInv
      <2>13. ModalInv' BY <1>2, <2>6, <2>8, <2>10 DEF Inv, ModalInv
      <2>14. ListFresh' BY <1>8 DEF ListFresh
      <2>15. AddInv' BY <1>9, <2>6, <2>9
      <2>16. DueInv'
             <3>1. \A e \in DownloadIds : e \in rest => dl'[e] = dl[e]
                   BY <1>2, <2>6
             <3> QED BY <1>2, <1>8, <2>6, <3>1, DueKept
      <2> QED BY <1>4, <2>6, <2>9, <2>11, <2>12, <2>13, <2>14, <2>15, <2>16 DEF Inv
<1> QED BY <1>5, <1>6

(* The add pauses what track returned, wherever that is by now; until the  *)
(* loop has read its message, that it has done so can be told.             *)
LEMMA AddPausesInv ==
    ASSUME TuiAssumption, Inv, NEW a \in Adders, AddPauses(a)
    PROVE  Inv'
<1> DEFINE d == adds[a].d
           objects == [dl EXCEPT ![d].paused = TRUE]
<1>1. /\ UNCHANGED <<downloads, have, dead, dlList, fileView, confirmDelete, loop, rest, due,
                     ticking>>
      /\ adds[a].pc = "pause" /\ adds' = [adds EXCEPT ![a].pc = "added", ![a].d = Nil]
      /\ Heap(objects)
      BY DEF AddPauses, screenVars
<1>2. d \in DownloadIds /\ dl[d].hash = adds[a].h
      BY <1>1 DEF Inv, AddInv, TypeOK
<1>3. /\ adds' \in [Adders -> [pc: {"none", "add", "pause", "added"},
                               h: Hashes \cup {Nil}, d: DownloadIds \cup {Nil}]]
      /\ \A b \in Adders : adds'[b].h = adds[b].h /\ (b # a => adds'[b] = adds[b])
      /\ adds'[a].pc = "added" /\ adds'[a].d = Nil
      BY <1>1 DEF Inv, TypeOK
<1>4. dl \in [DownloadIds -> Object] /\ \A e \in Referenced : dl[e].hash # Nil
      BY DEF Inv, TypeOK, Object
<1>5. LET object == [dl[d] EXCEPT !.paused = TRUE]
      IN  /\ object \in Object /\ object.hash = dl[d].hash /\ object.err = dl[d].err
          /\ object.sampled = dl[d].sampled /\ object.stall = dl[d].stall
          /\ object.quiet = dl[d].quiet /\ object.info = dl[d].info
      <2>1. dl[d] \in Object BY <1>2, <1>4
      <2> QED BY <2>1 DEF Object
<1>6. /\ objects \in [DownloadIds -> Object]
      /\ \A e \in DownloadIds :
            /\ objects[e].hash = dl[e].hash /\ objects[e].err = dl[e].err
            /\ objects[e].sampled = dl[e].sampled /\ objects[e].stall = dl[e].stall
            /\ objects[e].quiet = dl[e].quiet /\ objects[e].info = dl[e].info
            /\ e # d => objects[e] = dl[e]
      BY <1>2, <1>4, <1>5
<1>7. InUse' = InUse /\ \A e \in DownloadIds : e \in Referenced' => e \in Referenced
      <2>1. InUse' = InUse BY <1>1 DEF InUse, List
      <2>2. \A b \in Adders : adds'[b].d \in {adds[b].d, Nil} BY <1>3
      <2> QED BY <2>1, <2>2 DEF Referenced
<1>8. Frame' BY <1>1, <1>3 DEF Inv, TypeOK, Frame
<1> HIDE DEF d, objects
<1>9. TypeOK' /\ ClockInv' /\ Collects(objects)
      <2>1. \A e \in DownloadIds : Clocked(objects[e])
            BY <1>6 DEF Inv, ClockInv, Clocked
      <2>2. \A e \in DownloadIds : e \in Referenced' => objects[e].hash # Nil
            BY <1>4, <1>6, <1>7
      <2> QED BY <1>1, <1>6, <1>8, <2>1, <2>2, Collected
<1>10. InputInv' BY <1>1, <1>3 DEF Inv, InputInv
<1>11. AddInv'
       <2>1. \A b \in Adders :
                adds'[b] = adds[b] \/ (adds'[b].d = Nil /\ adds'[b].pc # "pause")
             BY <1>3
       <2>2. \A e \in DownloadIds : e \in Referenced /\ e \in Referenced' =>
                dl'[e].hash = dl[e].hash
             BY <1>6, <1>9 DEF Collects
       <2> QED BY <1>9, <2>1, <2>2, AddsKept
<1>12. DueInv'
       <2>1. \A e \in DownloadIds : e \in rest =>
                /\ dl'[e].hash = dl[e].hash /\ dl'[e].stall = dl[e].stall
                /\ dl[e].info => dl'[e].info
                /\ e # d => dl'[e] = dl[e]
             BY <1>1, <1>6, <1>9 DEF Collects
       <2>2. \A b \in Adders : adds[b].pc = "added" =>
                adds'[b].pc = "added" /\ adds'[b].h = adds[b].h
             BY <1>1, <1>3
       <2>3. adds'[a].pc = "added" /\ adds'[a].h = dl[d].hash BY <1>2, <1>3
       <2>4. \A e \in DownloadIds : e \in rest /\ dl'[e].paused =>
                \/ dl[e].paused
                \/ \E b \in Adders : adds'[b].pc = "added" /\ adds'[b].h = dl[e].hash
             BY <2>1, <2>3
       <2> QED BY <1>1, <1>9, <2>1, <2>2, <2>4, DueKept
<1>13. \A e \in DownloadIds : e \in InUse =>
          /\ dl'[e].hash = dl[e].hash /\ dl'[e].err = dl[e].err
          /\ dl'[e].sampled => dl[e].sampled
       BY <1>6, <1>7, <1>9 DEF Collects
<1>14. \A b \in Adders : Reporting(b) => Reporting(b)' BY <1>3 DEF Reporting
<1> QED BY <1>1, <1>9, <1>10, <1>11, <1>12, <1>13, <1>14, Undisturbed

-----------------------------------------------------------------------------
(* awaitMetadata, the client and the network.                              *)

LEMMA ChangesInv ==
    ASSUME TuiAssumption, Inv, NEW d \in DownloadIds, NEW new \in Object,
           new.hash = dl[d].hash, dl[d].err => new.err, new.sampled = dl[d].sampled,
           new.stall = dl[d].stall, new.quiet = dl[d].quiet, new.paused = dl[d].paused,
           dl[d].info => new.info, Changes(d, new)
    PROVE  Inv'
<1>1. /\ UNCHANGED <<downloads, have, dead, dlList, fileView, confirmDelete, loop, rest, due,
                     ticking, adds>>
      /\ dl' = [dl EXCEPT ![d] = new]
      BY DEF Changes, screenVars
<1>2. Frame' BY <1>1 DEF Inv, TypeOK, Frame
<1>3. InputInv' BY <1>1 DEF Inv, InputInv
<1>4. Clocked(new) BY DEF Inv, ClockInv, Clocked
<1> QED BY <1>1, <1>2, <1>3, <1>4, OneChanged

LEMMA MetadataInv ==
    ASSUME TuiAssumption, Inv, NEW d \in DownloadIds,
           GotInfo(d) \/ InitSelection(d) \/ MetadataTimeout(d)
    PROVE  Inv'
<1>1. dl[d] \in Object BY DEF Inv, TypeOK, Object
<1>2. CASE GotInfo(d)
      <2> DEFINE new == [dl[d] EXCEPT !.info = TRUE]
      <2>1. /\ new \in Object /\ new.hash = dl[d].hash /\ new.err = dl[d].err
            /\ new.sampled = dl[d].sampled /\ new.stall = dl[d].stall
            /\ new.quiet = dl[d].quiet /\ new.paused = dl[d].paused
            /\ dl[d].info => new.info
            BY <1>1 DEF Object
      <2>2. Changes(d, new) BY <1>2 DEF GotInfo
      <2> HIDE DEF new
      <2> QED BY <2>1, <2>2, ChangesInv
<1>3. CASE InitSelection(d)
      <2> DEFINE new == [dl[d] EXCEPT !.wanted = Files \ dl[d].skip, !.skip = {}]
      <2>1. /\ new \in Object /\ new.hash = dl[d].hash /\ new.err = dl[d].err
            /\ new.sampled = dl[d].sampled /\ new.stall = dl[d].stall
            /\ new.quiet = dl[d].quiet /\ new.paused = dl[d].paused
            /\ dl[d].info => new.info
            BY <1>1 DEF Object
      <2>2. Changes(d, new) BY <1>3 DEF InitSelection
      <2> HIDE DEF new
      <2> QED BY <2>1, <2>2, ChangesInv
<1>4. CASE MetadataTimeout(d)
      <2> DEFINE new == [dl[d] EXCEPT !.err = TRUE, !.skip = {}]
      <2>1. /\ new \in Object /\ new.hash = dl[d].hash /\ new.err
            /\ new.sampled = dl[d].sampled /\ new.stall = dl[d].stall
            /\ new.quiet = dl[d].quiet /\ new.paused = dl[d].paused
            /\ dl[d].info => new.info
            BY <1>1 DEF Object
      <2>2. Changes(d, new) BY <1>4 DEF MetadataTimeout
      <2> HIDE DEF new
      <2> QED BY <2>1, <2>2, ChangesInv
<1> QED BY <1>2, <1>3, <1>4

LEMMA NetworkInv ==
    ASSUME TuiAssumption, Inv, NEW h \in Hashes,
           PeersVanish(h) \/ \E f \in Files : FileCompletes(h, f)
    PROVE  Inv'
<1>1. /\ UNCHANGED <<dl, downloads, dlList, fileView, confirmDelete, loop, rest, due, ticking,
                     adds>>
      /\ have' \in [Hashes -> SUBSET Files] /\ dead' \in [Hashes -> BOOLEAN]
      <2>1. CASE PeersVanish(h) BY <2>1 DEF PeersVanish, screenVars, Inv, TypeOK
      <2>2. ASSUME NEW f \in Files, FileCompletes(h, f)
            PROVE  /\ UNCHANGED <<dl, downloads, dlList, fileView, confirmDelete, loop, rest, due,
                                  ticking, adds, dead>>
                   /\ have' \in [Hashes -> SUBSET Files]
            <3>1. have' = [have EXCEPT ![h] = @ \cup {f}] BY <2>2 DEF FileCompletes
            <3>2. have[h] \cup {f} \in SUBSET Files BY DEF Inv, TypeOK
            <3> QED BY <2>2, <3>1, <3>2 DEF FileCompletes, screenVars, Inv, TypeOK
      <2> QED BY <2>1, <2>2 DEF Inv, TypeOK
<1>2. Frame' BY <1>1 DEF Inv, TypeOK, Frame
<1>3. InputInv' BY <1>1 DEF Inv, InputInv
<1> QED BY <1>1, <1>2, <1>3, Elsewhere

-----------------------------------------------------------------------------

(* What New restored is listed, keyed and unsampled, and nothing else      *)
(* points to a Download yet.                                               *)
LEMMA InitInv ==
    ASSUME TuiAssumption, Init
    PROVE  Inv
<1> DEFINE injective(f) == \A g, h \in Hashes : f[g] = f[h] => g = h
           ids == CHOOSE f \in [Hashes -> DownloadIds] : injective(f)
<1>1. ids \in [Hashes -> DownloadIds] /\ injective(ids)
      BY DEF TuiAssumption
<1>2. PICK restored \in SUBSET Hashes, skip \in [Hashes -> SUBSET Files] :
        /\ downloads = [h \in Hashes |-> IF h \in restored THEN ids[h] ELSE Nil]
        /\ dl = [d \in DownloadIds |->
                   IF \E h \in restored : ids[h] = d
                   THEN LET h == CHOOSE g \in restored : ids[g] = d
                        IN NewDownload(h, FALSE, skip[h])
                   ELSE NoDownload]
      BY DEF Init
<1> HIDE DEF ids
<1>3. /\ loop = "idle" /\ rest = {} /\ due = Nil /\ dlList = {} /\ fileView = NoView
      /\ confirmDelete = Nil /\ adds = [a \in Adders |-> NoAdd] /\ ticking = TRUE
      /\ have \in [Hashes -> SUBSET Files] /\ dead = [h \in Hashes |-> FALSE]
      BY DEF Init
<1>4. 0 \in Ages BY DEF TuiAssumption, Ages
<1>5. ASSUME NEW h \in Hashes
      PROVE  /\ NewDownload(h, FALSE, skip[h]) \in Object
             /\ NewDownload(h, FALSE, skip[h]).hash = h
             /\ NewDownload(h, FALSE, skip[h]).stall = Nil
             /\ ~NewDownload(h, FALSE, skip[h]).sampled
      <2>1. skip[h] \in SUBSET Files OBVIOUS
      <2> QED BY <1>4, <2>1 DEF NewDownload, NoDownload, Object
<1>6. NoDownload \in Object /\ NoDownload.stall = Nil /\ ~NoDownload.sampled
      BY <1>4 DEF NoDownload, Object
<1>7. ASSUME NEW h \in restored
      PROVE  ids[h] \in DownloadIds /\ dl[ids[h]] = NewDownload(h, FALSE, skip[h])
      <2>1. h = CHOOSE g \in restored : ids[g] = ids[h] BY <1>1
      <2> QED BY <1>1, <1>2, <2>1
<1>8. ASSUME NEW d \in DownloadIds
      PROVE  dl[d] \in Object /\ dl[d].stall = Nil /\ ~dl[d].sampled
      <2>1. ASSUME NEW h \in restored, ids[h] = d
            PROVE  dl[d] \in Object /\ dl[d].stall = Nil /\ ~dl[d].sampled
            <3>1. dl[d] = NewDownload(h, FALSE, skip[h]) /\ h \in Hashes
                  BY <1>7, <2>1
            <3> QED BY <1>5, <3>1
      <2>2. CASE ~\E h \in restored : ids[h] = d BY <1>2, <1>6, <2>2
      <2> QED BY <2>1, <2>2
<1>9. dl \in [DownloadIds -> Object] BY <1>2, <1>8
<1>10. Frame
       <2>1. downloads \in [Hashes -> DownloadIds \cup {Nil}] BY <1>1, <1>2
       <2> QED BY <1>3, <2>1 DEF Frame, NoView, NoAdd
<1>11. \A h \in Hashes : downloads[h] # Nil => h \in restored /\ downloads[h] = ids[h]
       BY <1>2
<1>12. Keyed BY <1>5, <1>7, <1>11 DEF Keyed
<1>13. \A d \in Referenced : dl[d].hash # Nil
       BY <1>3, <1>12 DEF Referenced, InUse, List, NoView, NoAdd, Keyed, TuiAssumption
<1>14. TypeOK BY <1>9, <1>10, <1>13, TypeParts
<1>15. ClockInv BY <1>8 DEF ClockInv, Clocked
<1>16. InputInv BY <1>3 DEF InputInv, NoAdd
<1>17. RestInv /\ ShownInv /\ ModalInv BY <1>3 DEF RestInv, ShownInv, ModalInv, NoView
<1>18. ListFresh
       <2>1. \A d \in List(downloads) : d \in DownloadIds BY <1>10 DEF Frame, List
       <2> QED BY <1>3, <1>8, <2>1 DEF ListFresh
<1>19. AddInv /\ DueInv BY <1>3 DEF AddInv, DueInv, NoAdd
<1> QED BY <1>12, <1>14, <1>15, <1>16, <1>17, <1>18, <1>19 DEF Inv

LEMMA NextInv ==
    ASSUME TuiAssumption, Inv, [Next]_vars
    PROVE  Inv'
<1>1. CASE EventLoop
      <2>1. ASSUME NEW gap \in 1 .. MaxGap, Tick(gap) PROVE Inv' BY <2>1, TickInv
      <2>2. ASSUME NEW d \in DownloadIds, Prune(d) PROVE Inv' BY <2>2, PruneInv
      <2>3. ASSUME NEW d \in DownloadIds, WatchdogSkips(d) PROVE Inv'
            BY <2>3, WatchdogSkipsInv
      <2>4. CASE WatchdogRestarts
            <3>1. due \in DownloadIds BY <2>4 DEF WatchdogRestarts, Inv, TypeOK
            <3> QED BY <2>4, <3>1, WatchdogRestartsInv
      <2>7. ASSUME NEW d \in DownloadIds, WatchdogFinds(d) PROVE Inv'
            BY <2>7, WatchdogFindsInv
      <2>5. CASE PruneEnds BY <2>5, PruneEndsInv
      <2>6. CASE Refresh BY <2>6, RefreshInv
      <2> QED BY <1>1, <2>1, <2>2, <2>3, <2>4, <2>5, <2>6, <2>7 DEF EventLoop
<1>2. CASE Keys
      <2>1. ASSUME NEW d \in DownloadIds, KeyRemove(d) PROVE Inv' BY <2>1, KeyRemoveInv
      <2>2. ASSUME NEW d \in DownloadIds, KeyPause(d) PROVE Inv' BY <2>2, KeyPauseInv
      <2>3. ASSUME NEW d \in DownloadIds, KeyDelete(d) PROVE Inv' BY <2>3, KeyDeleteInv
      <2>4. ASSUME NEW d \in DownloadIds, KeyFiles(d) PROVE Inv' BY <2>4, KeyFilesInv
      <2>5. CASE ConfirmYes BY <2>5, ConfirmYesInv
      <2>6. CASE ConfirmNo BY <2>6, ConfirmNoInv
      <2>7. CASE ModalClose BY <2>7, ModalCloseInv
      <2>8. CASE ModalAll \/ ModalNone \/ \E f \in Files : ModalToggle(f)
            BY <2>8, ModalKeysInv
      <2>9. ASSUME NEW a \in Adders, NEW h \in Hashes, AddDownload(a, h) PROVE Inv'
            BY <2>9, AddDownloadInv
      <2> QED BY <1>2, <2>1, <2>2, <2>3, <2>4, <2>5, <2>6, <2>7, <2>8, <2>9 DEF Keys
<1>3. CASE AddCommands
      BY <1>3, AddTracksInv, AddPausesInv, AddRefusedInv, DownloadAddedInv DEF AddCommands
<1>4. CASE Environment
      BY <1>4, MetadataInv, NetworkInv DEF Environment
<1>5. CASE UNCHANGED vars
      <2>1. /\ UNCHANGED <<dl, downloads, have, dead, dlList, fileView, confirmDelete, loop,
                           rest, due, ticking, adds>>
            BY <1>5 DEF vars, engineVars, screenVars
      <2>2. Frame' BY <2>1 DEF Inv, TypeOK, Frame
      <2>3. InputInv' BY <2>1 DEF Inv, InputInv
      <2> QED BY <2>1, <2>2, <2>3, Elsewhere
<1> QED BY <1>1, <1>2, <1>3, <1>4, <1>5 DEF Next

LEMMA Inductive ==
    ASSUME TuiAssumption
    PROVE  Spec => []Inv
<1>1. Init => Inv BY InitInv
<1>2. Inv /\ [Next]_vars => Inv' BY NextInv
<1> QED BY <1>1, <1>2, PTL DEF Spec

-----------------------------------------------------------------------------

(* Every variable of the download list has its type, and what it points to *)
(* has a hash.                                                             *)
THEOREM TypeCorrect ==
    ASSUME TuiAssumption
    PROVE  Spec => []TypeOK
<1>1. Inv => TypeOK BY DEF Inv
<1> QED BY <1>1, Inductive, PTL

(* Between two messages the screen shows the engine's downloads, object    *)
(* for object (app.go 399-413).                                            *)
THEOREM ScreenIsFresh ==
    ASSUME TuiAssumption
    PROVE  Spec => []ListFresh
<1>1. Inv => ListFresh BY DEF Inv
<1> QED BY <1>1, Inductive, PTL

(* While the modal is open its Download stays the engine's, unless it had  *)
(* failed (app.go 422-433, 464-466).                                       *)
THEOREM ModalIsLive ==
    ASSUME TuiAssumption
    PROVE  Spec => []ModalKeepsLive
<1>1. Inv => ModalKeepsLive BY DEF Inv, ModalInv, Current, ModalKeepsLive
<1> QED BY <1>1, Inductive, PTL

(* A healthy task is replaced by the watchdog only when the Download it    *)
(* had looked at has its metadata, has shown no life for the whole         *)
(* threshold, and is that task or the failed one an add has replaced       *)
(* since; it is paused only if an add that has not reported did it after   *)
(* the look (app.go 376-380, 458-484).                                     *)
THEOREM RestartIsJustified ==
    ASSUME TuiAssumption
    PROVE  Spec => RestartedWasStalled
<1> DEFINE Justified(h) ==
             (/\ loop = "restart" /\ downloads[h] # Nil /\ downloads'[h] # downloads[h]
              /\ ~dl[downloads[h]].err)
                 => /\ due # Nil /\ dl[due].hash = h
                    /\ due = downloads[h] \/ dl[due].err
                    /\ dl[due].info /\ dl[due].quiet >= Threshold
                    /\ dl[due].paused =>
                          \E a \in Adders : adds[a].pc = "added" /\ adds[a].h = h
<1>1. ASSUME Inv, [Next]_vars, NEW h \in Hashes PROVE Justified(h)
      <2> SUFFICES ASSUME loop = "restart", downloads[h] # Nil,
                          downloads'[h] # downloads[h], ~dl[downloads[h]].err
                   PROVE  Justified(h)
          OBVIOUS
      <2>1. CASE WatchdogRestarts
            <3>1. /\ due \in rest /\ due \in DownloadIds /\ dl[due].hash \in Hashes
                  /\ due # Nil
                  <4>1. due \in rest /\ due # Nil
                        BY <1>1, <2>1 DEF WatchdogRestarts, Inv, TypeOK
                  <4> QED BY <1>1, <4>1, Pointers DEF Inv
            <3>2. dl[due].hash = h
                  BY <1>1, <2>1, <3>1 DEF WatchdogRestarts, Restart, Unlisted, Inv, TypeOK
            <3>3. due = downloads[h] \/ dl[due].err
                  BY <1>1, <3>1, <3>2 DEF Inv, RestInv, Current
            <3>4. dl[due].quiet >= Threshold
                  <4>1. dl[due].stall \in Nat /\ dl[due].quiet \in Nat
                        BY <1>1, <3>1 DEF Inv, DueInv, TypeOK, Ages, TuiAssumption
                  <4>2. dl[due].stall >= Threshold /\ dl[due].stall <= dl[due].quiet
                        BY <1>1, <3>1 DEF Inv, DueInv, ClockInv, Clocked
                  <4> QED BY <4>1, <4>2 DEF TuiAssumption
            <3> QED BY <1>1, <3>1, <3>2, <3>3, <3>4 DEF Inv, DueInv
      <2>2. ASSUME NEW a \in Adders, NEW paused \in BOOLEAN, AddTracks(a, paused)
            PROVE  FALSE
            BY <1>1, <2>2 DEF AddTracks, Inv, InputInv, TypeOK
      <2>3. ASSUME downloads' = downloads PROVE FALSE BY <2>3
      <2>4. CASE EventLoop
            <3>1. ~WatchdogRestarts => downloads' = downloads
                  BY <2>4 DEF EventLoop, Tick, Prune, WatchdogSkips, WatchdogFinds, PruneEnds,
                     Refresh, engineVars
            <3> QED BY <2>1, <2>3, <3>1
      <2>5. CASE Keys
            <3>1. downloads' = downloads
                  BY <2>5 DEF Keys, KeyRemove, KeyPause, KeyDelete, KeyFiles, AtList,
                     ConfirmYes, ConfirmNo, ModalClose, ModalToggle, ModalAll, ModalNone,
                     InModal, AddDownload
            <3> QED BY <2>3, <3>1
      <2>6. CASE AddCommands
            <3>1. (\A a \in Adders : \A paused \in BOOLEAN : ~AddTracks(a, paused))
                     => downloads' = downloads
                  BY <2>6 DEF AddCommands, AddPauses, AddRefused, DownloadAdded, engineVars
            <3> QED BY <2>2, <2>3, <3>1
      <2>7. CASE Environment
            <3>1. downloads' = downloads
                  BY <2>7 DEF Environment, GotInfo, InitSelection, MetadataTimeout, Changes,
                     FileCompletes, PeersVanish
            <3> QED BY <2>3, <3>1
      <2>8. CASE UNCHANGED vars BY <2>3, <2>8 DEF vars, engineVars
      <2> QED BY <1>1, <2>4, <2>5, <2>6, <2>7, <2>8 DEF Next
<1>2. Inv /\ [Next]_vars => [\A h \in Hashes : Justified(h)]_vars BY <1>1
<1> QED BY <1>2, Inductive, PTL DEF Spec, RestartedWasStalled
=============================================================================
