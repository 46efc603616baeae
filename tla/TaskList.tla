------------------------------ MODULE TaskList ------------------------------
(***************************************************************************)
(* What internal/engine promises about its list of tasks, without handles, *)
(* locks, goroutines or temporary files: a set of tasks, each waiting for  *)
(* metadata, active or failed; a saved set that only ever holds the list   *)
(* as it stood at one instant; a start-up that brings back the saved tasks; *)
(* and restarts that put back the task they took off.  Which of these may  *)
(* fail, and what is lost then, depends on the faults.                     *)
(***************************************************************************)
CONSTANTS Hashes, Managers, Faults, None

VARIABLES
    mode,      \* "down", "restoring" or "up"
    status,    \* of each hash: "absent", "waiting", "active", "failed"
    saved,     \* the hashes on disk
    pend,      \* the list a save in progress will commit, or None
    restarting \* the task each manager has taken off to put back, or None

listVars == <<mode, status, saved, pend, restarting>>

Present   == {h \in Hashes : status[h] # "absent"}
Empty     == [h \in Hashes |-> "absent"]
NoRestart == [m \in Managers |-> None]

Init ==
    /\ mode = "down"
    /\ status = Empty
    /\ saved \in SUBSET Hashes
    /\ pend = None
    /\ restarting = NoRestart

Become(h, from, to) ==
    /\ status[h] \in from
    /\ status' = [status EXCEPT ![h] = to]
    /\ UNCHANGED <<mode, saved, pend>>

Alive == {"waiting", "active", "failed"}

(* Adding retries a failed task; a task that is alive is left as it is.    *)
Start(h)    == mode = "up" /\ Become(h, {"absent", "failed"}, "waiting") /\ UNCHANGED restarting
Forget(h)   == mode = "up" /\ Become(h, Alive, "absent") /\ UNCHANGED restarting
Activate(h) == mode # "down" /\ Become(h, {"waiting"}, "active") /\ UNCHANGED restarting
Fail(h)     == mode # "down" /\ Become(h, {"waiting"}, "failed") /\ UNCHANGED restarting

Restart(m, h) ==
    /\ mode = "up" /\ Become(h, Alive, "absent")
    /\ restarting[m] = None
    /\ restarting' = [restarting EXCEPT ![m] = h]

(* A restart ends with its task back on the list, put there by an add that *)
(* came in between if not by itself.                                       *)
Restarted(m, h) ==
    /\ mode = "up" /\ restarting[m] = h
    /\ restarting' = [restarting EXCEPT ![m] = None]
    /\ \/ Become(h, {"absent", "failed"}, "waiting")
       \/ Become(h, {"waiting", "active"}, status[h])

(* Only a refused re-add leaves the task off.                              *)
Refused(m, h) ==
    /\ "readd" \in Faults
    /\ restarting[m] = h
    /\ restarting' = [restarting EXCEPT ![m] = None]
    /\ UNCHANGED <<mode, status, saved, pend>>

BeginSave ==
    /\ mode = "up" /\ pend = None
    /\ pend' = Present
    /\ UNCHANGED <<mode, status, saved, restarting>>

(* A save replaces the saved list as a whole, or, with a disk error only,  *)
(* leaves it as it was.                                                    *)
EndSave ==
    /\ pend # None
    /\ \/ saved' = pend
       \/ "disk" \in Faults /\ UNCHANGED saved
    /\ pend' = None
    /\ UNCHANGED <<mode, status, restarting>>

(* Leaving, in order or not, loses everything but the saved list.          *)
Stop ==
    /\ mode # "down"
    /\ mode' = "down" /\ status' = Empty /\ pend' = None /\ restarting' = NoRestart
    /\ UNCHANGED saved

Boot ==
    /\ mode = "down"
    /\ mode' = "restoring"
    /\ UNCHANGED <<status, saved, pend, restarting>>

Restore(h) ==
    /\ mode = "restoring" /\ h \in saved
    /\ Become(h, {"absent"}, "waiting") /\ UNCHANGED restarting

(* Without faults the session starts from exactly what was saved; an       *)
(* unreadable file restores nothing, a refused record is left out.         *)
Restored ==
    /\ mode = "restoring"
    /\ \/ Present = saved
       \/ "read" \in Faults /\ Present = {}
       \/ "readd" \in Faults /\ Present \subseteq saved
    /\ mode' = "up"
    /\ UNCHANGED <<status, saved, pend, restarting>>

Next ==
    \/ BeginSave \/ EndSave \/ Stop \/ Boot \/ Restored
    \/ \E h \in Hashes :
          \/ Start(h) \/ Forget(h) \/ Activate(h) \/ Fail(h) \/ Restore(h)
          \/ \E m \in Managers : Restart(m, h) \/ Restarted(m, h) \/ Refused(m, h)

Spec == Init /\ [][Next]_listVars
=============================================================================
