---------------------------- MODULE RecentWindow ----------------------------
(***************************************************************************)
(* What RecentSet promises its caller, stated with two history variables:  *)
(* a hash is remembered at least until RecentCap other hashes have been    *)
(* seen after it.  The two-generation scheme is worth having only if this  *)
(* holds; that old entries are promoted on a hit is what makes it hold.    *)
(***************************************************************************)
EXTENDS RecentSet

VARIABLES
    known, \* the hashes ever seen
    since  \* for each of them, the others seen since it was last seen

windowVars == <<recentVars, known, since>>

Init ==
    /\ RecentInit
    /\ known = {}
    /\ since = [h \in Hashes |-> {}]

Seen(h) ==
    /\ Hit(h) \/ Miss(h)
    /\ known' = known \cup {h}
    /\ since' = [g \in Hashes |->
                    IF g = h THEN {}
                    ELSE IF g \in known THEN since[g] \cup {h} ELSE since[g]]

Next == \E h \in Hashes : Seen(h)

Spec == Init /\ [][Next]_windowVars

(* recent_test.go, TestRecentSetRemembersAcrossGeneration, for any order   *)
(* of calls: what was seen is still recognised while at most RecentCap     *)
(* others have been seen since, whatever was promoted or rotated between.  *)
RemembersWindow ==
    \A h \in known : Cardinality(since[h]) <= RecentCap => h \in Recent
=============================================================================
