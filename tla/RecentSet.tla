----------------------------- MODULE RecentSet -----------------------------
(***************************************************************************)
(* internal/dht/recent.go: the set of recently seen info-hashes, in two    *)
(* generations.  seen(h) is one critical section of its mutex, hence one   *)
(* step: Hit when h was already present, Miss when it is inserted.         *)
(***************************************************************************)
EXTENDS InfoHashes, FiniteSets, Integers

CONSTANT
    RecentCap   \* newRecentSet's cap, 50 000 in the crawler

ASSUME RecentCapAssumption == RecentCap \in Nat \ {0}

VARIABLES active, old

recentVars == <<active, old>>

RecentInit == active = {} /\ old = {}

Recent == active \cup old

(* Sanity variant: a hit in the old generation does not refresh the entry. *)
Hit_NoPromotion(h) ==
    /\ h \in Recent
    /\ UNCHANGED recentVars

(* An entry of the old generation is promoted.                             *)
Hit(h) ==
    /\ h \in Recent
    /\ active' = active \cup {h}
    /\ UNCHANGED old

Miss(h) ==
    /\ h \notin Recent
    /\ IF Cardinality(active) >= RecentCap
       THEN old' = active /\ active' = {h}
       ELSE active' = active \cup {h} /\ UNCHANGED old

(* recent.go:5-7: "memory is capped at ~2 * cap entries", which            *)
(* recent_test.go:36 makes exact; an entry of both generations counts      *)
(* twice, as there.                                                        *)
RecentBounded == Cardinality(active) + Cardinality(old) <= 2 * RecentCap

RecentNext == \E h \in Hashes : Hit(h) \/ Miss(h)
RecentSpec == RecentInit /\ [][RecentNext]_recentVars
=============================================================================
