---------------------------- MODULE RecentProofs ----------------------------
(* The window RecentSet promises, for every capacity and every traffic.    *)
EXTENDS RecentWindow, FiniteSetTheorems, TLAPS

TypeInv ==
    /\ known \in SUBSET Hashes /\ Recent \subseteq known
    /\ IsFiniteSet(active)
    /\ since \in [Hashes -> SUBSET Hashes]
    /\ \A h \in Hashes : IsFiniteSet(since[h])

(* Everything in the active generation came after what is in the old one   *)
(* only; and RecentCap of them were there when an entry was given up.      *)
OldBehind == \A h \in old \ active : active \subseteq since[h]
Forgotten == \A h \in known \ Recent : Cardinality(since[h]) > RecentCap

Inv == TypeInv /\ OldBehind /\ Forgotten

(* Seeing x adds it to what came after the others.                         *)
LEMMA SinceGrows ==
    ASSUME TypeInv, NEW x \in Hashes, Seen(x)
    PROVE  /\ since' \in [Hashes -> SUBSET Hashes]
           /\ \A h \in Hashes : IsFiniteSet(since'[h])
           /\ \A h \in known \ {x} :
                 /\ since'[h] = since[h] \cup {x}
                 /\ Cardinality(since[h]) <= Cardinality(since'[h])
                 /\ Cardinality(since'[h]) \in Nat /\ Cardinality(since[h]) \in Nat
<1> USE DEF TypeInv
<1>1. since' = [g \in Hashes |->
                   IF g = x THEN {}
                   ELSE IF g \in known THEN since[g] \cup {x} ELSE since[g]]
      BY DEF Seen
<1>2. since' \in [Hashes -> SUBSET Hashes] BY <1>1
<1>3. ASSUME NEW h \in Hashes PROVE IsFiniteSet(since'[h])
      BY <1>1, FS_EmptySet, FS_AddElement
<1>4. ASSUME NEW h \in known \ {x}
      PROVE  /\ since'[h] = since[h] \cup {x}
             /\ Cardinality(since[h]) <= Cardinality(since'[h])
             /\ Cardinality(since'[h]) \in Nat /\ Cardinality(since[h]) \in Nat
  <2>1. since'[h] = since[h] \cup {x} BY <1>1
  <2>2. IsFiniteSet(since'[h]) /\ IsFiniteSet(since[h]) BY <1>3
  <2> QED BY <2>1, <2>2, FS_Subset, FS_CardinalityType
<1> QED BY <1>2, <1>3, <1>4

(* One call of seen keeps the invariant.                                   *)
LEMMA SeenStep ==
    ASSUME Inv, NEW x \in Hashes, Seen(x)
    PROVE  Inv'
<1> USE DEF Inv, TypeInv, Recent
<1>1. known' = known \cup {x} BY DEF Seen
<1>2. ASSUME active' = active \cup {x}, UNCHANGED old PROVE Inv'
  <2>1. TypeInv' BY <1>1, <1>2, SinceGrows, FS_AddElement
  <2>2. OldBehind' BY <1>2, SinceGrows DEF OldBehind
  <2>3. ASSUME NEW h \in known' \ Recent' PROVE Cardinality(since'[h]) > RecentCap
    <3>1. h \in known \ {x} /\ h \notin Recent BY <1>1, <1>2, <2>3
    <3>2. Cardinality(since[h]) > RecentCap BY <3>1 DEF Forgotten
    <3> QED BY <3>1, <3>2, SinceGrows, RecentCapAssumption
  <2> QED BY <2>1, <2>2, <2>3 DEF Forgotten
<1>3. ASSUME x \notin Recent, Cardinality(active) >= RecentCap,
             old' = active, active' = {x}
      PROVE  Inv'
  <2>1. TypeInv'
    <3>1. IsFiniteSet(active') BY <1>3, FS_Singleton
    <3> QED BY <3>1, <1>1, <1>3, SinceGrows
  <2>2. OldBehind' BY <1>3, SinceGrows DEF OldBehind
  <2>3. ASSUME NEW h \in known' \ Recent' PROVE Cardinality(since'[h]) > RecentCap
    <3>1. h \in known \ {x} /\ h \notin active BY <1>1, <1>3, <2>3
    <3>2. CASE h \notin old
      <4>1. Cardinality(since[h]) > RecentCap BY <3>1, <3>2 DEF Forgotten
      <4> QED BY <3>1, <4>1, SinceGrows, RecentCapAssumption
    <3>3. CASE h \in old
      <4>1. active \cup {x} \subseteq since'[h] /\ IsFiniteSet(since'[h])
            BY <3>1, <3>3, SinceGrows DEF OldBehind
      <4>2. Cardinality(active \cup {x}) = Cardinality(active) + 1
            BY <1>3, FS_AddElement
      <4>3. Cardinality(active \cup {x}) <= Cardinality(since'[h]) BY <4>1, FS_Subset
      <4>4. Cardinality(active) \in Nat /\ Cardinality(since'[h]) \in Nat
            BY <4>1, FS_CardinalityType
      <4> QED BY <1>3, <4>2, <4>3, <4>4, RecentCapAssumption
    <3> QED BY <3>2, <3>3
  <2> QED BY <2>1, <2>2, <2>3 DEF Forgotten
<1> QED BY <1>2, <1>3 DEF Seen, Hit, Miss

(* A hash is recognised as long as at most RecentCap others were seen      *)
(* since it was last seen, whatever the order of hits and rotations.       *)
THEOREM WindowKept == Spec => []RemembersWindow
<1>1. Init => Inv
      BY FS_EmptySet
      DEF Init, RecentInit, Inv, TypeInv, OldBehind, Forgotten, Recent
<1>2. Inv /\ [Next]_windowVars => Inv'
  <2>1. ASSUME Inv, UNCHANGED windowVars PROVE Inv'
        BY <2>1 DEF windowVars, recentVars, Inv, TypeInv, OldBehind, Forgotten, Recent
  <2> QED BY <2>1, SeenStep DEF Next
<1>3. Inv => RemembersWindow
  <2> SUFFICES ASSUME Inv, NEW h \in known, h \notin Recent
               PROVE  ~(Cardinality(since[h]) <= RecentCap)
      BY DEF RemembersWindow
  <2>1. Cardinality(since[h]) \in Nat BY FS_CardinalityType DEF Inv, TypeInv
  <2> QED BY <2>1, RecentCapAssumption DEF Inv, Forgotten
<1> QED BY <1>1, <1>2, <1>3, PTL DEF Spec
=============================================================================
