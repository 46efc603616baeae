--------------------------- MODULE ResultsProofs ---------------------------
(***************************************************************************)
(* What the merge keeps, for every list of results: each torrent has one   *)
(* row, and the row everything that was found of it.                       *)
(*                                                                         *)
(* The loops are recursive functions over the position.  Induction over    *)
(* the position comes from the well-foundedness of the natural numbers, in *)
(* the form of a set that is closed under successors; that the function    *)
(* exists, so that the CHOOSE behind its definition means it, is the first *)
(* thing proved with it.                                                   *)
(***************************************************************************)
EXTENDS Results, WellFoundedInduction, FiniteSetTheorems, TLAPS

LEMMA LeastNatural ==
    ASSUME NEW S \in SUBSET Nat, S # {}
    PROVE  \E m \in S : \A n \in S : m <= n
<1>1. PICK m \in S : \A n \in S : ~(<<n, m>> \in OpToRel(<, Nat))
      BY NatLessThanWellFounded, WFMin, Zenon
<1>2. \A n \in S : ~(n < m) BY <1>1 DEF OpToRel
<1> QED BY <1>2

LEMMA Induction ==
    ASSUME NEW S, 0 \in S, \A n \in Nat : n \in S => n + 1 \in S
    PROVE  \A n \in Nat : n \in S
<1> DEFINE Bad == {n \in Nat : n \notin S}
<1>1. SUFFICES ASSUME Bad # {} PROVE FALSE OBVIOUS
<1>2. PICK m \in Bad : \A n \in Bad : m <= n BY <1>1, LeastNatural
<1>3. m \in Nat /\ m # 0 OBVIOUS
<1>4. m - 1 \in Nat /\ m - 1 < m /\ (m - 1) + 1 = m BY <1>3
<1>5. m - 1 \in S BY <1>2, <1>4
<1> QED BY <1>4, <1>5

(* The values, round by round, of a loop of N rounds that starts from v0   *)
(* and goes on by "step".                                                  *)
Rounds(N, V, v0, step) ==
    {f \in [0 .. N -> V] :
        f[0] = v0 /\ \A n \in 1 .. N : f[n] = step[<<f[n - 1], n>>]}

LEMMA LoopExists ==
    ASSUME NEW N \in Nat, NEW V, NEW v0 \in V, NEW step \in [V \X (1 .. N) -> V]
    PROVE  Rounds(N, V, v0, step) # {}
<1> DEFINE Good(f, m) == f[0] = v0 /\ \A n \in 1 .. m : f[n] = step[<<f[n - 1], n>>]
           S == {m \in Nat : m <= N => \E f \in [0 .. m -> V] : Good(f, m)}
<1>1. 0 \in S
  <2>1. [k \in 0 .. 0 |-> v0] \in [0 .. 0 -> V] /\ Good([k \in 0 .. 0 |-> v0], 0) OBVIOUS
  <2> QED BY <2>1
<1>2. ASSUME NEW m \in Nat, m \in S PROVE m + 1 \in S
  <2>1. SUFFICES ASSUME m + 1 <= N
                 PROVE  \E f \in [0 .. m + 1 -> V] : Good(f, m + 1)
        OBVIOUS
  <2>2. PICK f \in [0 .. m -> V] : Good(f, m) BY <1>2, <2>1
  <2> DEFINE v == step[<<f[m], m + 1>>]
             g == [k \in 0 .. m + 1 |-> IF k = m + 1 THEN v ELSE f[k]]
  <2>3. v \in V
    <3>1. f[m] \in V /\ m + 1 \in 1 .. N BY <2>1
    <3> QED BY <3>1
  <2>4. g \in [0 .. m + 1 -> V] BY <2>3
  <2>5. ASSUME NEW n \in 1 .. m + 1 PROVE g[n] = step[<<g[n - 1], n>>]
    <3>1. CASE n = m + 1
      <4>1. n - 1 = m /\ g[n] = v /\ g[n - 1] = f[m] BY <3>1
      <4> QED BY <3>1, <4>1
    <3>2. CASE n # m + 1
      <4>1. n \in 1 .. m /\ n - 1 \in 0 .. m /\ n - 1 # m + 1 BY <2>5, <3>2
      <4>2. g[n] = f[n] /\ g[n - 1] = f[n - 1] BY <4>1
      <4> QED BY <2>2, <4>1, <4>2
    <3> QED BY <3>1, <3>2
  <2>6. g[0] = v0 BY <2>2
  <2>7. Good(g, m + 1) BY <2>5, <2>6
  <2> QED BY <2>4, <2>7
<1>3. N \in S
  <2> HIDE DEF S
  <2> QED BY <1>1, <1>2, Induction
<1> QED BY <1>3 DEF Rounds

-----------------------------------------------------------------------------
(* Keys.                                                                   *)

(* Two results have one key when they are of one torrent.                  *)
LEMMA KeyOfTorrent ==
    ASSUME ResultsAssumption, NEW r \in Result, NEW s \in Result
    PROVE  Key(r) = Key(s) <=> SameTorrent(r, s)
<1>1. r.hash \in InfoHash \cup {Nil} /\ s.hash \in InfoHash \cup {Nil} BY DEF Result
<1>2. \A h \in InfoHash : Lower(h) = [torrent |-> h.torrent, upper |-> FALSE] /\ h # Nil
      BY DEF Lower, InfoHash, ResultsAssumption
<1>3. \A h \in InfoHash : Lower(h) # Nil
      BY <1>2 DEF InfoHash, ResultsAssumption
<1>4. Lower(Nil) = Nil BY DEF Lower
<1>5. \A g, h \in InfoHash : Lower(g) = Lower(h) <=> g.torrent = h.torrent
  <2>1. \A g \in InfoHash : Lower(g).torrent = g.torrent BY <1>2
  <2> QED BY <1>2, <2>1
<1>6. Key(r) = Key(s) <=>
        /\ Lower(r.hash) = Lower(s.hash)
        /\ (IF r.hash = Nil THEN r.title ELSE {}) = (IF s.hash = Nil THEN s.title ELSE {})
      BY DEF Key
<1>7. CASE r.hash # Nil /\ s.hash # Nil BY <1>1, <1>5, <1>6, <1>7 DEF SameTorrent
<1>8. CASE r.hash = Nil /\ s.hash = Nil BY <1>6, <1>8 DEF SameTorrent
<1>9. CASE r.hash = Nil /\ s.hash # Nil BY <1>1, <1>3, <1>4, <1>6, <1>9 DEF SameTorrent
<1>10. CASE r.hash # Nil /\ s.hash = Nil BY <1>1, <1>3, <1>4, <1>6, <1>10 DEF SameTorrent
<1> QED BY <1>7, <1>8, <1>9, <1>10

(* Merging the results of one torrent.                                     *)
LEMMA Merged ==
    ASSUME ResultsAssumption, NEW a \in Result, NEW b \in Result, Key(a) = Key(b)
    PROVE  LET m == MergeResult(a, b)
           IN /\ m \in Result
              /\ Key(m) = Key(a) /\ m.hash = a.hash /\ m.title = a.title
              /\ m.seeders = a.seeders /\ m.sources = a.sources \cup b.sources
              /\ m.magnet = (IF a.magnet = Nil THEN b.magnet ELSE a.magnet)
              /\ m.size = (IF a.size = 0 THEN b.size ELSE a.size)
<1> DEFINE m == MergeResult(a, b)
<1>1. a.hash = Nil => b.hash = Nil
      BY KeyOfTorrent DEF SameTorrent
<1>2. m = [a EXCEPT !.magnet = Or(a.magnet, b.magnet, Nil), !.hash = Or(a.hash, b.hash, Nil),
                    !.size = Or(a.size, b.size, 0), !.sources = a.sources \cup b.sources]
      BY DEF MergeResult
<1>3. Or(a.hash, b.hash, Nil) = a.hash BY <1>1 DEF Or
<1>4. /\ m.hash = a.hash /\ m.title = a.title /\ m.seeders = a.seeders
      /\ m.sources = a.sources \cup b.sources
      /\ m.magnet = (IF a.magnet = Nil THEN b.magnet ELSE a.magnet)
      /\ m.size = (IF a.size = 0 THEN b.size ELSE a.size)
      BY <1>2, <1>3 DEF Or, Result
<1>5. m \in Result BY <1>2, <1>3 DEF Or, Result
<1>6. Key(m) = Key(a) BY <1>4 DEF Key
<1> QED BY <1>4, <1>5, <1>6

LEMMA InsertType ==
    ASSUME ResultsAssumption, NEW out \in Seq(Result), NEW r \in Result
    PROVE  Insert(out, r) \in Seq(Result)
<1> DEFINE same == {i \in DOMAIN out : Key(out[i]) = Key(r)}
<1>1. CASE same = {} BY <1>1 DEF Insert
<1>2. CASE same # {}
  <2> DEFINE k == CHOOSE i \in same : TRUE
             m == IF r.seeders > out[k].seeders THEN MergeResult(r, out[k])
                                                ELSE MergeResult(out[k], r)
  <2>1. k \in DOMAIN out /\ Key(out[k]) = Key(r) BY <1>2
  <2>2. out[k] \in Result BY <2>1
  <2>3. MergeResult(r, out[k]) \in Result /\ MergeResult(out[k], r) \in Result
        BY <2>1, <2>2, Merged
  <2>4. Insert(out, r) = [out EXCEPT ![k] = m] BY <1>2 DEF Insert
  <2>5. m \in Result BY <2>3
  <2> HIDE DEF k, m
  <2> QED BY <2>1, <2>4, <2>5
<1> QED BY <1>1, <1>2

(* The loop of DedupAndRank, round by round.                               *)
LEMMA DedupLoop ==
    ASSUME ResultsAssumption, NEW in \in Seq(Result)
    PROVE  \E f \in [0 .. Len(in) -> Seq(Result)] :
              /\ f[0] = <<>> /\ Dedup(in) = f[Len(in)]
              /\ \A n \in 1 .. Len(in) : f[n] = Insert(f[n - 1], in[n])
<1> DEFINE N == Len(in)
           V == Seq(Result)
           step == [p \in V \X (1 .. N) |-> Insert(p[1], in[p[2]])]
           IsLoop(f) == f = [n \in 0 .. N |-> IF n = 0 THEN <<>> ELSE Insert(f[n - 1], in[n])]
           loop == CHOOSE f : IsLoop(f)
<1>1. N \in Nat /\ <<>> \in V OBVIOUS
<1>2. step \in [V \X (1 .. N) -> V]
  <2>1. \A p \in V \X (1 .. N) : p[1] \in Seq(Result) /\ in[p[2]] \in Result OBVIOUS
  <2>2. \A p \in V \X (1 .. N) : Insert(p[1], in[p[2]]) \in V BY <2>1, InsertType
  <2> QED BY <2>2
<1>3. PICK f \in Rounds(N, V, <<>>, step) : TRUE
  <2> HIDE DEF N, V, step
  <2> QED BY <1>1, <1>2, LoopExists
<1> HIDE DEF IsLoop, loop
<1>4. f \in [0 .. N -> V] /\ f[0] = <<>> BY <1>3 DEF Rounds
<1>5. ASSUME NEW n \in 1 .. N PROVE f[n] = Insert(f[n - 1], in[n])
  <2>1. n - 1 \in 0 .. N BY <1>1, <1>5
  <2>2. <<f[n - 1], n>> \in V \X (1 .. N) BY <1>4, <2>1
  <2>3. f[n] = step[<<f[n - 1], n>>] BY <1>3 DEF Rounds
  <2> HIDE DEF V, N
  <2> QED BY <2>2, <2>3
<1>6. IsLoop(f)
  <2>1. \A n \in 0 .. N : f[n] = IF n = 0 THEN <<>> ELSE Insert(f[n - 1], in[n])
        BY <1>4, <1>5
  <2> QED BY <1>4, <2>1 DEF IsLoop
<1>7. IsLoop(loop) BY <1>6 DEF loop
<1>8. Dedup(in) = loop[N] BY DEF Dedup, loop, IsLoop
<1>9. \A n \in 0 .. N : loop[n] = IF n = 0 THEN <<>> ELSE Insert(loop[n - 1], in[n])
  BY <1>7 DEF IsLoop
<1>10. \A n \in 0 .. N : loop[n] = f[n]
  <2> DEFINE S == {n \in Nat : n <= N => loop[n] = f[n]}
  <2>1. 0 \in S BY <1>1, <1>4, <1>9
  <2>2. ASSUME NEW n \in Nat, n \in S PROVE n + 1 \in S
    <3>1. SUFFICES ASSUME n + 1 <= N PROVE loop[n + 1] = f[n + 1] OBVIOUS
    <3>2. n + 1 \in 1 .. N /\ n + 1 \in 0 .. N /\ n + 1 # 0 /\ (n + 1) - 1 = n BY <3>1, <1>1
    <3>3. loop[n] = f[n] BY <2>2, <3>1, <1>1
    <3>4. loop[n + 1] = Insert(loop[n], in[n + 1]) BY <1>9, <3>2
    <3>5. f[n + 1] = Insert(f[n], in[n + 1]) BY <1>5, <3>2
    <3> QED BY <3>3, <3>4, <3>5
  <2> HIDE DEF S
  <2>3. \A n \in Nat : n \in S BY <2>1, <2>2, Induction
  <2> QED BY <1>1, <2>3 DEF S
<1>11. Dedup(in) = f[N] BY <1>1, <1>8, <1>10
<1> QED BY <1>4, <1>5, <1>11

(* The elements of a sequence.                                             *)
LEMMA Elements ==
    ASSUME NEW R, NEW s \in Seq(R)
    PROVE  /\ ToSet(<<>>) = {} /\ ToSet(s) \subseteq R
           /\ \A x \in R : ToSet(Append(s, x)) = ToSet(s) \cup {x}
           /\ \A t \in Seq(R) : ToSet(s \o t) = ToSet(s) \cup ToSet(t)
<1> USE DEF ToSet
<1>1. ToSet(<<>>) = {} /\ ToSet(s) \subseteq R OBVIOUS
<1>2. ASSUME NEW x \in R PROVE ToSet(Append(s, x)) = ToSet(s) \cup {x}
  <2>1. /\ DOMAIN Append(s, x) = DOMAIN s \cup {Len(s) + 1}
        /\ Append(s, x)[Len(s) + 1] = x
        /\ \A i \in DOMAIN s : Append(s, x)[i] = s[i]
        OBVIOUS
  <2> QED BY <2>1
<1>3. ASSUME NEW t \in Seq(R) PROVE ToSet(s \o t) = ToSet(s) \cup ToSet(t)
  <2> DEFINE u == s \o t
  <2>1. /\ DOMAIN u = 1 .. Len(s) + Len(t) /\ DOMAIN s = 1 .. Len(s) /\ DOMAIN t = 1 .. Len(t)
        /\ \A i \in 1 .. Len(s) : u[i] = s[i]
        /\ \A i \in 1 .. Len(t) : u[Len(s) + i] = t[i]
        OBVIOUS
  <2>2. ASSUME NEW i \in DOMAIN u PROVE u[i] \in ToSet(s) \cup ToSet(t)
    <3>1. CASE i <= Len(s) BY <2>1, <3>1
    <3>2. CASE i > Len(s)
      <4>1. i - Len(s) \in 1 .. Len(t) /\ i = Len(s) + (i - Len(s)) BY <2>1, <2>2, <3>2
      <4>2. u[i] = t[i - Len(s)] BY <2>1, <4>1
      <4> QED BY <2>1, <4>1, <4>2
    <3> QED BY <2>1, <2>2, <3>1, <3>2
  <2>3. \A i \in DOMAIN s : i \in DOMAIN u /\ u[i] = s[i] BY <2>1
  <2>4. \A i \in DOMAIN t : Len(s) + i \in DOMAIN u /\ u[Len(s) + i] = t[i] BY <2>1
  <2>5. ToSet(u) \subseteq ToSet(s) \cup ToSet(t) BY <2>2
  <2>6. ToSet(s) \subseteq ToSet(u)
    <3> HIDE DEF u
    <3> QED BY <2>3
  <2>7. ToSet(t) \subseteq ToSet(u)
    <3> HIDE DEF u
    <3> QED BY <2>4
  <2> HIDE DEF ToSet
  <2> QED BY <2>5, <2>6, <2>7
<1> QED BY <1>1, <1>2, <1>3

(* A loop that collects keeps the good elements, and no others.            *)
LEMMA KeptGood ==
    ASSUME NEW R, NEW in \in Seq(R), NEW good
    PROVE  Kept(in, good) \in Seq(R \cap good) /\ ToSet(Kept(in, good)) = ToSet(in) \cap good
<1> DEFINE N == Len(in)
           V == Seq(R \cap good)
           step == [p \in V \X (1 .. N) |-> Keep(p[1], in[p[2]], good)]
           IsLoop(f) ==
              f = [n \in 0 .. N |-> IF n = 0 THEN <<>> ELSE Keep(f[n - 1], in[n], good)]
           loop == CHOOSE f : IsLoop(f)
<1>1. N \in Nat /\ <<>> \in V OBVIOUS
<1>2. ASSUME NEW out \in V, NEW n \in 1 .. N
      PROVE  /\ Keep(out, in[n], good) \in V
             /\ ToSet(Keep(out, in[n], good)) = ToSet(out) \cup ({in[n]} \cap good)
  <2>1. CASE in[n] \in good
    <3>1. in[n] \in R \cap good BY <2>1
    <3>2. Keep(out, in[n], good) = Append(out, in[n]) BY <2>1 DEF Keep
    <3>3. Append(out, in[n]) \in V BY <3>1
    <3>4. ToSet(Append(out, in[n])) = ToSet(out) \cup {in[n]} BY <3>1, Elements
    <3> QED BY <2>1, <3>2, <3>3, <3>4
  <2>2. CASE in[n] \notin good BY <2>2 DEF Keep
  <2> QED BY <2>1, <2>2
<1>3. step \in [V \X (1 .. N) -> V]
  <2> HIDE DEF V, N
  <2>1. \A p \in V \X (1 .. N) : p[1] \in V /\ p[2] \in 1 .. N OBVIOUS
  <2>2. \A p \in V \X (1 .. N) : Keep(p[1], in[p[2]], good) \in V BY <1>2, <2>1
  <2> QED BY <2>2
<1>4. PICK f \in Rounds(N, V, <<>>, step) : TRUE
  <2> HIDE DEF N, V, step
  <2> QED BY <1>1, <1>3, LoopExists
<1> HIDE DEF IsLoop, loop
<1>5. f \in [0 .. N -> V] /\ f[0] = <<>> BY <1>4 DEF Rounds
<1>6. ASSUME NEW n \in 1 .. N PROVE f[n] = Keep(f[n - 1], in[n], good)
  <2>1. n - 1 \in 0 .. N BY <1>1, <1>6
  <2>2. <<f[n - 1], n>> \in V \X (1 .. N) BY <1>5, <2>1
  <2>3. f[n] = step[<<f[n - 1], n>>] BY <1>4 DEF Rounds
  <2> HIDE DEF V, N
  <2> QED BY <2>2, <2>3
<1>7. IsLoop(f)
  <2>1. \A n \in 0 .. N : f[n] = IF n = 0 THEN <<>> ELSE Keep(f[n - 1], in[n], good)
        BY <1>5, <1>6
  <2> QED BY <1>5, <2>1 DEF IsLoop
<1>8. IsLoop(loop) BY <1>7 DEF loop
<1>9. Kept(in, good) = loop[N] BY DEF Kept, loop, IsLoop
<1>10. /\ loop[0] = <<>>
       /\ \A n \in 1 .. N : loop[n] = Keep(loop[n - 1], in[n], good)
  BY <1>1, <1>8 DEF IsLoop
<1> HIDE DEF loop, IsLoop, step
<1> DEFINE Before(n) == {in[k] : k \in 1 .. n}
           S == {n \in Nat : n <= N => loop[n] \in V /\ ToSet(loop[n]) = Before(n) \cap good}
<1>11. 0 \in S
  <2>1. ToSet(loop[0]) = {} /\ Before(0) = {} BY <1>10, Elements
  <2> QED BY <1>1, <1>10, <2>1
<1>12. ASSUME NEW n \in Nat, n \in S PROVE n + 1 \in S
  <2>1. SUFFICES ASSUME n + 1 <= N
                 PROVE  loop[n + 1] \in V /\ ToSet(loop[n + 1]) = Before(n + 1) \cap good
        OBVIOUS
  <2>2. n + 1 \in 1 .. N /\ (n + 1) - 1 = n /\ n <= N BY <1>1, <2>1
  <2>3. loop[n] \in V /\ ToSet(loop[n]) = Before(n) \cap good BY <1>12, <2>2
  <2>4. loop[n + 1] = Keep(loop[n], in[n + 1], good) BY <1>10, <2>2
  <2>5. Before(n + 1) = Before(n) \cup {in[n + 1]}
    <3>1. 1 .. n + 1 = (1 .. n) \cup {n + 1} OBVIOUS
    <3> QED BY <3>1
  <2> HIDE DEF Before, V, N
  <2>6. loop[n + 1] \in V /\ ToSet(loop[n + 1]) = ToSet(loop[n]) \cup ({in[n + 1]} \cap good)
        BY <1>2, <2>2, <2>3, <2>4
  <2> QED BY <2>3, <2>5, <2>6
<1> HIDE DEF S
<1>13. \A n \in Nat : n \in S BY <1>11, <1>12, Induction
<1>14. Before(N) = ToSet(in) BY DEF ToSet
<1>15. N \in S BY <1>1, <1>13
<1>16. loop[N] \in V /\ ToSet(loop[N]) = Before(N) \cap good
  <2> HIDE DEF Before, V, N
  <2>1. N \in Nat BY <1>1
  <2> QED BY <1>15, <2>1 DEF S
<1> QED BY <1>9, <1>14, <1>16

-----------------------------------------------------------------------------
(* The merge.                                                              *)

(* The results of the torrent of a row.                                    *)
Same(P, row) == {s \in P : SameTorrent(s, row)}

(* After the results P, "out" has one row for each of their torrents, with *)
(* everything that was found of it.                                        *)
Gathered(P, out) ==
    /\ \A i, j \in DOMAIN out : Key(out[i]) = Key(out[j]) => i = j
    /\ \A r \in P : \E i \in DOMAIN out : Key(out[i]) = Key(r)
    /\ \A i \in DOMAIN out : RowFaithful(P, out[i])

(* A result of another torrent does not concern a row.                     *)
LEMMA RowOther ==
    ASSUME ResultsAssumption, NEW P \in SUBSET Result, NEW row \in Result, NEW r \in Result,
           RowFaithful(P, row), Key(r) # Key(row)
    PROVE  RowFaithful(P \cup {r}, row)
<1>1. Same(P \cup {r}, row) = Same(P, row) BY KeyOfTorrent DEF Same
<1> QED BY <1>1 DEF RowFaithful, Same

(* The first result of a torrent is its row.                               *)
LEMMA RowNew ==
    ASSUME ResultsAssumption, NEW P \in SUBSET Result, NEW r \in Result,
           \A s \in P : Key(s) # Key(r)
    PROVE  RowFaithful(P \cup {r}, r)
<1>1. Same(P \cup {r}, r) = {r} BY KeyOfTorrent DEF Same
<1>2. r.seeders \in Int BY DEF Result
<1> QED BY <1>1, <1>2 DEF RowFaithful, Same

(* A later one joins it, the one with more seeders being the base.         *)
Joined(row, r) == IF r.seeders > row.seeders THEN MergeResult(r, row) ELSE MergeResult(row, r)

LEMMA RowMerged ==
    ASSUME ResultsAssumption, NEW P \in SUBSET Result, NEW row \in Result, NEW r \in Result,
           RowFaithful(P, row), Key(r) = Key(row)
    PROVE  /\ Joined(row, r) \in Result /\ Key(Joined(row, r)) = Key(r)
           /\ RowFaithful(P \cup {r}, Joined(row, r))
<1> DEFINE m == Joined(row, r)
           S == Same(P, row)
<1>1. /\ m \in Result /\ Key(m) = Key(r)
      /\ m.seeders = (IF r.seeders > row.seeders THEN r.seeders ELSE row.seeders)
      /\ m.sources = row.sources \cup r.sources
      /\ m.magnet \in {r.magnet, row.magnet}
      /\ m.magnet = Nil => r.magnet = Nil /\ row.magnet = Nil
      /\ m.size = 0 => r.size = 0 /\ row.size = 0
  <2>1. CASE r.seeders > row.seeders
    <3>1. m = MergeResult(r, row) BY <2>1 DEF Joined
    <3> HIDE DEF m
    <3> QED BY <2>1, <3>1, Merged
  <2>2. CASE ~(r.seeders > row.seeders)
    <3>1. m = MergeResult(row, r) BY <2>2 DEF Joined
    <3> HIDE DEF m
    <3> QED BY <2>2, <3>1, Merged
  <2> QED BY <2>1, <2>2
<1> HIDE DEF m
<1>2. Same(P \cup {r}, m) = S \cup {r}
      BY <1>1, KeyOfTorrent DEF Same
<1>3. /\ \E s \in S : s.seeders = row.seeders
      /\ \A s \in S : s.seeders <= row.seeders
      /\ row.sources = UNION {s.sources : s \in S}
      /\ row.magnet \in {s.magnet : s \in S}
      /\ row.magnet = Nil => \A s \in S : s.magnet = Nil
      /\ row.size = 0 => \A s \in S : s.size = 0
      BY DEF RowFaithful, Same
<1>4. row.seeders \in Int /\ r.seeders \in Int /\ \A s \in S : s.seeders \in Int
      BY DEF Result, Same
<1> HIDE DEF S
<1> DEFINE T == S \cup {r}
<1>5. \E s \in T : s.seeders = m.seeders BY <1>1, <1>3
<1>6. \A s \in T : s.seeders <= m.seeders BY <1>1, <1>3, <1>4
<1>7. m.sources = UNION {s.sources : s \in T}
  <2>1. {s.sources : s \in T} = {s.sources : s \in S} \cup {r.sources} OBVIOUS
  <2> QED BY <1>1, <1>3, <2>1
<1>8. m.magnet \in {s.magnet : s \in T} BY <1>1, <1>3
<1>9. /\ m.magnet = Nil => \A s \in T : s.magnet = Nil
      /\ m.size = 0 => \A s \in T : s.size = 0
      BY <1>1, <1>3
<1>10. RowFaithful(P \cup {r}, m)
  <2> HIDE DEF T
  <2>1. Same(P \cup {r}, m) = T BY <1>2 DEF T
  <2> QED BY <1>5, <1>6, <1>7, <1>8, <1>9, <2>1 DEF RowFaithful, Same
<1> QED BY <1>1, <1>10 DEF m

(* One round of the loop.                                                  *)
LEMMA InsertGathers ==
    ASSUME ResultsAssumption, NEW P \in SUBSET Result, NEW out \in Seq(Result),
           NEW r \in Result, Gathered(P, out)
    PROVE  Gathered(P \cup {r}, Insert(out, r))
<1> DEFINE same == {i \in DOMAIN out : Key(out[i]) = Key(r)}
<1>1. /\ \A i, j \in DOMAIN out : Key(out[i]) = Key(out[j]) => i = j
      /\ \A s \in P : \E i \in DOMAIN out : Key(out[i]) = Key(s)
      /\ \A i \in DOMAIN out : RowFaithful(P, out[i]) /\ out[i] \in Result
      BY DEF Gathered
<1>2. CASE same = {}
  <2> DEFINE new == Append(out, r)
  <2>1. Insert(out, r) = new BY <1>2 DEF Insert
  <2>2. \A s \in P : Key(s) # Key(r) BY <1>1, <1>2
  <2>3. RowFaithful(P \cup {r}, r) BY <2>2, RowNew
  <2>4. \A i \in DOMAIN out : RowFaithful(P \cup {r}, out[i]) BY <1>1, <1>2, RowOther
  <2>5. /\ DOMAIN new = DOMAIN out \cup {Len(out) + 1} /\ new[Len(out) + 1] = r
        /\ \A i \in DOMAIN out : new[i] = out[i] /\ i # Len(out) + 1
        OBVIOUS
  <2> HIDE DEF new
  <2>6. \A i, j \in DOMAIN new : Key(new[i]) = Key(new[j]) => i = j
        BY <1>1, <1>2, <2>5
  <2>7. \A s \in P \cup {r} : \E i \in DOMAIN new : Key(new[i]) = Key(s)
        BY <1>1, <2>5
  <2>8. \A i \in DOMAIN new : RowFaithful(P \cup {r}, new[i])
        BY <2>3, <2>4, <2>5
  <2> QED BY <2>1, <2>6, <2>7, <2>8 DEF Gathered
<1>3. CASE same # {}
  <2> DEFINE k == CHOOSE i \in same : TRUE
             m == Joined(out[k], r)
             new == [out EXCEPT ![k] = m]
  <2>1. k \in DOMAIN out /\ Key(out[k]) = Key(r) BY <1>3
  <2>2. Insert(out, r) = new BY <1>3 DEF Insert, Joined
  <2> HIDE DEF k
  <2>3. Key(m) = Key(r) /\ RowFaithful(P \cup {r}, m) BY <1>1, <2>1, RowMerged
  <2>4. \A i \in DOMAIN out : i # k => RowFaithful(P \cup {r}, out[i])
        BY <1>1, <2>1, RowOther
  <2> HIDE DEF m
  <2>5. DOMAIN new = DOMAIN out /\ new[k] = m /\ \A i \in DOMAIN out : i # k => new[i] = out[i]
        BY <2>1
  <2> HIDE DEF new
  <2>6. \A i \in DOMAIN out : Key(new[i]) = Key(out[i]) BY <2>1, <2>3, <2>5
  <2>7. \A i, j \in DOMAIN new : Key(new[i]) = Key(new[j]) => i = j BY <1>1, <2>5, <2>6
  <2>8. \A s \in P \cup {r} : \E i \in DOMAIN new : Key(new[i]) = Key(s)
        BY <1>1, <2>1, <2>5, <2>6
  <2>9. \A i \in DOMAIN new : RowFaithful(P \cup {r}, new[i]) BY <2>3, <2>4, <2>5
  <2> QED BY <2>2, <2>7, <2>8, <2>9 DEF Gathered
<1> QED BY <1>2, <1>3

(* The loop.                                                               *)
LEMMA DedupGathers ==
    ASSUME ResultsAssumption, NEW in \in Seq(Result)
    PROVE  Dedup(in) \in Seq(Result) /\ Gathered(ToSet(in), Dedup(in))
<1> DEFINE N == Len(in)
           P(n) == {in[k] : k \in 1 .. n}
<1>1. PICK f \in [0 .. N -> Seq(Result)] :
              /\ f[0] = <<>> /\ Dedup(in) = f[N]
              /\ \A n \in 1 .. N : f[n] = Insert(f[n - 1], in[n])
      BY DedupLoop
<1>2. N \in Nat OBVIOUS
<1> DEFINE S == {n \in Nat : n <= N => Gathered(P(n), f[n])}
<1>3. 0 \in S
  <2>1. DOMAIN f[0] = {} /\ P(0) = {} BY <1>1
  <2> QED BY <1>2, <2>1 DEF Gathered
<1>4. ASSUME NEW n \in Nat, n \in S PROVE n + 1 \in S
  <2>1. SUFFICES ASSUME n + 1 <= N PROVE Gathered(P(n + 1), f[n + 1]) OBVIOUS
  <2>2. n + 1 \in 1 .. N /\ (n + 1) - 1 = n /\ n <= N /\ n \in 0 .. N BY <1>2, <2>1
  <2>3. Gathered(P(n), f[n]) /\ f[n] \in Seq(Result) BY <1>4, <2>2
  <2>4. f[n + 1] = Insert(f[n], in[n + 1]) BY <1>1, <2>2
  <2>5. P(n + 1) = P(n) \cup {in[n + 1]}
    <3>1. 1 .. n + 1 = (1 .. n) \cup {n + 1} OBVIOUS
    <3> QED BY <3>1
  <2>6. in[n + 1] \in Result /\ P(n) \in SUBSET Result BY <2>2
  <2> HIDE DEF P, N
  <2> QED BY <2>3, <2>4, <2>5, <2>6, InsertGathers
<1> HIDE DEF S
<1>5. \A n \in Nat : n \in S BY <1>3, <1>4, Induction
<1>6. Gathered(P(N), f[N])
  <2> HIDE DEF P, N
  <2> QED BY <1>2, <1>5 DEF S
<1>7. P(N) = ToSet(in) BY DEF ToSet
<1>8. f[N] \in Seq(Result) BY <1>1, <1>2
<1> QED BY <1>1, <1>6, <1>7, <1>8

(* The sequences of a sequence's elements are its permutations, when it    *)
(* has each element once.                                                  *)
LEMMA Permutation ==
    ASSUME NEW R, NEW s \in Seq(R), NEW p \in SetToSeqs(ToSet(s))
    PROVE  /\ p \in Seq(R) /\ ToSet(p) = ToSet(s)
           /\ \A i, j \in DOMAIN p : p[i] = p[j] => i = j
<1> DEFINE S == ToSet(s)
           n == Cardinality(S)
<1>1. s \in Surjection(1 .. Len(s), S) BY DEF Surjection, ToSet
<1>2. IsFiniteSet(1 .. Len(s)) BY FS_Interval
<1>3. IsFiniteSet(S)
  <2> HIDE DEF S
  <2> QED BY <1>1, <1>2, FS_Surjection
<1>4. n \in Nat BY <1>3, FS_CardinalityType
<1>5. p \in [1 .. n -> S] /\ \A i, j \in 1 .. n : i # j => p[i] # p[j]
      BY DEF SetToSeqs
<1>6. p \in Injection(1 .. n, S) BY <1>5 DEF Injection, IsInjective
<1>7. Cardinality(1 .. n) = n
  <2> HIDE DEF n
  <2> QED BY <1>4, FS_Interval
<1>8. p \in Surjection(1 .. n, S)
  <2> HIDE DEF S
  <2> QED BY <1>3, <1>6, <1>7, FS_Injection
<1>9. S \subseteq R BY Elements
<1> HIDE DEF S, n
<1>10. p \in Seq(R) BY <1>4, <1>5, <1>9
<1>11. ToSet(p) = S BY <1>5, <1>8 DEF Surjection, ToSet
<1>12. DOMAIN p = 1 .. n BY <1>5
<1> QED BY <1>5, <1>10, <1>11, <1>12 DEF S

(* The ranking of any results has one row for each torrent, with all that  *)
(* was found of it, the best first.                                        *)
LEMMA RankingFaithful ==
    ASSUME ResultsAssumption, NEW in \in Seq(Result), NEW p \in DedupAndRank(in)
    PROVE  p \in Seq(Result) /\ Faithful(ToSet(in), p)
<1> DEFINE out == Dedup(in)
<1>1. out \in Seq(Result) /\ Gathered(ToSet(in), out) BY DedupGathers
<1>2. p \in SetToSeqs(ToSet(out)) /\ Ranked(p) BY DEF DedupAndRank
<1> HIDE DEF out
<1>3. /\ p \in Seq(Result) /\ ToSet(p) = ToSet(out)
      /\ \A i, j \in DOMAIN p : p[i] = p[j] => i = j
      BY <1>1, <1>2, Permutation
<1>4. /\ \A i \in DOMAIN p : \E k \in DOMAIN out : p[i] = out[k]
      /\ \A k \in DOMAIN out : \E i \in DOMAIN p : p[i] = out[k]
  <2>1. \A i \in DOMAIN p : p[i] \in ToSet(p) BY DEF ToSet
  <2>2. \A k \in DOMAIN out : out[k] \in ToSet(out) BY DEF ToSet
  <2> QED BY <1>3, <2>1, <2>2 DEF ToSet
<1>5. \A i \in DOMAIN p : RowFaithful(ToSet(in), p[i]) /\ p[i] \in Result
      BY <1>1, <1>3, <1>4 DEF Gathered
<1>6. \A i, j \in DOMAIN p : Key(p[i]) = Key(p[j]) => i = j
  <2> SUFFICES ASSUME NEW i \in DOMAIN p, NEW j \in DOMAIN p, Key(p[i]) = Key(p[j])
               PROVE  i = j
      OBVIOUS
  <2>1. PICK k \in DOMAIN out : p[i] = out[k] BY <1>4
  <2>2. PICK l \in DOMAIN out : p[j] = out[l] BY <1>4
  <2>3. k = l BY <1>1, <2>1, <2>2 DEF Gathered
  <2> QED BY <1>3, <2>1, <2>2, <2>3
<1>7. ASSUME NEW r \in ToSet(in)
      PROVE  Cardinality({i \in DOMAIN p : SameTorrent(r, p[i])}) = 1
  <2>1. r \in Result BY <1>7, Elements
  <2>2. PICK k \in DOMAIN out : Key(out[k]) = Key(r) BY <1>1 DEF Gathered
  <2>3. PICK i \in DOMAIN p : p[i] = out[k] BY <1>4
  <2>4. \A j \in DOMAIN p : SameTorrent(r, p[j]) <=> j = i
        BY <1>5, <1>6, <2>1, <2>2, <2>3, KeyOfTorrent
  <2>5. {j \in DOMAIN p : SameTorrent(r, p[j])} = {i} BY <2>4
  <2> QED BY <2>5, FS_Singleton
<1> QED BY <1>2, <1>3, <1>5, <1>7 DEF Faithful

(* Before anything was found nothing is shown.                             *)
LEMMA NothingFaithful == Faithful({}, <<>>)
BY DEF Faithful, Ranked

-----------------------------------------------------------------------------
(* The adapters.                                                           *)

LEMMA FirstLinkFound ==
    ASSUME NEW item \in Item
    PROVE  FirstLink(item) \in Magnet \cup {Nil}
<1> DEFINE links == {k \in DOMAIN item.links : item.links[k] # Nil}
<1>1. item.links \in Seq(Magnet \cup {Nil}) BY DEF Item
<1>2. CASE links = {} BY <1>2 DEF FirstLink
<1>3. CASE links # {}
  <2>1. links \in SUBSET Nat BY <1>1
  <2>2. \E m \in links : \A n \in links : m <= n
    <3> HIDE DEF links
    <3> QED BY <1>3, <2>1, LeastNatural
  <2>3. Min(links) \in links
    <3> HIDE DEF links
    <3> QED BY <2>2 DEF Min
  <2>4. FirstLink(item) = item.links[Min(links)] BY <1>3 DEF FirstLink
  <2>5. PICK k \in DOMAIN item.links : k = Min(links) /\ item.links[k] # Nil BY <2>3
  <2>6. item.links[k] \in Magnet \cup {Nil} BY <1>1
  <2> QED BY <2>4, <2>5, <2>6
<1> QED BY <1>2, <1>3

LEMMA HashTypes ==
    ASSUME ResultsAssumption
    PROVE  /\ \A h \in InfoHash \cup {Nil} : Lower(h) \in InfoHash \cup {Nil}
           /\ \A l \in Magnet \cup {Nil} : InfoHashFromLink(l) \in InfoHash \cup {Nil}
           /\ \A h \in InfoHash : MagnetFromInfoHash(h) \in Magnet
<1>1. ASSUME NEW h \in InfoHash
      PROVE  Lower(h) \in InfoHash /\ MagnetFromInfoHash(h) \in Magnet
  <2>1. h # Nil BY DEF ResultsAssumption
  <2>2. Lower(h) = [h EXCEPT !.upper = FALSE] BY <2>1 DEF Lower
  <2> QED BY <2>2 DEF InfoHash, Magnet, MagnetFromInfoHash
<1>2. Lower(Nil) = Nil BY DEF Lower
<1>3. ASSUME NEW l \in Magnet PROVE InfoHashFromLink(l) \in InfoHash \cup {Nil}
  <2>1. l.digits \in Torrents \cup {Nil} BY DEF Magnet
  <2>2. l.digits # Nil => [torrent |-> l.digits, upper |-> FALSE] \in InfoHash
        BY <2>1 DEF InfoHash
  <2> QED BY <2>2 DEF InfoHashFromLink
<1>4. InfoHashFromLink(Nil) = Nil BY DEF InfoHashFromLink
<1> QED BY <1>1, <1>2, <1>3, <1>4

LEMMA FoundType ==
    ASSUME NEW item \in Item, NEW kind \in Kinds,
           NEW hash \in InfoHash \cup {Nil}, NEW link \in Magnet \cup {Nil}
    PROVE  Found(item, kind, hash, link) \in Result
BY DEF Found, Result, Item

LEMMA ByHash ==
    ASSUME ResultsAssumption, NEW item \in Item, NEW kind \in Kinds,
           NEW hash \in InfoHash \cup {Nil}
    PROVE  FoundByHash(item, kind, hash) \in Result
<1> DEFINE magnet == IF hash = Nil THEN Nil ELSE MagnetFromInfoHash(hash)
<1>1. magnet \in Magnet \cup {Nil} BY HashTypes
<1>2. FoundByHash(item, kind, hash) = Found(item, kind, hash, magnet) BY DEF FoundByHash
<1> HIDE DEF magnet
<1> QED BY <1>1, <1>2, FoundType

(* Every adapter makes a result of an item.                                *)
LEMMA AdapterResult ==
    ASSUME ResultsAssumption, NEW kind \in Kinds, NEW item \in Item
    PROVE  ResultOf(kind, item) \in Result
<1>1. item.hash \in InfoHash \cup {Nil} BY DEF Item
<1>2. Lower(item.hash) \in InfoHash \cup {Nil} BY <1>1, HashTypes
<1>3. FirstLink(item) \in Magnet \cup {Nil} BY FirstLinkFound
<1>4. InfoHashFromLink(FirstLink(item)) \in InfoHash \cup {Nil} BY <1>3, HashTypes
<1>5. CASE kind = "piratebay"
      BY <1>1, <1>5, ByHash DEF ResultOf, PirateBayResult, Kinds
<1>6. CASE kind = "nyaa"
      BY <1>2, <1>4, <1>6, ByHash DEF ResultOf, NyaaResult, Kinds
<1>7. CASE kind = "torrents-csv"
      BY <1>2, <1>7, ByHash DEF ResultOf, TorrentsCSVResult, Kinds
<1>8. CASE kind = "dht-index"
  <2>1. FoundByHash(item, kind, item.hash) \in Result BY <1>1, ByHash
  <2>2. ResultOf(kind, item) = [FoundByHash(item, kind, item.hash) EXCEPT !.seeders = 0]
        BY <1>8 DEF ResultOf, StoreResult
  <2> QED BY <2>1, <2>2 DEF Result
<1>9. CASE kind = "jackett"
  <2> DEFINE link == FirstLink(item)
             hash == IF item.hash # Nil THEN Lower(item.hash) ELSE InfoHashFromLink(link)
  <2>1. hash \in InfoHash \cup {Nil} BY <1>2, <1>4
  <2>2. \/ ResultOf(kind, item) = FoundByHash(item, kind, hash)
        \/ ResultOf(kind, item) = Found(item, kind, hash, link)
        BY <1>9 DEF ResultOf, JackettResult
  <2> HIDE DEF hash
  <2> QED BY <1>3, <2>1, <2>2, ByHash, FoundType
<1> QED BY <1>5, <1>6, <1>7, <1>8, <1>9 DEF Kinds

LEMMA AdapterResults ==
    ASSUME ResultsAssumption, NEW kind \in Kinds, NEW items \in Seq(Item)
    PROVE  ResultsOf(kind, items) \in Seq(Result)
<1> DEFINE found == [k \in DOMAIN items |-> ResultOf(kind, items[k])]
           good == {r \in ToSet(found) : Usable(r)}
<1>1. \A k \in DOMAIN items : items[k] \in Item OBVIOUS
<1>2. \A k \in DOMAIN items : ResultOf(kind, items[k]) \in Result BY <1>1, AdapterResult
<1>3. DOMAIN items = 1 .. Len(items) /\ Len(items) \in Nat OBVIOUS
<1>4. found \in Seq(Result) BY <1>2, <1>3
<1>5. ResultsOf(kind, items) = Kept(found, good) BY DEF ResultsOf
<1>6. Kept(found, good) \in Seq(Result \cap good)
  <2> HIDE DEF found, good
  <2> QED BY <1>4, KeptGood
<1>7. Result \cap good \subseteq Result OBVIOUS
<1> HIDE DEF good, found
<1> QED BY <1>5, <1>6, <1>7

LEMMA FilterType ==
    ASSUME NEW R, NEW in \in Seq(R), NEW query
    PROVE  FilterByQuery(in, query) \in Seq(R)
<1> DEFINE good == {r \in ToSet(in) : query \subseteq r.title}
<1>1. Kept(in, good) \in Seq(R \cap good)
  <2> HIDE DEF good
  <2> QED BY KeptGood
<1> QED BY <1>1 DEF FilterByQuery
=============================================================================
