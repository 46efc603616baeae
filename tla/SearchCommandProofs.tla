------------------------ MODULE SearchCommandProofs ------------------------
(* Theorems about the search command, for any indexers, answers, page      *)
(* numbers and page sizes, and every width of an int.                      *)
EXTENDS SearchCommand, ResultsProofs

(* The indexers that have answered without an error.                       *)
Ok == {i \in Replied : ~replied[i].err}

(* The list is what they answered, and it is ranked once all have.         *)
ListInv ==
    /\ DOMAIN replied = Indexers
    /\ \A i \in Replied : replied[i] \in Replies[i]
    /\ out \in Seq(Result) /\ results \in Seq(Result)
    /\ errs = Replied \ Ok
    /\ ToSet(out) = UNION {ToSet(replied[i].res) : i \in Ok}
    /\ phase # "searching" => AllDone /\ Faithful(ToSet(out), results)

(* The page is cut out of the ranking.                                     *)
PageInv ==
    /\ limit \in Limits /\ page \in Pages
    /\ phase \in {"searching", "ranked", "printed", "panicked"}
    /\ phase = "printed" => printed = SubSeq(results, Start + 1, End)
    /\ phase = "panicked" => Start < 0

Inv == ListInv /\ PageInv

LEMMA RepliesType ==
    ASSUME SearchCommandAssumption, NEW i \in Indexers, NEW r \in Replies[i]
    PROVE  r \in [err : BOOLEAN, res : Seq(Result)] /\ r # NoReply
<1>1. <<>> \in Seq(Result) OBVIOUS
<1>2. r \in {[err |-> FALSE, res |-> FilterByQuery(ResultsOf(i, items), Words)] : items \in Catalogue[i]}
             \cup {[err |-> TRUE, res |-> <<>>]}
      BY DEF Replies
<1>3. ASSUME NEW items \in Catalogue[i],
             r = [err |-> FALSE, res |-> FilterByQuery(ResultsOf(i, items), Words)]
      PROVE  r \in [err : BOOLEAN, res : Seq(Result)]
  <2>1. items \in Seq(Item) /\ i \in Kinds /\ ResultsAssumption
        BY DEF SearchCommandAssumption
  <2>2. FilterByQuery(ResultsOf(i, items), Words) \in Seq(Result)
        BY <2>1, AdapterResults, FilterType
  <2> QED BY <1>3, <2>2
<1>4. r \in [err : BOOLEAN, res : Seq(Result)]
  <2>1. CASE r = [err |-> TRUE, res |-> <<>>] BY <1>1, <2>1
  <2>2. CASE \E items \in Catalogue[i] :
                r = [err |-> FALSE, res |-> FilterByQuery(ResultsOf(i, items), Words)]
        BY <1>3, <2>2
  <2> QED BY <1>2, <2>1, <2>2
<1>5. NoReply.res \notin Seq(Result)
      BY DEF NoReply, SearchCommandAssumption, ResultsAssumption
<1> QED BY <1>4, <1>5

LEMMA InitInv ==
    ASSUME SearchCommandAssumption, Init
    PROVE  Inv
<1>1. Replied = {} /\ Ok = {} BY DEF Init, Replied, Ok
<1>2. ToSet(out) = {} BY DEF Init, ToSet
<1>3. ListInv BY <1>1, <1>2 DEF Init, ListInv
<1>4. PageInv BY DEF Init, PageInv
<1> QED BY <1>3, <1>4 DEF Inv

(* What an indexer found is appended to the list, or it joins those that   *)
(* failed.                                                                 *)
LEMMA ReplyInv ==
    ASSUME SearchCommandAssumption, Inv, NEW i \in Indexers, Reply(i)
    PROVE  Inv'
<1> USE DEF Inv, ListInv
<1>1. PICK r \in Replies[i] : /\ replied' = [replied EXCEPT ![i] = r]
                              /\ out' = out \o r.res
                              /\ errs' = IF r.err THEN errs \cup {i} ELSE errs
      BY DEF Reply
<1>2. /\ phase = "searching" /\ i \notin Replied
      /\ UNCHANGED <<limit, page, results, printed, phase>>
      BY DEF Reply
<1>3. r \in [err : BOOLEAN, res : Seq(Result)] /\ r # NoReply BY RepliesType
<1>4. r.err => r.res = <<>> BY DEF Replies
<1>5. replied'[i] = r /\ DOMAIN replied' = Indexers
      /\ \A j \in Indexers : j # i => replied'[j] = replied[j]
      BY <1>1
<1>6. Replied' = Replied \cup {i} BY <1>3, <1>5 DEF Replied
<1>7. Ok' = IF r.err THEN Ok ELSE Ok \cup {i}
      BY <1>2, <1>3, <1>5, <1>6 DEF Ok, Replied
<1>8. errs' = Replied' \ Ok'
  <2>1. i \notin Ok /\ Ok \subseteq Replied BY <1>2 DEF Ok
  <2> QED BY <1>1, <1>2, <1>3, <1>6, <1>7, <2>1
<1>9. out' \in Seq(Result) /\ ToSet(out') = ToSet(out) \cup ToSet(r.res)
      BY <1>1, <1>3, Elements
<1>10. ToSet(out') = UNION {ToSet(replied'[j].res) : j \in Ok'}
  <2>1. \A j \in Ok : j \in Indexers /\ j # i BY <1>2 DEF Ok, Replied
  <2>2. {ToSet(replied'[j].res) : j \in Ok} = {ToSet(replied[j].res) : j \in Ok}
        BY <1>5, <2>1
  <2>3. CASE r.err
    <3>1. ToSet(r.res) = {} BY <1>4, <2>3 DEF ToSet
    <3> QED BY <1>7, <1>9, <2>2, <2>3, <3>1
  <2>4. CASE ~r.err
    <3>1. Ok' = Ok \cup {i} BY <1>7, <2>4
    <3>2. {ToSet(replied'[j].res) : j \in Ok \cup {i}}
              = {ToSet(replied'[j].res) : j \in Ok} \cup {ToSet(r.res)}
          BY <1>5
    <3>3. UNION {ToSet(replied'[j].res) : j \in Ok'} = ToSet(out) \cup ToSet(r.res)
          BY <2>2, <3>1, <3>2
    <3> QED BY <1>9, <3>3
  <2> QED BY <2>3, <2>4
<1>11. \A j \in Replied' : replied'[j] \in Replies[j] BY <1>1, <1>5, <1>6 DEF Replied
<1>12. ListInv' BY <1>2, <1>5, <1>8, <1>9, <1>10, <1>11
<1>13. PageInv' BY <1>2 DEF PageInv
<1> QED BY <1>12, <1>13

LEMMA NextInv ==
    ASSUME SearchCommandAssumption, Inv, [Next]_vars
    PROVE  Inv'
<1> USE DEF Inv
<1>1. ASSUME NEW i \in Indexers, Reply(i) PROVE Inv' BY <1>1, ReplyInv
<1>2. ASSUME UNCHANGED <<replied, out, errs>>
      PROVE  Replied' = Replied /\ Ok' = Ok /\ AllDone' = AllDone
      BY <1>2 DEF Replied, Ok, AllDone
<1>3. CASE Rank
  <2>1. /\ phase = "searching" /\ AllDone /\ results' \in DedupAndRank(out) /\ phase' = "ranked"
        /\ UNCHANGED <<limit, page, replied, out, errs, printed>>
        BY <1>3 DEF Rank
  <2>2. results' \in Seq(Result) /\ Faithful(ToSet(out), results')
        BY <2>1, RankingFaithful DEF ListInv, SearchCommandAssumption
  <2>3. ListInv' BY <1>2, <2>1, <2>2 DEF ListInv
  <2>4. PageInv' BY <2>1 DEF PageInv
  <2> QED BY <2>3, <2>4
<1>4. CASE PrintPage
  <2>1. /\ phase = "ranked" /\ UNCHANGED <<limit, page, replied, out, errs, results>>
        BY <1>4 DEF PrintPage
  <2>2. phase' \in {"printed", "panicked"} BY <1>4 DEF PrintPage
  <2>3. Start' = Start /\ End' = End
        BY <2>1 DEF Start, End, PageNumber, PageSize
  <2>4. ListInv' BY <1>2, <2>1, <2>2 DEF ListInv
  <2>5. PageInv' BY <1>4, <2>1, <2>3 DEF PageInv, PrintPage
  <2> QED BY <2>4, <2>5
<1>5. CASE UNCHANGED vars
  <2>1. UNCHANGED <<limit, page, replied, out, errs, results, printed, phase>> BY <1>5 DEF vars
  <2>2. Start' = Start /\ End' = End
        BY <2>1 DEF Start, End, PageNumber, PageSize
  <2>3. ListInv' BY <1>2, <2>1 DEF ListInv
  <2>4. PageInv' BY <2>1, <2>2 DEF PageInv
  <2> QED BY <2>3, <2>4
<1> QED BY <1>1, <1>3, <1>4, <1>5 DEF Next

LEMMA Inductive ==
    ASSUME SearchCommandAssumption
    PROVE  Spec => []Inv
<1>1. Init => Inv BY InitInv
<1>2. Inv /\ [Next]_vars => Inv' BY NextInv
<1> QED BY <1>1, <1>2, PTL DEF Spec

(* Every variable of the command has its type.                             *)
THEOREM TypeCorrect ==
    ASSUME SearchCommandAssumption
    PROVE  Spec => []TypeOK
<1>1. Inv => TypeOK BY DEF Inv, ListInv, PageInv, TypeOK, Ok
<1> QED BY <1>1, Inductive, PTL

(* The ranking stands for the answers of all indexers, in whatever order   *)
(* they came, with each torrent once and all that was found of it, and the *)
(* indexers that failed are named (search.go 39-71, 136-195).              *)
THEOREM CompleteRanking ==
    ASSUME SearchCommandAssumption
    PROVE  Spec => []RankingIsComplete
<1>1. ASSUME Inv PROVE RankingIsComplete
  <2>1. SUFFICES ASSUME phase # "searching"
                 PROVE  /\ errs = Indexers \ Ok
                        /\ Faithful(UNION {ToSet(replied[i].res) : i \in Ok}, results)
        BY DEF RankingIsComplete, Ok
  <2> QED BY <1>1, <2>1 DEF Inv, ListInv, AllDone
<1> QED BY <1>1, Inductive, PTL

(***************************************************************************)
(* The page.  As long as its last index fits an int, nothing wraps, and    *)
(* the rows from Start to End are those whose page it is.                  *)
(***************************************************************************)

LEMMA Division ==
    ASSUME NEW a \in Nat, NEW b \in Nat \ {0}
    PROVE  a \div b \in Nat /\ (a \div b) * b <= a /\ a < (a \div b) * b + b
<1>1. a \div b \in Int /\ a % b \in 0 .. b - 1 /\ a = (b * (a \div b)) + (a % b)
      OBVIOUS
<1>2. DEFINE q == a \div b
             m == a % b
<1>3. q \in Int /\ m \in 0 .. b - 1 /\ a = (b * q) + m BY <1>1
<1> HIDE DEF q, m
<1>4. q >= 0
  <2>1. CASE q <= -1
    <3>1. b * q <= -b BY <2>1, <1>3
    <3> QED BY <3>1, <1>3
  <2> QED BY <2>1, <1>3
<1>5. b * q = q * b BY <1>3
<1>6. q * b \in Int BY <1>3
<1> QED BY <1>3, <1>4, <1>5, <1>6 DEF q

(* Which multiple of b a is under.                                         *)
LEMMA QuotientIs ==
    ASSUME NEW a \in Nat, NEW b \in Nat \ {0}, NEW q \in Nat
    PROVE  a \div b = q <=> q * b <= a /\ a < q * b + b
<1>1. PICK d \in Nat : d = a \div b /\ d * b <= a /\ a < d * b + b BY Division
<1>2. ASSUME q * b <= a, a < q * b + b PROVE d = q
  <2>1. CASE d < q
    <3>1. (q - d) * b >= b BY <2>1, <1>1
    <3>2. (q - d) * b = q * b - d * b BY <1>1
    <3> QED BY <3>1, <3>2, <1>1, <1>2
  <2>2. CASE d > q
    <3>1. (d - q) * b >= b BY <2>2, <1>1
    <3>2. (d - q) * b = d * b - q * b BY <1>1
    <3> QED BY <3>1, <3>2, <1>1, <1>2
  <2> QED BY <2>1, <2>2, <1>1
<1> QED BY <1>1, <1>2

(* An int stays as it is.                                                  *)
LEMMA WrapSmall ==
    ASSUME SearchCommandAssumption, NEW n \in -MaxInt .. MaxInt
    PROVE  Wrap(n) = n
<1>1. MaxInt \in Nat BY DEF SearchCommandAssumption
<1>2. DEFINE a == n + MaxInt + 1
             b == 2 * MaxInt + 2
<1>3. a \in Nat /\ b \in Nat /\ a < b /\ b > 0 /\ Wrap(n) = (a % b) - (MaxInt + 1) BY <1>1 DEF Wrap
<1>4. n = a - (MaxInt + 1) BY <1>1
<1> HIDE DEF a, b
<1>5. a % b = a BY <1>3
<1> QED BY <1>1, <1>3, <1>4, <1>5

(* The rows cut out are those at the places cut.                           *)
LEMMA RowsCut ==
    ASSUME NEW s \in Seq(Result), NEW m \in Nat \ {0}, NEW n \in Nat, n <= Len(s)
    PROVE  ToSet(SubSeq(s, m, n)) = {s[k] : k \in m .. n}
<1>1. SubSeq(s, m, n) = [k \in 1 .. (1 + n - m) |-> s[k + m - 1]] BY DEF SubSeq
<1>2. DOMAIN SubSeq(s, m, n) = 1 .. (1 + n - m) BY <1>1
<1>3. ToSet(SubSeq(s, m, n)) = {s[k + m - 1] : k \in 1 .. (1 + n - m)}
      BY <1>1, <1>2 DEF ToSet
<1>4. \A k \in m .. n : k - m + 1 \in 1 .. (1 + n - m) /\ (k - m + 1) + m - 1 = k OBVIOUS
<1>5. \A k \in 1 .. (1 + n - m) : k + m - 1 \in m .. n OBVIOUS
<1> QED BY <1>3, <1>4, <1>5

(* The flags as they are used.                                             *)
LEMMA Flags ==
    ASSUME SearchCommandAssumption, PageInv
    PROVE  PageSize \in 1 .. MaxInt /\ PageNumber \in 1 .. MaxInt
BY DEF SearchCommandAssumption, PageInv, PageSize, PageNumber, AtLeastOne

(* Nothing wraps.                                                          *)
LEMMA Bounds ==
    ASSUME SearchCommandAssumption, PageInv, results \in Seq(Result),
           PageNumber * PageSize <= MaxInt
    PROVE  /\ Start = (PageNumber * PageSize) - PageSize
           /\ Start \in Nat /\ Start + PageSize <= MaxInt
           /\ End = IF Start + PageSize < Len(results) THEN Start + PageSize ELSE Len(results)
<1>1. PICK s \in 1 .. MaxInt : s = PageSize BY Flags
<1>2. PICK p \in 1 .. MaxInt : p = PageNumber BY Flags
<1>3. MaxInt \in Nat BY DEF SearchCommandAssumption
<1>4. p - 1 \in -MaxInt .. MaxInt BY <1>3
<1>5. (p - 1) * s = (p * s) - s /\ (p - 1) * s \in Nat BY <1>3
<1>6. p * s \in Nat /\ p * s <= MaxInt BY <1>1, <1>2, <1>3
<1>7. (p - 1) * s \in -MaxInt .. MaxInt BY <1>3, <1>5, <1>6
<1>8. Wrap(p - 1) = p - 1 BY <1>4, WrapSmall
<1>9. Wrap((p - 1) * s) = (p - 1) * s BY <1>7, WrapSmall
<1>10. Start = (p - 1) * s BY <1>1, <1>2, <1>8, <1>9 DEF Start
<1>11. Start + s = p * s /\ Start + s \in -MaxInt .. MaxInt BY <1>3, <1>5, <1>6, <1>10
<1>12. Wrap(Start + s) = Start + s BY <1>11, WrapSmall
<1>13. End = IF Start + s < Len(results) THEN Start + s ELSE Len(results)
       BY <1>1, <1>12 DEF End
<1> QED BY <1>1, <1>2, <1>5, <1>6, <1>10, <1>11, <1>13

(* Row k is on the page that runs from Start to End.                       *)
LEMMA RowsOfPage ==
    ASSUME SearchCommandAssumption, PageInv, results \in Seq(Result),
           PageNumber * PageSize <= MaxInt, NEW k \in DOMAIN results
    PROVE  ((k - 1) \div PageSize) + 1 = PageNumber <=> k \in Start + 1 .. End
<1>1. PICK s \in Nat \ {0} : s = PageSize
      BY Flags DEF SearchCommandAssumption
<1>2. PICK p \in Nat \ {0} : p = PageNumber
      BY Flags DEF SearchCommandAssumption
<1>3. k \in 1 .. Len(results) /\ Len(results) \in Nat OBVIOUS
<1>4. k - 1 \in Nat /\ p - 1 \in Nat BY <1>3
<1>5. (k - 1) \div s \in Nat BY <1>4, Division
<1>6. (k - 1) \div s = p - 1 <=> (p - 1) * s <= k - 1 /\ k - 1 < ((p - 1) * s) + s
      BY <1>4, QuotientIs
<1>7. PICK st \in Nat : st = Start /\ st = (p - 1) * s
            /\ End = IF st + s < Len(results) THEN st + s ELSE Len(results)
  <2>1. (p - 1) * s = (p * s) - s OBVIOUS
  <2> QED BY <1>1, <1>2, <2>1, Bounds
<1>8. ((k - 1) \div s) + 1 = p <=> st <= k - 1 /\ k - 1 < st + s
      BY <1>2, <1>5, <1>6, <1>7
<1>9. k \in st + 1 .. End <=> st <= k - 1 /\ k - 1 < st + s
      BY <1>3, <1>7
<1> QED BY <1>1, <1>2, <1>7, <1>8, <1>9

(* The number of pages, as long as counting them does not wrap.            *)
LEMMA PagesCounted ==
    ASSUME SearchCommandAssumption, PageInv, results \in Seq(Result),
           Len(results) + PageSize <= MaxInt
    PROVE  /\ TotalPages \in Nat \ {0}
           /\ Len(results) <= TotalPages * PageSize
           /\ results # <<>> => (TotalPages * PageSize) - PageSize < Len(results)
           /\ results = <<>> => TotalPages = 1
<1>1. PICK s \in 1 .. MaxInt : s = PageSize BY Flags
<1>2. MaxInt \in Nat BY DEF SearchCommandAssumption
<1>3. PICK n \in Nat : n = Len(results) OBVIOUS
<1>4. results = <<>> <=> n = 0 BY <1>3
<1>5. n + s \in -MaxInt .. MaxInt /\ n + s - 1 \in -MaxInt .. MaxInt /\ n + s - 1 \in Nat
      BY <1>1, <1>2, <1>3
<1>6. Wrap(n + s) = n + s /\ Wrap(n + s - 1) = n + s - 1 BY <1>5, WrapSmall
<1>7. PICK q \in Nat : q = (n + s - 1) \div s /\ q * s <= n + s - 1 /\ n + s - 1 < (q * s) + s
      BY <1>5, <1>2, Division
<1>8. TotalPages = AtLeastOne(q)
      BY <1>1, <1>3, <1>5, <1>6, <1>7 DEF TotalPages, Quotient
<1>9. q * s \in Nat BY <1>2, <1>7
<1>10. CASE n = 0
  <2>1. q = 0
    <3>1. CASE q >= 1
      <4>1. q * s >= s BY <3>1, <1>2
      <4> QED BY <4>1, <1>7, <1>9, <1>10, <1>2
    <3> QED BY <3>1
  <2>2. TotalPages = 1 BY <2>1, <1>8 DEF AtLeastOne
  <2> QED BY <2>2, <1>1, <1>2, <1>3, <1>4, <1>10
<1>11. CASE n > 0
  <2>1. q >= 1
    <3>1. CASE q = 0
      <4>1. q * s = 0 BY <3>1, <1>2
      <4> QED BY <4>1, <1>7, <1>11, <1>2
    <3> QED BY <3>1
  <2>2. TotalPages = q BY <2>1, <1>8 DEF AtLeastOne
  <2>3. n <= q * s /\ (q * s) - s < n BY <1>7, <1>9, <1>2, <1>11
  <2> QED BY <2>1, <2>2, <2>3, <1>1, <1>3, <1>4, <1>11
<1> QED BY <1>10, <1>11

(* A page is out of range exactly when it comes after the last.            *)
LEMMA RangeChecked ==
    ASSUME SearchCommandAssumption, PageInv, results \in Seq(Result),
           PageNumber * PageSize <= MaxInt, Len(results) + PageSize <= MaxInt
    PROVE  OutOfRange <=> (PageNumber > TotalPages /\ results # <<>>)
<1>1. PICK s \in Nat \ {0} : s = PageSize BY Flags DEF SearchCommandAssumption
<1>2. PICK p \in Nat \ {0} : p = PageNumber BY Flags DEF SearchCommandAssumption
<1>3. PICK n \in Nat : n = Len(results) OBVIOUS
<1>4. results = <<>> <=> n = 0 BY <1>3
<1>5. PICK t \in Nat \ {0} : t = TotalPages /\ n <= t * s /\ (n > 0 => (t * s) - s < n)
      BY <1>1, <1>3, <1>4, PagesCounted
<1>6. Start = (p * s) - s BY <1>1, <1>2, Bounds
<1>7. p * s \in Nat /\ t * s \in Nat OBVIOUS
<1>8. ASSUME n > 0, p > t PROVE Start >= n
  <2>1. (p - t) * s >= s BY <1>8
  <2>2. (p - t) * s = (p * s) - (t * s) OBVIOUS
  <2> QED BY <2>1, <2>2, <1>5, <1>6, <1>7
<1>9. ASSUME n > 0, ~(p > t) PROVE ~(Start >= n)
  <2>1. (t - p) * s >= 0 BY <1>9
  <2>2. (t - p) * s = (t * s) - (p * s) OBVIOUS
  <2> QED BY <2>1, <2>2, <1>5, <1>6, <1>7, <1>9
<1>10. OutOfRange <=> Start >= n /\ n > 0 BY <1>3 DEF OutOfRange
<1> QED BY <1>2, <1>4, <1>5, <1>8, <1>9, <1>10

(* The page of a row is one of those counted.                              *)
LEMMA EveryRowHasAPage ==
    ASSUME SearchCommandAssumption, PageInv, results \in Seq(Result),
           Len(results) + PageSize <= MaxInt, NEW k \in DOMAIN results
    PROVE  ((k - 1) \div PageSize) + 1 \in 1 .. TotalPages
<1>1. PICK s \in Nat \ {0} : s = PageSize BY Flags DEF SearchCommandAssumption
<1>2. PICK t \in Nat \ {0} : t = TotalPages /\ Len(results) <= t * s BY <1>1, PagesCounted
<1>3. k \in 1 .. Len(results) /\ k - 1 \in Nat /\ Len(results) \in Nat OBVIOUS
<1>4. PICK d \in Nat : d = (k - 1) \div s /\ d * s <= k - 1 BY <1>3, Division
<1>5. d * s \in Nat /\ t * s \in Nat OBVIOUS
<1>6. d * s < t * s BY <1>2, <1>3, <1>4, <1>5
<1>7. d < t
  <2>1. CASE d >= t
    <3>1. (d - t) * s >= 0 BY <2>1
    <3>2. (d - t) * s = (d * s) - (t * s) OBVIOUS
    <3> QED BY <3>1, <3>2, <1>5, <1>6
  <2> QED BY <2>1
<1> QED BY <1>1, <1>2, <1>4, <1>7

(* As long as the page's last index fits an int, the command prints the    *)
(* rows of the page that was asked for, and of no other: every row is on   *)
(* one of the pages counted, and a page beyond them is said to be out of   *)
(* range (main.go 238-271).                                                *)
THEOREM PagesCover ==
    ASSUME SearchCommandAssumption
    PROVE  Spec => []PagesPartition
<1>1. ASSUME Inv PROVE PagesPartition
  <2>1. SUFFICES ASSUME PageNumber * PageSize <= MaxInt, phase \notin {"searching", "ranked"}
                 PROVE  /\ phase = "printed"
                        /\ ToSet(printed) = {results[k] : k \in {j \in DOMAIN results :
                                                ((j - 1) \div PageSize) + 1 = PageNumber}}
                        /\ Len(results) + PageSize <= MaxInt =>
                              /\ OutOfRange <=> (PageNumber > TotalPages /\ results # <<>>)
                              /\ \A j \in DOMAIN results :
                                    ((j - 1) \div PageSize) + 1 \in 1 .. TotalPages
        BY DEF PagesPartition
  <2>2. PageInv /\ results \in Seq(Result) BY <1>1 DEF Inv, ListInv
  <2>3. Start \in Nat /\ Start + PageSize <= MaxInt
        /\ End = IF Start + PageSize < Len(results) THEN Start + PageSize ELSE Len(results)
        BY <2>1, <2>2, Bounds
  <2>4. phase = "printed" BY <2>1, <2>2, <2>3 DEF PageInv
  <2>5. printed = SubSeq(results, Start + 1, End) BY <2>2, <2>4 DEF PageInv
  <2>6. PageSize \in Nat BY <2>2, Flags DEF SearchCommandAssumption
  <2>7. Len(results) \in Nat /\ DOMAIN results = 1 .. Len(results) BY <2>2
  <2>8. End \in Nat /\ End <= Len(results) /\ Start + 1 \in Nat \ {0}
    <3>1. PICK st \in Nat : st = Start BY <2>3
    <3>2. PICK s \in Nat : s = PageSize BY <2>6
    <3>3. PICK n \in Nat : n = Len(results) BY <2>7
    <3>4. End = IF st + s < n THEN st + s ELSE n BY <2>3, <3>1, <3>2, <3>3
    <3> QED BY <3>1, <3>3, <3>4
  <2>9. ToSet(printed) = {results[k] : k \in Start + 1 .. End}
        BY <2>2, <2>5, <2>8, RowsCut
  <2>10. (Start + 1) .. End = {j \in DOMAIN results : ((j - 1) \div PageSize) + 1 = PageNumber}
    <3>1. \A j \in (Start + 1) .. End : j \in DOMAIN results
      <4>1. PICK m \in Nat \ {0} : m = Start + 1 BY <2>8
      <4>2. PICK e \in Nat : e = End /\ e <= Len(results) BY <2>8
      <4>3. \A j \in m .. e : j \in 1 .. Len(results) BY <2>7, <4>2
      <4> QED BY <2>7, <4>1, <4>2, <4>3
    <3>2. \A j \in DOMAIN results :
             ((j - 1) \div PageSize) + 1 = PageNumber <=> j \in Start + 1 .. End
          BY <2>1, <2>2, RowsOfPage
    <3> QED BY <3>1, <3>2
  <2>11. ASSUME Len(results) + PageSize <= MaxInt
         PROVE  /\ OutOfRange <=> (PageNumber > TotalPages /\ results # <<>>)
                /\ \A j \in DOMAIN results : ((j - 1) \div PageSize) + 1 \in 1 .. TotalPages
         BY <2>1, <2>2, <2>11, RangeChecked, EveryRowHasAPage
  <2> QED BY <2>4, <2>9, <2>10, <2>11
<1> QED BY <1>1, Inductive, PTL

=============================================================================
