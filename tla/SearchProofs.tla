---------------------------- MODULE SearchProofs ----------------------------
(* Theorems about the streaming search, for any indexers, answers and      *)
(* number of searches.                                                     *)
EXTENDS Search, ResultsProofs

StreamType ==
    /\ searchGen \in 0 .. MaxSearches
    /\ DOMAIN reply = Generations
    /\ \A g \in Generations : DOMAIN reply[g] = Indexers
    /\ ch \in [Generations -> Seq(Indexers)]
    /\ closed \in [Generations -> BOOLEAN]
    /\ waiting \in [Generations -> {"none", "waiting", EOF} \cup Indexers]
    /\ final \in BOOLEAN

(* A channel is closed behind the last producer, its end is seen when it   *)
(* is empty, and the final count is given when the end was handled.        *)
EndInv ==
    /\ \A g \in Generations :
          /\ closed[g] => AllSent(g)
          /\ waiting[g] = EOF => closed[g] /\ ch[g] = <<>>
    /\ final =>
          /\ searchGen \in Generations
          /\ closed[searchGen] /\ ch[searchGen] = <<>>
          /\ waiting[searchGen] = "none"

Inv == StreamType /\ EndInv

(* The command of a search is no indexer's while it waits or has ended.    *)
LEMMA NoIndexer ==
    ASSUME SearchAssumption
    PROVE  {"none", "waiting", EOF} \cap Indexers = {}
BY DEF SearchAssumption, Kinds, EOF

LEMMA InitInv ==
    ASSUME SearchAssumption, Init
    PROVE  Inv
<1>1. 0 \in 0 .. MaxSearches BY DEF SearchAssumption
<1>2. \A g \in Generations : waiting[g] # EOF BY DEF Init, EOF
<1>3. StreamType
  <2>1. final = FALSE /\ closed = [g \in Generations |-> FALSE] BY DEF Init
  <2>2. final \in BOOLEAN /\ closed \in [Generations -> BOOLEAN] BY <2>1
  <2>3. /\ ch = [g \in Generations |-> <<>>] /\ waiting = [g \in Generations |-> "none"]
        /\ reply = [g \in Generations |-> [i \in Indexers |-> NoReply]]
        BY DEF Init
  <2> QED BY <1>1, <2>2, <2>3 DEF Init, StreamType
<1>4. EndInv BY <1>2 DEF Init, EndInv
<1> QED BY <1>3, <1>4 DEF Inv

(* A producer sends once, and so not into a closed channel.                *)
LEMMA ProduceInv ==
    ASSUME SearchAssumption, Inv, NEW g \in Generations, NEW i \in Indexers,
           Produce(g, i)
    PROVE  Inv'
<1> USE DEF Inv, StreamType
<1>1. ~closed[g] BY DEF Produce, EndInv, AllSent
<1>2. PICK r : reply' = [reply EXCEPT ![g][i] = r] BY DEF Produce
<1>3. ch' = [ch EXCEPT ![g] = Append(ch[g], i)] BY DEF Produce
<1>4. UNCHANGED <<closed, waiting, searchGen, final>> BY DEF Produce, modelVars
<1>5. StreamType'
  <2>1. DOMAIN reply' = Generations /\ \A k \in Generations : DOMAIN reply'[k] = Indexers
        BY <1>2
  <2>2. ch' \in [Generations -> Seq(Indexers)] BY <1>3
  <2> QED BY <1>4, <2>1, <2>2
<1>6. \A k \in Generations : k # g => reply'[k] = reply[k] /\ ch'[k] = ch[k]
      BY <1>2, <1>3
<1>7. \A k \in Generations : k # g => (AllSent(k) <=> AllSent(k)')
      BY <1>6 DEF AllSent, Sent
<1>8. EndInv' BY <1>1, <1>4, <1>6, <1>7 DEF EndInv
<1> QED BY <1>5, <1>8

(* waitChunk reports the end of a closed channel that is empty.            *)
LEMMA WaitChunkInv ==
    ASSUME SearchAssumption, Inv, NEW g \in Generations, WaitChunk(g)
    PROVE  Inv'
<1> USE DEF Inv, StreamType
<1>1. UNCHANGED <<reply, closed, searchGen, final>> /\ waiting[g] = "waiting"
      BY DEF WaitChunk, modelVars
<1>2. ~(final /\ g = searchGen) BY <1>1 DEF EndInv
<1>3. \A k \in Generations : AllSent(k) <=> AllSent(k)' BY <1>1 DEF AllSent, Sent
<1>4. CASE ch[g] # <<>> /\ waiting' = [waiting EXCEPT ![g] = Head(ch[g])]
           /\ ch' = [ch EXCEPT ![g] = Tail(@)]
  <2>1. Head(ch[g]) \in Indexers /\ Tail(ch[g]) \in Seq(Indexers) BY <1>4
  <2>2. StreamType' BY <1>1, <1>4, <2>1
  <2>3. Head(ch[g]) # EOF BY <2>1, NoIndexer
  <2>4. EndInv' BY <1>1, <1>2, <1>3, <1>4, <2>3 DEF EndInv
  <2> QED BY <2>2, <2>4
<1>5. CASE ch[g] = <<>> /\ closed[g] /\ waiting' = [waiting EXCEPT ![g] = EOF] /\ ch' = ch
  <2>1. StreamType' BY <1>1, <1>5
  <2>2. EndInv' BY <1>1, <1>2, <1>3, <1>5 DEF EndInv
  <2> QED BY <2>1, <2>2
<1> QED BY <1>4, <1>5 DEF WaitChunk

LEMMA NextInv ==
    ASSUME SearchAssumption, Inv, [Next]_vars
    PROVE  Inv'
<1> USE DEF streamVars, modelVars
<1>1. ASSUME NEW g \in Generations, NEW i \in Indexers, Produce(g, i) PROVE Inv'
      BY <1>1, ProduceInv
<1>2. ASSUME NEW g \in Generations, CloseStream(g) PROVE Inv'
  <2>1. \A k \in Generations : AllSent(k) <=> AllSent(k)'
        BY <1>2 DEF CloseStream, AllSent, Sent
  <2> QED BY <1>2, <2>1 DEF CloseStream, Inv, StreamType, EndInv
<1>3. ASSUME NEW g \in Generations, WaitChunk(g) PROVE Inv'
      BY <1>3, WaitChunkInv
<1>4. ASSUME NEW g \in Generations, DiscardChunk(g) PROVE Inv'
  <2>1. \A k \in Generations : AllSent(k) <=> AllSent(k)'
        BY <1>4 DEF DiscardChunk, AllSent, Sent
  <2>2. EOF # "none" BY DEF EOF
  <2> QED BY <1>4, <2>1, <2>2 DEF DiscardChunk, Superseded, Inv, StreamType, EndInv
<1>5. ASSUME NEW g \in Generations, ShowChunk(g) PROVE Inv'
  <2>1. \A k \in Generations : AllSent(k) <=> AllSent(k)'
        BY <1>5 DEF ShowChunk, AllSent, Sent
  <2>2. waiting' = [waiting EXCEPT ![g] = "waiting"] /\ waiting[g] # "none"
        BY <1>5, NoIndexer DEF ShowChunk, NextWait
  <2>3. UNCHANGED <<reply, ch, closed, searchGen, final>> /\ g = searchGen
        BY <1>5 DEF ShowChunk, Superseded
  <2>4. EOF # "waiting" BY DEF EOF
  <2> QED BY <2>1, <2>2, <2>3, <2>4 DEF Inv, StreamType, EndInv
<1>6. ASSUME NEW g \in Generations, EndSearch(g) PROVE Inv'
  <2>1. \A k \in Generations : AllSent(k) <=> AllSent(k)'
        BY <1>6 DEF EndSearch, AllSent, Sent
  <2>2. EOF # "none" BY DEF EOF
  <2> QED BY <1>6, <2>1, <2>2 DEF EndSearch, Superseded, Inv, StreamType, EndInv
<1>7. ASSUME NEW q \in Queries, StartSearch(q) PROVE Inv'
  <2>1. \A k \in Generations : AllSent(k) <=> AllSent(k)'
        BY <1>7 DEF StartSearch, AllSent, Sent
  <2>2. EOF # "waiting" BY DEF EOF
  <2>3. searchGen' \in 0 .. MaxSearches
        BY <1>7 DEF StartSearch, Inv, StreamType, SearchAssumption
  <2> QED BY <1>7, <2>1, <2>2, <2>3 DEF StartSearch, Inv, StreamType, EndInv
<1>8. CASE UNCHANGED vars
  <2>1. \A k \in Generations : AllSent(k) <=> AllSent(k)' BY <1>8 DEF vars, AllSent, Sent
  <2> QED BY <1>8, <2>1 DEF vars, Inv, StreamType, EndInv
<1> QED BY <1>1, <1>2, <1>3, <1>4, <1>5, <1>6, <1>7, <1>8 DEF Next, Stream, Loop

LEMMA Inductive ==
    ASSUME SearchAssumption
    PROVE  Spec => []Inv
<1>1. Init => Inv BY InitInv
<1>2. Inv /\ [Next]_vars => Inv' BY NextInv
<1> QED BY <1>1, <1>2, PTL DEF Spec

(* The final count is given only when every indexer of the current search  *)
(* has answered or failed and what it sent was shown: an empty channel is  *)
(* the end only behind the last producer (search.go 80-107, app.go         *)
(* 291-295).                                                               *)
THEOREM FinalCountComplete ==
    ASSUME SearchAssumption
    PROVE  Spec => []FinalIsComplete
<1>1. ASSUME Inv PROVE FinalIsComplete
  <2>1. SUFFICES ASSUME final PROVE Handled(searchGen) = Indexers
        BY DEF FinalIsComplete
  <2>2. /\ searchGen \in Generations /\ Sent(searchGen) = Indexers
        /\ ch[searchGen] = <<>> /\ waiting[searchGen] = "none"
        BY <1>1, <2>1 DEF Inv, EndInv, AllSent
  <2>3. DOMAIN ch[searchGen] = {} BY <2>2
  <2> QED BY <2>2, <2>3, NoIndexer DEF Handled
<1> QED BY <1>1, Inductive, PTL

-----------------------------------------------------------------------------
(* What the chunks are.                                                    *)

(* A reply is an error or a list of results; it is not the lack of one.    *)
LEMMA RepliesType ==
    ASSUME SearchAssumption, NEW i \in Indexers, NEW q \in Queries, NEW r \in Replies[i][q]
    PROVE  r \in [err : BOOLEAN, res : Seq(Result)] /\ r # NoReply
<1>1. <<>> \in Seq(Result) OBVIOUS
<1>2. r \in {[err |-> FALSE, res |-> FilterByQuery(ResultsOf(i, items), q)] : items \in Catalogue[i]}
             \cup {[err |-> TRUE, res |-> <<>>]}
      BY DEF Replies
<1>3. ASSUME NEW items \in Catalogue[i],
             r = [err |-> FALSE, res |-> FilterByQuery(ResultsOf(i, items), q)]
      PROVE  r \in [err : BOOLEAN, res : Seq(Result)]
  <2>1. items \in Seq(Item) /\ i \in Kinds /\ ResultsAssumption
        BY DEF SearchAssumption
  <2>2. FilterByQuery(ResultsOf(i, items), q) \in Seq(Result)
        BY <2>1, AdapterResults, FilterType
  <2> QED BY <1>3, <2>2
<1>4. r \in [err : BOOLEAN, res : Seq(Result)]
  <2>1. CASE r = [err |-> TRUE, res |-> <<>>] BY <1>1, <2>1
  <2>2. CASE \E items \in Catalogue[i] :
                r = [err |-> FALSE, res |-> FilterByQuery(ResultsOf(i, items), q)]
        BY <1>3, <2>2
  <2> QED BY <1>2, <2>1, <2>2
<1>5. NoReply.res \notin Seq(Result) BY DEF NoReply, SearchAssumption, ResultsAssumption
<1> QED BY <1>4, <1>5

(* A queue that holds each element once.                                   *)
Once(s) == \A k, l \in DOMAIN s : s[k] = s[l] => k = l

LEMMA Queue ==
    ASSUME NEW R, NEW s \in Seq(R), Once(s)
    PROVE  /\ \A x \in R : x \notin ToSet(s) => Once(Append(s, x))
           /\ s # <<>> => /\ Once(Tail(s)) /\ Head(s) \notin ToSet(Tail(s))
                          /\ Head(s) \in R /\ Tail(s) \in Seq(R)
                          /\ ToSet(s) = ToSet(Tail(s)) \cup {Head(s)}
<1> USE DEF Once, ToSet
<1>1. ASSUME NEW x \in R, x \notin ToSet(s) PROVE Once(Append(s, x))
  <2>1. /\ DOMAIN Append(s, x) = DOMAIN s \cup {Len(s) + 1}
        /\ Append(s, x)[Len(s) + 1] = x
        /\ \A i \in DOMAIN s : Append(s, x)[i] = s[i] /\ s[i] # x
        BY <1>1
  <2> QED BY <2>1
<1>2. ASSUME s # <<>>
      PROVE  /\ Once(Tail(s)) /\ Head(s) \notin ToSet(Tail(s))
             /\ Head(s) \in R /\ Tail(s) \in Seq(R)
             /\ ToSet(s) = ToSet(Tail(s)) \cup {Head(s)}
  <2>1. /\ Head(s) \in R /\ Tail(s) \in Seq(R) /\ Head(s) = s[1]
        /\ DOMAIN s = 1 .. Len(s) /\ DOMAIN Tail(s) = 1 .. Len(s) - 1
        /\ \A i \in 1 .. Len(s) - 1 : Tail(s)[i] = s[i + 1]
        /\ Len(s) \in Nat /\ Len(s) >= 1
        BY <1>2
  <2> DEFINE n == Len(s)
             t == Tail(s)
  <2> HIDE DEF n, t
  <2>2. /\ DOMAIN s = 1 .. n /\ DOMAIN t = 1 .. n - 1 /\ n \in Nat /\ n >= 1
        /\ \A i \in 1 .. n - 1 : t[i] = s[i + 1]
        BY <2>1 DEF n, t
  <2>3. \A i \in 1 .. n : i = 1 \/ (i - 1 \in 1 .. n - 1 /\ s[i] = t[i - 1])
    <3> TAKE i \in 1 .. n
    <3>1. CASE i # 1
      <4>1. i - 1 \in 1 .. n - 1 /\ (i - 1) + 1 = i BY <2>2, <3>1
      <4> QED BY <2>2, <4>1
    <3> QED BY <3>1
  <2>4. \A i \in 1 .. n - 1 : i + 1 \in 1 .. n /\ i + 1 # 1 BY <2>2
  <2>5. Once(t)
    <3> SUFFICES ASSUME NEW k \in DOMAIN t, NEW l \in DOMAIN t, t[k] = t[l] PROVE k = l
        OBVIOUS
    <3>1. k \in Int /\ l \in Int /\ s[k + 1] = s[l + 1] /\ k + 1 \in DOMAIN s /\ l + 1 \in DOMAIN s
          BY <2>2, <2>4
    <3>2. k + 1 = l + 1 BY <3>1
    <3> QED BY <3>1, <3>2
  <2>6. s[1] \notin ToSet(t)
    <3> SUFFICES ASSUME NEW k \in DOMAIN t, t[k] = s[1] PROVE FALSE OBVIOUS
    <3>1. s[k + 1] = s[1] /\ k + 1 \in DOMAIN s /\ 1 \in DOMAIN s /\ k + 1 # 1 BY <2>2, <2>4
    <3> QED BY <3>1
  <2>7. ToSet(s) = ToSet(t) \cup {s[1]}
    <3>1. ASSUME NEW i \in 1 .. n PROVE s[i] \in ToSet(t) \cup {s[1]}
      <4>1. CASE i = 1 BY <4>1
      <4>2. CASE i # 1
        <5>1. i - 1 \in DOMAIN t /\ s[i] = t[i - 1] BY <2>2, <2>3, <4>2
        <5> QED BY <5>1
      <4> QED BY <4>1, <4>2
    <3>2. ToSet(t) \subseteq ToSet(s) BY <2>2, <2>4
    <3>3. s[1] \in ToSet(s) BY <2>2
    <3>4. ToSet(s) \subseteq ToSet(t) \cup {s[1]} BY <2>2, <3>1
    <3> HIDE DEF ToSet
    <3> QED BY <3>2, <3>3, <3>4
  <2> QED BY <2>1, <2>5, <2>6, <2>7 DEF t
<1> QED BY <1>1, <1>2

-----------------------------------------------------------------------------
(* What is shown.                                                          *)

(* A reply is on its way to the screen once: in the channel, with the      *)
(* waitChunk command, or handled; and nothing is under way of a search     *)
(* that was not begun.                                                     *)
QueueInv ==
    /\ DOMAIN query = Generations
    /\ \A g \in Generations :
          /\ g <= searchGen => query[g] \in Queries
          /\ g > searchGen => Sent(g) = {} /\ waiting[g] = "none"
          /\ \A i \in Sent(g) : reply[g][i] \in Replies[i][query[g]]
          /\ Once(ch[g]) /\ ToSet(ch[g]) \subseteq Sent(g) /\ waiting[g] \notin ToSet(ch[g])
          /\ waiting[g] \in Indexers => waiting[g] \in Sent(g)

(* The chunks of search g handled without an error.                        *)
Good(g) == {i \in Handled(g) : ~reply[g][i].err}

(* What they brought.                                                      *)
Brought(g) == UNION {ToSet(reply[g][i].res) : i \in Good(g)}

(* The screen shows what the chunks of the current search handled so far   *)
(* brought.                                                                *)
ScreenInv ==
    /\ searchAcc \in Seq(Result) /\ shown \in Seq(Result)
    /\ searchGen > 0 =>
          /\ searchErrs = Handled(searchGen) \ Good(searchGen)
          /\ ToSet(searchAcc) = Brought(searchGen)
          /\ Faithful(ToSet(searchAcc), shown)
    /\ searchGen = 0 => searchErrs = {} /\ shown = <<>>

TabInv == Inv /\ QueueInv /\ ScreenInv

LEMMA HandledSet ==
    ASSUME NEW g \in Generations
    PROVE  Handled(g) = {i \in Sent(g) : waiting[g] # i /\ i \notin ToSet(ch[g])}
BY DEF Handled, ToSet

LEMMA TabInit ==
    ASSUME SearchAssumption, Init
    PROVE  TabInv
<1>1. Inv BY InitInv
<1>2. \A g \in Generations : Sent(g) = {} BY DEF Init, Sent
<1>3. \A g \in Generations : g > searchGen /\ ~(g <= searchGen) BY DEF Init, Generations
<1>4. ToSet(<<>>) = {} /\ Once(<<>>) BY DEF ToSet, Once
<1>5. waiting = [g \in Generations |-> "none"] /\ "none" \notin Indexers
      BY NoIndexer DEF Init
<1>6. QueueInv BY <1>2, <1>3, <1>4, <1>5 DEF Init, QueueInv
<1>7. ScreenInv BY DEF Init, ScreenInv
<1> QED BY <1>1, <1>6, <1>7 DEF TabInv

(* A step that leaves what is handled of the current search alone.         *)
LEMMA ScreenKept ==
    ASSUME SearchAssumption, TabInv, UNCHANGED modelVars,
           \A g \in Generations : g = searchGen =>
              /\ Handled(g)' = Handled(g)
              /\ \A i \in Handled(g) : reply'[g][i] = reply[g][i]
    PROVE  ScreenInv'
<1>1. UNCHANGED <<searchGen, searchAcc, searchErrs, shown>> BY DEF modelVars
<1>2. CASE searchGen > 0
  <2>1. PICK g \in Generations : g = searchGen
        BY <1>2 DEF TabInv, Inv, StreamType, Generations, SearchAssumption
  <2>2. Handled(g)' = Handled(g) /\ \A i \in Handled(g) : reply'[g][i] = reply[g][i]
        BY <2>1
  <2>3. Good(g)' = Good(g) BY <2>2 DEF Good
  <2>4. \A i \in Good(g) : reply'[g][i] = reply[g][i] BY <2>2 DEF Good
  <2>5. Brought(g)' = Brought(g) BY <2>3, <2>4 DEF Brought
  <2>6. /\ Handled(searchGen)' = Handled(g)' /\ Good(searchGen)' = Good(g)'
        /\ Brought(searchGen)' = Brought(g)'
        BY <1>1, <2>1
  <2> QED BY <1>1, <1>2, <2>1, <2>2, <2>3, <2>5, <2>6 DEF TabInv, ScreenInv
<1>3. CASE ~(searchGen > 0) BY <1>1, <1>3 DEF TabInv, ScreenInv
<1> QED BY <1>2, <1>3

LEMMA ProduceTab ==
    ASSUME SearchAssumption, TabInv, NEW g \in Generations, NEW i \in Indexers, Produce(g, i)
    PROVE  QueueInv' /\ ScreenInv'
<1> USE DEF TabInv, Inv, StreamType
<1>1. PICK r \in Replies[i][query[g]] : reply' = [reply EXCEPT ![g][i] = r] BY DEF Produce
<1>2. /\ g <= searchGen /\ i \notin Sent(g) /\ ch' = [ch EXCEPT ![g] = Append(ch[g], i)]
      /\ UNCHANGED <<query, waiting, searchGen>> /\ UNCHANGED modelVars
      BY DEF Produce, modelVars
<1>3. query[g] \in Queries BY <1>2 DEF QueueInv
<1>4. r # NoReply BY <1>3, RepliesType
<1>5. /\ reply'[g][i] = r
      /\ \A j \in Indexers : j # i => reply'[g][j] = reply[g][j]
      /\ \A h \in Generations : h # g => reply'[h] = reply[h] /\ ch'[h] = ch[h]
      /\ ch'[g] = Append(ch[g], i)
      BY <1>1, <1>2
<1>6. Sent(g)' = Sent(g) \cup {i} BY <1>4, <1>5 DEF Sent
<1>7. \A h \in Generations : h # g => Sent(h)' = Sent(h) BY <1>5 DEF Sent
<1>8. ToSet(ch'[g]) = ToSet(ch[g]) \cup {i} /\ Once(ch'[g]) /\ waiting[g] # i
  <2>1. ch[g] \in Seq(Indexers) /\ Once(ch[g]) /\ i \notin ToSet(ch[g]) BY <1>2 DEF QueueInv
  <2>2. waiting[g] # i BY <1>2 DEF QueueInv
  <2> QED BY <1>5, <2>1, <2>2, Elements, Queue
<1>9. ASSUME NEW h \in Generations
      PROVE  /\ h <= searchGen => query[h] \in Queries
             /\ h > searchGen => Sent(h)' = {} /\ waiting[h] = "none"
             /\ \A j \in Sent(h)' : reply'[h][j] \in Replies[j][query[h]]
             /\ Once(ch'[h]) /\ ToSet(ch'[h]) \subseteq Sent(h)' /\ waiting[h] \notin ToSet(ch'[h])
             /\ waiting[h] \in Indexers => waiting[h] \in Sent(h)'
  <2>1. CASE h = g
    <3>1. \A j \in Sent(g)' : reply'[g][j] \in Replies[j][query[g]]
          BY <1>1, <1>5, <1>6 DEF QueueInv, Sent
    <3>2. ~(g > searchGen) BY <1>2 DEF Generations, SearchAssumption
    <3> QED BY <1>6, <1>8, <2>1, <3>1, <3>2 DEF QueueInv
  <2>2. CASE h # g
    <3>1. Sent(h)' = Sent(h) /\ reply'[h] = reply[h] /\ ch'[h] = ch[h] BY <1>5, <1>7, <2>2
    <3> QED BY <3>1 DEF QueueInv
  <2> QED BY <2>1, <2>2
<1>10. QueueInv' BY <1>2, <1>9 DEF QueueInv
<1>11. ASSUME NEW h \in Generations
       PROVE  /\ Handled(h)' = Handled(h)
              /\ \A j \in Handled(h) : reply'[h][j] = reply[h][j]
  <2>1. /\ Handled(h) = {j \in Sent(h) : waiting[h] # j /\ j \notin ToSet(ch[h])}
        /\ Handled(h)' = {j \in Sent(h)' : waiting'[h] # j /\ j \notin ToSet(ch'[h])}
        BY HandledSet DEF Handled, ToSet
  <2>2. CASE h = g
        BY <1>2, <1>5, <1>6, <1>8, <2>1, <2>2 DEF Sent
  <2>3. CASE h # g BY <1>2, <1>5, <1>7, <2>1, <2>3
  <2> QED BY <2>2, <2>3
<1> QED BY <1>2, <1>10, <1>11, ScreenKept

(* A step that only moves the command of search g: from one that carries   *)
(* no chunk, or has been handled.                                          *)
LEMMA QueueKept ==
    ASSUME SearchAssumption, TabInv, NEW g \in Generations, g <= searchGen,
           NEW w \in {"none", "waiting", EOF},
           UNCHANGED <<query, reply, ch, searchGen>>,
           waiting' = [waiting EXCEPT ![g] = w]
    PROVE  /\ QueueInv'
           /\ \A h \in Generations : h # g => Handled(h)' = Handled(h)
           /\ Handled(g)' = IF waiting[g] \in Indexers THEN Handled(g) \cup {waiting[g]}
                                                       ELSE Handled(g)
<1> USE DEF TabInv, Inv, StreamType
<1>1. \A h \in Generations : Sent(h)' = Sent(h) BY DEF Sent
<1>2. w \notin Indexers BY NoIndexer
<1>3. \A h \in Generations : ToSet(ch[h]) \subseteq Indexers BY Elements
<1>4. ASSUME NEW h \in Generations
      PROVE  /\ h <= searchGen => query[h] \in Queries
             /\ h > searchGen => Sent(h)' = {} /\ waiting'[h] = "none"
             /\ \A j \in Sent(h)' : reply'[h][j] \in Replies[j][query[h]]
             /\ Once(ch[h]) /\ ToSet(ch[h]) \subseteq Sent(h)' /\ waiting'[h] \notin ToSet(ch[h])
             /\ waiting'[h] \in Indexers => waiting'[h] \in Sent(h)'
  <2>1. CASE h = g
    <3>1. waiting'[h] = w /\ ~(h > searchGen) BY <2>1 DEF Generations, SearchAssumption
    <3> QED BY <1>1, <1>2, <1>3, <2>1, <3>1 DEF QueueInv
  <2>2. CASE h # g BY <1>1, <2>2 DEF QueueInv
  <2> QED BY <2>1, <2>2
<1>5. QueueInv' BY <1>4 DEF QueueInv
<1>6. ASSUME NEW h \in Generations
      PROVE  /\ Handled(h) = {j \in Sent(h) : waiting[h] # j /\ j \notin ToSet(ch[h])}
             /\ Handled(h)' = {j \in Sent(h) : waiting'[h] # j /\ j \notin ToSet(ch[h])}
      BY <1>1, HandledSet DEF Handled, ToSet
<1>7. \A h \in Generations : h # g => Handled(h)' = Handled(h) BY <1>6
<1>8. Handled(g)' = IF waiting[g] \in Indexers THEN Handled(g) \cup {waiting[g]}
                                               ELSE Handled(g)
  <2>1. Handled(g)' = {j \in Sent(g) : j \notin ToSet(ch[g])}
        BY <1>2, <1>6 DEF Sent
  <2>2. Handled(g) = {j \in Sent(g) : waiting[g] # j /\ j \notin ToSet(ch[g])} BY <1>6
  <2>3. CASE waiting[g] \in Indexers
    <3>1. waiting[g] \in Sent(g) /\ waiting[g] \notin ToSet(ch[g]) BY <2>3 DEF QueueInv
    <3> QED BY <2>1, <2>2, <2>3, <3>1
  <2>4. CASE waiting[g] \notin Indexers BY <2>1, <2>2, <2>4 DEF Sent
  <2> QED BY <2>3, <2>4
<1> QED BY <1>5, <1>7, <1>8

(* A chunk goes from the head of the channel to the command.               *)
LEMMA WaitChunkTab ==
    ASSUME SearchAssumption, TabInv, NEW g \in Generations, WaitChunk(g)
    PROVE  QueueInv' /\ ScreenInv'
<1> USE DEF TabInv, Inv, StreamType
<1>1. /\ waiting[g] = "waiting" /\ waiting[g] \notin Indexers
      /\ UNCHANGED <<query, reply, searchGen>> /\ UNCHANGED modelVars
      BY NoIndexer DEF WaitChunk, modelVars
<1>2. g <= searchGen
      BY <1>1 DEF QueueInv, Generations, SearchAssumption
<1>3. \A h \in Generations : Sent(h)' = Sent(h) BY <1>1 DEF Sent
<1>4. CASE ch[g] # <<>> /\ waiting' = [waiting EXCEPT ![g] = Head(ch[g])]
           /\ ch' = [ch EXCEPT ![g] = Tail(@)]
  <2> DEFINE i == Head(ch[g])
  <2>1. ch[g] \in Seq(Indexers) /\ Once(ch[g]) BY DEF QueueInv
  <2>2. /\ Once(Tail(ch[g])) /\ i \notin ToSet(Tail(ch[g])) /\ i \in Indexers
        /\ ToSet(ch[g]) = ToSet(Tail(ch[g])) \cup {i}
        BY <1>4, <2>1, Queue
  <2>3. /\ waiting'[g] = i /\ ch'[g] = Tail(ch[g])
        /\ \A h \in Generations : h # g => waiting'[h] = waiting[h] /\ ch'[h] = ch[h]
        BY <1>4
  <2> HIDE DEF i
  <2>4. ASSUME NEW h \in Generations
        PROVE  /\ h <= searchGen => query[h] \in Queries
               /\ h > searchGen => Sent(h)' = {} /\ waiting'[h] = "none"
               /\ \A j \in Sent(h)' : reply'[h][j] \in Replies[j][query[h]]
               /\ Once(ch'[h]) /\ ToSet(ch'[h]) \subseteq Sent(h)'
               /\ waiting'[h] \notin ToSet(ch'[h])
               /\ waiting'[h] \in Indexers => waiting'[h] \in Sent(h)'
    <3>1. CASE h = g
      <4>1. ~(h > searchGen) BY <1>2, <3>1 DEF Generations, SearchAssumption
      <4>2. ToSet(ch[g]) \subseteq Sent(g) BY DEF QueueInv
      <4>3. i \in Sent(g)' /\ ToSet(ch'[g]) \subseteq Sent(g)' BY <1>3, <2>2, <2>3, <4>2
      <4>4. \A j \in Sent(g)' : reply'[g][j] \in Replies[j][query[g]]
            BY <1>1, <1>3 DEF QueueInv
      <4>5. g <= searchGen => query[g] \in Queries BY DEF QueueInv
      <4>6. Once(ch'[g]) /\ waiting'[g] \notin ToSet(ch'[g]) BY <2>2, <2>3
      <4> QED BY <2>3, <3>1, <4>1, <4>3, <4>4, <4>5, <4>6
    <3>2. CASE h # g BY <1>1, <1>3, <2>3, <3>2 DEF QueueInv
    <3> QED BY <3>1, <3>2
  <2>5. QueueInv' BY <1>1, <2>4 DEF QueueInv
  <2>6. ASSUME NEW h \in Generations PROVE Handled(h)' = Handled(h)
    <3>1. /\ Handled(h) = {j \in Sent(h) : waiting[h] # j /\ j \notin ToSet(ch[h])}
          /\ Handled(h)' = {j \in Sent(h) : waiting'[h] # j /\ j \notin ToSet(ch'[h])}
          BY <1>3, HandledSet DEF Handled, ToSet
    <3>2. CASE h = g
      <4>1. \A j \in Sent(g) : waiting[g] # j BY <1>1 DEF Sent
      <4> QED BY <2>2, <2>3, <3>1, <3>2, <4>1
    <3>3. CASE h # g BY <2>3, <3>1, <3>3
    <3> QED BY <3>2, <3>3
  <2>7. \A h \in Generations : reply'[h] = reply[h] BY <1>1
  <2> QED BY <1>1, <2>5, <2>6, <2>7, ScreenKept
<1>5. CASE waiting' = [waiting EXCEPT ![g] = EOF] /\ ch' = ch
  <2>1. QueueInv' /\ \A h \in Generations : Handled(h)' = Handled(h)
        BY <1>1, <1>2, <1>5, QueueKept
  <2> QED BY <1>1, <2>1, ScreenKept
<1> QED BY <1>4, <1>5 DEF WaitChunk

(* The handler of a chunk of the current search.                           *)
LEMMA ShowChunkTab ==
    ASSUME SearchAssumption, TabInv, NEW g \in Generations, ShowChunk(g)
    PROVE  QueueInv' /\ ScreenInv'
<1> USE DEF TabInv, Inv, StreamType
<1> DEFINE i == waiting[g]
           r == reply[g][i]
           acc == IF r.err THEN searchAcc ELSE searchAcc \o r.res
<1>1. /\ i \in Indexers /\ g = searchGen
      /\ searchAcc' = acc /\ searchErrs' = (IF r.err THEN searchErrs \cup {i} ELSE searchErrs)
      /\ shown' \in DedupAndRank(acc)
      /\ waiting' = [waiting EXCEPT ![g] = "waiting"]
      /\ UNCHANGED <<query, reply, ch, searchGen>>
      BY DEF ShowChunk, Superseded, NextWait, streamVars
<1>2. searchGen > 0 /\ g <= searchGen
      BY <1>1 DEF Generations, SearchAssumption
<1>3. i \in Sent(g) /\ query[g] \in Queries BY <1>1, <1>2 DEF QueueInv
<1>4. r \in Replies[i][query[g]] BY <1>3 DEF QueueInv
<1>5. r \in [err : BOOLEAN, res : Seq(Result)] BY <1>1, <1>3, <1>4, RepliesType
<1>6. QueueInv' /\ Handled(g)' = Handled(g) \cup {i} BY <1>1, <1>2, QueueKept
<1>7. i \notin Handled(g) BY DEF Handled
<1> HIDE DEF i
<1>8. searchAcc \in Seq(Result) /\ r.res \in Seq(Result) /\ r.err \in BOOLEAN
      BY <1>5 DEF ScreenInv
<1>9. acc \in Seq(Result)
      /\ ToSet(acc) = IF r.err THEN ToSet(searchAcc) ELSE ToSet(searchAcc) \cup ToSet(r.res)
  <2> HIDE DEF r
  <2>1. CASE r.err BY <1>8, <2>1
  <2>2. CASE ~r.err
    <3>1. searchAcc \o r.res \in Seq(Result) BY <1>8
    <3>2. ToSet(searchAcc \o r.res) = ToSet(searchAcc) \cup ToSet(r.res) BY <1>8, Elements
    <3> QED BY <2>2, <3>1, <3>2
  <2> QED BY <2>1, <2>2
<1>10. shown' \in Seq(Result) /\ Faithful(ToSet(acc), shown')
  <2> HIDE DEF acc
  <2> QED BY <1>1, <1>9, RankingFaithful DEF SearchAssumption
<1>11. Good(g)' = IF r.err THEN Good(g) ELSE Good(g) \cup {i}
       BY <1>1, <1>6, <1>8 DEF Good
<1>12. Brought(g)' = IF r.err THEN Brought(g) ELSE Brought(g) \cup ToSet(r.res)
  <2>1. CASE r.err BY <1>1, <1>11, <2>1 DEF Brought
  <2>2. CASE ~r.err
    <3>1. Good(g)' = Good(g) \cup {i} BY <1>11, <2>2
    <3>2. {ToSet(reply[g][j].res) : j \in Good(g) \cup {i}}
              = {ToSet(reply[g][j].res) : j \in Good(g)} \cup {ToSet(r.res)}
          OBVIOUS
    <3> QED BY <1>1, <2>2, <3>1, <3>2 DEF Brought
  <2> QED BY <2>1, <2>2
<1>13. searchErrs' = Handled(g)' \ Good(g)'
  <2>1. searchErrs = Handled(g) \ Good(g) BY <1>1, <1>2 DEF ScreenInv
  <2>2. i \notin Good(g) BY <1>7 DEF Good
  <2>3. Good(g) \subseteq Handled(g) BY DEF Good
  <2> HIDE DEF r
  <2> QED BY <1>1, <1>6, <1>7, <1>8, <1>11, <2>1, <2>2, <2>3
<1>14. ToSet(searchAcc') = Brought(g)'
  <2>1. ToSet(searchAcc) = Brought(g) BY <1>1, <1>2 DEF ScreenInv
  <2> HIDE DEF r, acc
  <2> QED BY <1>1, <1>8, <1>9, <1>12, <2>1
<1>15. /\ Handled(searchGen)' = Handled(g)' /\ Good(searchGen)' = Good(g)'
       /\ Brought(searchGen)' = Brought(g)' /\ searchGen' = searchGen
       BY <1>1
<1>16. ScreenInv'
  <2> HIDE DEF acc, r
  <2> QED BY <1>1, <1>2, <1>9, <1>10, <1>13, <1>14, <1>15 DEF ScreenInv
<1> QED BY <1>6, <1>16

LEMMA TabNext ==
    ASSUME SearchAssumption, TabInv, [Next]_vars
    PROVE  TabInv'
<1> USE DEF TabInv
<1>1. Inv' BY NextInv
<1>2. searchGen \in 0 .. MaxSearches /\ waiting \in [Generations -> {"none", "waiting", EOF} \cup Indexers]
      BY DEF Inv, StreamType
<1>3. \A g \in Generations : g > searchGen <=> ~(g <= searchGen)
      BY <1>2 DEF Generations, SearchAssumption
<1>4. ASSUME NEW g \in Generations, NEW i \in Indexers, Produce(g, i)
      PROVE  QueueInv' /\ ScreenInv'
      BY <1>4, ProduceTab
<1>5. ASSUME NEW g \in Generations, WaitChunk(g) PROVE QueueInv' /\ ScreenInv'
      BY <1>5, WaitChunkTab
<1>6. ASSUME NEW g \in Generations, ShowChunk(g) PROVE QueueInv' /\ ScreenInv'
      BY <1>6, ShowChunkTab
<1>7. ASSUME UNCHANGED <<query, reply, ch, waiting>>, UNCHANGED modelVars
      PROVE  QueueInv' /\ ScreenInv'
  <2>1. \A g \in Generations : Sent(g)' = Sent(g) BY <1>7 DEF Sent
  <2>2. \A g \in Generations : Handled(g)' = Handled(g) BY <1>7, <2>1 DEF Handled
  <2>3. ScreenInv' BY <1>7, <2>2, ScreenKept
  <2>4. QueueInv' BY <1>7, <2>1 DEF QueueInv, modelVars
  <2> QED BY <2>3, <2>4
<1>8. ASSUME NEW g \in Generations, CloseStream(g) PROVE QueueInv' /\ ScreenInv'
      BY <1>7, <1>8 DEF CloseStream
<1>9. ASSUME NEW g \in Generations, DiscardChunk(g) PROVE QueueInv' /\ ScreenInv'
  <2>1. /\ UNCHANGED <<query, reply, ch, searchGen>> /\ UNCHANGED modelVars /\ g # searchGen
        /\ waiting' = [waiting EXCEPT ![g] = "none"] /\ waiting[g] # "none"
        BY <1>9, NoIndexer DEF DiscardChunk, streamVars, modelVars, Superseded, EOF
  <2>2. g <= searchGen BY <1>3, <2>1 DEF QueueInv
  <2>3. QueueInv' /\ \A h \in Generations : h # g => Handled(h)' = Handled(h)
        BY <2>1, <2>2, QueueKept
  <2> QED BY <2>1, <2>3, ScreenKept
<1>10. ASSUME NEW g \in Generations, EndSearch(g) PROVE QueueInv' /\ ScreenInv'
  <2>1. /\ UNCHANGED <<query, reply, ch, searchGen, searchAcc, searchErrs, shown>>
        /\ waiting' = [waiting EXCEPT ![g] = "none"] /\ waiting[g] \notin Indexers
        /\ g = searchGen /\ searchGen > 0
        BY <1>10, NoIndexer, <1>2
        DEF EndSearch, streamVars, Superseded, Generations, SearchAssumption
  <2>2. g <= searchGen BY <1>3, <2>1 DEF Generations, SearchAssumption
  <2>3. QueueInv' /\ Handled(g)' = Handled(g) BY <2>1, <2>2, QueueKept
  <2>4. Good(g)' = Good(g) BY <2>1, <2>3 DEF Good
  <2>5. Brought(g)' = Brought(g) BY <2>1, <2>4 DEF Brought
  <2>6. /\ Handled(searchGen)' = Handled(g)' /\ Good(searchGen)' = Good(g)'
        /\ Brought(searchGen)' = Brought(g)'
        BY <2>1
  <2> QED BY <2>1, <2>3, <2>4, <2>5, <2>6 DEF ScreenInv
<1>11. ASSUME NEW q \in Queries, StartSearch(q) PROVE QueueInv' /\ ScreenInv'
  <2>1. PICK g \in Generations : g = searchGen + 1 /\ g > searchGen /\ g > 0
        BY <1>2, <1>11 DEF StartSearch, Generations, SearchAssumption
  <2>2. /\ searchGen' = g /\ query' = [query EXCEPT ![g] = q]
        /\ waiting' = [waiting EXCEPT ![g] = "waiting"]
        /\ searchAcc' = <<>> /\ searchErrs' = {} /\ shown' = <<>>
        /\ UNCHANGED <<reply, ch>>
        BY <1>11, <2>1 DEF StartSearch
  <2>3. \A h \in Generations : Sent(h)' = Sent(h) BY <2>2 DEF Sent
  <2>4. Sent(g) = {} BY <2>1 DEF QueueInv
  <2>5. \A h \in Generations : h <= g <=> h <= searchGen \/ h = g
        BY <1>2, <2>1 DEF Generations, SearchAssumption
  <2>6. \A h \in Generations : h > g => h > searchGen /\ h # g
        BY <1>2, <2>1 DEF Generations, SearchAssumption
  <2>7. DOMAIN query = Generations BY DEF QueueInv
  <2>8. ASSUME NEW h \in Generations
        PROVE  /\ h <= g => query'[h] \in Queries
               /\ h > g => Sent(h)' = {} /\ waiting'[h] = "none"
               /\ \A j \in Sent(h)' : reply'[h][j] \in Replies[j][query'[h]]
               /\ Once(ch'[h]) /\ ToSet(ch'[h]) \subseteq Sent(h)'
               /\ waiting'[h] \notin ToSet(ch'[h])
               /\ waiting'[h] \in Indexers => waiting'[h] \in Sent(h)'
    <3>1. CASE h = g
      <4>1. query'[h] = q /\ waiting'[h] = "waiting" BY <1>2, <2>2, <2>1, <2>7, <3>1
      <4>2. ToSet(ch[g]) = {} BY <2>1, <2>4 DEF QueueInv
      <4>3. Once(ch[g]) BY <2>1 DEF QueueInv
      <4> QED BY <2>2, <2>1, <2>3, <2>4, <2>6, <3>1, <4>1, <4>2, <4>3, NoIndexer
    <3>2. CASE h # g
      <4>1. query'[h] = query[h] /\ waiting'[h] = waiting[h] BY <1>2, <2>2, <2>7, <3>2
      <4> QED BY <2>2, <2>3, <2>5, <2>6, <3>2, <4>1 DEF QueueInv
    <3> QED BY <3>1, <3>2
  <2>9. QueueInv' BY <2>2, <2>7, <2>8 DEF QueueInv
  <2>10. Handled(g)' = {} BY <2>1, <2>3, <2>4 DEF Handled
  <2>11. Good(g)' = {} BY <2>10 DEF Good
  <2>12. Brought(g)' = {} BY <2>11 DEF Brought
  <2>13. /\ Handled(searchGen)' = Handled(g)' /\ Good(searchGen)' = Good(g)'
         /\ Brought(searchGen)' = Brought(g)'
         BY <2>2
  <2>14. ToSet(<<>>) = {} BY DEF ToSet
  <2>15. ~(searchGen' = 0) BY <1>2, <2>2, <2>1
  <2>16. Faithful(ToSet(searchAcc'), shown') BY <2>2, <2>14, NothingFaithful
  <2>17. searchAcc' \in Seq(Result) /\ shown' \in Seq(Result) BY <2>2
  <2>18. ScreenInv'
         BY <2>2, <2>10, <2>11, <2>12, <2>13, <2>14, <2>15, <2>16, <2>17 DEF ScreenInv
  <2> QED BY <2>9, <2>18
<1>12. CASE UNCHANGED vars BY <1>1, <1>7, <1>12 DEF vars, streamVars, modelVars
<1> QED BY <1>1, <1>4, <1>5, <1>6, <1>8, <1>9, <1>10, <1>11, <1>12 DEF Next, Stream, Loop

LEMMA TabInvariance ==
    ASSUME SearchAssumption
    PROVE  Spec => []TabInv
<1>1. Init => TabInv BY TabInit
<1>2. TabInv /\ [Next]_vars => TabInv' BY TabNext
<1> QED BY <1>1, <1>2, PTL DEF Spec

-----------------------------------------------------------------------------

(* Every variable of the search tab has its type, and what is in a channel *)
(* was sent.                                                               *)
THEOREM TypeCorrect ==
    ASSUME SearchAssumption
    PROVE  Spec => []TypeOK
<1>1. ASSUME TabInv PROVE TypeOK
  <2>1. ASSUME searchGen > 0 PROVE searchErrs \subseteq Indexers
        BY <1>1, <2>1 DEF TabInv, ScreenInv, Handled, Sent
  <2>2. searchGen > 0 \/ searchGen = 0
        BY <1>1 DEF TabInv, Inv, StreamType, SearchAssumption
  <2>3. searchErrs \subseteq Indexers BY <1>1, <2>1, <2>2 DEF TabInv, ScreenInv
  <2> QED BY <1>1, <2>3 DEF TabInv, QueueInv, Inv, StreamType, TypeOK
<1> QED BY <1>1, TabInvariance, PTL

(* The list and the errors on the screen are those of the chunks of the    *)
(* current search handled so far, each torrent once with everything found  *)
(* of it, whatever is still coming of searches that were superseded        *)
(* (app.go 129-143, 287-308; search.go 136-195).                           *)
THEOREM AccumulatedShown ==
    ASSUME SearchAssumption
    PROVE  Spec => []ShownIsAccumulated
<1>1. ASSUME TabInv PROVE ShownIsAccumulated
  <2>1. SUFFICES ASSUME searchGen > 0
                 PROVE  /\ searchErrs = Handled(searchGen) \ Good(searchGen)
                        /\ Faithful(Brought(searchGen), shown)
        BY DEF ShownIsAccumulated, Brought, Good
  <2> QED BY <1>1, <2>1 DEF TabInv, ScreenInv
<1> QED BY <1>1, TabInvariance, PTL
=============================================================================
