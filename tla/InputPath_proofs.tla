-------------------------- MODULE InputPath_proofs --------------------------
(***************************************************************************)
(* What holds of the path of a keystroke through the TIP, for any number   *)
(* of characters, keys, documents, kept edit sessions and any capacity of  *)
(* the queue: no accepted character is lost, none is written twice or      *)
(* before one typed earlier, and a queue that lost its document never      *)
(* shows as unprocessed what was written.                                  *)
(*                                                                         *)
(* The invariant has three parts, each inductive beside the ones before    *)
(* it.  Base: types, the accounts of the characters, and that only the     *)
(* commit in flight may still write.  Control: what a commit in flight, a  *)
(* snapshot wait and a settled composition exclude.  TextOK: documents,    *)
(* reading, queue and the bodies asked for are in order, one behind the    *)
(* other.                                                                  *)
(***************************************************************************)
EXTENDS InputPath, SequenceTheorems, WellFoundedInduction, TLAPS

-----------------------------------------------------------------------------
(* The types, and sets and texts as sequences.                             *)

Action == [op : TextOps, ch : Chars] \cup [op : Ops \ TextOps, ch : {0}]
LongQueue == [acts : Seq(Action), due : Clock, waiting : BOOLEAN, failed : BOOLEAN,
              initial : SUBSET Seq(Chars), lost : BOOLEAN, unwritten : SUBSET Seq(Chars)]
Queue == {x \in LongQueue : Len(x.acts) <= Capacity}
Ending == [on : BOOLEAN, tries : 0..RetryMax - 1, caret : BOOLEAN]
Request == [body : Seq(Chars), ctx : Contexts \cup {"none"}, held : BOOLEAN,
            applied : BOOLEAN, stale : BOOLEAN, past : BOOLEAN, cur : BOOLEAN,
            owned : BOOLEAN]
Sessions == [Slots -> Request]
Result == [ok : BOOLEAN, req : Sessions, pend : Slots \cup {0},
           doc : [Contexts -> Seq(Chars)], open : BOOLEAN, endp : Ending]

TypeOK ==
  /\ q \in Queue
  /\ reading \in Seq(Chars) /\ mode \in {"idle", "editing", "converting"}
  /\ window \in {"closed", "loading", "ready"}
  /\ snap \in BOOLEAN /\ redraw \in BOOLEAN /\ open \in BOOLEAN
  /\ endp \in Ending /\ req \in Sessions /\ pend \in Slots \cup {0}
  /\ ctx \in Contexts /\ doc \in [Contexts -> Seq(Chars)]
  /\ pc \in {"idle", "drain", "direct"} /\ parked \in Action \cup {NoAct}
  /\ next \in 1..MaxChars + 1 /\ where \in [Chars -> Contexts \cup {"none"}]
  /\ gone \in SUBSET Chars /\ thrown \in SUBSET Chars
  /\ leaked \in SUBSET Chars

-----------------------------------------------------------------------------
(* Sequences.                                                              *)
LEMMA InputFacts == /\ MaxChars \in Nat /\ Chars = 1..MaxChars /\ Chars \subseteq Nat
                    /\ 0 \notin Chars /\ Slots \subseteq Nat /\ 0 \notin Slots
                    /\ First \in Contexts /\ Capacity \in Nat
  BY InputAssumption, CapacityAssumption DEF Chars

LEMMA SetOfEmpty == ToSet(<<>>) = {}
  BY DEF ToSet

LEMMA SetOfOne == ASSUME NEW x PROVE ToSet(<<x>>) = {x}
  BY DEF ToSet

LEMMA SetOfAppend ==
  ASSUME NEW S, NEW s \in Seq(S), NEW x \in S
  PROVE  ToSet(Append(s, x)) = ToSet(s) \cup {x}
  <1> DEFINE t == Append(s, x)
  <1>1. /\ Len(s) \in Nat /\ DOMAIN s = 1..Len(s)
        /\ DOMAIN t = 1..(Len(s) + 1) /\ t[Len(s) + 1] = x
        /\ \A i \in 1..Len(s) : t[i] = s[i]
    OBVIOUS
  <1> HIDE DEF t
  <1>2. ToSet(t) \subseteq ToSet(s) \cup {x}
    BY <1>1 DEF ToSet
  <1>3. ToSet(s) \subseteq ToSet(t) /\ x \in ToSet(t)
    BY <1>1 DEF ToSet
  <1> QED
    BY <1>2, <1>3 DEF t

LEMMA SetOfJoined ==
  ASSUME NEW S, NEW s \in Seq(S), NEW t \in Seq(S)
  PROVE  ToSet(s \o t) = ToSet(s) \cup ToSet(t)
  <1>1. ToSet(s \o t) \subseteq ToSet(s) \cup ToSet(t)
    BY DEF ToSet
  <1>2. ToSet(s) \subseteq ToSet(s \o t)
    BY DEF ToSet
  <1>3. ASSUME NEW i \in DOMAIN t PROVE t[i] \in ToSet(s \o t)
    <2>1. Len(s) + i \in DOMAIN (s \o t) /\ (s \o t)[Len(s) + i] = t[i]
      BY <1>3
    <2> QED
      BY <2>1 DEF ToSet
  <1> QED
    BY <1>1, <1>2, <1>3 DEF ToSet

LEMMA SetOfTyped ==
  ASSUME NEW S, NEW s \in Seq(S)
  PROVE  ToSet(s) \subseteq S
  BY DEF ToSet

LEMMA SetOfFront ==
  ASSUME NEW S, NEW s \in Seq(S), Len(s) > 1
  PROVE  /\ Front(s) \in Seq(S) /\ Last(s) \in S
         /\ ToSet(Front(s)) \subseteq ToSet(s)
         /\ ToSet(s) \subseteq ToSet(Front(s)) \cup {Last(s)}
         /\ Last(s) \in ToSet(s)
         /\ Len(Front(s)) = Len(s) - 1 /\ \A i \in 1..(Len(s) - 1) : Front(s)[i] = s[i]
  <1>1. Front(s) = [i \in 1..(Len(s) - 1) |-> s[i]]
    BY DEF Front
  <1>2. Front(s) \in Seq(S) /\ Len(Front(s)) = Len(s) - 1
    BY <1>1
  <1> QED
    BY <1>1, <1>2 DEF ToSet, Last

-----------------------------------------------------------------------------
(* The queue.                                                              *)
TextIn(acts) == {acts[i].ch : i \in {j \in 1..Len(acts) : acts[j].op \in TextOps}}
Rises(acts) == \A i, j \in 1..Len(acts) :
                  i < j /\ acts[i].op \in TextOps /\ acts[j].op \in TextOps
                    => acts[i].ch < acts[j].ch

LEMMA QueuedIsTextIn ==
  ASSUME NEW acts \in Seq(Action), NEW x, x.acts = acts
  PROVE  QueuedChars(x) = TextIn(acts)
  BY DEF QueuedChars, TextIn, ToSet

LEMMA TextTyped ==
  ASSUME NEW acts \in Seq(Action) PROVE TextIn(acts) \subseteq Chars
  <1>1. ASSUME NEW a \in Action, a.op \in TextOps PROVE a.ch \in Chars
    BY <1>1 DEF Action
  <1> QED
    BY <1>1 DEF TextIn

LEMMA TextOfNone == TextIn(<<>>) = {} /\ Rises(<<>>)
  BY DEF TextIn, Rises

LEMMA TextOfAppend ==
  ASSUME NEW acts \in Seq(Action), NEW a \in Action
  PROVE  /\ Append(acts, a) \in Seq(Action)
         /\ TextIn(Append(acts, a)) = TextIn(acts) \cup (IF a.op \in TextOps THEN {a.ch} ELSE {})
         /\ Rises(acts) /\ (a.op \in TextOps => \A x \in TextIn(acts) : x < a.ch)
              => Rises(Append(acts, a))
  <1> DEFINE s == Append(acts, a)
  <1>1. s \in Seq(Action) /\ Len(s) = Len(acts) + 1 /\ s[Len(acts) + 1] = a
        /\ \A i \in 1..Len(acts) : s[i] = acts[i]
    OBVIOUS
  <1> HIDE DEF s
  <1>2. TextIn(acts) \subseteq TextIn(s)
    BY <1>1 DEF TextIn
  <1>3. a.op \in TextOps => a.ch \in TextIn(s)
    BY <1>1 DEF TextIn
  <1>4. TextIn(s) \subseteq TextIn(acts) \cup (IF a.op \in TextOps THEN {a.ch} ELSE {})
    BY <1>1 DEF TextIn
  <1>5. ASSUME Rises(acts), a.op \in TextOps => \A x \in TextIn(acts) : x < a.ch
        PROVE  Rises(s)
    <2> SUFFICES ASSUME NEW i \in 1..Len(s), NEW j \in 1..Len(s), i < j,
                        s[i].op \in TextOps, s[j].op \in TextOps
                 PROVE  s[i].ch < s[j].ch
      BY DEF Rises
    <2>1. CASE j \in 1..Len(acts)
      BY <2>1, <1>1, <1>5 DEF Rises
    <2>2. CASE j = Len(acts) + 1
      <3>1. i \in 1..Len(acts) /\ s[i] = acts[i] /\ s[j] = a
        BY <2>2, <1>1
      <3>2. acts[i].ch \in TextIn(acts)
        BY <3>1 DEF TextIn
      <3> QED
        BY <3>1, <3>2, <1>5
    <2> QED
      BY <2>1, <2>2, <1>1
  <1> QED
    BY <1>1, <1>2, <1>3, <1>4, <1>5 DEF s

LEMMA TextOfTail ==
  ASSUME NEW acts \in Seq(Action), acts # <<>>
  PROVE  /\ Tail(acts) \in Seq(Action) /\ Head(acts) \in Action
         /\ TextIn(acts) = TextIn(Tail(acts))
                             \cup (IF Head(acts).op \in TextOps THEN {Head(acts).ch} ELSE {})
         /\ Rises(acts) => Rises(Tail(acts))
         /\ Rises(acts) /\ Head(acts).op \in TextOps
              => \A x \in TextIn(Tail(acts)) : Head(acts).ch < x
  <1> DEFINE s == Tail(acts)
  <1>1. s \in Seq(Action) /\ Len(s) = Len(acts) - 1 /\ Len(acts) \in Nat \ {0}
        /\ \A i \in 1..(Len(acts) - 1) : s[i] = acts[i + 1]
    OBVIOUS
  <1>2. Head(acts) = acts[1] /\ Head(acts) \in Action
    OBVIOUS
  <1> HIDE DEF s
  <1>3. TextIn(s) \subseteq TextIn(acts)
    BY <1>1 DEF TextIn
  <1>4. Head(acts).op \in TextOps => Head(acts).ch \in TextIn(acts)
    BY <1>1, <1>2 DEF TextIn
  <1>5. ASSUME NEW i \in 1..Len(acts), acts[i].op \in TextOps
        PROVE  acts[i].ch \in TextIn(s) \cup (IF Head(acts).op \in TextOps THEN {Head(acts).ch} ELSE {})
    <2>1. CASE i = 1
      BY <2>1, <1>2, <1>5
    <2>2. CASE i # 1
      <3>1. i - 1 \in 1..Len(s) /\ s[i - 1] = acts[i]
        BY <2>2, <1>1
      <3> QED
        BY <3>1, <1>5 DEF TextIn
    <2> QED
      BY <2>1, <2>2
  <1>6. ASSUME Rises(acts) PROVE Rises(s)
    <2> SUFFICES ASSUME NEW i \in 1..Len(s), NEW j \in 1..Len(s), i < j,
                        s[i].op \in TextOps, s[j].op \in TextOps
                 PROVE  s[i].ch < s[j].ch
      BY DEF Rises
    <2>1. i + 1 \in 1..Len(acts) /\ j + 1 \in 1..Len(acts) /\ i + 1 < j + 1
          /\ s[i] = acts[i + 1] /\ s[j] = acts[j + 1]
      BY <1>1
    <2> QED
      BY <2>1, <1>6 DEF Rises
  <1>7. ASSUME Rises(acts), Head(acts).op \in TextOps, NEW x \in TextIn(s)
        PROVE  Head(acts).ch < x
    <2>1. PICK i \in 1..Len(s) : s[i].op \in TextOps /\ x = s[i].ch
      BY DEF TextIn
    <2>2. i + 1 \in 1..Len(acts) /\ 1 \in 1..Len(acts) /\ 1 < i + 1 /\ s[i] = acts[i + 1]
      BY <2>1, <1>1
    <2> QED
      BY <2>1, <2>2, <1>2, <1>7 DEF Rises
  <1> QED
    BY <1>1, <1>2, <1>3, <1>4, <1>5, <1>6, <1>7 DEF s, TextIn

LEMMA TextBehind ==
  ASSUME NEW acts \in Seq(Action), NEW a \in Action, a.op \notin TextOps
  PROVE  /\ <<a>> \o acts \in Seq(Action)
         /\ TextIn(<<a>> \o acts) = TextIn(acts)
         /\ Rises(acts) => Rises(<<a>> \o acts)
         /\ Head(<<a>> \o acts) = a /\ <<a>> \o acts # <<>>
  <1> DEFINE s == <<a>> \o acts
  <1>1. s \in Seq(Action) /\ Len(s) = Len(acts) + 1 /\ s[1] = a /\ Len(acts) \in Nat
        /\ \A i \in 1..Len(acts) : s[i + 1] = acts[i]
    OBVIOUS
  <1>2. Head(s) = a /\ s # <<>>
    OBVIOUS
  <1> HIDE DEF s
  <1>3. ASSUME NEW i \in 1..Len(s), s[i].op \in TextOps
        PROVE  i - 1 \in 1..Len(acts) /\ s[i] = acts[i - 1]
    <2>1. i # 1
      BY <1>1, <1>3
    <2>2. i - 1 \in 1..Len(acts) /\ (i - 1) + 1 = i
      BY <2>1, <1>1
    <2> QED
      BY <2>2, <1>1
  <1>4. TextIn(s) \subseteq TextIn(acts)
    BY <1>3 DEF TextIn
  <1>5. ASSUME NEW i \in 1..Len(acts), acts[i].op \in TextOps
        PROVE  acts[i].ch \in TextIn(s)
    <2>1. i + 1 \in 1..Len(s) /\ s[i + 1] = acts[i]
      BY <1>1
    <2> QED
      BY <2>1, <1>5 DEF TextIn
  <1>6. ASSUME Rises(acts) PROVE Rises(s)
    <2> SUFFICES ASSUME NEW i \in 1..Len(s), NEW j \in 1..Len(s), i < j,
                        s[i].op \in TextOps, s[j].op \in TextOps
                 PROVE  s[i].ch < s[j].ch
      BY DEF Rises
    <2>1. /\ i - 1 \in 1..Len(acts) /\ j - 1 \in 1..Len(acts) /\ i - 1 < j - 1
          /\ s[i] = acts[i - 1] /\ s[j] = acts[j - 1]
      BY <1>3, <1>1
    <2> QED
      BY <2>1, <1>6 DEF Rises
  <1> QED
    BY <1>1, <1>2, <1>4, <1>5, <1>6 DEF s, TextIn

LEMMA TextUnderCommit ==
  ASSUME NEW acts \in Seq(Action), acts # <<>>, Head(acts).op \notin TextOps,
         NEW a \in Action, a.op \notin TextOps
  PROVE  /\ [acts EXCEPT ![1] = a] \in Seq(Action)
         /\ TextIn([acts EXCEPT ![1] = a]) = TextIn(acts)
         /\ Rises(acts) => Rises([acts EXCEPT ![1] = a])
  <1> DEFINE s == [acts EXCEPT ![1] = a]
  <1>1. s \in Seq(Action) /\ Len(s) = Len(acts) /\ s[1] = a /\ Head(acts) = acts[1]
        /\ \A i \in 1..Len(acts) : i # 1 => s[i] = acts[i]
    OBVIOUS
  <1> HIDE DEF s
  <1>2. \A i \in 1..Len(acts) : (s[i].op \in TextOps <=> acts[i].op \in TextOps)
                                /\ (acts[i].op \in TextOps => s[i] = acts[i])
    BY <1>1
  <1>3. TextIn(s) = TextIn(acts)
    <2>1. TextIn(s) \subseteq TextIn(acts)
      BY <1>1, <1>2 DEF TextIn
    <2>2. TextIn(acts) \subseteq TextIn(s)
      BY <1>1, <1>2 DEF TextIn
    <2> QED
      BY <2>1, <2>2
  <1>4. Rises(acts) => Rises(s)
    BY <1>1, <1>2 DEF Rises
  <1> QED
    BY <1>1, <1>3, <1>4 DEF s

-----------------------------------------------------------------------------
(* What a failed calculation keeps.                                        *)
LEMMA LeastNumber ==
  ASSUME NEW T, T \subseteq Nat, T # {}
  PROVE  \E m \in T : \A n \in T : m <= n
  <1>1. PICK m \in T : \A n \in T : ~(<<n, m>> \in OpToRel(<, Nat))
    BY NatLessThanWellFounded, WFMin
  <1>2. \A n \in T : ~(n < m)
    BY <1>1 DEF OpToRel
  <1>3. m \in Nat /\ \A n \in T : n \in Nat
    BY <1>1
  <1>4. \A n \in T : m <= n
    BY <1>2, <1>3
  <1> QED
    BY <1>1, <1>4

Filters(f, acts, K, k) ==
  f = [i \in 0..k |-> IF i = 0 THEN <<>>
                      ELSE IF i \in K THEN Append(f[i - 1], acts[i]) ELSE f[i - 1]]

LEMMA FilterExists ==
  ASSUME NEW acts, NEW K, NEW k \in Nat
  PROVE  \E f : Filters(f, acts, K, k)
  <1> DEFINE T == {m \in Nat : ~\E f : Filters(f, acts, K, m)}
  <1>1. SUFFICES ASSUME T # {} PROVE FALSE
    OBVIOUS
  <1>2. PICK m \in T : \A n \in T : m <= n
    <2>1. T \subseteq Nat /\ T # {}
      BY <1>1
    <2> HIDE DEF T
    <2> QED
      BY <2>1, LeastNumber
  <1>3. m \in Nat /\ ~\E f : Filters(f, acts, K, m)
    BY <1>2
  <1>4. CASE m = 0
    <2> DEFINE f == [i \in 0..0 |-> <<>>]
    <2>1. f = [i \in 0..0 |-> IF i = 0 THEN <<>>
                   ELSE IF i \in K THEN Append(f[i - 1], acts[i]) ELSE f[i - 1]]
      <3>1. \A i \in 0..0 : i = 0
        OBVIOUS
      <3> QED
        BY <3>1
    <2>2. Filters(f, acts, K, m)
      BY <2>1, <1>4 DEF Filters
    <2> HIDE DEF f
    <2> QED
      BY <2>2, <1>3
  <1>5. CASE m # 0
    <2>1. m - 1 \in Nat /\ m - 1 \notin T
      BY <1>5, <1>3, <1>2
    <2>2. PICK h : Filters(h, acts, K, m - 1)
      BY <2>1
    <2>3. h = [i \in 0..(m-1) |-> IF i = 0 THEN <<>>
                   ELSE IF i \in K THEN Append(h[i - 1], acts[i]) ELSE h[i - 1]]
      BY <2>2 DEF Filters
    <2> DEFINE last == IF m \in K THEN Append(h[m - 1], acts[m]) ELSE h[m - 1]
    <2> DEFINE f == [i \in 0..m |-> IF i = m THEN last ELSE h[i]]
    <2>4. \A i \in 0..m : f[i] = IF i = 0 THEN <<>>
                   ELSE IF i \in K THEN Append(f[i - 1], acts[i]) ELSE f[i - 1]
      <3> TAKE i \in 0..m
      <3>1. CASE i = 0
        <4>1. i # m /\ i \in 0..(m-1)
          BY <3>1, <1>5, <1>3
        <4>2. f[i] = h[i]
          BY <4>1
        <4> HIDE DEF f
        <4> QED
          BY <4>1, <4>2, <3>1, <2>3
      <3>2. CASE i # 0 /\ i # m
        <4>1. i \in 0..(m-1) /\ i - 1 \in 0..(m-1) /\ i - 1 # m /\ i - 1 \in 0..m
          BY <3>2, <1>3
        <4>2. f[i] = h[i] /\ f[i - 1] = h[i - 1]
          BY <4>1, <3>2
        <4> HIDE DEF f, last
        <4> QED
          BY <4>1, <4>2, <3>2, <2>3
      <3>3. CASE i # 0 /\ i = m
        <4>1. i - 1 \in 0..m /\ i - 1 # m
          BY <3>3, <1>3
        <4>2. f[i] = last /\ f[i - 1] = h[i - 1]
          BY <4>1, <3>3
        <4> HIDE DEF f
        <4> QED
          BY <4>2, <3>3
      <3> QED
        BY <3>1, <3>2, <3>3
    <2>5. f = [i \in 0..m |-> IF i = 0 THEN <<>>
                   ELSE IF i \in K THEN Append(f[i - 1], acts[i]) ELSE f[i - 1]]
      <3>1. f = [i \in 0..m |-> f[i]]
        OBVIOUS
      <3> HIDE DEF f
      <3> QED
        BY <2>4, <3>1
    <2>6. Filters(f, acts, K, m)
      <3> HIDE DEF f
      <3> QED
        BY <2>5 DEF Filters
    <2> HIDE DEF f
    <2> QED
      BY <2>6, <1>3
  <1> QED
    BY <1>4, <1>5

(* What is filtered out of a queue keeps the text, when its places are     *)
(* kept, and its order.                                                    *)
TextUpTo(acts, k) == {acts[i].ch : i \in {j \in 1..Len(acts) : j <= k /\ acts[j].op \in TextOps}}
FilteredWell(s, acts, k) == /\ s \in Seq(Action) /\ TextIn(s) = TextUpTo(acts, k)
                            /\ Rises(acts) => Rises(s)
                            /\ Len(s) <= k

LEMMA FilterKeepsText ==
  ASSUME NEW acts \in Seq(Action), NEW K, NEW f, Filters(f, acts, K, Len(acts)),
         \A i \in 1..Len(acts) : acts[i].op \in TextOps => i \in K
  PROVE  FilteredWell(f[Len(acts)], acts, Len(acts))
  <1>0. Len(acts) \in Nat
    OBVIOUS
  <1> DEFINE T == {m \in 0..Len(acts) : ~FilteredWell(f[m], acts, m)}
  <1>1. SUFFICES ASSUME T # {} PROVE FALSE
    BY <1>0
  <1>2. PICK m \in T : \A n \in T : m <= n
    <2>1. T \subseteq Nat /\ T # {}
      BY <1>1
    <2> HIDE DEF T
    <2> QED
      BY <2>1, LeastNumber
  <1>3. m \in 0..Len(acts) /\ ~FilteredWell(f[m], acts, m)
    BY <1>2
  <1>4. f[m] = IF m = 0 THEN <<>>
               ELSE IF m \in K THEN Append(f[m - 1], acts[m]) ELSE f[m - 1]
    <2>1. f = [i \in 0..Len(acts) |-> IF i = 0 THEN <<>>
                   ELSE IF i \in K THEN Append(f[i - 1], acts[i]) ELSE f[i - 1]]
      BY DEF Filters
    <2> QED
      BY <2>1, <1>3
  <1>5. CASE m = 0
    <2>1. TextUpTo(acts, 0) = {}
      BY DEF TextUpTo
    <2>2. f[m] = <<>> /\ <<>> \in Seq(Action) /\ Len(f[m]) <= m
      BY <1>4, <1>5
    <2> QED
      BY <2>1, <2>2, <1>5, <1>3, TextOfNone DEF FilteredWell
  <1>6. CASE m # 0
    <2>1. m - 1 \in 0..Len(acts) /\ m - 1 \notin T /\ m \in 1..Len(acts)
      BY <1>6, <1>3, <1>2, <1>0
    <2>2. FilteredWell(f[m - 1], acts, m - 1)
      BY <2>1
    <2> DEFINE s == f[m - 1]
    <2>3. s \in Seq(Action) /\ TextIn(s) = TextUpTo(acts, m - 1) /\ (Rises(acts) => Rises(s))
          /\ Len(s) <= m - 1
      BY <2>2 DEF FilteredWell
    <2>4. acts[m] \in Action
      BY <2>1
    <2>5. TextUpTo(acts, m) = TextUpTo(acts, m - 1)
                               \cup (IF acts[m].op \in TextOps THEN {acts[m].ch} ELSE {})
      <3>1. \A j \in 1..Len(acts) : j <= m <=> (j <= m - 1 \/ j = m)
        BY <1>0, <1>3
      <3> QED
        BY <3>1, <2>1 DEF TextUpTo
    <2>6. CASE m \in K
      <3>1. f[m] = Append(s, acts[m])
        BY <2>6, <1>4, <1>6
      <3>2. ASSUME Rises(acts), acts[m].op \in TextOps, NEW x \in TextIn(s) PROVE x < acts[m].ch
        <4>1. PICK i \in 1..Len(acts) : i <= m - 1 /\ acts[i].op \in TextOps /\ x = acts[i].ch
          BY <2>3 DEF TextUpTo
        <4>2. i < m
          BY <4>1, <2>1, <1>0
        <4> QED
          BY <4>1, <4>2, <2>1, <3>2 DEF Rises
      <3> HIDE DEF s
      <3>3. f[m] \in Seq(Action) /\ TextIn(f[m]) = TextUpTo(acts, m)
        BY <3>1, <2>3, <2>4, <2>5, TextOfAppend
      <3>4. Rises(acts) => Rises(f[m])
        BY <3>1, <3>2, <2>3, <2>4, TextOfAppend
      <3>5. Len(f[m]) <= m
        BY <3>1, <2>1, <2>3, <2>4, <1>0
      <3> QED
        BY <3>3, <3>4, <3>5, <1>3 DEF FilteredWell
    <2>7. CASE m \notin K
      <3>1. f[m] = s /\ acts[m].op \notin TextOps
        BY <2>7, <1>4, <1>6, <2>1
      <3> HIDE DEF s
      <3>2. Len(s) <= m
        BY <2>1, <2>3, <1>0
      <3> QED
        BY <3>1, <3>2, <2>3, <2>5, <1>3 DEF FilteredWell
    <2> QED
      BY <2>6, <2>7
  <1> QED
    BY <1>5, <1>6

LEMMA KeptText ==
  ASSUME NEW acts \in Seq(Action)
  PROVE  /\ KeptAfterFailure(acts) \in Seq(Action)
         /\ TextIn(KeptAfterFailure(acts)) = TextIn(acts)
         /\ Rises(acts) => Rises(KeptAfterFailure(acts))
         /\ Len(KeptAfterFailure(acts)) <= Len(acts)
  <1> DEFINE K == {i \in 1..Len(acts) : \/ acts[i].op \in EditOps \cup {"Cancel"}
                                        \/ \E j \in 1..i : acts[j].op = "Commit"}
  <1> DEFINE kept == CHOOSE f : f = [i \in 0..Len(acts) |-> IF i = 0 THEN <<>>
                   ELSE IF i \in K THEN Append(f[i - 1], acts[i]) ELSE f[i - 1]]
  <1>0. Len(acts) \in Nat
    OBVIOUS
  <1>1. \E f : f = [i \in 0..Len(acts) |-> IF i = 0 THEN <<>>
                   ELSE IF i \in K THEN Append(f[i - 1], acts[i]) ELSE f[i - 1]]
    <2> HIDE DEF K
    <2>1. \E f : Filters(f, acts, K, Len(acts))
      BY <1>0, FilterExists
    <2> QED
      BY <2>1 DEF Filters
  <1>2. kept = [i \in 0..Len(acts) |-> IF i = 0 THEN <<>>
                   ELSE IF i \in K THEN Append(kept[i - 1], acts[i]) ELSE kept[i - 1]]
    <2> HIDE DEF K
    <2> QED
      BY <1>1
  <1>3. KeptAfterFailure(acts) = kept[Len(acts)]
    BY DEF KeptAfterFailure
  <1>4. \A i \in 1..Len(acts) : acts[i].op \in TextOps => i \in K
    BY DEF EditOps
  <1> HIDE DEF K, kept
  <1>5. Filters(kept, acts, K, Len(acts))
    BY <1>2 DEF Filters
  <1>6. FilteredWell(kept[Len(acts)], acts, Len(acts))
    BY <1>5, <1>4, FilterKeepsText
  <1>7. TextUpTo(acts, Len(acts)) = TextIn(acts)
    BY <1>0 DEF TextUpTo, TextIn
  <1> QED
    BY <1>3, <1>6, <1>7 DEF FilteredWell

-----------------------------------------------------------------------------
(* The operations of the conversion queue.                                 *)

(* What the operations of the queue keep.                                  *)
SameText(y, x) == QueuedChars(y) = QueuedChars(x) /\ (Rises(x.acts) => Rises(y.acts))
SameOwner(y, x) == y.lost = x.lost /\ y.unwritten = x.unwritten
SameWait(y, x) == y.waiting = x.waiting /\ y.failed = x.failed /\ y.initial = x.initial

LEMMA QueueFields ==
  ASSUME NEW x \in Queue
  PROVE  /\ x.acts \in Seq(Action) /\ x.lost \in BOOLEAN /\ x.waiting \in BOOLEAN
         /\ x.failed \in BOOLEAN /\ x.initial \in SUBSET Seq(Chars)
         /\ x.unwritten \in SUBSET Seq(Chars) /\ x.due \in Clock
         /\ x \in LongQueue /\ Len(x.acts) <= Capacity
  BY DEF Queue, LongQueue

LEMMA LongTyped ==
  ASSUME NEW x \in LongQueue
  PROVE  QueuedChars(x) \subseteq Chars /\ QueuedChars(x) = TextIn(x.acts)
  BY QueuedIsTextIn, TextTyped DEF LongQueue

LEMMA QueuedTyped ==
  ASSUME NEW x \in Queue PROVE QueuedChars(x) \subseteq Chars /\ QueuedChars(x) = TextIn(x.acts)
  BY QueueFields, LongTyped

LEMMA CommitIsAction == CommitAct \in Action /\ CommitAct.op = "Commit" /\ "Commit" \notin TextOps
  BY DEF CommitAct, Act, Action, Ops, EditOps, TextOps

LEMMA EmptyQueueFacts ==
  /\ EmptyQueue \in Queue /\ EmptyQueue.acts = <<>> /\ QueuedChars(EmptyQueue) = {}
  /\ EmptyQueue.lost = FALSE /\ EmptyQueue.waiting = FALSE /\ EmptyQueue.failed = FALSE
  /\ EmptyQueue.initial = {} /\ EmptyQueue.unwritten = {} /\ Rises(EmptyQueue.acts)
  <1> PICK none \in Seq(Action) : none = <<>>
    BY EmptySeq
  <1>1. EmptyQueue = [acts |-> none, due |-> "none", waiting |-> FALSE, failed |-> FALSE,
                      initial |-> {}, lost |-> FALSE, unwritten |-> {}]
    BY DEF EmptyQueue
  <1>2. EmptyQueue \in Queue
    BY <1>1, CapacityAssumption DEF Queue, LongQueue, Clock
  <1>3. EmptyQueue.acts = <<>>
    BY <1>1
  <1>4. QueuedChars(EmptyQueue) = {}
    BY <1>2, <1>3, QueuedTyped, TextOfNone
  <1> QED
    BY <1>1, <1>2, <1>3, <1>4, TextOfNone

LEMMA FailedFacts ==
  ASSUME NEW x \in Queue
  PROVE  /\ Failed(x) \in Queue /\ Failed(x).acts = x.acts /\ SameOwner(Failed(x), x)
         /\ Failed(x).waiting = x.waiting /\ Failed(x).failed /\ Failed(x).initial = x.initial
         /\ SameText(Failed(x), x)
  <1>1. /\ Failed(x) \in Queue /\ Failed(x).acts = x.acts /\ SameOwner(Failed(x), x)
        /\ Failed(x).waiting = x.waiting /\ Failed(x).failed /\ Failed(x).initial = x.initial
    BY DEF Failed, Queue, LongQueue, SameOwner
  <1>2. SameText(Failed(x), x)
    BY <1>1, QueuedTyped DEF SameText
  <1> QED
    BY <1>1, <1>2

LEMMA PushBackFacts ==
  ASSUME NEW x \in LongQueue, NEW a \in Action
  PROVE  /\ PushBack(x, a) \in LongQueue /\ PushBack(x, a).acts = Append(x.acts, a)
         /\ SameOwner(PushBack(x, a), x) /\ SameWait(PushBack(x, a), x)
         /\ QueuedChars(PushBack(x, a))
              = QueuedChars(x) \cup (IF a.op \in TextOps THEN {a.ch} ELSE {})
         /\ Rises(x.acts) /\ (a.op \in TextOps => \A y \in QueuedChars(x) : y < a.ch)
              => Rises(PushBack(x, a).acts)
         /\ \A O : FrontIs(x, O) => FrontIs(PushBack(x, a), O)
         /\ Len(x.acts) \in Nat /\ Len(PushBack(x, a).acts) = Len(x.acts) + 1
         /\ Len(x.acts) < Capacity => PushBack(x, a) \in Queue
  <1>0. x.acts \in Seq(Action)
    BY DEF LongQueue
  <1> PICK acts \in Seq(Action) : acts = Append(x.acts, a)
    BY <1>0, TextOfAppend
  <1>1. PushBack(x, a) = [x EXCEPT !.acts = acts]
    BY DEF PushBack
  <1>2. /\ PushBack(x, a) \in LongQueue /\ PushBack(x, a).acts = acts
        /\ SameOwner(PushBack(x, a), x) /\ SameWait(PushBack(x, a), x)
    BY <1>1 DEF LongQueue, SameOwner, SameWait
  <1>3. QueuedChars(PushBack(x, a)) = TextIn(acts) /\ QueuedChars(x) = TextIn(x.acts)
    BY <1>2, LongTyped
  <1>4. ASSUME NEW O, FrontIs(x, O) PROVE FrontIs(PushBack(x, a), O)
    <2>1. x.acts # <<>> /\ Head(x.acts).op \in O
      BY <1>4 DEF FrontIs
    <2>2. acts # <<>> /\ Head(acts) = Head(x.acts)
      BY <2>1, <1>0
    <2> QED
      BY <2>1, <2>2, <1>2 DEF FrontIs
  <1>5. Len(x.acts) \in Nat /\ Len(acts) = Len(x.acts) + 1
    BY <1>0
  <1>6. Len(x.acts) < Capacity => PushBack(x, a) \in Queue
    BY <1>2, <1>5, CapacityAssumption DEF Queue, LongQueue
  <1> QED
    BY <1>0, <1>2, <1>3, <1>4, <1>5, <1>6, TextOfAppend

LEMMA PushCommitFacts ==
  ASSUME NEW x \in LongQueue, NEW a \in Action
  PROVE  /\ SameOwner(PushCommitThenInsert(x, a), x) /\ SameWait(PushCommitThenInsert(x, a), x)
         /\ QueuedChars(PushCommitThenInsert(x, a))
              = QueuedChars(x) \cup (IF a.op \in TextOps THEN {a.ch} ELSE {})
         /\ Rises(x.acts) /\ (a.op \in TextOps => \A y \in QueuedChars(x) : y < a.ch)
              => Rises(PushCommitThenInsert(x, a).acts)
         /\ \A O : FrontIs(x, O) => FrontIs(PushCommitThenInsert(x, a), O)
         /\ Len(x.acts) + 2 <= Capacity => PushCommitThenInsert(x, a) \in Queue
  <1>0. x.acts \in Seq(Action)
    BY DEF LongQueue
  <1>1. x.acts \o <<CommitAct, a>> = Append(Append(x.acts, CommitAct), a)
    BY <1>0, CommitIsAction
  <1> DEFINE y == PushBack(x, CommitAct)
  <1>2. /\ y \in LongQueue /\ y.acts = Append(x.acts, CommitAct)
        /\ Len(x.acts) \in Nat /\ Len(y.acts) = Len(x.acts) + 1
    BY CommitIsAction, PushBackFacts
  <1>3. PushCommitThenInsert(x, a) = PushBack(y, a)
    BY <1>1, <1>2 DEF PushCommitThenInsert, PushBack, LongQueue
  <1>4. /\ SameOwner(y, x) /\ SameWait(y, x) /\ QueuedChars(y) = QueuedChars(x)
        /\ Rises(x.acts) => Rises(y.acts)
        /\ \A O : FrontIs(x, O) => FrontIs(y, O)
    BY CommitIsAction, PushBackFacts
  <1> HIDE DEF y
  <1>5. /\ SameOwner(PushBack(y, a), y) /\ SameWait(PushBack(y, a), y)
        /\ QueuedChars(PushBack(y, a))
             = QueuedChars(y) \cup (IF a.op \in TextOps THEN {a.ch} ELSE {})
        /\ Rises(y.acts) /\ (a.op \in TextOps => \A z \in QueuedChars(y) : z < a.ch)
             => Rises(PushBack(y, a).acts)
        /\ \A O : FrontIs(y, O) => FrontIs(PushBack(y, a), O)
    BY <1>2, PushBackFacts
  <1>6. Len(x.acts) + 2 <= Capacity => PushBack(y, a) \in Queue
    <2>1. Len(x.acts) + 2 <= Capacity => Len(y.acts) < Capacity
      BY <1>2, CapacityAssumption
    <2> QED
      BY <2>1, <1>2, PushBackFacts
  <1> QED
    BY <1>3, <1>4, <1>5, <1>6 DEF SameOwner, SameWait

(* What an emptied queue takes.                                            *)
LEMMA EmptyTakes ==
  ASSUME NEW a \in Action
  PROVE  /\ EmptyQueue \in LongQueue
         /\ PushBack(EmptyQueue, a) \in Queue /\ PushCommitThenInsert(EmptyQueue, a) \in Queue
  <1>1. EmptyQueue \in LongQueue /\ Len(EmptyQueue.acts) = 0
    BY EmptyQueueFacts DEF Queue
  <1>2. Len(EmptyQueue.acts) < Capacity /\ Len(EmptyQueue.acts) + 2 <= Capacity
    BY <1>1, CapacityAssumption
  <1> QED
    BY <1>1, <1>2, PushBackFacts, PushCommitFacts

LEMMA BeginWaitFacts ==
  ASSUME NEW x \in Queue, NEW texts \in SUBSET Seq(Chars)
  PROVE  /\ BeginWait(x, texts) \in Queue /\ BeginWait(x, texts).acts = x.acts
         /\ SameOwner(BeginWait(x, texts), x) /\ SameText(BeginWait(x, texts), x)
         /\ BeginWait(x, texts).failed = x.failed
         /\ BeginWait(x, texts).initial \subseteq x.initial \cup texts
         /\ ~x.lost => BeginWait(x, texts).waiting
  <1>1. CASE x.lost
    BY <1>1 DEF BeginWait, SameOwner, SameText
  <1>2. CASE ~x.lost
    <2> PICK due \in Clock : due = IF x.due = "none" THEN "running" ELSE x.due
      BY QueueFields DEF Clock
    <2> PICK initial \in SUBSET Seq(Chars) : initial = IF x.initial = {} THEN texts ELSE x.initial
      BY QueueFields
    <2> PICK y : y = BeginWait(x, texts)
      OBVIOUS
    <2>1. y = [x EXCEPT !.due = due, !.initial = initial, !.waiting = TRUE]
      BY <1>2 DEF BeginWait
    <2>2. /\ y \in Queue /\ y.acts = x.acts /\ y.lost = x.lost /\ y.unwritten = x.unwritten
          /\ y.failed = x.failed /\ y.initial = initial /\ y.waiting
      BY <2>1 DEF Queue, LongQueue
    <2>3. SameText(y, x)
      BY <2>2, QueuedTyped DEF SameText
    <2> QED
      BY <2>2, <2>3 DEF SameOwner
  <1> QED
    BY <1>1, <1>2, QueueFields

(* Commits put at the front, beside the text.                              *)
Barred(y, x) == y \in Queue /\ SameOwner(y, x) /\ SameWait(y, x) /\ SameText(y, x)
                /\ FrontIs(y, {"Commit"})

LEMMA PrependFacts ==
  ASSUME NEW x \in Queue, Len(x.acts) < Capacity
  PROVE  Barred(PrependCommit(x), x)
  <1>0. x.acts \in Seq(Action)
    BY QueueFields
  <1>1. /\ <<CommitAct>> \o x.acts \in Seq(Action)
        /\ TextIn(<<CommitAct>> \o x.acts) = TextIn(x.acts)
        /\ Rises(x.acts) => Rises(<<CommitAct>> \o x.acts)
        /\ Head(<<CommitAct>> \o x.acts) = CommitAct /\ <<CommitAct>> \o x.acts # <<>>
    BY <1>0, CommitIsAction, TextBehind
  <1> PICK acts \in Seq(Action) : acts = <<CommitAct>> \o x.acts
    BY <1>1
  <1> PICK y : y = PrependCommit(x)
    OBVIOUS
  <1>2. y = [x EXCEPT !.acts = acts]
    BY DEF PrependCommit
  <1>3. Len(acts) <= Capacity
    BY <1>0, CommitIsAction, CapacityAssumption
  <1>6. y \in LongQueue /\ y.acts = acts /\ SameOwner(y, x) /\ SameWait(y, x)
    BY <1>2 DEF Queue, LongQueue, SameOwner, SameWait
  <1>7. y \in Queue
    BY <1>3, <1>6 DEF Queue, LongQueue
  <1>4. SameText(y, x)
    BY <1>1, <1>6, <1>7, QueuedTyped DEF SameText
  <1>5. FrontIs(y, {"Commit"})
    BY <1>1, <1>6, CommitIsAction DEF FrontIs
  <1> QED
    BY <1>6, <1>7, <1>4, <1>5 DEF Barred

LEMMA ExhaustedFacts ==
  ASSUME NEW x \in Queue, x.acts # <<>>, Head(x.acts).op \notin TextOps
  PROVE  Barred(ExhaustedCommit(x), x)
  <1>0. x.acts \in Seq(Action)
    BY QueueFields
  <1> PICK acts : acts = [x.acts EXCEPT ![1] = CommitAct]
    OBVIOUS
  <1>1. acts \in Seq(Action) /\ TextIn(acts) = TextIn(x.acts) /\ (Rises(x.acts) => Rises(acts))
    BY <1>0, CommitIsAction, TextUnderCommit
  <1>2. acts # <<>> /\ Head(acts) = CommitAct /\ Len(acts) = Len(x.acts)
    BY <1>0
  <1> PICK y : y = ExhaustedCommit(x)
    OBVIOUS
  <1>3. y = [x EXCEPT !.acts = acts]
    BY DEF ExhaustedCommit, Queue, LongQueue
  <1>4. y \in Queue /\ y.acts = acts /\ SameOwner(y, x) /\ SameWait(y, x)
    BY <1>1, <1>2, <1>3 DEF Queue, LongQueue, SameOwner, SameWait
  <1>5. SameText(y, x)
    BY <1>1, <1>4, QueuedTyped DEF SameText
  <1>6. FrontIs(y, {"Commit"})
    BY <1>2, <1>4, CommitIsAction DEF FrontIs
  <1> QED
    BY <1>4, <1>5, <1>6 DEF Barred

LEMMA CapacityFacts ==
  ASSUME NEW x \in Queue, NEW y \in CapacityCommit(x)
  PROVE  Barred(y, x)
  <1>1. CASE FrontIs(x, {"Commit"})
    <2>1. y = x
      BY <1>1 DEF CapacityCommit
    <2> QED
      BY <2>1, <1>1 DEF Barred, SameOwner, SameWait, SameText
  <1>2. CASE ~FrontIs(x, {"Commit"}) /\ Len(x.acts) < Capacity
    <2>1. y = PrependCommit(x)
      BY <1>2 DEF CapacityCommit
    <2> QED
      BY <2>1, <1>2, PrependFacts
  <1>3. CASE ~FrontIs(x, {"Commit"}) /\ ~(Len(x.acts) < Capacity) /\ ~FrontIs(x, TextOps)
    <2>1. y = ExhaustedCommit(x)
      BY <1>3 DEF CapacityCommit, ExhaustedCommit
    <2>2. x.acts # <<>>
      BY <1>3, QueueFields, CapacityAssumption
    <2> QED
      BY <2>1, <2>2, <1>3, ExhaustedFacts DEF FrontIs
  <1>4. CASE ~FrontIs(x, {"Commit"}) /\ ~(Len(x.acts) < Capacity) /\ FrontIs(x, TextOps)
    BY <1>4 DEF CapacityCommit
  <1> QED
    BY <1>1, <1>2, <1>3, <1>4

(* The front action goes, and with it at most one character.               *)
FrontGone(y, x) ==
  /\ y \in Queue /\ SameOwner(y, x) /\ y.waiting = x.waiting /\ y.initial \subseteq x.initial
  /\ QueuedChars(y) \subseteq QueuedChars(x)
  /\ Rises(x.acts) => Rises(y.acts)
  /\ x.lost \/ x.acts = <<>> \/ Head(x.acts).op \notin TextOps => SameText(y, x)
  /\ ~x.lost /\ x.acts # <<>> /\ Head(x.acts).op \in TextOps =>
        /\ QueuedChars(x) = QueuedChars(y) \cup {Head(x.acts).ch}
        /\ Rises(x.acts) => \A z \in QueuedChars(y) : Head(x.acts).ch < z
        /\ Head(x.acts).ch \in Chars

LEMMA CompleteFacts ==
  ASSUME NEW x \in Queue
  PROVE  FrontGone(CompleteFront(x), x) /\ CompleteFront(x).failed = x.failed
  <1>1. CASE x.lost
    <2>1. CompleteFront(x) = x
      BY <1>1 DEF CompleteFront
    <2> QED
      BY <2>1, <1>1 DEF FrontGone, SameOwner, SameText
  <1>2. CASE ~x.lost
    <2>0. x.acts \in Seq(Action)
      BY QueueFields
    <2> PICK rest \in Seq(Action) : rest = IF x.acts = <<>> THEN <<>> ELSE Tail(x.acts)
      BY <2>0, TextOfTail, EmptySeq
    <2>6. Len(rest) <= Capacity
      BY <2>0, QueueFields, CapacityAssumption
    <2> PICK due \in Clock : due = IF rest = <<>> /\ ~x.waiting THEN "none" ELSE x.due
      BY QueueFields DEF Clock
    <2> PICK initial \in SUBSET Seq(Chars) :
          /\ initial \subseteq x.initial
          /\ initial = IF (rest = <<>> /\ ~x.waiting) \/ FrontIs(x, {"Commit"}) THEN {} ELSE x.initial
      BY QueueFields
    <2> PICK y : y = CompleteFront(x)
      OBVIOUS
    <2>1. y = [x EXCEPT !.acts = rest, !.due = due, !.initial = initial]
      BY <1>2 DEF CompleteFront
    <2>2. /\ y \in Queue /\ y.acts = rest /\ SameOwner(y, x) /\ y.waiting = x.waiting
          /\ y.failed = x.failed /\ y.initial = initial
      BY <2>1, <2>6 DEF Queue, LongQueue, SameOwner
    <2>3. QueuedChars(y) = TextIn(rest) /\ QueuedChars(x) = TextIn(x.acts)
      BY <2>2, QueuedTyped
    <2>4. CASE x.acts = <<>>
      <3>1. rest = x.acts
        BY <2>4
      <3> QED
        BY <3>1, <2>2, <2>3, <2>4 DEF FrontGone, SameText
    <2>5. CASE x.acts # <<>>
      <3>1. rest = Tail(x.acts)
        BY <2>5
      <3>2. /\ Head(x.acts) \in Action
            /\ TextIn(x.acts) = TextIn(rest)
                             \cup (IF Head(x.acts).op \in TextOps THEN {Head(x.acts).ch} ELSE {})
            /\ Rises(x.acts) => Rises(rest)
            /\ Rises(x.acts) /\ Head(x.acts).op \in TextOps
                 => \A z \in TextIn(rest) : Head(x.acts).ch < z
        BY <3>1, <2>0, <2>5, TextOfTail
      <3>3. Head(x.acts).op \in TextOps => Head(x.acts).ch \in Chars
        BY <3>2, InputFacts DEF Action
      <3>4. QueuedChars(y) \subseteq QueuedChars(x) /\ (Rises(x.acts) => Rises(y.acts))
        BY <2>2, <2>3, <3>2
      <3>5. Head(x.acts).op \notin TextOps => SameText(y, x)
        BY <2>3, <3>2, <3>4 DEF SameText
      <3>6. ASSUME Head(x.acts).op \in TextOps
            PROVE  /\ QueuedChars(x) = QueuedChars(y) \cup {Head(x.acts).ch}
                   /\ Rises(x.acts) => \A z \in QueuedChars(y) : Head(x.acts).ch < z
        BY <2>3, <3>2, <3>6
      <3> QED
        BY <1>2, <2>2, <2>5, <3>3, <3>4, <3>5, <3>6 DEF FrontGone
    <2> QED
      BY <2>4, <2>5
  <1> QED
    BY <1>1, <1>2

LEMMA DoneFacts ==
  ASSUME NEW x \in Queue, NEW e \in Ending
  PROVE  FrontGone(Done(x, e), x) /\ (x.failed => Done(x, e).failed)
         /\ Done(x, e).initial = CompleteFront(x).initial
  <1> PICK y \in Queue : y = CompleteFront(x)
    BY CompleteFacts DEF FrontGone
  <1>1. FrontGone(y, x) /\ y.failed = x.failed
    BY CompleteFacts
  <1> PICK b \in BOOLEAN : b = (y.failed \/ (e.on /\ ~x.lost))
    BY QueueFields DEF Ending
  <1> PICK z : z = Done(x, e)
    OBVIOUS
  <1>2. z = [y EXCEPT !.failed = b]
    BY DEF Done, Queue, LongQueue
  <1>3. /\ z \in Queue /\ z.acts = y.acts /\ SameOwner(z, y) /\ z.waiting = y.waiting
        /\ z.initial = y.initial /\ z.failed = b
    BY <1>2 DEF Queue, LongQueue, SameOwner
  <1>4. QueuedChars(z) = QueuedChars(y)
    BY <1>3, QueuedTyped
  <1>5. FrontGone(z, x)
    BY <1>1, <1>3, <1>4 DEF FrontGone, SameOwner, SameText
  <1> QED
    BY <1>1, <1>3, <1>5

(* The end of a wait.                                                      *)
WaitEnded(y, x) == /\ y \in Queue /\ SameOwner(y, x) /\ SameText(y, x) /\ y.failed = x.failed
                   /\ y.initial \subseteq x.initial

LEMMA ResolvedFacts ==
  ASSUME NEW x \in Queue
  PROVE  WaitEnded(Resolved(x), x) /\ Resolved(x).acts = x.acts
  <1>1. CASE x.lost
    <2>1. Resolved(x) = x
      BY <1>1 DEF Resolved
    <2> QED
      BY <2>1 DEF WaitEnded, SameOwner, SameText
  <1>2. CASE ~x.lost
    <2> PICK due \in Clock : due = IF x.acts = <<>> THEN "none" ELSE x.due
      BY QueueFields DEF Clock
    <2> PICK y : y = Resolved(x)
      OBVIOUS
    <2>1. y = [x EXCEPT !.waiting = FALSE, !.initial = {}, !.due = due]
      BY <1>2 DEF Resolved
    <2>2. /\ y \in Queue /\ y.acts = x.acts /\ SameOwner(y, x) /\ y.failed = x.failed
          /\ y.initial = {}
      BY <2>1 DEF Queue, LongQueue, SameOwner
    <2>3. SameText(y, x)
      BY <2>2, QueuedTyped DEF SameText
    <2> QED
      BY <2>2, <2>3 DEF WaitEnded
  <1> QED
    BY <1>1, <1>2

LEMMA FailWaitFacts ==
  ASSUME NEW x \in Queue
  PROVE  WaitEnded(FailWait(x), x)
  <1>1. CASE x.lost
    <2>1. FailWait(x) = x
      BY <1>1 DEF FailWait
    <2> QED
      BY <2>1 DEF WaitEnded, SameOwner, SameText
  <1>2. CASE ~x.lost
    <2>0. x.acts \in Seq(Action)
      BY QueueFields
    <2> PICK kept \in Seq(Action) : kept = KeptAfterFailure(x.acts)
      BY <2>0, KeptText
    <2>4. Len(kept) <= Capacity
      BY <2>0, KeptText, QueueFields, CapacityAssumption
    <2> PICK due \in Clock : due = IF kept = <<>> THEN "none" ELSE x.due
      BY QueueFields DEF Clock
    <2> PICK initial \in SUBSET Seq(Chars) :
          initial \subseteq x.initial /\ initial = IF kept = <<>> THEN {} ELSE x.initial
      BY QueueFields
    <2> PICK y : y = FailWait(x)
      OBVIOUS
    <2>1. y = [x EXCEPT !.waiting = FALSE, !.acts = kept, !.due = due, !.initial = initial]
      BY <1>2 DEF FailWait
    <2>2. /\ y \in Queue /\ y.acts = kept /\ SameOwner(y, x) /\ y.failed = x.failed
          /\ y.initial = initial
      BY <2>1, <2>4 DEF Queue, LongQueue, SameOwner
    <2>3. SameText(y, x)
      BY <2>0, <2>2, KeptText, QueuedTyped DEF SameText
    <2> QED
      BY <2>2, <2>3 DEF WaitEnded
  <1> QED
    BY <1>1, <1>2

LEMMA UnwaitedFacts ==
  ASSUME NEW x \in Queue
  PROVE  /\ [x EXCEPT !.waiting = FALSE] \in Queue
         /\ WaitEnded([x EXCEPT !.waiting = FALSE], x)
         /\ [x EXCEPT !.waiting = FALSE].acts = x.acts
         /\ [x EXCEPT !.waiting = FALSE].initial = x.initial
  <1> PICK y : y = [x EXCEPT !.waiting = FALSE]
    OBVIOUS
  <1>1. /\ y \in Queue /\ y.acts = x.acts /\ SameOwner(y, x) /\ y.failed = x.failed
        /\ y.initial = x.initial
    BY DEF Queue, LongQueue, SameOwner
  <1>2. SameText(y, x)
    BY <1>1, QueuedTyped DEF SameText
  <1> QED
    BY <1>1, <1>2 DEF WaitEnded

(* The owner is lost: the queue keeps its text or is discarded whole.      *)
Detached(y, x, body, applied) ==
  /\ y \in Queue /\ QueuedChars(y) = QueuedChars(x)
  /\ x.lost => y = x
  /\ ~x.lost => /\ y.unwritten = (IF applied THEN {} ELSE body)
                /\ ~y.lost => y.unwritten = {} /\ y.acts = <<>>
                /\ ~y.lost => y = EmptyQueue
  /\ Rises(x.acts) => Rises(y.acts)
  /\ y.initial \subseteq x.initial

LEMMA DetachFacts ==
  ASSUME NEW x \in Queue, NEW body \in SUBSET Seq(Chars), NEW applied \in BOOLEAN
  PROVE  Detached(Detach(x, body, applied), x, body, applied)
  <1>1. CASE x.lost
    <2>1. Detach(x, body, applied) = x
      BY <1>1 DEF Detach
    <2> QED
      BY <2>1, <1>1 DEF Detached
  <1>2. CASE ~x.lost
    <2>0. x.acts \in Seq(Action)
      BY QueueFields
    <2> PICK kept \in Seq(Action) :
          kept = IF Has(x, EditOps \cup {"Commit"}) THEN x.acts ELSE <<>>
      BY <2>0, EmptySeq
    <2>7. Len(kept) <= Capacity
      BY QueueFields, CapacityAssumption
    <2> PICK x1 : x1 = [x EXCEPT !.waiting = FALSE, !.acts = kept]
      OBVIOUS
    <2>1. /\ x1 \in Queue /\ x1.acts = kept /\ SameOwner(x1, x) /\ x1.initial = x.initial
      BY <2>7 DEF Queue, LongQueue, SameOwner
    <2>2. QueuedChars(x1) = QueuedChars(x) /\ (Rises(x.acts) => Rises(x1.acts))
      <3>1. CASE Has(x, EditOps \cup {"Commit"})
        BY <3>1, <2>1, QueuedTyped
      <3>2. CASE ~Has(x, EditOps \cup {"Commit"})
        <4>1. TextIn(x.acts) = {}
          BY <3>2 DEF TextIn, Has, EditOps
        <4>2. kept = <<>>
          BY <3>2
        <4> QED
          BY <4>1, <4>2, <2>1, QueuedTyped, TextOfNone
      <3> QED
        BY <3>1, <3>2
    <2> PICK x2 : x2 = IF applied /\ FrontIs(x1, {"Commit"}) THEN CompleteFront(x1) ELSE x1
      OBVIOUS
    <2>3. /\ x2 \in Queue /\ QueuedChars(x2) = QueuedChars(x) /\ x2.initial \subseteq x.initial
          /\ Rises(x.acts) => Rises(x2.acts)
      <3>1. CASE applied /\ FrontIs(x1, {"Commit"})
        <4>1. x2 = CompleteFront(x1)
          BY <3>1
        <4>2. FrontGone(x2, x1)
          BY <4>1, <2>1, CompleteFacts
        <4>3. Head(x1.acts).op \notin TextOps
          BY <3>1 DEF FrontIs, TextOps
        <4> QED
          BY <4>2, <4>3, <2>1, <2>2 DEF FrontGone, SameText
      <3>2. CASE ~(applied /\ FrontIs(x1, {"Commit"}))
        <4>1. x2 = x1
          BY <3>2
        <4> QED
          BY <4>1, <2>1, <2>2
      <3> QED
        BY <3>1, <3>2
    <2> PICK owed \in SUBSET Seq(Chars) : owed = IF applied THEN {} ELSE body
      OBVIOUS
    <2> PICK y : y = Detach(x, body, applied)
      OBVIOUS
    <2>4. y = IF x2.acts = <<>> /\ owed = {} THEN EmptyQueue
              ELSE [x2 EXCEPT !.unwritten = owed, !.lost = TRUE, !.waiting = FALSE,
                              !.due = "none", !.failed = TRUE]
      BY <1>2 DEF Detach
    <2>5. CASE x2.acts = <<>> /\ owed = {}
      <3>1. y = EmptyQueue
        BY <2>4, <2>5
      <3>2. QueuedChars(x) = {}
        BY <2>3, <2>5, QueuedTyped, TextOfNone
      <3> QED
        BY <3>1, <3>2, <2>5, <1>2, EmptyQueueFacts DEF Detached
    <2>6. CASE ~(x2.acts = <<>> /\ owed = {})
      <3>1. y = [x2 EXCEPT !.unwritten = owed, !.lost = TRUE, !.waiting = FALSE,
                           !.due = "none", !.failed = TRUE]
        BY <2>4, <2>6
      <3>2. y \in Queue /\ y.acts = x2.acts /\ y.unwritten = owed /\ y.lost
            /\ y.initial = x2.initial
        BY <3>1, <2>3 DEF Queue, LongQueue, Clock
      <3>3. QueuedChars(y) = QueuedChars(x2)
        BY <3>2, <2>3, QueuedTyped
      <3> QED
        BY <3>2, <3>3, <2>3, <1>2 DEF Detached
    <2> QED
      BY <2>5, <2>6
  <1> QED
    BY <1>1, <1>2

-----------------------------------------------------------------------------
(* Edit sessions: what the host may keep, and what one attempt to close a  *)
(* composition leaves.                                                     *)

(* The sessions the host may keep.                                         *)
Live(x) == x.held /\ x.cur /\ ~x.stale /\ ~x.past
Weaker(x, y) ==
  \/ ~x.held /\ ~x.applied
  \/ /\ x.body = y.body /\ x.ctx = y.ctx /\ x.held = y.held /\ x.applied = y.applied
     /\ (y.stale => x.stale) /\ (y.past => x.past) /\ (x.cur => y.cur)
Weakened(r, r0) == \A s \in Slots : Weaker(r[s], r0[s])

LEMMA FreeFacts == FreeReq \in Request /\ ~FreeReq.held /\ ~FreeReq.applied
  <1> PICK none \in Seq(Chars) : none = <<>>
    BY EmptySeq
  <1>1. FreeReq = [body |-> none, ctx |-> "none", held |-> FALSE, applied |-> FALSE,
                   stale |-> FALSE, past |-> FALSE, cur |-> FALSE, owned |-> FALSE]
    BY DEF FreeReq
  <1> QED
    BY <1>1 DEF Request

LEMMA RequestFields ==
  ASSUME NEW x \in Request
  PROVE  /\ x.body \in Seq(Chars) /\ x.held \in BOOLEAN /\ x.applied \in BOOLEAN
         /\ x.stale \in BOOLEAN /\ x.past \in BOOLEAN /\ x.cur \in BOOLEAN /\ x.owned \in BOOLEAN
  BY DEF Request

LEMMA TidyFacts ==
  ASSUME NEW r \in Sessions, NEW p
  PROVE  /\ Tidy(r, p) \in Sessions /\ Weakened(Tidy(r, p), r)
         /\ \A s \in Slots : Tidy(r, p)[s] = IF r[s].held \/ s = p THEN r[s] ELSE FreeReq
         /\ \A s \in Slots : Tidy(r, p)[s].applied => r[s].held \/ s = p
  <1>1. \A s \in Slots : Tidy(r, p)[s] = IF r[s].held \/ s = p THEN r[s] ELSE FreeReq
    BY DEF Tidy
  <1>2. Tidy(r, p) \in Sessions
    BY FreeFacts DEF Tidy, Sessions
  <1>3. \A s \in Slots : Weaker(Tidy(r, p)[s], r[s])
    BY <1>1, FreeFacts DEF Weaker
  <1>4. \A s \in Slots : Tidy(r, p)[s].applied => r[s].held \/ s = p
    BY <1>1, FreeFacts
  <1> QED
    BY <1>1, <1>2, <1>3, <1>4 DEF Weakened

LEMMA InvalidFacts ==
  ASSUME NEW r \in Sessions
  PROVE  /\ Invalidated(r) \in Sessions /\ Weakened(Invalidated(r), r)
         /\ \A s \in Slots : ~Invalidated(r)[s].cur
         /\ \A s \in Slots : Invalidated(r)[s].held = r[s].held
                               /\ Invalidated(r)[s].applied = r[s].applied
  <1>1. \A s \in Slots : Invalidated(r)[s] = [r[s] EXCEPT !.cur = FALSE] /\ r[s] \in Request
    BY DEF Invalidated, Sessions
  <1>2. \A s \in Slots : /\ Invalidated(r)[s] \in Request /\ Invalidated(r)[s].cur = FALSE
                         /\ Invalidated(r)[s].body = r[s].body /\ Invalidated(r)[s].ctx = r[s].ctx
                         /\ Invalidated(r)[s].held = r[s].held
                         /\ Invalidated(r)[s].applied = r[s].applied
                         /\ Invalidated(r)[s].stale = r[s].stale
                         /\ Invalidated(r)[s].past = r[s].past
    BY <1>1, ZenonT(60) DEF Request
  <1>3. Invalidated(r) \in Sessions
    BY <1>2 DEF Invalidated, Sessions
  <1> QED
    BY <1>2, <1>3 DEF Weakened, Weaker

LEMMA RevokedFacts ==
  ASSUME NEW r \in Sessions, NEW p \in Slots \cup {0}
  PROVE  /\ Revoked(r, p) \in Sessions /\ Weakened(Revoked(r, p), r)
         /\ \A s \in Slots : /\ Revoked(r, p)[s].held = r[s].held
                             /\ Revoked(r, p)[s].applied = r[s].applied
                             /\ Revoked(r, p)[s].body = r[s].body
                             /\ Revoked(r, p)[s].ctx = r[s].ctx
                             /\ Revoked(r, p)[s].owned = r[s].owned
                             /\ (s = p /\ ~r[s].applied => Revoked(r, p)[s].stale)
                             /\ (s # p => Revoked(r, p)[s] = r[s])
  <1>1. CASE p = 0
    <2>1. Revoked(r, p) = r
      BY <1>1 DEF Revoked
    <2> QED
      BY <2>1, <1>1, InputFacts DEF Weakened, Weaker
  <1>2. CASE p # 0
    <2>0. p \in Slots /\ r[p] \in Request
      BY <1>2 DEF Sessions
    <2> PICK b \in BOOLEAN : b = (r[p].stale \/ ~r[p].applied)
      BY <2>0, RequestFields
    <2> PICK x : x = [r[p] EXCEPT !.stale = b]
      OBVIOUS
    <2>1. Revoked(r, p) = [r EXCEPT ![p] = x]
      BY <1>2, <2>0 DEF Revoked, Sessions, Request
    <2>2. /\ x \in Request /\ x.held = r[p].held /\ x.applied = r[p].applied
          /\ x.body = r[p].body /\ x.ctx = r[p].ctx /\ x.owned = r[p].owned /\ x.stale = b
          /\ x.past = r[p].past /\ x.cur = r[p].cur
      BY <2>0 DEF Request
    <2>3. Revoked(r, p) \in Sessions /\ Revoked(r, p)[p] = x
          /\ \A s \in Slots : s # p => Revoked(r, p)[s] = r[s]
      BY <2>1, <2>2, <2>0 DEF Sessions
    <2> QED
      BY <2>2, <2>3 DEF Weakened, Weaker
  <1> QED
    BY <1>1, <1>2

LEMMA DisownedFacts ==
  ASSUME NEW r \in Sessions, NEW p \in Slots \cup {0}, NEW b \in BOOLEAN
  PROVE  /\ Disowned(r, p, b) \in Sessions /\ Weakened(Disowned(r, p, b), r)
         /\ \A s \in Slots : /\ Disowned(r, p, b)[s].held = r[s].held
                             /\ Disowned(r, p, b)[s].applied = r[s].applied
                             /\ Disowned(r, p, b)[s].body = r[s].body
                             /\ Disowned(r, p, b)[s].ctx = r[s].ctx
                             /\ Disowned(r, p, b)[s].stale = r[s].stale
                             /\ Disowned(r, p, b)[s].past = r[s].past
                             /\ Disowned(r, p, b)[s].cur = r[s].cur
  <1>1. CASE ~(b /\ p # 0)
    <2>1. Disowned(r, p, b) = r
      BY <1>1 DEF Disowned
    <2> QED
      BY <2>1 DEF Weakened, Weaker
  <1>2. CASE b /\ p # 0
    <2>0. p \in Slots /\ r[p] \in Request
      BY <1>2 DEF Sessions
    <2> PICK x : x = [r[p] EXCEPT !.owned = FALSE]
      OBVIOUS
    <2>1. Disowned(r, p, b) = [r EXCEPT ![p] = x]
      BY <1>2, <2>0 DEF Disowned, Sessions, Request
    <2>2. /\ x \in Request /\ x.held = r[p].held /\ x.applied = r[p].applied
          /\ x.body = r[p].body /\ x.ctx = r[p].ctx /\ x.stale = r[p].stale
          /\ x.past = r[p].past /\ x.cur = r[p].cur
      BY <2>0 DEF Request
    <2>3. Disowned(r, p, b) \in Sessions /\ Disowned(r, p, b)[p] = x
          /\ \A s \in Slots : s # p => Disowned(r, p, b)[s] = r[s]
      BY <2>1, <2>2, <2>0 DEF Sessions
    <2> QED
      BY <2>2, <2>3 DEF Weakened, Weaker
  <1> QED
    BY <1>1, <1>2

LEMMA WeakenedTwice ==
  ASSUME NEW r, NEW r1, NEW r0, Weakened(r, r1), Weakened(r1, r0)
  PROVE  Weakened(r, r0)
  BY DEF Weakened, Weaker

LEMMA WeakenedFacts ==
  ASSUME NEW r, NEW r0, Weakened(r, r0), NEW s \in Slots
  PROVE  /\ Live(r[s]) => Live(r0[s]) /\ r[s].ctx = r0[s].ctx
         /\ r[s].applied => r0[s].applied /\ r[s].body = r0[s].body /\ r[s].held = r0[s].held
  BY DEF Weakened, Weaker, Live

(* Closing.                                                                *)
(* The tries of an attempt to close are counted below RetryMax.                *)
LEMMA TryCounts ==
  /\ RetryMax \in Nat
  /\ 0 \in 0..RetryMax - 1
  /\ 1 \in 0..RetryMax - 1
  BY InputAssumption

LEMMA NoEndFacts == NoEnd \in Ending /\ ~NoEnd.on /\ ~NoEnd.caret
  BY TryCounts DEF NoEnd, Ending

LEMMA FinishFacts ==
  ASSUME NEW e \in Ending, NEW f \in FinishEnd(e)
  PROVE  /\ f.ok \in BOOLEAN /\ f.e \in Ending /\ f.bump \in BOOLEAN
         /\ f.ok => ~f.e.on
         /\ ~e.on => f.ok /\ f.e = e /\ ~f.bump
         /\ f.e.on => e.on
         /\ (f.e.caret => e.caret)
  <1> USE DEF Ending
  <1>0. e.on \in BOOLEAN /\ e.caret \in BOOLEAN
    OBVIOUS
  <1>1. CASE ~e.on
    <2>1. f = [ok |-> TRUE, e |-> e, bump |-> FALSE]
      BY <1>1 DEF FinishEnd
    <2>2. f.ok = TRUE /\ f.e = e /\ f.bump = FALSE
      BY <2>1
    <2> QED
      BY <2>2, <1>1, <1>0
  <1>2. CASE e.on
    <2>1. CASE f \in {[ok |-> TRUE, e |-> NoEnd, bump |-> b] : b \in BOOLEAN}
      <3>1. PICK b \in BOOLEAN : f = [ok |-> TRUE, e |-> NoEnd, bump |-> b]
        BY <2>1
      <3>2. f.ok = TRUE /\ f.e = NoEnd /\ f.bump = b
        BY <3>1
      <3> QED
        BY <3>2, <1>2, NoEndFacts
    <2>2. CASE f \notin {[ok |-> TRUE, e |-> NoEnd, bump |-> b] : b \in BOOLEAN}
      <3>1. PICK c \in {FALSE, e.caret} : f =
              IF e.tries + 1 < RetryMax
                THEN [ok |-> FALSE, e |-> [e EXCEPT !.tries = @ + 1, !.caret = c], bump |-> FALSE]
              ELSE IF c THEN [ok |-> FALSE, e |-> e, bump |-> FALSE]
              ELSE [ok |-> TRUE, e |-> NoEnd, bump |-> TRUE]
        BY <1>2, <2>2 DEF FinishEnd
      <3>2. c \in BOOLEAN /\ (c => e.caret)
        BY <3>1
      <3>3. e.tries \in 0..RetryMax - 1
        OBVIOUS
      <3>4. CASE e.tries + 1 < RetryMax
        <4> PICK n \in Nat : n = e.tries + 1
          BY <3>3, TryCounts
        <4>1. n \in 0..RetryMax - 1
          BY <3>3, <3>4, TryCounts
        <4> PICK e1 : e1 = [e EXCEPT !.tries = n, !.caret = c]
          OBVIOUS
        <4>2. e1 \in Ending /\ e1.on = e.on /\ e1.caret = c
          BY <3>2, <4>1
        <4>3. [e EXCEPT !.tries = @ + 1, !.caret = c] = e1
          OBVIOUS
        <4>4. f = [ok |-> FALSE, e |-> e1, bump |-> FALSE]
          BY <3>1, <3>4, <4>3
        <4>5. f.ok = FALSE /\ f.e = e1 /\ f.bump = FALSE
          BY <4>4
        <4> QED
          BY <4>5, <4>2, <3>2, <1>2, <1>0
      <3>5. CASE ~(e.tries + 1 < RetryMax)
        <4>1. \/ f = [ok |-> FALSE, e |-> e, bump |-> FALSE]
              \/ f = [ok |-> TRUE, e |-> NoEnd, bump |-> TRUE]
          BY <3>1, <3>5
        <4>2. \/ f.ok = FALSE /\ f.e = e /\ f.bump = FALSE
              \/ f.ok = TRUE /\ f.e = NoEnd /\ f.bump = TRUE
          BY <4>1
        <4> QED
          BY <4>2, <1>2, <1>0, NoEndFacts
      <3> QED
        BY <3>4, <3>5
    <2> QED
      BY <2>1, <2>2
  <1> QED
    BY <1>1, <1>2, <1>0

LEMMA SessionEndsFacts ==
  ASSUME NEW b \in BOOLEAN, NEW e \in SessionEnds(b)
  PROVE  e \in Ending
  <1> PICK n \in 0..RetryMax - 1 : n = 1
    BY TryCounts
  <1>1. \/ e = NoEnd
        \/ e = [on |-> TRUE, tries |-> n, caret |-> TRUE]
        \/ e = [on |-> TRUE, tries |-> n, caret |-> FALSE]
    BY DEF SessionEnds
  <1>2. CASE e = NoEnd
    BY <1>2, NoEndFacts
  <1>3. CASE e = [on |-> TRUE, tries |-> n, caret |-> TRUE]
    BY <1>3 DEF Ending
  <1>4. CASE e = [on |-> TRUE, tries |-> n, caret |-> FALSE]
    BY <1>4 DEF Ending
  <1> QED
    BY <1>1, <1>2, <1>3, <1>4

-----------------------------------------------------------------------------
(* What a commit does, from the moment its session is asked for.           *)

Quiet(r) == \A s \in Slots : ~Live(r[s]) /\ ~r[s].applied

(* A live request is the pending one, and so is one that was written,      *)
(* which the host has let go of.                                           *)
SlotsOK == \A s \in Slots : /\ Live(req[s]) => s = pend /\ req[s].ctx \in Contexts
                            /\ req[s].applied => /\ s = pend /\ ~req[s].held
                                                 /\ ToSet(req[s].body) \subseteq Written

Unspent == pend = 0 \/ ~req[pend].applied
Idle(o) == o.pend = 0 /\ Quiet(o.req)

(* The session is with the host, for the body and the document of now.     *)
Asked(o, body) ==
  /\ o.pend \in Slots /\ o.req[o.pend].body = body /\ o.req[o.pend].ctx = ctx
  /\ o.req[o.pend].owned /\ ~o.req[o.pend].applied
  /\ \A s \in Slots : ~o.req[s].applied /\ (Live(o.req[s]) => s = o.pend)

FreshAnswer(o, body, queued) ==
  /\ o \in Result
  /\ o.ok /\ ~o.endp.on => ~o.open
  /\ \/ ~o.ok /\ Idle(o) /\ o.doc = doc
     \/ ~o.ok /\ queued /\ Asked(o, body) /\ o.doc = doc
     \/ o.ok /\ Idle(o) /\ o.doc = Write(body)

LEMMA QuietWeakened ==
  ASSUME NEW r, NEW r0, Weakened(r, r0), Quiet(r0) PROVE Quiet(r)
  BY WeakenedFacts DEF Quiet

LEMMA WriteFacts ==
  ASSUME NEW body \in Seq(Chars), doc \in [Contexts -> Seq(Chars)], ctx \in Contexts
  PROVE  /\ Write(body) \in [Contexts -> Seq(Chars)]
         /\ Write(body)[ctx] = doc[ctx] \o body
         /\ \A c \in Contexts : c # ctx => Write(body)[c] = doc[c]
         /\ ToSet(Write(body)[ctx]) = ToSet(doc[ctx]) \cup ToSet(body)
         /\ \A c \in Contexts : ToSet(doc[c]) \subseteq ToSet(Write(body)[c])
  <1>0. doc[ctx] \in Seq(Chars)
    OBVIOUS
  <1> PICK s \in Seq(Chars) : s = doc[ctx] \o body
    BY <1>0, ConcatProperties
  <1>1. Write(body) = [doc EXCEPT ![ctx] = s]
    BY DEF Write
  <1>2. /\ Write(body) \in [Contexts -> Seq(Chars)] /\ Write(body)[ctx] = s
        /\ \A c \in Contexts : c # ctx => Write(body)[c] = doc[c]
    BY <1>1
  <1>3. ToSet(s) = ToSet(doc[ctx]) \cup ToSet(body)
    BY <1>0, SetOfJoined
  <1> QED
    BY <1>2, <1>3

LEMMA OutcomeFacts ==
  ASSUME NEW ok \in BOOLEAN, NEW r \in Sessions, NEW p \in Slots \cup {0},
         NEW d \in [Contexts -> Seq(Chars)], NEW b \in BOOLEAN, NEW e \in Ending
  PROVE  /\ Outcome(ok, r, p, d, b, e) \in Result
         /\ Outcome(ok, r, p, d, b, e).ok = ok /\ Outcome(ok, r, p, d, b, e).pend = p
         /\ Outcome(ok, r, p, d, b, e).req = Tidy(r, p)
         /\ Outcome(ok, r, p, d, b, e).doc = d /\ (Outcome(ok, r, p, d, b, e).open <=> b)
         /\ Outcome(ok, r, p, d, b, e).endp = e
  <1> PICK t \in Sessions : t = Tidy(r, p)
    BY TidyFacts
  <1> PICK o : o = Outcome(ok, r, p, d, b, e)
    OBVIOUS
  <1>1. o = [ok |-> ok, req |-> t, pend |-> p, doc |-> d, open |-> b, endp |-> e]
    BY DEF Outcome
  <1>2. o.ok = ok /\ o.req = t /\ o.pend = p /\ o.doc = d /\ o.open = b /\ o.endp = e
    BY <1>1
  <1>3. o \in Result
    BY <1>1 DEF Result
  <1> QED
    BY <1>2, <1>3

LEMMA LeastSlot ==
  ASSUME NEW r, {s \in Slots : ~r[s].held} # {}
  PROVE  (CHOOSE s \in {s \in Slots : ~r[s].held} :
            \A t \in {s1 \in Slots : ~r[s1].held} : s <= t) \in Slots
  <1> DEFINE T == {s \in Slots : ~r[s].held}
  <1>1. T \subseteq Nat /\ T # {}
    BY InputFacts
  <1>2. T \subseteq Slots
    OBVIOUS
  <1> HIDE DEF T
  <1>3. \E m \in T : \A n \in T : m <= n
    BY <1>1, LeastNumber
  <1>4. (CHOOSE s \in T : \A t \in T : s <= t) \in T
    BY <1>3
  <1> QED
    BY <1>2, <1>4 DEF T

LEMMA FreshFacts ==
  ASSUME TypeOK, NEW r \in Sessions, Quiet(r), NEW body \in Seq(Chars), NEW queued \in BOOLEAN,
         NEW o \in FreshCommit(r, body, queued)
  PROVE  FreshAnswer(o, body, queued)
  <1> DEFINE opened(f) == open /\ (endp.on => f.e.on)
             slots == {s \in Slots : ~r[s].held}
             slot  == CHOOSE s \in slots : \A t \in slots : s <= t
             asked == [FreeReq EXCEPT !.body = body, !.ctx = ctx, !.held = TRUE,
                                      !.cur = TRUE, !.owned = TRUE, !.stale = ~queued]
             Refused(f)  == {Outcome(FALSE, r, 0, doc, opened(f), f.e)}
             Deferred_(f) == IF slots = {} THEN {}
                            ELSE {Outcome(FALSE, [r EXCEPT ![slot] = asked],
                                          IF queued THEN slot ELSE 0, doc, opened(f), f.e)}
             Written_(f) == UNION {{Outcome(TRUE, r, 0, Write(body), opened(f) /\ g.e.on, g.e)
                                      : g \in FinishEnd(e)} : e \in SessionEnds(opened(f))}
  <1>1. PICK f \in FinishEnd(endp) : o \in Refused(f) \/ o \in Deferred_(f) \/ o \in Written_(f)
    <2>1. o \in UNION {IF f.ok THEN Refused(f) \cup Deferred_(f) \cup Written_(f) ELSE Refused(f)
                         : f \in FinishEnd(endp)}
      BY DEF FreshCommit
    <2> HIDE DEF Refused, Deferred_, Written_
    <2> QED
      BY <2>1
  <1>2. endp \in Ending /\ open \in BOOLEAN /\ doc \in [Contexts -> Seq(Chars)] /\ ctx \in Contexts
    BY DEF TypeOK
  <1>3. f.e \in Ending
    BY <1>2, FinishFacts
  <1>4. opened(f) \in BOOLEAN
    BY <1>2, <1>3 DEF Ending
  <1> HIDE DEF opened
  <1> PICK b0 \in BOOLEAN : b0 = opened(f)
    BY <1>4
  <1> PICK e0 \in Ending : e0 = f.e
    BY <1>3
  <1> PICK d0 \in [Contexts -> Seq(Chars)] : d0 = doc
    BY <1>2
  <1> PICK no \in BOOLEAN : no = FALSE
    OBVIOUS
  <1> PICK yes \in BOOLEAN : yes = TRUE
    OBVIOUS
  <1> PICK zero \in Slots \cup {0} : zero = 0
    OBVIOUS
  <1>5. Weakened(Tidy(r, 0), r) /\ Quiet(Tidy(r, 0)) /\ Tidy(r, 0) \in Sessions
    BY TidyFacts, QuietWeakened
  <1>6. CASE o \in Refused(f)
    <2>1. o = Outcome(no, r, zero, d0, b0, e0)
      BY <1>6
    <2>2. o \in Result /\ o.ok = no /\ o.pend = zero /\ o.req = Tidy(r, zero) /\ o.doc = d0
      BY <2>1, OutcomeFacts
    <2> QED
      BY <2>2, <1>5 DEF FreshAnswer, Idle
  <1>7. CASE o \in Written_(f)
    <2>0. PICK e \in SessionEnds(opened(f)) :
             o \in {Outcome(TRUE, r, 0, Write(body), opened(f) /\ g.e.on, g.e) : g \in FinishEnd(e)}
      BY <1>7
    <2>1. PICK g \in FinishEnd(e) : o = Outcome(TRUE, r, 0, Write(body), opened(f) /\ g.e.on, g.e)
      BY <2>0
    <2>2. e \in Ending
      BY <1>4, SessionEndsFacts
    <2>3. g.e \in Ending
      BY <2>2, FinishFacts
    <2> PICK b \in BOOLEAN : b = (opened(f) /\ g.e.on)
      BY <1>4, <2>3 DEF Ending
    <2> PICK d \in [Contexts -> Seq(Chars)] : d = Write(body)
      BY <1>2, WriteFacts
    <2> PICK e1 \in Ending : e1 = g.e
      BY <2>3
    <2>4. o = Outcome(yes, r, zero, d, b, e1)
      BY <2>1
    <2>51. o \in Result
      BY <2>4, OutcomeFacts
    <2>52. o.ok = yes /\ o.pend = zero /\ o.req = Tidy(r, zero) /\ o.doc = d
           /\ o.open = b /\ o.endp = e1
      BY <2>4 DEF Outcome
    <2>5. o \in Result /\ o.ok = yes /\ o.pend = zero /\ o.req = Tidy(r, zero) /\ o.doc = d
          /\ (o.open <=> b) /\ o.endp = e1
      BY <2>51, <2>52
    <2> QED
      BY <2>5, <1>5 DEF FreshAnswer, Idle
  <1>8. CASE o \in Deferred_(f)
    <2>1. slots # {}
      BY <1>8
    <2>2. slot \in Slots
      BY <2>1, LeastSlot
    <2>3. o = Outcome(FALSE, [r EXCEPT ![slot] = asked], IF queued THEN slot ELSE 0, doc, opened(f), f.e)
      BY <1>8, <2>1
    <2> HIDE DEF slot
    <2>4. /\ asked \in Request /\ asked.body = body /\ asked.ctx = ctx /\ asked.held
          /\ asked.owned /\ ~asked.applied /\ asked.stale = ~queued /\ asked.past = FALSE
      BY <1>2, FreeFacts DEF Request, FreeReq
    <2> HIDE DEF asked
    <2> PICK p \in Slots \cup {0} : p = IF queued THEN slot ELSE 0
      BY <2>2
    <2> PICK r1 : r1 = [r EXCEPT ![slot] = asked]
      OBVIOUS
    <2>5. /\ r1 \in Sessions /\ r1[slot] = asked /\ \A s \in Slots : s # slot => r1[s] = r[s]
      BY <2>2, <2>4 DEF Sessions
    <2>6. o = Outcome(no, r1, p, d0, b0, e0)
      BY <2>3
    <2>60. r1 \in Sessions
      BY <2>5
    <2>7. o \in Result /\ o.ok = no /\ o.pend = p /\ o.req = Tidy(r1, p) /\ o.doc = d0
      BY <2>6, <2>60, OutcomeFacts
    <2>80. Weakened(o.req, r1)
      BY <2>60, <2>7, TidyFacts
    <2>81. r1[slot].held
      BY <2>5, <2>4
    <2>82. \A s \in Slots : Tidy(r1, p)[s] = IF r1[s].held \/ s = p THEN r1[s] ELSE FreeReq
      BY DEF Tidy
    <2>83. Tidy(r1, p)[slot] = r1[slot]
      BY <2>82, <2>81, <2>2
    <2>8. o.req[slot] = asked
      BY <2>83, <2>7, <2>5
    <2>9. ASSUME NEW s \in Slots, s # slot PROVE ~Live(o.req[s]) /\ ~o.req[s].applied
      <3>1. r1[s] = r[s]
        BY <2>5, <2>9
      <3>2. (Live(o.req[s]) => Live(r1[s])) /\ (o.req[s].applied => r1[s].applied)
        BY <2>80, WeakenedFacts
      <3> QED
        BY <3>1, <3>2 DEF Quiet
    <2>10. CASE queued
      <3>1. o.pend = slot
        BY <2>10, <2>7
      <3>2. Asked(o, body)
        BY <3>1, <2>2, <2>4, <2>8, <2>9 DEF Asked
      <3> QED
        BY <3>2, <2>10, <2>7 DEF FreshAnswer
    <2>11. CASE ~queued
      <3>1. ~Live(asked)
        BY <2>11, <2>4 DEF Live
      <3>2. Quiet(o.req)
        BY <3>1, <2>4, <2>8, <2>9 DEF Quiet
      <3> QED
        BY <3>2, <2>11, <2>7 DEF FreshAnswer, Idle
    <2> QED
      BY <2>10, <2>11
  <1> QED
    BY <1>1, <1>6, <1>7, <1>8

(* The two other answers of a commit: the pending one stays as it is, or   *)
(* it has been written and is over.                                        *)
KeptAnswer(o, body) ==
  /\ o \in Result /\ ~o.ok /\ pend # 0 /\ o.pend = pend /\ o.req = Tidy(req, pend)
  /\ o.doc = doc /\ o.open = open /\ o.endp = endp
  /\ \/ ~req[pend].owned \/ req[pend].ctx # ctx \/ req[pend].body # body
     \/ RequestWaits(req[pend])
AppliedAnswer(o, body) ==
  /\ o \in Result /\ o.ok /\ pend # 0 /\ req[pend].applied /\ req[pend].body = body
  /\ Idle(o) /\ o.doc = doc /\ (~o.endp.on => ~o.open)

LEMMA QuietFresh ==
  ASSUME TypeOK, SlotsOK
  PROVE  /\ Invalidated(Tidy(Revoked(req, pend), 0)) \in Sessions
         /\ Quiet(Invalidated(Tidy(Revoked(req, pend), 0)))
         /\ Tidy(Invalidated(Revoked(req, pend)), 0) \in Sessions
         /\ Quiet(Tidy(Invalidated(Revoked(req, pend)), 0))
         /\ Tidy(Revoked(req, pend), 0) \in Sessions
         /\ pend # 0 /\ req[pend].applied => Quiet(Tidy(Revoked(req, pend), 0))
         /\ pend = 0 => Invalidated(req) \in Sessions /\ Quiet(Invalidated(req))
  <1>0. req \in Sessions /\ pend \in Slots \cup {0}
    BY DEF TypeOK
  <1> PICK r1 \in Sessions : r1 = Revoked(req, pend)
    BY <1>0, RevokedFacts
  <1>1. Weakened(r1, req) /\ \A s \in Slots : r1[s].held = req[s].held
    BY <1>0, RevokedFacts
  <1> PICK zero : zero = 0
    OBVIOUS
  <1> PICK r2 \in Sessions : r2 = Tidy(r1, zero)
    BY TidyFacts
  <1>2. Weakened(r2, r1) /\ \A s \in Slots : r2[s].applied => r1[s].held \/ s = zero
    BY TidyFacts
  <1> PICK r3 \in Sessions : r3 = Invalidated(r2)
    BY InvalidFacts
  <1>3. Weakened(r3, r2) /\ \A s \in Slots : ~r3[s].cur /\ r3[s].applied = r2[s].applied
    BY InvalidFacts
  <1> PICK r4 \in Sessions : r4 = Invalidated(r1)
    BY InvalidFacts
  <1>4. Weakened(r4, r1) /\ \A s \in Slots : ~r4[s].cur /\ r4[s].applied = r1[s].applied
                                             /\ r4[s].held = r1[s].held
    BY InvalidFacts
  <1> PICK r5 \in Sessions : r5 = Tidy(r4, zero)
    BY TidyFacts
  <1>5. Weakened(r5, r4) /\ \A s \in Slots : r5[s].applied => r4[s].held \/ s = zero
    BY TidyFacts
  <1> PICK r6 : r6 = Invalidated(req)
    OBVIOUS
  <1>6. r6 \in Sessions /\ Weakened(r6, req) /\ \A s \in Slots : ~r6[s].cur
    BY <1>0, InvalidFacts
  <1>7. ASSUME NEW s \in Slots PROVE ~r2[s].applied
    <2>1. r2[s].applied => r1[s].applied /\ r1[s].held
      BY <1>2, WeakenedFacts, InputFacts
    <2>2. r1[s].applied => req[s].applied
      BY <1>1, WeakenedFacts
    <2> QED
      BY <2>1, <2>2, <1>1 DEF SlotsOK
  <1>8. Quiet(r3)
    BY <1>3, <1>7 DEF Quiet, Live
  <1>9. ASSUME NEW s \in Slots PROVE ~r5[s].applied
    <2>1. r5[s].applied => r4[s].applied /\ r4[s].held
      BY <1>5, WeakenedFacts, InputFacts
    <2>2. r4[s].applied => req[s].applied /\ req[s].held = r4[s].held
      BY <1>4, <1>1, WeakenedFacts
    <2> QED
      BY <2>1, <2>2 DEF SlotsOK
  <1>10. Quiet(r5)
    <2>1. ASSUME NEW s \in Slots PROVE ~Live(r5[s])
      <3>1. Live(r5[s]) => Live(r4[s])
        BY <1>5, WeakenedFacts
      <3> QED
        BY <3>1, <1>4 DEF Live
    <2> QED
      BY <2>1, <1>9 DEF Quiet
  <1>11. ASSUME pend # 0, req[pend].applied PROVE Quiet(r2)
    <2>1. ASSUME NEW s \in Slots PROVE ~Live(r2[s])
      <3>1. Live(r2[s]) => Live(req[s])
        <4>1. Weakened(r2, req)
          BY <1>1, <1>2, WeakenedTwice
        <4> QED
          BY <4>1, WeakenedFacts
      <3>2. ~Live(req[s])
        BY <1>11 DEF SlotsOK, Live
      <3> QED
        BY <3>1, <3>2
    <2> QED
      BY <2>1, <1>7 DEF Quiet
  <1>12. ASSUME pend = 0 PROVE Quiet(r6)
    <2>1. ASSUME NEW s \in Slots PROVE ~Live(r6[s]) /\ ~r6[s].applied
      <3>1. (r6[s].applied => req[s].applied)
        BY <1>6, WeakenedFacts
      <3>2. ~req[s].applied
        BY <1>12, InputFacts DEF SlotsOK
      <3> QED
        BY <3>1, <3>2, <1>6 DEF Live
    <2> QED
      BY <2>1 DEF Quiet
  <1> QED
    BY <1>6, <1>8, <1>10, <1>11, <1>12

LEMMA CommitFacts ==
  ASSUME TypeOK, SlotsOK, NEW body \in Seq(Chars), NEW queued \in BOOLEAN,
         NEW o \in DoCommit(body, queued)
  PROVE  \/ FreshAnswer(o, body, queued) /\ Unspent
         \/ KeptAnswer(o, body)
         \/ AppliedAnswer(o, body)
  <1>0. /\ req \in Sessions /\ pend \in Slots \cup {0} /\ doc \in [Contexts -> Seq(Chars)]
        /\ open \in BOOLEAN /\ endp \in Ending
    BY DEF TypeOK
  <1> DEFINE p == req[pend]
  <1>1. CASE pend = 0
    <2>1. o \in FreshCommit(Invalidated(req), body, queued)
      BY <1>1 DEF DoCommit
    <2>2. Invalidated(req) \in Sessions /\ Quiet(Invalidated(req))
      BY <1>1, QuietFresh
    <2>3. FreshAnswer(o, body, queued)
      BY <2>1, <2>2, FreshFacts
    <2> QED
      BY <2>3, <1>1 DEF Unspent
  <1> PICK no \in BOOLEAN : no = FALSE
    OBVIOUS
  <1> PICK r0 \in Sessions : r0 = req
    BY <1>0
  <1> PICK p0 \in Slots \cup {0} : p0 = pend
    BY <1>0
  <1> PICK d0 \in [Contexts -> Seq(Chars)] : d0 = doc
    BY <1>0
  <1>2. ASSUME pend # 0, o \in {Outcome(FALSE, req, pend, doc, open, endp)},
               \/ ~req[pend].owned \/ req[pend].ctx # ctx \/ req[pend].body # body
               \/ RequestWaits(req[pend])
        PROVE  KeptAnswer(o, body)
    <2>1. o = Outcome(no, r0, p0, d0, open, endp)
      BY <1>2
    <2>2. o \in Result
      BY <2>1, <1>0, OutcomeFacts
    <2>3. /\ o.ok = no /\ o.pend = p0 /\ o.req = Tidy(r0, p0) /\ o.doc = d0 /\ o.open = open
          /\ o.endp = endp
      BY <2>1 DEF Outcome
    <2> QED
      BY <2>2, <2>3, <1>2 DEF KeptAnswer
  <1>3. CASE pend # 0 /\ (~p.owned \/ p.ctx # ctx \/ p.body # body)
    <2>1. o \in {Outcome(FALSE, req, pend, doc, open, endp)}
      BY <1>3 DEF DoCommit
    <2> QED
      BY <2>1, <1>3, <1>2
  <1>4. CASE pend # 0 /\ ~(~p.owned \/ p.ctx # ctx \/ p.body # body) /\ p.applied
    <2>1. o \in {Outcome(TRUE, Revoked(req, pend), 0, doc, open /\ f.e.on, f.e) : f \in FinishEnd(endp)}
      BY <1>4 DEF DoCommit
    <2>2. PICK f \in FinishEnd(endp) : o = Outcome(TRUE, Revoked(req, pend), 0, doc, open /\ f.e.on, f.e)
      BY <2>1
    <2>3. f.e \in Ending
      BY <1>0, FinishFacts
    <2> PICK e1 \in Ending : e1 = f.e
      BY <2>3
    <2> PICK yes \in BOOLEAN : yes = TRUE
      OBVIOUS
    <2> PICK b \in BOOLEAN : b = (open /\ f.e.on)
      BY <1>0, <2>3 DEF Ending
    <2> PICK r1 \in Sessions : r1 = Revoked(req, pend)
      BY <1>0, RevokedFacts
    <2> PICK zero \in Slots \cup {0} : zero = 0
      OBVIOUS
    <2>4. o = Outcome(yes, r1, zero, d0, b, e1)
      BY <2>2
    <2>5. o \in Result
      BY <2>4, OutcomeFacts, ZenonT(60)
    <2>6. o.ok = yes /\ o.pend = zero /\ o.req = Tidy(r1, zero) /\ o.doc = d0 /\ o.open = b /\ o.endp = e1
      BY <2>4 DEF Outcome
    <2>7. Quiet(o.req)
      BY <2>6, <1>4, QuietFresh
    <2> QED
      BY <2>5, <2>6, <2>7, <1>4 DEF AppliedAnswer, Idle
  <1>5. CASE pend # 0 /\ ~(~p.owned \/ p.ctx # ctx \/ p.body # body) /\ ~p.applied /\ RequestWaits(p)
    <2>1. o \in {Outcome(FALSE, req, pend, doc, open, endp)}
      BY <1>5 DEF DoCommit
    <2> QED
      BY <2>1, <1>5, <1>2
  <1>6. CASE pend # 0 /\ ~(~p.owned \/ p.ctx # ctx \/ p.body # body) /\ ~p.applied /\ ~RequestWaits(p)
    <2>1. o \in FreshCommit(Invalidated(Tidy(Revoked(req, pend), 0)), body, queued)
      BY <1>6 DEF DoCommit
    <2> PICK r1 : r1 = Invalidated(Tidy(Revoked(req, pend), 0))
      OBVIOUS
    <2>2. r1 \in Sessions /\ Quiet(r1)
      BY QuietFresh
    <2>3. FreshAnswer(o, body, queued)
      BY <2>1, <2>2, FreshFacts
    <2> QED
      BY <2>3, <1>6 DEF Unspent
  <1> QED
    BY <1>0, <1>1, <1>3, <1>4, <1>5, <1>6

(* A cancel leaves no session behind.                                      *)
CancelAnswer(o) == /\ o \in Result /\ Idle(o) /\ o.doc = doc /\ (~o.endp.on => ~o.open \/ ~o.ok)
                   /\ (~endp.on /\ ~o.ok => o.endp = endp /\ o.open = open)

LEMMA CancelFacts ==
  ASSUME TypeOK, SlotsOK, NEW o \in DoCancel
  PROVE  CancelAnswer(o)
  <1>0. /\ req \in Sessions /\ pend \in Slots \cup {0} /\ doc \in [Contexts -> Seq(Chars)]
        /\ open \in BOOLEAN /\ endp \in Ending
    BY DEF TypeOK
  <1> PICK r1 \in Sessions : r1 = Revoked(req, pend)
    BY <1>0, RevokedFacts
  <1> PICK r2 \in Sessions : r2 = Invalidated(r1)
    BY InvalidFacts
  <1>1. Quiet(Tidy(r2, 0))
    BY QuietFresh
  <1> PICK d0 \in [Contexts -> Seq(Chars)] : d0 = doc
    BY <1>0
  <1> PICK zero \in Slots \cup {0} : zero = 0
    OBVIOUS
  <1> PICK no \in BOOLEAN : no = FALSE
    OBVIOUS
  <1> PICK yes \in BOOLEAN : yes = TRUE
    OBVIOUS
  <1>2. CASE endp.on
    <2>1. PICK f \in FinishEnd([endp EXCEPT !.caret = FALSE]) :
             o = Outcome(f.ok, Invalidated(Revoked(req, pend)), 0, doc, open /\ f.e.on, f.e)
      BY <1>2 DEF DoCancel
    <2>2. [endp EXCEPT !.caret = FALSE] \in Ending
      BY <1>0 DEF Ending
    <2>3. f.e \in Ending /\ f.ok \in BOOLEAN
      BY <2>2, FinishFacts
    <2> PICK e1 \in Ending : e1 = f.e
      BY <2>3
    <2> PICK b2 \in BOOLEAN : b2 = f.ok
      BY <2>3
    <2> PICK b \in BOOLEAN : b = (open /\ f.e.on)
      BY <1>0, <2>3 DEF Ending
    <2>4. o = Outcome(b2, r2, zero, d0, b, e1)
      BY <2>1
    <2>50. Tidy(r2, zero) \in Sessions
      BY TidyFacts
    <2>5. o \in Result
      BY <2>4, <2>50 DEF Outcome, Result
    <2>6. o.ok = b2 /\ o.pend = zero /\ o.req = Tidy(r2, zero) /\ o.doc = d0 /\ o.open = b /\ o.endp = e1
      BY <2>4 DEF Outcome
    <2> QED
      BY <2>5, <2>6, <1>1, <1>2 DEF CancelAnswer, Idle
  <1>3. CASE ~endp.on
    <2> PICK b \in BOOLEAN : b = FALSE
      OBVIOUS
    <2> PICK b1 \in BOOLEAN : b1 = open
      BY <1>0
    <2> PICK e1 \in Ending : e1 = endp
      BY <1>0
    <2>1. \/ o = Outcome(yes, r2, zero, d0, b, e1)
          \/ o = Outcome(no, r2, zero, d0, b1, e1)
      BY <1>3 DEF DoCancel
    <2>2. CASE o = Outcome(yes, r2, zero, d0, b, e1)
      <3>1. o \in Result
        BY <2>2, OutcomeFacts, Zenon
      <3>2. o.pend = zero /\ o.req = Tidy(r2, zero) /\ o.doc = d0 /\ o.endp = e1
            /\ o.ok = yes /\ o.open = b
        BY <2>2 DEF Outcome
      <3> QED
        BY <3>1, <3>2, <1>1, <1>3 DEF CancelAnswer, Idle
    <2>3. CASE o = Outcome(no, r2, zero, d0, b1, e1)
      <3>1. o \in Result
        BY <2>3, OutcomeFacts, Zenon
      <3>2. o.pend = zero /\ o.req = Tidy(r2, zero) /\ o.doc = d0 /\ o.endp = e1
            /\ o.ok = no /\ o.open = b1
        BY <2>3 DEF Outcome
      <3> QED
        BY <3>1, <3>2, <1>1, <1>3 DEF CancelAnswer, Idle
    <2> QED
      BY <2>1, <2>2, <2>3
  <1> QED
    BY <1>2, <1>3

-----------------------------------------------------------------------------
(* First part of the invariant: types, the sessions of the host, and no    *)
(* accepted character lost.                                                *)

UnwrittenOfLost == ~q.lost => q.unwritten = {}
ParkedOK == /\ parked.ch # 0 => parked.op \in TextOps /\ parked.ch = next
            /\ pc = "direct" => parked.ch # 0
Accounted == Written \cup ToSet(reading) \cup QueuedChars(q) \cup Unwritten \cup gone \cup thrown
IdleIsEmpty == mode = "idle" => reading = <<>>
Base == TypeOK /\ IdleIsEmpty /\ UnwrittenOfLost /\ ParkedOK /\ SlotsOK /\ NothingLost

(* What is read out of the types.                                          *)
LEMMA Typed ==
  ASSUME TypeOK
  PROVE  /\ q \in Queue /\ reading \in Seq(Chars) /\ endp \in Ending /\ req \in Sessions
         /\ pend \in Slots \cup {0} /\ ctx \in Contexts /\ doc \in [Contexts -> Seq(Chars)]
         /\ open \in BOOLEAN /\ snap \in BOOLEAN /\ redraw \in BOOLEAN
         /\ parked \in Action \cup {NoAct} /\ next \in 1..MaxChars + 1
         /\ where \in [Chars -> Contexts \cup {"none"}]
         /\ gone \in SUBSET Chars /\ thrown \in SUBSET Chars /\ leaked \in SUBSET Chars
  BY DEF TypeOK

LEMMA ActionFacts ==
  ASSUME NEW a \in Action
  PROVE  /\ a.op \in Ops /\ a.ch \in Chars \cup {0} /\ (a.ch # 0 <=> a.op \in TextOps)
         /\ (a.op \in TextOps => a.ch \in Chars)
  BY InputFacts DEF Action, Ops, EditOps

LEMMA NoActFacts == NoAct.ch = 0 /\ NoAct.op = "None" /\ NoAct.op \notin TextOps /\ NoAct.op \notin Ops
                    /\ NoAct \notin Action
  BY DEF NoAct, Act, Action, Ops, EditOps, TextOps, ExhaustibleOps

(* The slots, after steps that weaken requests, and after steps that keep  *)
(* none.                                                                   *)
LEMMA SlotsWeakened ==
  ASSUME SlotsOK, Weakened(req', req), pend' = pend, Written \subseteq Written'
  PROVE  SlotsOK'
  <1> SUFFICES ASSUME NEW s \in Slots
               PROVE  /\ Live(req'[s]) => s = pend /\ req'[s].ctx \in Contexts
                      /\ req'[s].applied => /\ s = pend /\ ~req'[s].held
                                            /\ ToSet(req'[s].body) \subseteq Written'
    BY DEF SlotsOK, Live
  <1>1. /\ Live(req'[s]) => Live(req[s]) /\ req'[s].ctx = req[s].ctx
        /\ req'[s].applied => req[s].applied /\ req'[s].body = req[s].body /\ req'[s].held = req[s].held
    BY WeakenedFacts
  <1> QED
    BY <1>1 DEF SlotsOK

LEMMA SlotsSame ==
  ASSUME SlotsOK, req' = req, pend' = pend, doc' = doc
  PROVE  SlotsOK' /\ Written' = Written
  BY DEF SlotsOK, Written, Live

LEMMA SlotsQuiet ==
  ASSUME Quiet(req')
  PROVE  SlotsOK'
  BY DEF SlotsOK, Quiet, Live

LEMMA SameWritten == ASSUME doc' = doc PROVE Written' = Written
  BY DEF Written

LEMMA KeepsAll ==
  ASSUME TypeOK, NothingLost, Written \subseteq Written',
         ToSet(reading) \subseteq Accounted', QueuedChars(q) \subseteq Accounted',
         Unwritten \subseteq Accounted', gone \subseteq gone', thrown \subseteq thrown',
         next' = next \/ (next' = next + 1 /\ next \in Accounted')
  PROVE  NothingLost'
  <1>1. Accounted \subseteq Accounted'
    BY DEF Accounted
  <1>2. \A ch \in 1..(next - 1) : ch \in Accounted
    BY DEF NothingLost, Accounted
  <1>3. \A ch \in 1..(next' - 1) : ch \in 1..(next - 1) \/ (ch = next /\ next \in Accounted')
    BY Typed, InputFacts
  <1>4. \A ch \in 1..(next' - 1) : ch \in Accounted'
    BY <1>1, <1>2, <1>3
  <1> QED
    BY <1>4 DEF NothingLost, Accounted

(* Steps that leave the text where it is.                                  *)
LEMMA TextStays ==
  ASSUME Base, TypeOK', SlotsOK', reading' = reading, mode' = "idle" => mode = "idle",
         SameOwner(q', q), QueuedChars(q') = QueuedChars(q), doc' = doc, next' = next,
         gone' = gone, thrown' = thrown, parked' = parked, pc' = pc \/ pc' \in {"idle", "drain"}
  PROVE  Base'
  <1>1. Unwritten' = Unwritten /\ UnwrittenOfLost'
    BY DEF Base, Unwritten, UnwrittenOfLost, SameOwner
  <1>2. ParkedOK'
    BY DEF Base, ParkedOK
  <1>3. Accounted' = Accounted /\ Written' = Written
    BY <1>1 DEF Accounted, Written
  <1>4. NothingLost'
    BY <1>3, KeepsAll DEF Base, Accounted
  <1>5. IdleIsEmpty'
    BY DEF Base, IdleIsEmpty
  <1> QED
    BY <1>1, <1>2, <1>4, <1>5 DEF Base

(* Taking the answer of a session.                                         *)
WrittenIn(d) == UNION {ToSet(d[c]) : c \in Contexts}
SlotsFit(o) ==
  /\ \A s \in Slots : /\ Live(o.req[s]) => s = o.pend /\ o.req[s].ctx \in Contexts
                      /\ o.req[s].applied => /\ s = o.pend /\ ~o.req[s].held
                                             /\ ToSet(o.req[s].body) \subseteq Written
  /\ \A c \in Contexts : ToSet(doc[c]) \subseteq ToSet(o.doc[c])

LEMMA IdleFits ==
  ASSUME NEW o, Idle(o), \A c \in Contexts : ToSet(doc[c]) \subseteq ToSet(o.doc[c])
  PROVE  SlotsFit(o)
  BY DEF SlotsFit, Idle, Quiet

LEMMA CommitFits ==
  ASSUME TypeOK, SlotsOK, NEW body \in Seq(Chars), NEW queued \in BOOLEAN,
         NEW o \in DoCommit(body, queued)
  PROVE  /\ o \in Result /\ SlotsFit(o)
         /\ o.ok => ToSet(body) \subseteq WrittenIn(o.doc)
         /\ o.ok => o.pend = 0 /\ (~o.endp.on => ~o.open)
  <1>1. CASE FreshAnswer(o, body, queued) /\ Unspent
    <2>1. o \in Result /\ (o.ok /\ ~o.endp.on => ~o.open)
      BY <1>1 DEF FreshAnswer
    <2>2. CASE ~o.ok /\ Idle(o) /\ o.doc = doc
      BY <2>1, <2>2, IdleFits
    <2>3. CASE ~o.ok /\ queued /\ Asked(o, body) /\ o.doc = doc
      <3>1. SlotsFit(o)
        BY <2>3, Typed DEF SlotsFit, Asked
      <3> QED
        BY <2>1, <2>3, <3>1
    <2>4. CASE o.ok /\ Idle(o) /\ o.doc = Write(body)
      <3>1. /\ ToSet(Write(body)[ctx]) = ToSet(doc[ctx]) \cup ToSet(body)
            /\ \A c \in Contexts : ToSet(doc[c]) \subseteq ToSet(Write(body)[c])
        BY Typed, WriteFacts
      <3>2. SlotsFit(o)
        BY <2>4, <3>1, IdleFits
      <3>3. ToSet(body) \subseteq WrittenIn(o.doc)
        BY <2>4, <3>1, Typed DEF WrittenIn
      <3> QED
        BY <2>1, <2>4, <3>2, <3>3 DEF Idle
    <2> QED
      BY <1>1, <2>2, <2>3, <2>4 DEF FreshAnswer
  <1>2. CASE KeptAnswer(o, body)
    <2>1. o.req = Tidy(req, pend) /\ req \in Sessions
      BY <1>2, Typed DEF KeptAnswer
    <2>2. Weakened(o.req, req)
      BY <2>1, TidyFacts
    <2>3. o.pend = pend /\ o.doc = doc /\ ~o.ok /\ o \in Result
      BY <1>2 DEF KeptAnswer
    <2>4. ASSUME NEW s \in Slots
          PROVE  /\ Live(o.req[s]) => s = o.pend /\ o.req[s].ctx \in Contexts
                 /\ o.req[s].applied => /\ s = o.pend /\ ~o.req[s].held
                                        /\ ToSet(o.req[s].body) \subseteq Written
      <3>1. /\ Live(o.req[s]) => Live(req[s]) /\ o.req[s].ctx = req[s].ctx
            /\ o.req[s].applied => req[s].applied /\ o.req[s].body = req[s].body /\ o.req[s].held = req[s].held
        BY <2>2, WeakenedFacts
      <3> QED
        BY <3>1, <2>3 DEF SlotsOK
    <2> QED
      BY <2>3, <2>4 DEF SlotsFit
  <1>3. CASE AppliedAnswer(o, body)
    <2>1. /\ o \in Result /\ o.ok /\ pend # 0 /\ req[pend].applied /\ req[pend].body = body
          /\ Idle(o) /\ o.doc = doc /\ (~o.endp.on => ~o.open)
      BY <1>3 DEF AppliedAnswer
    <2>2. pend \in Slots
      BY <2>1, Typed
    <2>3. ToSet(body) \subseteq Written
      BY <2>1, <2>2 DEF SlotsOK
    <2>4. SlotsFit(o)
      BY <2>1, IdleFits
    <2> QED
      BY <2>1, <2>3, <2>4 DEF Idle, Written, WrittenIn
  <1> QED
    BY <1>1, <1>2, <1>3, CommitFacts

LEMMA CancelFits ==
  ASSUME TypeOK, SlotsOK, NEW o \in DoCancel
  PROVE  o \in Result /\ SlotsFit(o) /\ o.pend = 0 /\ o.doc = doc
  BY CancelFacts, IdleFits DEF CancelAnswer, Idle

LEMMA TakeFacts ==
  ASSUME NEW o \in Result, SlotsFit(o), Take(o)
  PROVE  /\ req' \in Sessions /\ pend' \in Slots \cup {0} /\ doc' \in [Contexts -> Seq(Chars)]
         /\ open' \in BOOLEAN /\ endp' \in Ending
         /\ SlotsOK' /\ Written \subseteq Written'
  <1>1. /\ o.req \in Sessions /\ o.pend \in Slots \cup {0} /\ o.doc \in [Contexts -> Seq(Chars)]
        /\ o.open \in BOOLEAN /\ o.endp \in Ending
    BY DEF Result
  <1>2. req' = o.req /\ pend' = o.pend /\ doc' = o.doc /\ open' = o.open /\ endp' = o.endp
    BY DEF Take
  <1>3. Written \subseteq Written'
    BY <1>2 DEF Written, SlotsFit
  <1>4. SlotsOK'
    BY <1>2, <1>3 DEF SlotsOK, SlotsFit, Live
  <1> QED
    BY <1>1, <1>2, <1>3, <1>4

-----------------------------------------------------------------------------
(* Drain steps.                                                            *)

DrainFrame == UNCHANGED <<ctx, parked, typed>>

LEMMA DisplayTypes ==
  ASSUME open \in BOOLEAN
  PROVE  /\ Display => open' \in BOOLEAN
         /\ Render => open' \in BOOLEAN /\ redraw' \in BOOLEAN
  BY DEF Display, Render

LEMMA PcTypes == (Stop => pc' = "idle") /\ (More => pc' = "drain")
  BY DEF Stop, More

LEMMA DrainStopsBase ==
  ASSUME Base, DrainStops, DrainFrame, UNCHANGED snap
  PROVE  Base'
  <1>1. TypeOK'
    BY DEF Base, TypeOK, DrainStops, DrainFrame, edit, tsf, ghost, typed, Stop
  <1>2. SlotsOK'
    BY SlotsSame DEF Base, DrainStops, tsf
  <1> QED
    BY <1>1, <1>2, TextStays
    DEF DrainStops, DrainFrame, edit, tsf, ghost, typed, Stop, SameOwner

LEMMA DrainRedrawsBase ==
  ASSUME Base, DrainRedraws, DrainFrame, UNCHANGED snap
  PROVE  Base'
  <1>1. TypeOK'
    BY DEF Base, TypeOK, DrainRedraws, DrainFrame, ghost, typed, Stop, More
  <1>2. SlotsOK'
    BY SlotsSame DEF Base, DrainRedraws
  <1> QED
    BY <1>1, <1>2, TextStays
    DEF DrainRedraws, DrainFrame, ghost, typed, Stop, More, SameOwner

LEMMA DrainPrependsBase ==
  ASSUME Base, DrainPrepends, DrainFrame, UNCHANGED snap
  PROVE  Base'
  <1>0. q \in Queue
    BY Typed DEF Base
  <1>1. (q' = PrependCommit(q) /\ Len(q.acts) < Capacity) \/ q' = Failed(q)
    BY DEF DrainPrepends, CanPrependCommit
  <1>2. q' \in Queue /\ SameOwner(q', q) /\ QueuedChars(q') = QueuedChars(q)
    BY <1>0, <1>1, PrependFacts, FailedFacts DEF Barred, SameText
  <1>3. TypeOK'
    BY <1>2 DEF Base, TypeOK, DrainPrepends, DrainFrame, edit, tsf, ghost, typed, Stop, More
  <1>4. SlotsOK'
    BY SlotsSame DEF Base, DrainPrepends, tsf
  <1> QED
    BY <1>2, <1>3, <1>4, TextStays
    DEF DrainPrepends, DrainFrame, edit, tsf, ghost, typed, Stop, More

LEMMA DrainExhaustsBase ==
  ASSUME Base, DrainExhausts, DrainFrame, UNCHANGED snap
  PROVE  Base'
  <1>0. q \in Queue
    BY Typed DEF Base
  <1>1. q' = ExhaustedCommit(q) /\ q.acts # <<>> /\ Head(q.acts).op \notin TextOps
    BY DEF DrainExhausts, FrontIs, ExhaustibleOps, TextOps
  <1>2. q' \in Queue /\ SameOwner(q', q) /\ QueuedChars(q') = QueuedChars(q)
    BY <1>0, <1>1, ExhaustedFacts DEF Barred, SameText
  <1>3. TypeOK'
    BY <1>2 DEF Base, TypeOK, DrainExhausts, DrainFrame, edit, tsf, ghost, typed, More
  <1>4. SlotsOK'
    BY SlotsSame DEF Base, DrainExhausts, tsf
  <1> QED
    BY <1>2, <1>3, <1>4, TextStays
    DEF DrainExhausts, DrainFrame, edit, tsf, ghost, typed, More

(* What is written when a commit takes the reading.                        *)
LEMMA BodyTyped == ASSUME TypeOK PROVE CommitBody \in Seq(Chars)
  <1>1. CASE mode = "converting" \/ redraw \/ q.initial = {}
    BY <1>1, Typed DEF CommitBody
  <1>2. CASE ~(mode = "converting" \/ redraw \/ q.initial = {})
    <2>1. q.initial \subseteq Seq(Chars)
      BY Typed, QueueFields
    <2>2. CommitBody = CHOOSE r \in q.initial : TRUE
      BY <1>2 DEF CommitBody
    <2>3. CommitBody \in q.initial
      BY <2>2, <1>2
    <2> QED
      BY <2>1, <2>3
  <1> QED
    BY <1>1, <1>2

LEMMA EmptyReading ==
  ASSUME ResetInput
  PROVE  /\ reading' \in Seq(Chars) /\ ToSet(reading') = {} /\ mode' = "idle" /\ window' = "closed"
         /\ redraw' = FALSE
  BY EmptySeq, SetOfEmpty DEF ResetInput

LEMMA Staled ==
  ASSUME NEW o \in Result, SlotsFit(o), o.pend # 0
  PROVE  /\ [o EXCEPT !.req[o.pend].stale = TRUE] \in Result
         /\ SlotsFit([o EXCEPT !.req[o.pend].stale = TRUE])
  <1> PICK p \in Slots : p = o.pend
    BY DEF Result
  <1>0. o.req \in Sessions /\ o.req[p] \in Request
    BY DEF Result, Sessions
  <1> PICK x : x = [o.req[p] EXCEPT !.stale = TRUE]
    OBVIOUS
  <1>1. /\ x \in Request /\ x.applied = o.req[p].applied /\ x.held = o.req[p].held
        /\ x.body = o.req[p].body /\ ~Live(x)
    BY <1>0 DEF Request, Live
  <1> PICK r : r = [o.req EXCEPT ![p] = x]
    OBVIOUS
  <1>2. r \in Sessions /\ r[p] = x /\ \A s \in Slots : s # p => r[s] = o.req[s]
    BY <1>0, <1>1 DEF Sessions
  <1> PICK o1 : o1 = [o EXCEPT !.req[o.pend].stale = TRUE]
    OBVIOUS
  <1>3. o1 = [o EXCEPT !.req = r]
    BY DEF Result, Sessions, Request
  <1>4. o1 \in Result /\ o1.req = r /\ o1.pend = p /\ o1.doc = o.doc
    BY <1>3, <1>2 DEF Result
  <1>5. SlotsFit(o1)
    <2>1. ASSUME NEW s \in Slots
          PROVE  /\ Live(r[s]) => s = p /\ r[s].ctx \in Contexts
                 /\ r[s].applied => /\ s = p /\ ~r[s].held
                                    /\ ToSet(r[s].body) \subseteq Written
      <3>1. CASE s = p
        BY <3>1, <1>1, <1>2 DEF SlotsFit
      <3>2. CASE s # p
        BY <3>2, <1>2 DEF SlotsFit
      <3> QED
        BY <3>1, <3>2
    <2> QED
      BY <2>1, <1>4 DEF SlotsFit
  <1> QED
    BY <1>4, <1>5

LEMMA DrainCommitBase ==
  ASSUME Base, DrainCommit, DrainFrame, UNCHANGED snap
  PROVE  Base'
  <1>0. q \in Queue /\ TypeOK /\ SlotsOK /\ endp \in Ending
    BY Typed DEF Base
  <1>1. q.acts # <<>> /\ Head(q.acts).op \notin TextOps
    BY DEF DrainCommit, FrontIs, TextOps
  <1>2. CASE mode = "idle"
    <2>1. q' = Done(q, endp) /\ More /\ UNCHANGED <<edit, tsf, ghost>>
      BY <1>2 DEF DrainCommit
    <2>2. q' \in Queue /\ SameOwner(q', q) /\ QueuedChars(q') = QueuedChars(q)
      BY <2>1, <1>0, <1>1, DoneFacts DEF FrontGone, SameText
    <2>3. TypeOK'
      BY <2>1, <2>2 DEF Base, TypeOK, DrainFrame, edit, tsf, ghost, typed, More
    <2>4. SlotsOK'
      BY <2>1, <1>0, SlotsSame DEF tsf
    <2> QED
      BY <2>1, <2>2, <2>3, <2>4, TextStays
      DEF DrainFrame, edit, tsf, ghost, typed, More
  <1>3. CASE mode # "idle"
    <2>1. PICK o \in DoCommit(CommitBody, TRUE) :
           /\ leaked' = leaked \cup (ToSet(CommitBody) \ ToSet(reading))
           /\ IF o.ok
             THEN /\ Take(o) /\ ResetInput /\ q' = Done(q, o.endp)
                  /\ Drop(ToSet(reading) \ ToSet(CommitBody))
                  /\ More /\ UNCHANGED gone
             ELSE /\ UNCHANGED <<edit, gone, thrown>> /\ Stop
                  /\ IF o.pend # 0 /\ RequestWaits(o.req[o.pend])
                       THEN \/ Take(o) /\ q' = [q EXCEPT !.waiting = TRUE]
                            \/ /\ Take([o EXCEPT !.req[o.pend].stale = TRUE])
                               /\ q' = Failed(q)
                       ELSE Take(o) /\ q' = Failed(q)
      BY <1>3 DEF DrainCommit
    <2>2. CommitBody \in Seq(Chars) /\ ToSet(CommitBody) \subseteq Chars
      BY <1>0, BodyTyped, SetOfTyped
    <2>3. leaked' \in SUBSET Chars
      BY <2>1, <2>2, <1>0, Typed
    <2>4. /\ o \in Result /\ SlotsFit(o)
          /\ o.ok => ToSet(CommitBody) \subseteq WrittenIn(o.doc)
      BY <1>0, <2>2, CommitFits
    <2>5. CASE o.ok
      <3>1. /\ Take(o) /\ ResetInput /\ q' = Done(q, o.endp) /\ More /\ UNCHANGED gone
            /\ thrown' = thrown \cup (ToSet(reading) \ ToSet(CommitBody))
        BY <2>1, <2>5 DEF Drop
      <3>2. o.endp \in Ending
        BY <2>4 DEF Result
      <3>3. q' \in Queue /\ SameOwner(q', q) /\ QueuedChars(q') = QueuedChars(q)
        BY <3>1, <3>2, <1>0, <1>1, DoneFacts DEF FrontGone, SameText
      <3>4. /\ req' \in Sessions /\ pend' \in Slots \cup {0} /\ doc' \in [Contexts -> Seq(Chars)]
            /\ open' \in BOOLEAN /\ endp' \in Ending /\ SlotsOK' /\ Written \subseteq Written'
        BY <3>1, <2>4, TakeFacts
      <3>5. ToSet(reading) \subseteq Chars
        BY <1>0, Typed, SetOfTyped
      <3>6. TypeOK'
        BY <3>1, <3>3, <3>4, <3>5, <2>3, EmptyReading DEF Base, TypeOK, DrainFrame, typed, More
      <3>7. ToSet(CommitBody) \subseteq Written'
        BY <2>4, <2>5, <3>1 DEF Take, Written, WrittenIn
      <3>8. UnwrittenOfLost' /\ Unwritten' = Unwritten
        BY <3>3 DEF Base, UnwrittenOfLost, Unwritten, SameOwner
      <3>9. ParkedOK' /\ IdleIsEmpty'
        BY <3>1 DEF Base, ParkedOK, DrainFrame, typed, More, IdleIsEmpty, ResetInput
      <3>10. NothingLost'
        <4>1. ToSet(reading) \subseteq Accounted'
          BY <3>1, <3>7 DEF Accounted
        <4>2. QueuedChars(q) \subseteq Accounted' /\ Unwritten \subseteq Accounted'
          BY <3>3, <3>8 DEF Accounted
        <4>3. gone \subseteq gone' /\ thrown \subseteq thrown' /\ next' = next
          BY <3>1 DEF DrainFrame, typed
        <4> QED
          BY <4>1, <4>2, <4>3, <3>4, KeepsAll DEF Base
      <3> QED
        BY <3>4, <3>6, <3>8, <3>9, <3>10 DEF Base
    <2>6. CASE ~o.ok
      <3>1. /\ UNCHANGED <<edit, gone, thrown>> /\ Stop
            /\ \/ Take(o) /\ q' = [q EXCEPT !.waiting = TRUE]
               \/ o.pend # 0 /\ Take([o EXCEPT !.req[o.pend].stale = TRUE]) /\ q' = Failed(q)
               \/ Take(o) /\ q' = Failed(q)
        BY <2>1, <2>6
      <3>2. [q EXCEPT !.waiting = TRUE] \in Queue
            /\ SameOwner([q EXCEPT !.waiting = TRUE], q)
            /\ [q EXCEPT !.waiting = TRUE].acts = q.acts
        BY <1>0 DEF Queue, LongQueue, SameOwner
      <3>3. QueuedChars([q EXCEPT !.waiting = TRUE]) = QueuedChars(q)
        BY <1>0, <3>2, QueuedTyped
      <3>4. q' \in Queue /\ SameOwner(q', q) /\ QueuedChars(q') = QueuedChars(q)
        BY <3>1, <3>2, <3>3, <1>0, FailedFacts DEF SameText
      <3>5. PICK o1 \in Result : SlotsFit(o1) /\ Take(o1)
        BY <3>1, <2>4, Staled
      <3>6. /\ req' \in Sessions /\ pend' \in Slots \cup {0} /\ doc' \in [Contexts -> Seq(Chars)]
            /\ open' \in BOOLEAN /\ endp' \in Ending /\ SlotsOK' /\ Written \subseteq Written'
        BY <3>5, TakeFacts
      <3>7. TypeOK'
        BY <3>1, <3>4, <3>6, <2>3 DEF Base, TypeOK, DrainFrame, edit, typed, Stop
      <3>8. UnwrittenOfLost' /\ Unwritten' = Unwritten
        BY <3>4 DEF Base, UnwrittenOfLost, Unwritten, SameOwner
      <3>9. ParkedOK' /\ IdleIsEmpty'
        BY <3>1 DEF Base, ParkedOK, DrainFrame, typed, Stop, IdleIsEmpty, edit
      <3>10. NothingLost'
        <4>1. ToSet(reading) \subseteq Accounted' /\ QueuedChars(q) \subseteq Accounted'
              /\ Unwritten \subseteq Accounted'
          BY <3>1, <3>4, <3>8 DEF Accounted, edit
        <4>2. gone \subseteq gone' /\ thrown \subseteq thrown' /\ next' = next
          BY <3>1 DEF DrainFrame, typed
        <4> QED
          BY <4>1, <4>2, <3>6, KeepsAll DEF Base
      <3> QED
        BY <3>6, <3>7, <3>8, <3>9, <3>10 DEF Base
    <2> QED
      BY <2>5, <2>6
  <1> QED
    BY <1>2, <1>3

(* Steps that move text between its places.                                *)
LEMMA TextMoves ==
  ASSUME Base, TypeOK', SlotsOK', Written \subseteq Written', SameOwner(q', q),
         IdleIsEmpty', ToSet(reading) \subseteq Accounted', QueuedChars(q) \subseteq Accounted',
         gone \subseteq gone', thrown \subseteq thrown', next' = next, parked' = parked,
         pc' = pc \/ pc' \in {"idle", "drain"}
  PROVE  Base'
  <1>1. Unwritten' = Unwritten /\ UnwrittenOfLost'
    BY DEF Base, Unwritten, UnwrittenOfLost, SameOwner
  <1>2. ParkedOK'
    BY DEF Base, ParkedOK
  <1>3. Unwritten \subseteq Accounted'
    BY <1>1 DEF Accounted
  <1>4. NothingLost'
    BY <1>3, KeepsAll DEF Base
  <1> QED
    BY <1>1, <1>2, <1>4 DEF Base

LEMMA DrainInsertBase ==
  ASSUME Base, DrainInsert, DrainFrame, UNCHANGED snap
  PROVE  Base'
  <1>0. q \in Queue /\ TypeOK /\ SlotsOK /\ endp \in Ending /\ reading \in Seq(Chars)
        /\ req \in Sessions /\ pend \in Slots \cup {0} /\ open \in BOOLEAN
    BY Typed DEF Base
  <1>1. PICK f \in FinishEnd(endp) :
         /\ endp' = f.e /\ req' = Disowned(req, pend, f.bump)
         /\ IF f.ok
              THEN /\ reading' = Append(reading, Head(q.acts).ch) /\ mode' = "editing"
                   /\ q' = CompleteFront(q) /\ More
                   /\ open' \in {open /\ ~endp.on, TRUE}
              ELSE q' = Failed(q) /\ Stop /\ UNCHANGED <<reading, mode, open>>
    BY DEF DrainInsert
  <1>2. UNCHANGED <<window, redraw, pend, doc, ghost>>
    BY DEF DrainInsert
  <1>3. f.e \in Ending /\ f.bump \in BOOLEAN
    BY <1>0, FinishFacts
  <1>4. req' \in Sessions /\ Weakened(req', req)
    BY <1>0, <1>1, <1>3, DisownedFacts
  <1>5. SlotsOK' /\ Written' = Written
    BY <1>0, <1>2, <1>4, SlotsWeakened, SameWritten
  <1>6. CASE f.ok
    <2>1. /\ reading' = Append(reading, Head(q.acts).ch) /\ mode' = "editing"
          /\ q' = CompleteFront(q) /\ pc' = "drain" /\ open' \in BOOLEAN
      BY <1>1, <1>6, <1>0 DEF More, Ending
    <2>2. q.acts # <<>> /\ Head(q.acts).op \in TextOps
      BY DEF DrainInsert, FrontIs, TextOps
    <2>3. FrontGone(q', q)
      BY <2>1, <1>0, CompleteFacts
    <2>4. q.lost \/ Head(q.acts).ch \in Chars
      BY <2>2, <2>3 DEF FrontGone
    <2>5. Head(q.acts).ch \in Chars
      <3>1. q.acts \in Seq(Action)
        BY <1>0, QueueFields
      <3>2. Head(q.acts) \in Action
        BY <2>2, <3>1, TextOfTail
      <3> QED
        BY <3>2, <2>2, ActionFacts
    <2>6. /\ reading' \in Seq(Chars)
          /\ ToSet(reading') = ToSet(reading) \cup {Head(q.acts).ch}
      BY <2>1, <2>5, <1>0, SetOfAppend
    <2>7. QueuedChars(q) \subseteq QueuedChars(q') \cup {Head(q.acts).ch}
      BY <2>2, <2>3 DEF FrontGone, SameText
    <2>8. TypeOK'
      BY <1>1, <1>2, <1>3, <1>4, <2>1, <2>3, <2>6 DEF Base, TypeOK, DrainFrame, typed, ghost, FrontGone
    <2>9. ToSet(reading) \subseteq Accounted' /\ QueuedChars(q) \subseteq Accounted'
      BY <2>6, <2>7 DEF Accounted
    <2> QED
      BY <1>2, <1>5, <2>1, <2>3, <2>8, <2>9, TextMoves DEF DrainFrame, typed, ghost, FrontGone, IdleIsEmpty
  <1>7. CASE ~f.ok
    <2>1. q' = Failed(q) /\ pc' = "idle" /\ UNCHANGED <<reading, mode, open>>
      BY <1>1, <1>7 DEF Stop
    <2>2. q' \in Queue /\ SameOwner(q', q) /\ QueuedChars(q') = QueuedChars(q)
      BY <2>1, <1>0, FailedFacts DEF SameText
    <2>3. TypeOK'
      BY <1>1, <1>2, <1>3, <1>4, <2>1, <2>2 DEF Base, TypeOK, DrainFrame, typed, ghost
    <2> QED
      BY <1>2, <1>5, <2>1, <2>2, <2>3, TextStays DEF DrainFrame, typed, ghost
  <1> QED
    BY <1>6, <1>7

LEMMA DrainDirectBase ==
  ASSUME Base, DrainDirect, DrainFrame, UNCHANGED snap
  PROVE  Base'
  <1>0. q \in Queue /\ TypeOK /\ SlotsOK /\ endp \in Ending /\ reading \in Seq(Chars)
    BY Typed DEF Base
  <1>1. q.acts # <<>> /\ Head(q.acts).op \in TextOps
    BY DEF DrainDirect, FrontIs, TextOps
  <1>2. Head(q.acts).ch \in Chars
    <2>1. q.acts \in Seq(Action)
      BY <1>0, QueueFields
    <2>2. Head(q.acts) \in Action
      BY <1>1, <2>1, TextOfTail
    <2> QED
      BY <2>2, <1>1, ActionFacts
  <1> PICK x \in Chars : x = Head(q.acts).ch
    BY <1>2
  <1>20. <<x>> \in Seq(Chars)
    OBVIOUS
  <1> PICK body \in Seq(Chars) : body = IF mode = "idle" THEN <<x>> ELSE reading
    BY <1>0, <1>20
  <1> PICK no \in BOOLEAN : no = FALSE
    OBVIOUS
  <1>3. PICK o \in DoCommit(body, no) :
         /\ Take(o)
         /\ IF ~o.ok \/ (mode # "idle" /\ o.endp.on)
              THEN q' = Failed(q) /\ Stop
              ELSE q' = (IF mode = "idle" THEN Done(q, o.endp) ELSE q) /\ More
         /\ IF o.ok THEN ResetInput ELSE UNCHANGED edit
    BY DEF DrainDirect
  <1>4. UNCHANGED ghost
    BY DEF DrainDirect
  <1>5. o \in Result /\ SlotsFit(o) /\ (o.ok => ToSet(body) \subseteq WrittenIn(o.doc))
    BY <1>0, CommitFits
  <1>6. /\ req' \in Sessions /\ pend' \in Slots \cup {0} /\ doc' \in [Contexts -> Seq(Chars)]
        /\ open' \in BOOLEAN /\ endp' \in Ending /\ SlotsOK' /\ Written \subseteq Written'
    BY <1>3, <1>5, TakeFacts
  <1>7. o.ok => ToSet(body) \subseteq Written'
    BY <1>3, <1>5 DEF Take, Written, WrittenIn
  <1>8. o.endp \in Ending
    BY <1>5 DEF Result
  <1>9. \/ q' \in {q, Failed(q)}
        \/ q' = Done(q, o.endp) /\ o.ok /\ mode = "idle"
    BY <1>3
  <1>10. FrontGone(Done(q, o.endp), q)
    BY <1>0, <1>8, DoneFacts
  <1>11. q' \in Queue /\ SameOwner(q', q)
    BY <1>0, <1>9, <1>10, FailedFacts DEF FrontGone, SameOwner
  <1>12. QueuedChars(q) \subseteq QueuedChars(q') \cup Written'
    <2>1. CASE q' \in {q, Failed(q)}
      BY <2>1, <1>0, FailedFacts DEF SameText
    <2>2. CASE q' = Done(q, o.endp) /\ o.ok /\ mode = "idle"
      <3>1. QueuedChars(q) \subseteq QueuedChars(q') \cup {x}
        BY <2>2, <1>1, <1>10 DEF FrontGone, SameText
      <3>2. x \in Written'
        BY <2>2, <1>7, SetOfOne
      <3> QED
        BY <3>1, <3>2
    <2> QED
      BY <1>9, <2>1, <2>2
  <1>13. /\ reading' \in Seq(Chars) /\ mode' \in {"idle", mode} /\ window' \in {"closed", window}
         /\ redraw' \in {FALSE, redraw} /\ pc' \in {"idle", "drain"}
    BY <1>0, <1>3, EmptyReading DEF edit, Stop, More
  <1>14. TypeOK'
    BY <1>4, <1>6, <1>11, <1>13 DEF Base, TypeOK, DrainFrame, typed, ghost
  <1>15. ToSet(reading) \subseteq ToSet(reading') \cup Written'
    <2>1. CASE o.ok /\ mode # "idle"
      BY <2>1, <1>7
    <2>2. CASE ~o.ok
      BY <2>2, <1>3 DEF edit
    <2>3. CASE mode = "idle"
      BY <2>3, SetOfEmpty DEF Base, IdleIsEmpty
    <2> QED
      BY <2>1, <2>2, <2>3
  <1>16. IdleIsEmpty'
    BY <1>3 DEF Base, IdleIsEmpty, ResetInput, edit
  <1> QED
    BY <1>4, <1>6, <1>11, <1>12, <1>13, <1>14, <1>15, <1>16, TextMoves
    DEF Accounted, DrainFrame, typed, ghost

LEMMA SpaceFacts ==
  ASSUME TypeOK, Space
  PROVE  /\ window' \in {"loading", "closed", "ready"} /\ open' \in BOOLEAN /\ redraw' \in BOOLEAN
         /\ reading' = reading /\ mode' = mode
  <1>1. open' \in BOOLEAN /\ redraw' \in BOOLEAN
    BY Typed, DisplayTypes DEF Space
  <1> QED
    BY <1>1 DEF Space

LEMMA EscapeFacts ==
  ASSUME TypeOK, Escape, mode = "converting"
  PROVE  /\ window' = "closed" /\ open' \in BOOLEAN /\ redraw' \in BOOLEAN
         /\ reading' = reading /\ mode' \in {"converting", "editing"}
  <1>1. open' \in BOOLEAN /\ redraw' \in BOOLEAN
    BY Typed, DisplayTypes DEF Escape
  <1> QED
    BY <1>1 DEF Escape

(* The queue after its front, which is no text, is done.                   *)
LEMMA DoneBeside ==
  ASSUME q \in Queue, NEW e \in Ending, q.acts # <<>>, Head(q.acts).op \notin TextOps
  PROVE  /\ Done(q, e) \in Queue /\ SameOwner(Done(q, e), q)
         /\ QueuedChars(Done(q, e)) = QueuedChars(q)
         /\ CompleteFront(q) \in Queue /\ SameOwner(CompleteFront(q), q)
         /\ QueuedChars(CompleteFront(q)) = QueuedChars(q)
  BY DoneFacts, CompleteFacts DEF FrontGone, SameText

LEMMA CompleteWaiting ==
  ASSUME q \in Queue, NEW texts \in SUBSET Seq(Chars), q.acts # <<>>, Head(q.acts).op \notin TextOps
  PROVE  /\ CompleteFront(BeginWait(q, texts)) \in Queue
         /\ SameOwner(CompleteFront(BeginWait(q, texts)), q)
         /\ QueuedChars(CompleteFront(BeginWait(q, texts))) = QueuedChars(q)
  <1> PICK y : y = BeginWait(q, texts)
    OBVIOUS
  <1>1. y \in Queue /\ y.acts = q.acts /\ SameOwner(y, q) /\ SameText(y, q)
    BY BeginWaitFacts
  <1>2. FrontGone(CompleteFront(y), y)
    BY <1>1, CompleteFacts
  <1> QED
    BY <1>1, <1>2 DEF FrontGone, SameText, SameOwner

LEMMA ConvertFacts ==
  ASSUME TypeOK, Convert(q), q.acts # <<>>, Head(q.acts).op \notin TextOps
  PROVE  /\ q' \in Queue /\ SameOwner(q', q) /\ QueuedChars(q') = QueuedChars(q)
         /\ reading' = reading /\ mode' \in {mode, "converting"} /\ window' = window
         /\ redraw' \in BOOLEAN /\ open' \in BOOLEAN /\ snap' \in BOOLEAN
  <1>0. q \in Queue /\ reading \in Seq(Chars)
    BY Typed
  <1>1. CASE mode' = "converting" /\ Render /\ q' = CompleteFront(q) /\ UNCHANGED <<reading, window, snap>>
    BY <1>0, <1>1, Typed, CompleteFacts, DisplayTypes DEF FrontGone, SameText
  <1>2. CASE q' = CompleteFront(BeginWait(q, {reading})) /\ snap' = TRUE /\ UNCHANGED <<edit, open>>
    <2>1. {reading} \in SUBSET Seq(Chars)
      BY <1>0
    <2> PICK texts \in SUBSET Seq(Chars) : texts = {reading}
      BY <2>1
    <2>2. q' = CompleteFront(BeginWait(q, texts))
      BY <1>2
    <2> QED
      BY <1>0, <1>2, <2>2, Typed, CompleteWaiting DEF edit
  <1> QED
    BY <1>1, <1>2 DEF Convert

LEMMA DrainCandidateBase ==
  ASSUME Base, DrainCandidate, DrainFrame
  PROVE  Base'
  <1>0. q \in Queue /\ TypeOK /\ SlotsOK
    BY Typed DEF Base
  <1>1. q.acts # <<>> /\ Head(q.acts).op \notin TextOps /\ pc' = "drain"
    BY DEF DrainCandidate, FrontIs, TextOps, More
  <1>2. UNCHANGED <<endp, req, pend, doc, ghost>>
    BY DEF DrainCandidate
  <1>3. /\ q' \in Queue /\ SameOwner(q', q) /\ QueuedChars(q') = QueuedChars(q)
        /\ reading' = reading /\ mode' \in {mode, "converting"}
        /\ window' \in {"loading", "closed", "ready"}
        /\ redraw' \in BOOLEAN /\ open' \in BOOLEAN /\ snap' \in BOOLEAN
    <2>1. CASE mode = "converting"
      <3>1. /\ Space /\ UNCHANGED snap
            /\ q' = CompleteFront(IF window' = "loading" THEN BeginWait(q, {}) ELSE q)
        BY <2>1 DEF DrainCandidate
      <3> PICK texts \in SUBSET Seq(Chars) : texts = {}
        OBVIOUS
      <3>2. q' = CompleteFront(BeginWait(q, texts)) \/ q' = CompleteFront(q)
        BY <3>1
      <3>3. q' \in Queue /\ SameOwner(q', q) /\ QueuedChars(q') = QueuedChars(q)
        BY <1>0, <1>1, <3>2, CompleteWaiting, CompleteFacts DEF FrontGone, SameText
      <3> QED
        BY <1>0, <3>1, <3>3, SpaceFacts, Typed
    <2>2. CASE mode = "editing"
      <3>1. Convert(q)
        BY <2>2 DEF DrainCandidate
      <3> QED
        BY <1>0, <1>1, <3>1, ConvertFacts DEF TypeOK
    <2>3. CASE mode \notin {"converting", "editing"}
      <3>1. q' = CompleteFront(q) /\ UNCHANGED <<edit, open, snap>>
        BY <2>3 DEF DrainCandidate
      <3>2. q' \in Queue /\ SameOwner(q', q) /\ QueuedChars(q') = QueuedChars(q)
        BY <1>0, <1>1, <3>1, CompleteFacts DEF FrontGone, SameText
      <3> QED
        BY <1>0, <3>1, <3>2 DEF edit, TypeOK
    <2> QED
      BY <2>1, <2>2, <2>3
  <1>4. TypeOK'
    BY <1>0, <1>1, <1>2, <1>3 DEF TypeOK, DrainFrame, typed, ghost
  <1>5. SlotsOK'
    BY <1>0, <1>2, SlotsSame
  <1> QED
    BY <1>1, <1>2, <1>3, <1>4, <1>5, TextStays DEF DrainFrame, typed, ghost

(* The composition is given up, or stays when the host refuses.            *)
LEMMA CancelInputFacts ==
  ASSUME TypeOK, SlotsOK, IdleIsEmpty, NEW o \in DoCancel, CancelInput(o)
  PROVE  /\ req' \in Sessions /\ pend' = 0 /\ doc' = doc /\ open' \in BOOLEAN /\ endp' = o.endp
         /\ o.endp \in Ending /\ SlotsOK' /\ Written' = Written
         /\ reading' \in Seq(Chars) /\ mode' \in {"idle", mode} /\ window' \in {"closed", window}
         /\ redraw' \in BOOLEAN /\ gone' \in SUBSET Chars /\ gone \subseteq gone'
         /\ ToSet(reading) \subseteq ToSet(reading') \cup gone'
         /\ IdleIsEmpty'
  <1>1. o \in Result /\ SlotsFit(o) /\ o.pend = 0 /\ o.doc = doc
    BY CancelFits
  <1>2. Take(o) /\ (IF o.ok THEN ResetInput /\ Erase(ToSet(reading)) ELSE UNCHANGED <<edit, gone>>)
    BY DEF CancelInput
  <1>3. /\ req' \in Sessions /\ open' \in BOOLEAN /\ endp' \in Ending /\ SlotsOK'
        /\ pend' = 0 /\ doc' = doc /\ endp' = o.endp
    BY <1>1, <1>2, TakeFacts DEF Take
  <1>4. ToSet(reading) \subseteq Chars
    BY Typed, SetOfTyped
  <1>5. CASE o.ok
    <2>1. ResetInput /\ gone' = gone \cup ToSet(reading)
      BY <1>2, <1>5 DEF Erase
    <2> QED
      BY <1>3, <1>4, <2>1, EmptyReading, Typed, SameWritten DEF IdleIsEmpty, ResetInput
  <1>6. CASE ~o.ok
    <2>1. UNCHANGED <<edit, gone>>
      BY <1>2, <1>6
    <2> QED
      BY <1>3, <2>1, Typed, SameWritten DEF IdleIsEmpty, edit
  <1> QED
    BY <1>5, <1>6

LEMMA DrainCancelBase ==
  ASSUME Base, DrainCancel, DrainFrame, UNCHANGED snap
  PROVE  Base'
  <1>0. q \in Queue /\ TypeOK /\ SlotsOK /\ endp \in Ending /\ IdleIsEmpty
    BY Typed DEF Base
  <1>1. q.acts # <<>> /\ Head(q.acts).op \notin TextOps
    BY DEF DrainCancel, FrontIs, TextOps
  <1>2. UNCHANGED <<thrown, leaked>>
    BY DEF DrainCancel
  <1>3. CASE mode = "converting"
    <2>1. /\ Escape /\ q' = Done(q, endp) /\ pc' = "drain" /\ UNCHANGED <<endp, req, pend, doc, gone>>
      BY <1>3 DEF DrainCancel, More
    <2>2. q' \in Queue /\ SameOwner(q', q) /\ QueuedChars(q') = QueuedChars(q)
      BY <2>1, <1>0, <1>1, DoneBeside
    <2>3. /\ window' = "closed" /\ open' \in BOOLEAN /\ redraw' \in BOOLEAN
          /\ reading' = reading /\ mode' \in {"converting", "editing"}
      BY <2>1, <1>0, <1>3, EscapeFacts
    <2>4. TypeOK'
      BY <1>0, <1>2, <2>1, <2>2, <2>3 DEF TypeOK, DrainFrame, typed
    <2>5. SlotsOK'
      BY <1>0, <2>1, SlotsSame
    <2> QED
      BY <1>2, <2>1, <2>2, <2>3, <2>4, <2>5, TextStays DEF DrainFrame, typed
  <1>4. CASE mode = "editing"
    <2>1. PICK o \in DoCancel : /\ CancelInput(o)
                                /\ IF o.ok THEN q' = Done(q, o.endp) /\ More
                                   ELSE q' = q /\ Stop
      BY <1>4 DEF DrainCancel
    <2>2. /\ req' \in Sessions /\ pend' = 0 /\ doc' = doc /\ open' \in BOOLEAN /\ endp' = o.endp
          /\ o.endp \in Ending /\ SlotsOK' /\ Written' = Written
          /\ reading' \in Seq(Chars) /\ mode' \in {"idle", mode} /\ window' \in {"closed", window}
          /\ redraw' \in BOOLEAN /\ gone' \in SUBSET Chars /\ gone \subseteq gone'
          /\ ToSet(reading) \subseteq ToSet(reading') \cup gone'
          /\ IdleIsEmpty'
      BY <2>1, <1>0, CancelInputFacts
    <2>3. q' \in Queue /\ SameOwner(q', q) /\ QueuedChars(q') = QueuedChars(q) /\ pc' \in {"drain", "idle"}
      <3>1. q' = Done(q, o.endp) \/ q' = q
        BY <2>1
      <3>2. pc' \in {"drain", "idle"}
        BY <2>1 DEF Stop, More
      <3> QED
        BY <3>1, <3>2, <1>0, <1>1, <2>2, DoneBeside DEF SameOwner
    <2>4. TypeOK'
      BY <1>0, <1>2, <2>2, <2>3 DEF TypeOK, DrainFrame, typed
    <2>5. ToSet(reading) \subseteq Accounted' /\ QueuedChars(q) \subseteq Accounted'
      BY <2>2, <2>3 DEF Accounted
    <2> QED
      BY <1>2, <2>2, <2>3, <2>4, <2>5, TextMoves DEF DrainFrame, typed
  <1>5. CASE mode \notin {"converting", "editing"}
    <2>1. q' = Done(q, endp) /\ pc' = "drain" /\ UNCHANGED <<edit, tsf, gone>>
      BY <1>5 DEF DrainCancel, More
    <2>2. q' \in Queue /\ SameOwner(q', q) /\ QueuedChars(q') = QueuedChars(q)
      BY <2>1, <1>0, <1>1, DoneBeside
    <2>4. TypeOK'
      BY <1>0, <1>2, <2>1, <2>2 DEF TypeOK, DrainFrame, typed, edit, tsf
    <2>5. SlotsOK'
      BY <1>0, <2>1, SlotsSame DEF tsf
    <2> QED
      BY <1>2, <2>1, <2>2, <2>4, <2>5, TextStays DEF DrainFrame, typed, edit, tsf
  <1> QED
    BY <1>3, <1>4, <1>5

LEMMA DeleteFacts ==
  ASSUME TypeOK, Len(reading) > 1, DeleteTail
  PROVE  /\ reading' \in Seq(Chars) /\ gone' \in SUBSET Chars /\ gone \subseteq gone'
         /\ ToSet(reading) \subseteq ToSet(reading') \cup gone'
         /\ window' = "closed" /\ UNCHANGED <<mode, endp, req, pend, doc>>
  <1>1. reading \in Seq(Chars) /\ gone \in SUBSET Chars
    BY Typed
  <1>2. reading' = Front(reading) /\ gone' = gone \cup {Last(reading)}
    BY DEF DeleteTail, Erase
  <1>3. /\ Front(reading) \in Seq(Chars) /\ Last(reading) \in Chars
        /\ ToSet(reading) \subseteq ToSet(Front(reading)) \cup {Last(reading)}
    BY <1>1, SetOfFront
  <1> QED
    BY <1>1, <1>2, <1>3 DEF DeleteTail

LEMMA DrainBackspaceBase ==
  ASSUME Base, DrainBackspace, DrainFrame, UNCHANGED snap
  PROVE  Base'
  <1>0. q \in Queue /\ TypeOK /\ SlotsOK /\ endp \in Ending /\ IdleIsEmpty
    BY Typed DEF Base
  <1>1. q.acts # <<>> /\ Head(q.acts).op \notin TextOps
    BY DEF DrainBackspace, FrontIs, TextOps
  <1>2. UNCHANGED <<thrown, leaked>>
    BY DEF DrainBackspace
  <1>3. CASE mode = "idle"
    <2>1. q' = Done(q, endp) /\ pc' = "drain" /\ UNCHANGED <<edit, tsf, gone>>
      BY <1>3 DEF DrainBackspace, More
    <2>2. q' \in Queue /\ SameOwner(q', q) /\ QueuedChars(q') = QueuedChars(q)
      BY <2>1, <1>0, <1>1, DoneBeside
    <2>4. TypeOK'
      BY <1>0, <1>2, <2>1, <2>2 DEF TypeOK, DrainFrame, typed, edit, tsf
    <2>5. SlotsOK'
      BY <1>0, <2>1, SlotsSame DEF tsf
    <2> QED
      BY <1>2, <2>1, <2>2, <2>4, <2>5, TextStays DEF DrainFrame, typed, edit, tsf
  <1>4. CASE mode # "idle" /\ Len(reading) > 1
    <2>1. /\ DeleteTail /\ q' = Done(q, endp) /\ pc' = "drain"
          /\ IF mode = "converting" THEN Render ELSE Display /\ UNCHANGED redraw
      BY <1>4 DEF DrainBackspace, More
    <2>2. q' \in Queue /\ SameOwner(q', q) /\ QueuedChars(q') = QueuedChars(q)
      BY <2>1, <1>0, <1>1, DoneBeside
    <2>3. open' \in BOOLEAN /\ redraw' \in BOOLEAN
      BY <2>1, <1>0, Typed, DisplayTypes
    <2>4. /\ reading' \in Seq(Chars) /\ gone' \in SUBSET Chars /\ gone \subseteq gone'
          /\ ToSet(reading) \subseteq ToSet(reading') \cup gone'
          /\ window' = "closed" /\ UNCHANGED <<mode, endp, req, pend, doc>>
      BY <2>1, <1>0, <1>4, DeleteFacts
    <2>5. TypeOK'
      BY <1>0, <1>2, <2>1, <2>2, <2>3, <2>4 DEF TypeOK, DrainFrame, typed
    <2>6. SlotsOK' /\ Written' = Written
      BY <1>0, <2>4, SlotsSame
    <2>7. ToSet(reading) \subseteq Accounted' /\ QueuedChars(q) \subseteq Accounted'
      BY <2>2, <2>4 DEF Accounted
    <2>8. IdleIsEmpty'
      BY <1>4, <2>4 DEF IdleIsEmpty
    <2> QED
      BY <1>2, <2>1, <2>2, <2>4, <2>5, <2>6, <2>7, <2>8, TextMoves DEF DrainFrame, typed
  <1>5. CASE mode # "idle" /\ ~(Len(reading) > 1)
    <2>1. PICK o \in DoCancel : /\ CancelInput(o)
                       /\ IF o.ok \/ mode = "editing" THEN q' = Done(q, o.endp) /\ More
                          ELSE q' = Failed(q) /\ Stop
      BY <1>5 DEF DrainBackspace
    <2>2. /\ req' \in Sessions /\ pend' = 0 /\ doc' = doc /\ open' \in BOOLEAN /\ endp' = o.endp
          /\ o.endp \in Ending /\ SlotsOK' /\ Written' = Written
          /\ reading' \in Seq(Chars) /\ mode' \in {"idle", mode} /\ window' \in {"closed", window}
          /\ redraw' \in BOOLEAN /\ gone' \in SUBSET Chars /\ gone \subseteq gone'
          /\ ToSet(reading) \subseteq ToSet(reading') \cup gone'
          /\ IdleIsEmpty'
      BY <2>1, <1>0, CancelInputFacts
    <2>3. q' \in Queue /\ SameOwner(q', q) /\ QueuedChars(q') = QueuedChars(q) /\ pc' \in {"drain", "idle"}
      <3>1. q' = Done(q, o.endp) \/ q' = Failed(q)
        BY <2>1
      <3>2. pc' \in {"drain", "idle"}
        BY <2>1 DEF Stop, More
      <3>3. Failed(q) \in Queue /\ SameOwner(Failed(q), q) /\ QueuedChars(Failed(q)) = QueuedChars(q)
        BY <1>0, FailedFacts DEF SameText
      <3> QED
        BY <3>1, <3>2, <3>3, <1>0, <1>1, <2>2, DoneBeside
    <2>4. TypeOK'
      BY <1>0, <1>2, <2>2, <2>3 DEF TypeOK, DrainFrame, typed
    <2>5. ToSet(reading) \subseteq Accounted' /\ QueuedChars(q) \subseteq Accounted'
      BY <2>2, <2>3 DEF Accounted
    <2> QED
      BY <1>2, <2>2, <2>3, <2>4, <2>5, TextMoves DEF DrainFrame, typed
  <1> QED
    BY <1>3, <1>4, <1>5

LEMMA DrainMoveBase ==
  ASSUME Base, DrainMove, DrainFrame, UNCHANGED snap
  PROVE  Base'
  <1>0. q \in Queue /\ TypeOK /\ SlotsOK /\ endp \in Ending /\ IdleIsEmpty
    BY Typed DEF Base
  <1>1. q.acts # <<>> /\ Head(q.acts).op \notin TextOps
    BY DEF DrainMove, FrontIs, TextOps
  <1>2. /\ q' = Done(q, endp) /\ pc' = "drain"
        /\ UNCHANGED <<reading, mode, endp, req, pend, doc, ghost>>
    BY DEF DrainMove, More
  <1>3. q' \in Queue /\ SameOwner(q', q) /\ QueuedChars(q') = QueuedChars(q)
    BY <1>0, <1>1, <1>2, DoneBeside
  <1>4. window' \in {"closed", window} /\ open' \in BOOLEAN /\ redraw' \in BOOLEAN
    BY <1>0, Typed, DisplayTypes DEF DrainMove
  <1>5. TypeOK'
    BY <1>0, <1>2, <1>3, <1>4 DEF TypeOK, DrainFrame, typed, ghost
  <1>6. SlotsOK'
    BY <1>0, <1>2, SlotsSame
  <1> QED
    BY <1>2, <1>3, <1>5, <1>6, TextStays DEF DrainFrame, typed, ghost

LEMMA DrainBase == ASSUME Base, Drain PROVE Base'
  <1>1. DrainFrame
    BY DEF Drain, DrainFrame
  <1> QED
    BY <1>1, DrainStopsBase, DrainRedrawsBase, DrainPrependsBase, DrainExhaustsBase,
       DrainCommitBase, DrainInsertBase, DrainDirectBase, DrainCancelBase,
       DrainBackspaceBase, DrainMoveBase, DrainCandidateBase DEF Drain

-----------------------------------------------------------------------------
(* Keys that the queue takes.                                              *)

(* A key, and the frame of the steps it starts.                            *)
Fresh(a) == a \in Action /\ (a.ch # 0 => a.ch = next)
KeyFrame(a) == Fresh(a) /\ pc = "idle" /\ parked = NoAct /\ UNCHANGED ctx

LEMMA AcceptFacts ==
  ASSUME TypeOK, NEW a, Fresh(a), Accept(a.ch)
  PROVE  /\ next' \in 1..MaxChars + 1 /\ where' \in [Chars -> Contexts \cup {"none"}]
         /\ a.op \notin TextOps => next' = next /\ where' = where
         /\ a.op \in TextOps => next' = next + 1 /\ next = a.ch
         /\ next' = next \/ (next' = next + 1 /\ next = a.ch /\ a.op \in TextOps)
  <1>0. next \in 1..MaxChars + 1 /\ where \in [Chars -> Contexts \cup {"none"}] /\ ctx \in Contexts
    BY Typed
  <1>1. a \in Action /\ (a.ch # 0 <=> a.op \in TextOps) /\ (a.op \in TextOps => a.ch \in Chars)
    BY ActionFacts DEF Fresh
  <1>2. CASE a.ch = 0
    BY <1>0, <1>1, <1>2 DEF Accept, typed
  <1>3. CASE a.ch # 0
    <2>1. next' = next + 1 /\ where' = [where EXCEPT ![a.ch] = ctx] /\ next = a.ch /\ a.ch \in Chars
      BY <1>1, <1>3 DEF Accept, Fresh
    <2>2. next + 1 \in 1..MaxChars + 1
      BY <2>1, InputFacts
    <2> QED
      BY <2>1, <2>2, <1>0, <1>1, <1>3
  <1> QED
    BY <1>2, <1>3

(* Steps that take a key, or an answer, and move text.                     *)
LEMMA KeyMoves ==
  ASSUME Base, TypeOK', SlotsOK', UnwrittenOfLost', IdleIsEmpty', Written \subseteq Written',
         Unwritten \subseteq Accounted',
         ToSet(reading) \subseteq Accounted', QueuedChars(q) \subseteq Accounted',
         gone \subseteq gone', thrown \subseteq thrown',
         next' = next \/ (next' = next + 1 /\ next \in Accounted'),
         parked'.ch # 0 => parked'.op \in TextOps /\ parked'.ch = next',
         pc' = "direct" => parked'.ch # 0
  PROVE  Base'
  <1>1. NothingLost'
    BY KeepsAll DEF Base
  <1> QED
    BY <1>1 DEF Base, ParkedOK

LEMMA HeadedFacts ==
  ASSUME q \in Queue
  PROVE  /\ Headed \in Queue /\ SameOwner(Headed, q) /\ SameText(Headed, q)
         /\ Headed.waiting = q.waiting /\ Headed.initial = q.initial
         /\ q.failed => Headed.failed
  <1>1. \/ Headed = q
        \/ Headed = PrependCommit(q) /\ Len(q.acts) < Capacity
        \/ Headed = Failed(q)
    BY DEF Headed, CanPrependCommit
  <1>4. Failed(q) \in Queue /\ SameOwner(Failed(q), q) /\ SameText(Failed(q), q)
        /\ Failed(q).waiting = q.waiting /\ Failed(q).failed /\ Failed(q).initial = q.initial
    BY FailedFacts
  <1>5. CASE Headed = q
    BY <1>5 DEF SameOwner, SameText
  <1>6. CASE Headed = PrependCommit(q) /\ Len(q.acts) < Capacity
    <2>1. Barred(Headed, q)
      BY <1>6, PrependFacts
    <2> QED
      BY <2>1 DEF Barred, SameWait
  <1>7. CASE Headed = Failed(q)
    BY <1>4, <1>7
  <1> QED
    BY <1>1, <1>5, <1>6, <1>7

LEMMA SameUnwritten ==
  ASSUME UnwrittenOfLost, SameOwner(q', q)
  PROVE  UnwrittenOfLost' /\ Unwritten' = Unwritten
  BY DEF UnwrittenOfLost, Unwritten, SameOwner

LEMMA NoneUnwritten ==
  ASSUME q'.unwritten = {} PROVE UnwrittenOfLost' /\ Unwritten' = {}
  BY DEF UnwrittenOfLost, Unwritten

LEMMA LostOnly ==
  ASSUME UnwrittenOfLost, ~q.lost PROVE Unwritten = {}
  BY DEF UnwrittenOfLost, Unwritten

LEMMA UnwrittenTyped == ASSUME q \in Queue PROVE Unwritten \subseteq Chars
  <1>1. \A b \in q.unwritten : b \in Seq(Chars)
    BY QueueFields
  <1>2. \A b \in q.unwritten : ToSet(b) \subseteq Chars
    BY <1>1, SetOfTyped
  <1> QED
    BY <1>2 DEF Unwritten

LEMMA WaitHeadStuckBase ==
  ASSUME Base, NEW a, KeyFrame(a), WaitHeadStuck(a)
  PROVE  Base'
  <1>0. q \in Queue /\ TypeOK /\ SlotsOK
    BY Typed DEF Base
  <1>1. q' = Failed(q) /\ UNCHANGED <<edit, snap, tsf, pc, parked, typed, ghost>>
    BY DEF WaitHeadStuck
  <1>2. q' \in Queue /\ SameOwner(q', q) /\ QueuedChars(q') = QueuedChars(q)
    BY <1>0, <1>1, FailedFacts DEF SameText
  <1>3. TypeOK'
    BY <1>0, <1>1, <1>2 DEF TypeOK, KeyFrame, edit, tsf, typed, ghost
  <1>4. SlotsOK'
    BY <1>0, <1>1, SlotsSame DEF tsf
  <1> QED
    BY <1>1, <1>2, <1>3, <1>4, TextStays DEF edit, tsf, typed, ghost

LEMMA WaitLostBase ==
  ASSUME Base, NEW a, KeyFrame(a), WaitLost(a)
  PROVE  Base'
  <1>0. q \in Queue /\ TypeOK /\ SlotsOK /\ IdleIsEmpty /\ UnwrittenOfLost /\ ParkedOK
    BY Typed DEF Base
  <1>1. UNCHANGED <<edit, snap, tsf, pc, parked, typed, thrown, leaked>>
    BY DEF WaitLost
  <1>2. SlotsOK' /\ Written' = Written
    BY <1>0, <1>1, SlotsSame DEF tsf
  <1>3. IdleIsEmpty' /\ reading' = reading
    BY <1>0, <1>1 DEF edit, IdleIsEmpty
  <1>4. CASE a.op = "Cancel"
    <2>1. q' = EmptyQueue /\ gone' = gone \cup QueuedChars(q) \cup Unwritten
      BY <1>4 DEF WaitLost, Erase, Unwritten
    <2>2. q' \in Queue /\ q'.unwritten = {}
      BY <2>1, EmptyQueueFacts
    <2>3. gone' \in SUBSET Chars
      BY <2>1, <1>0, QueuedTyped, UnwrittenTyped, Typed
    <2>4. TypeOK'
      BY <1>0, <1>1, <2>2, <2>3 DEF TypeOK, KeyFrame, edit, tsf, typed
    <2>5. UnwrittenOfLost' /\ Unwritten \subseteq Accounted' /\ ToSet(reading) \subseteq Accounted'
          /\ QueuedChars(q) \subseteq Accounted'
      BY <2>1, <2>2, <1>3, NoneUnwritten DEF Accounted
    <2> QED
      BY <1>0, <1>1, <1>2, <1>3, <2>1, <2>4, <2>5, KeyMoves DEF typed, ParkedOK
  <1>5. CASE a.op # "Cancel"
    <2>1. UNCHANGED <<q, gone>>
      BY <1>5 DEF WaitLost
    <2>4. TypeOK'
      BY <1>0, <1>1, <2>1 DEF TypeOK, KeyFrame, edit, tsf, typed
    <2> QED
      BY <1>1, <1>2, <1>3, <2>1, <2>4, TextStays DEF edit, tsf, typed, SameOwner
  <1> QED
    BY <1>4, <1>5

LEMMA WaitCancelsFailureBase ==
  ASSUME Base, NEW a, KeyFrame(a), WaitCancelsFailure(a)
  PROVE  Base'
  <1>0. q \in Queue /\ TypeOK /\ SlotsOK /\ IdleIsEmpty /\ UnwrittenOfLost /\ ParkedOK
    BY Typed DEF Base
  <1>1. UNCHANGED <<snap, pc, parked, typed, thrown, leaked>> /\ q' = EmptyQueue /\ ~q.lost
    BY DEF WaitCancelsFailure
  <1>2. PICK o \in DoCancel :
           /\ Take(o)
           /\ IF o.ok THEN ResetInput ELSE UNCHANGED edit
           /\ Erase(QueuedChars(q) \cup IF o.ok THEN ToSet(reading) ELSE {})
    BY DEF WaitCancelsFailure
  <1>3. o \in Result /\ SlotsFit(o) /\ o.pend = 0 /\ o.doc = doc
    BY <1>0, CancelFits
  <1>4. /\ req' \in Sessions /\ pend' \in Slots \cup {0} /\ doc' \in [Contexts -> Seq(Chars)]
        /\ open' \in BOOLEAN /\ endp' \in Ending /\ SlotsOK' /\ Written \subseteq Written'
    BY <1>2, <1>3, TakeFacts
  <1>5. gone' = gone \cup (QueuedChars(q) \cup IF o.ok THEN ToSet(reading) ELSE {})
    BY <1>2 DEF Erase
  <1>6. ToSet(reading) \subseteq Chars /\ QueuedChars(q) \subseteq Chars /\ gone \in SUBSET Chars
    BY <1>0, SetOfTyped, QueuedTyped, Typed
  <1>7. gone' \in SUBSET Chars
    BY <1>5, <1>6
  <1>8. /\ reading' \in Seq(Chars) /\ mode' \in {"idle", mode} /\ window' \in {"closed", window}
        /\ redraw' \in {FALSE, redraw} /\ IdleIsEmpty'
    BY <1>0, <1>2, EmptyReading, Typed DEF edit, IdleIsEmpty, ResetInput
  <1>9. TypeOK'
    BY <1>0, <1>1, <1>4, <1>7, <1>8, EmptyQueueFacts DEF TypeOK, KeyFrame, typed
  <1>10. ToSet(reading) \subseteq Accounted'
    <2>1. CASE o.ok
      BY <2>1, <1>5 DEF Accounted
    <2>2. CASE ~o.ok
      BY <2>2, <1>2 DEF Accounted, edit
    <2> QED
      BY <2>1, <2>2
  <1>11. UnwrittenOfLost' /\ Unwritten = {} /\ QueuedChars(q) \subseteq Accounted'
    BY <1>0, <1>1, <1>5, LostOnly, NoneUnwritten, EmptyQueueFacts DEF Accounted
  <1> QED
    BY <1>0, <1>1, <1>4, <1>5, <1>8, <1>9, <1>10, <1>11, KeyMoves DEF typed, ParkedOK

LEMMA WaitGivesUpSnapshotBase ==
  ASSUME Base, NEW a, KeyFrame(a), WaitGivesUpSnapshot(a)
  PROVE  Base'
  <1>0. q \in Queue /\ TypeOK /\ SlotsOK /\ IdleIsEmpty /\ UnwrittenOfLost /\ ParkedOK /\ a \in Action
        /\ Fresh(a)
    BY Typed DEF Base, KeyFrame, Fresh
  <1>1. /\ ~q.lost /\ snap' = FALSE /\ thrown' = thrown \cup QueuedChars(q) /\ Accept(a.ch)
        /\ UNCHANGED <<edit, endp, req, pend, doc, parked, gone, leaked>>
        /\ pc' \in {"idle", "drain"}
        /\ open' \in BOOLEAN
    BY <1>0, DisplayTypes, Typed DEF WaitGivesUpSnapshot, Drop, Stop, More
  <1>2. \/ q' = EmptyQueue /\ a.op = "Cancel"
        \/ q' = PushBack(EmptyQueue, a)
    BY DEF WaitGivesUpSnapshot
  <1>3. q' \in Queue /\ q'.unwritten = {} /\ (a.op \in TextOps => a.ch \in QueuedChars(q'))
    <2>1. CASE q' = EmptyQueue /\ a.op = "Cancel"
      BY <2>1, EmptyQueueFacts DEF TextOps
    <2>2. CASE q' = PushBack(EmptyQueue, a)
      <3>1. EmptyQueue \in Queue /\ EmptyQueue.unwritten = {}
        BY EmptyQueueFacts
      <3>2. /\ PushBack(EmptyQueue, a) \in Queue /\ SameOwner(PushBack(EmptyQueue, a), EmptyQueue)
            /\ QueuedChars(PushBack(EmptyQueue, a))
                 = QueuedChars(EmptyQueue) \cup (IF a.op \in TextOps THEN {a.ch} ELSE {})
        BY <1>0, <3>1, EmptyTakes, PushBackFacts
      <3> QED
        BY <2>2, <3>1, <3>2 DEF SameOwner
    <2> QED
      BY <1>2, <2>1, <2>2
  <1>4. /\ next' \in 1..MaxChars + 1 /\ where' \in [Chars -> Contexts \cup {"none"}]
        /\ next' = next \/ (next' = next + 1 /\ next = a.ch /\ a.op \in TextOps)
    BY <1>0, <1>1, AcceptFacts
  <1>5. thrown' \in SUBSET Chars
    BY <1>0, <1>1, QueuedTyped, Typed
  <1>6. TypeOK'
    BY <1>0, <1>1, <1>3, <1>4, <1>5 DEF TypeOK, KeyFrame, edit
  <1>7. SlotsOK' /\ Written' = Written /\ IdleIsEmpty' /\ reading' = reading
    BY <1>0, <1>1, SlotsSame DEF edit, IdleIsEmpty
  <1>8. UnwrittenOfLost' /\ Unwritten = {}
    BY <1>0, <1>1, <1>3, LostOnly, NoneUnwritten
  <1>9. /\ QueuedChars(q) \subseteq Accounted' /\ ToSet(reading) \subseteq Accounted'
        /\ next' = next \/ (next' = next + 1 /\ next \in Accounted')
    BY <1>1, <1>3, <1>4, <1>7 DEF Accounted
  <1>10. parked'.ch = 0 /\ pc' # "direct"
    BY <1>1, NoActFacts DEF KeyFrame
  <1> QED
    BY <1>1, <1>6, <1>7, <1>8, <1>9, <1>10, KeyMoves

LEMMA WaitRetriesBase ==
  ASSUME Base, NEW a, KeyFrame(a), WaitRetries(a)
  PROVE  Base'
  <1>0. q \in Queue /\ TypeOK /\ SlotsOK /\ endp \in Ending /\ req \in Sessions
        /\ pend \in Slots \cup {0} /\ open \in BOOLEAN
    BY Typed DEF Base
  <1>1. UNCHANGED <<edit, snap, pend, doc, parked, typed, ghost>>
    BY DEF WaitRetries
  <1>2. PICK f \in FinishEnd(endp) :
         /\ endp' = f.e /\ req' = Disowned(req, pend, f.bump)
         /\ open' = (open /\ (endp.on => f.e.on))
         /\ IF f.ok THEN q' = [Headed EXCEPT !.failed = FALSE] /\ More
            ELSE q' = Headed /\ Stop
    BY DEF WaitRetries
  <1>3. f.e \in Ending /\ f.bump \in BOOLEAN
    BY <1>0, FinishFacts
  <1>4. req' \in Sessions /\ Weakened(req', req)
    BY <1>0, <1>2, <1>3, DisownedFacts
  <1>5. SlotsOK' /\ Written' = Written
    BY <1>0, <1>1, <1>4, SlotsWeakened, SameWritten
  <1> PICK h \in Queue : h = Headed
    BY <1>0, HeadedFacts
  <1>6. SameOwner(h, q) /\ SameText(h, q)
    BY <1>0, HeadedFacts
  <1>7. [h EXCEPT !.failed = FALSE] \in Queue /\ [h EXCEPT !.failed = FALSE].acts = h.acts
        /\ SameOwner([h EXCEPT !.failed = FALSE], h)
    BY DEF Queue, LongQueue, SameOwner
  <1>8. QueuedChars([h EXCEPT !.failed = FALSE]) = QueuedChars(h)
    BY <1>7 DEF QueuedChars
  <1>9. q' \in Queue /\ SameOwner(q', q) /\ QueuedChars(q') = QueuedChars(q) /\ pc' \in {"idle", "drain"}
    BY <1>2, <1>6, <1>7, <1>8 DEF SameOwner, SameText, Stop, More
  <1>10. open' \in BOOLEAN
    BY <1>0, <1>2, <1>3 DEF Ending
  <1>11. TypeOK'
    BY <1>0, <1>1, <1>2, <1>3, <1>4, <1>9, <1>10 DEF TypeOK, KeyFrame, edit, typed, ghost
  <1> QED
    BY <1>1, <1>5, <1>9, <1>11, TextStays DEF edit, typed, ghost

(* The queue loses the document that owns it.                              *)
LEMMA RetireFacts ==
  ASSUME TypeOK, SlotsOK, UnwrittenOfLost, RetireOwner
  PROVE  /\ q' \in Queue /\ req' \in Sessions /\ pend' = 0 /\ snap' = FALSE
         /\ Quiet(req') /\ QueuedChars(q') = QueuedChars(q) /\ UnwrittenOfLost'
         /\ Unwritten \subseteq Unwritten' /\ q' = RetiredQueue
         /\ (Rises(q.acts) => Rises(q'.acts)) /\ q'.initial \subseteq q.initial
         /\ (q.lost => q' = q)
         /\ ~q.lost => q'.unwritten \in
              {{}, {IF pend # 0 THEN req[pend].body ELSE reading}}
         /\ ~q.lost /\ pend # 0 /\ req[pend].applied => q'.unwritten = {}
         /\ ~q'.lost => QueuedChars(q') = {}
  <1>0. q \in Queue /\ reading \in Seq(Chars) /\ req \in Sessions /\ pend \in Slots \cup {0}
    BY Typed
  <1>1. req' = Tidy(Invalidated(Revoked(req, pend)), 0) /\ pend' = 0 /\ snap' = FALSE
        /\ q' = RetiredQueue
    BY DEF RetireOwner
  <1>2. req' \in Sessions /\ Quiet(req')
    BY <1>1, QuietFresh
  <1>3. PICK txt \in Seq(Chars) : txt = IF pend # 0 THEN req[pend].body ELSE reading
    <2>1. pend # 0 => req[pend].body \in Seq(Chars)
      BY <1>0, RequestFields DEF Sessions
    <2> QED
      BY <2>1, <1>0
  <1>4. PICK body \in SUBSET Seq(Chars) :
           body = IF pend # 0 THEN {req[pend].body} ELSE IF HasCommit(q) THEN {reading} ELSE {}
    <2>1. pend # 0 => {req[pend].body} \in SUBSET Seq(Chars)
      BY <1>3
    <2>2. {reading} \in SUBSET Seq(Chars)
      BY <1>0
    <2> QED
      BY <2>1, <2>2
  <1>5. body \in {{}, {txt}}
    BY <1>3, <1>4
  <1>6. PICK applied \in BOOLEAN : applied <=> (pend # 0 /\ req[pend].applied)
    OBVIOUS
  <1>7. (pend # 0 /\ req[pend].applied) \in BOOLEAN
    <2>1. pend # 0 => req[pend].applied \in BOOLEAN
      BY <1>0, RequestFields DEF Sessions
    <2> QED
      BY <2>1
  <1>8. RetiredQueue = Detach(q, body, applied)
    BY <1>4, <1>6, <1>7 DEF RetiredQueue
  <1> PICK y : y = Detach(q, body, applied)
    OBVIOUS
  <1>9. Detached(y, q, body, applied)
    BY <1>0, DetachFacts
  <1>10. q' = y
    BY <1>1, <1>8
  <1>11. /\ y \in Queue /\ QueuedChars(y) = QueuedChars(q) /\ (Rises(q.acts) => Rises(y.acts))
         /\ y.initial \subseteq q.initial /\ (q.lost => y = q)
         /\ ~q.lost => /\ y.unwritten = (IF applied THEN {} ELSE body)
                       /\ ~y.lost => y.unwritten = {}
    BY <1>9 DEF Detached
  <1>12. UnwrittenOfLost' /\ Unwritten \subseteq Unwritten'
    <2>1. CASE q.lost
      BY <2>1, <1>10, <1>11 DEF UnwrittenOfLost, Unwritten
    <2>2. CASE ~q.lost
      <3>1. Unwritten = {}
        BY <2>2, LostOnly
      <3>2. ~q'.lost => q'.unwritten = {}
        BY <2>2, <1>10, <1>11
      <3> QED
        BY <3>1, <3>2 DEF UnwrittenOfLost
    <2> QED
      BY <2>1, <2>2
  <1>13. ~q.lost => q'.unwritten \in {{}, {txt}}
    BY <1>5, <1>10, <1>11
  <1>14. ~q.lost /\ pend # 0 /\ req[pend].applied => q'.unwritten = {}
    BY <1>6, <1>10, <1>11
  <1>15. ~q'.lost => QueuedChars(q') = {}
    <2> SUFFICES ASSUME ~y.lost PROVE QueuedChars(y) = {}
      BY <1>10
    <2>1. y.acts = <<>>
      BY <1>9, <1>11 DEF Detached
    <2> QED
      BY <1>11, <2>1, QueuedTyped, TextOfNone
  <1> QED
    BY <1>1, <1>2, <1>3, <1>10, <1>11, <1>12, <1>13, <1>14, <1>15

(* What a look at the pending commit, or the end of a wait, leaves.        *)
Looked == /\ q' \in Queue /\ QueuedChars(q') = QueuedChars(q) /\ req' \in Sessions
          /\ pend' \in Slots \cup {0} /\ snap' \in BOOLEAN /\ leaked' \in SUBSET Chars
          /\ UnwrittenOfLost' /\ Unwritten \subseteq Unwritten' /\ leaked \subseteq leaked'
          /\ (doc' = doc => SlotsOK')

LEMMA PollPendingFacts ==
  ASSUME TypeOK, SlotsOK, UnwrittenOfLost, PollPending, pend # 0
  PROVE  Looked
  <1>0. q \in Queue /\ reading \in Seq(Chars) /\ req \in Sessions /\ pend \in Slots
        /\ snap \in BOOLEAN /\ leaked \in SUBSET Chars
    BY Typed
  <1>1. CASE ~req[pend].owned
    <2>1. RetireOwner /\ leaked' = leaked \cup ToSet(reading)
      BY <1>1 DEF PollPending
    <2>2. ToSet(reading) \subseteq Chars
      BY <1>0, SetOfTyped
    <2> QED
      BY <1>0, <2>1, <2>2, RetireFacts, SlotsQuiet DEF Looked
  <1>2. CASE req[pend].owned
    <2>1. UNCHANGED <<pend, snap, leaked>>
      BY <1>2 DEF PollPending
    <2>2. \/ q' = q /\ req' = req
          \/ q' = [q EXCEPT !.waiting = FALSE] /\ req' = req
          \/ q' = Failed([q EXCEPT !.waiting = FALSE]) /\ req' = Revoked(req, pend)
      BY <1>2 DEF PollPending
    <2> PICK y : y = [q EXCEPT !.waiting = FALSE]
      OBVIOUS
    <2>3. y \in Queue /\ WaitEnded(y, q)
      BY <1>0, UnwaitedFacts
    <2>4. Failed(y) \in Queue /\ SameOwner(Failed(y), y) /\ SameText(Failed(y), y)
      BY <2>3, FailedFacts
    <2>5. q' \in Queue /\ SameOwner(q', q) /\ QueuedChars(q') = QueuedChars(q)
      BY <1>0, <2>2, <2>3, <2>4 DEF WaitEnded, SameOwner, SameText
    <2>6. req' \in Sessions /\ (req' = req \/ Weakened(req', req))
      BY <1>0, <2>2, RevokedFacts
    <2>7. doc' = doc => SlotsOK'
      BY <2>1, <2>6, SlotsSame, SlotsWeakened, SameWritten
    <2> QED
      BY <1>0, <2>1, <2>5, <2>6, <2>7, SameUnwritten DEF Looked
  <1> QED
    BY <1>1, <1>2

LEMMA FailWaitStep ==
  ASSUME TypeOK, SlotsOK, UnwrittenOfLost, FailConversionWait
  PROVE  Looked /\ window' \in {window, "closed"}
  <1>0. q \in Queue /\ req \in Sessions /\ pend \in Slots \cup {0} /\ leaked \in SUBSET Chars
    BY Typed
  <1>1. CASE pend # 0
    BY <1>1, PollPendingFacts DEF FailConversionWait
  <1>2. CASE pend = 0
    <2>1. /\ q' = FailWait(q) /\ window' = "closed" /\ snap' = FALSE
          /\ UNCHANGED <<req, pend, leaked>>
      BY <1>2 DEF FailConversionWait
    <2>2. q' \in Queue /\ SameOwner(q', q) /\ QueuedChars(q') = QueuedChars(q)
      BY <1>0, <2>1, FailWaitFacts DEF WaitEnded, SameText
    <2> QED
      BY <1>0, <2>1, <2>2, SameUnwritten, SlotsSame DEF Looked
  <1> QED
    BY <1>1, <1>2

(* A queue that takes a key.                                               *)
LEMMA AdmittedFacts ==
  ASSUME NEW x \in Queue, NEW a \in Action
  PROVE  /\ CanAdmit(x, a.op) => Admitted(x, a) \in Queue
         /\ SameOwner(Admitted(x, a), x) /\ SameWait(Admitted(x, a), x)
         /\ QueuedChars(Admitted(x, a))
              = QueuedChars(x) \cup (IF a.op \in TextOps THEN {a.ch} ELSE {})
         /\ Rises(x.acts) /\ (a.op \in TextOps => \A y \in QueuedChars(x) : y < a.ch)
              => Rises(Admitted(x, a).acts)
         /\ \A O : FrontIs(x, O) => FrontIs(Admitted(x, a), O)
  <1>0. x \in LongQueue
    BY QueueFields
  <1>1. \/ /\ Admitted(x, a) = PushBack(x, a)
           /\ CanAdmit(x, a.op) => Len(x.acts) < Capacity
        \/ /\ Admitted(x, a) = PushCommitThenInsert(x, a)
           /\ CanAdmit(x, a.op) => Len(x.acts) + 2 <= Capacity
    BY DEF Admitted, CanAdmit, CanPush, CanPushCommitThenInsert
  <1>2. CASE /\ Admitted(x, a) = PushBack(x, a)
             /\ CanAdmit(x, a.op) => Len(x.acts) < Capacity
    BY <1>0, <1>2, PushBackFacts
  <1>3. CASE /\ Admitted(x, a) = PushCommitThenInsert(x, a)
             /\ CanAdmit(x, a.op) => Len(x.acts) + 2 <= Capacity
    BY <1>0, <1>3, PushCommitFacts
  <1> QED
    BY <1>1, <1>2, <1>3

LEMMA WaitAdmitsBase ==
  ASSUME Base, NEW a, KeyFrame(a), WaitAdmits(a)
  PROVE  Base'
  <1>0. q \in Queue /\ TypeOK /\ SlotsOK /\ IdleIsEmpty /\ UnwrittenOfLost /\ ParkedOK /\ a \in Action
        /\ Fresh(a) /\ a.ch \in Chars \cup {0} /\ (a.ch # 0 <=> a.op \in TextOps)
    BY Typed, ActionFacts DEF Base, KeyFrame, Fresh
  <1>1. UNCHANGED <<reading, mode, redraw, open, endp, doc, gone, thrown>>
    BY DEF WaitAdmits
  <1>2. Written' = Written /\ IdleIsEmpty'
    BY <1>0, <1>1, SameWritten DEF IdleIsEmpty
  <1>3. CASE CanAdmit(Headed, a.op)
    <2>1. /\ q' = Admitted(Headed, a) /\ Accept(a.ch) /\ pc' \in {"idle", "drain"}
          /\ UNCHANGED <<window, snap, req, pend, parked, leaked>>
      BY <1>3 DEF WaitAdmits, Stop, More
    <2> PICK h \in Queue : h = Headed
      BY <1>0, HeadedFacts
    <2>2. SameOwner(h, q) /\ QueuedChars(h) = QueuedChars(q)
      BY <1>0, HeadedFacts DEF SameText
    <2>3. /\ q' \in Queue /\ SameOwner(q', h)
          /\ QueuedChars(q') = QueuedChars(h) \cup (IF a.op \in TextOps THEN {a.ch} ELSE {})
      BY <1>0, <1>3, <2>1, AdmittedFacts
    <2>4. SameOwner(q', q)
      BY <2>2, <2>3 DEF SameOwner
    <2>5. /\ next' \in 1..MaxChars + 1 /\ where' \in [Chars -> Contexts \cup {"none"}]
          /\ next' = next \/ (next' = next + 1 /\ next = a.ch /\ a.op \in TextOps)
      BY <1>0, <2>1, AcceptFacts
    <2>6. TypeOK'
      BY <1>0, <1>1, <2>1, <2>3, <2>5 DEF TypeOK, KeyFrame
    <2>7. SlotsOK'
      BY <1>0, <1>1, <2>1, SlotsSame
    <2>8. UnwrittenOfLost' /\ Unwritten' = Unwritten
      BY <1>0, <2>4, SameUnwritten
    <2>9. /\ QueuedChars(q) \subseteq Accounted' /\ ToSet(reading) \subseteq Accounted'
          /\ next' = next \/ (next' = next + 1 /\ next \in Accounted')
          /\ Unwritten \subseteq Accounted'
      BY <1>1, <2>2, <2>3, <2>5, <2>8 DEF Accounted
    <2>10. parked'.ch = 0 /\ pc' # "direct"
      BY <2>1, NoActFacts DEF KeyFrame
    <2> QED
      BY <1>1, <1>2, <2>6, <2>7, <2>8, <2>9, <2>10, KeyMoves
  <1>4. CASE ~CanAdmit(Headed, a.op)
    <2>1. FailConversionWait /\ pc' = "drain" /\ parked' = a /\ UNCHANGED typed
      BY <1>4 DEF WaitAdmits, More
    <2>2. Looked /\ window' \in {window, "closed"}
      BY <1>0, <2>1, FailWaitStep
    <2>3. TypeOK'
      BY <1>0, <1>1, <2>1, <2>2 DEF TypeOK, KeyFrame, typed, Looked
    <2>4. SlotsOK' /\ UnwrittenOfLost'
      BY <1>1, <2>2 DEF Looked
    <2>5. /\ QueuedChars(q) \subseteq Accounted' /\ ToSet(reading) \subseteq Accounted'
          /\ Unwritten \subseteq Accounted'
      BY <1>1, <2>2 DEF Looked, Accounted
    <2>6. parked'.ch # 0 => parked'.op \in TextOps /\ parked'.ch = next'
      BY <1>0, <2>1 DEF Fresh, typed
    <2> QED
      BY <1>1, <1>2, <2>1, <2>3, <2>4, <2>5, <2>6, KeyMoves DEF typed
  <1> QED
    BY <1>3, <1>4

LEMMA WaitLoadingBase ==
  ASSUME Base, NEW a, KeyFrame(a), NEW how, WaitLoading(a, how)
  PROVE  Base'
  <1>0. q \in Queue /\ TypeOK /\ SlotsOK /\ IdleIsEmpty /\ UnwrittenOfLost /\ ParkedOK /\ a \in Action
        /\ Fresh(a)
    BY Typed DEF Base, KeyFrame, Fresh
  <1>1. /\ ~q.lost /\ window' = "closed" /\ thrown' = thrown \cup QueuedChars(Headed) /\ Accept(a.ch)
        /\ UNCHANGED <<reading, mode, snap, endp, req, pend, doc, parked, gone, leaked>>
        /\ pc' \in {"idle", "drain"}
    BY DEF WaitLoading, Drop, Stop, More
  <1>2. open' \in BOOLEAN /\ redraw' \in BOOLEAN
    BY <1>0, DisplayTypes, Typed DEF WaitLoading
  <1>3. \/ q' = EmptyQueue /\ a.op \notin TextOps
        \/ q' = PushBack(EmptyQueue, a)
        \/ q' = PushCommitThenInsert(EmptyQueue, a)
    <2>1. how = "Close" \/ a.op = "Move" => a.op \notin TextOps
      BY DEF WaitLoading, Disposition, TextOps
    <2> QED
      BY <2>1 DEF WaitLoading
  <1>4. q' \in Queue /\ q'.unwritten = {} /\ (a.op \in TextOps => a.ch \in QueuedChars(q'))
    <2>0. EmptyQueue \in Queue /\ EmptyQueue.unwritten = {}
      BY EmptyQueueFacts
    <2>1. CASE q' = EmptyQueue /\ a.op \notin TextOps
      BY <2>1, <2>0
    <2>2. CASE q' = PushBack(EmptyQueue, a)
      <3>2. /\ PushBack(EmptyQueue, a) \in Queue /\ SameOwner(PushBack(EmptyQueue, a), EmptyQueue)
            /\ QueuedChars(PushBack(EmptyQueue, a))
                 = QueuedChars(EmptyQueue) \cup (IF a.op \in TextOps THEN {a.ch} ELSE {})
        BY <1>0, <2>0, EmptyTakes, PushBackFacts
      <3> QED
        BY <2>2, <2>0, <3>2 DEF SameOwner
    <2>3. CASE q' = PushCommitThenInsert(EmptyQueue, a)
      <3>2. /\ PushCommitThenInsert(EmptyQueue, a) \in Queue
            /\ SameOwner(PushCommitThenInsert(EmptyQueue, a), EmptyQueue)
            /\ QueuedChars(PushCommitThenInsert(EmptyQueue, a))
                 = QueuedChars(EmptyQueue) \cup (IF a.op \in TextOps THEN {a.ch} ELSE {})
        BY <1>0, <2>0, EmptyTakes, PushCommitFacts
      <3> QED
        BY <2>3, <2>0, <3>2 DEF SameOwner
    <2> QED
      BY <1>3, <2>1, <2>2, <2>3
  <1>5. /\ next' \in 1..MaxChars + 1 /\ where' \in [Chars -> Contexts \cup {"none"}]
        /\ next' = next \/ (next' = next + 1 /\ next = a.ch /\ a.op \in TextOps)
    BY <1>0, <1>1, AcceptFacts
  <1>6. QueuedChars(Headed) = QueuedChars(q) /\ QueuedChars(q) \subseteq Chars
    BY <1>0, HeadedFacts, QueuedTyped DEF SameText
  <1>7. thrown' \in SUBSET Chars
    BY <1>0, <1>1, <1>6, Typed
  <1>8. TypeOK'
    BY <1>0, <1>1, <1>2, <1>4, <1>5, <1>7 DEF TypeOK, KeyFrame
  <1>9. SlotsOK' /\ Written' = Written /\ IdleIsEmpty' /\ reading' = reading
    BY <1>0, <1>1, SlotsSame DEF IdleIsEmpty
  <1>10. UnwrittenOfLost' /\ Unwritten = {}
    BY <1>0, <1>1, <1>4, LostOnly, NoneUnwritten
  <1>11. /\ QueuedChars(q) \subseteq Accounted' /\ ToSet(reading) \subseteq Accounted'
         /\ next' = next \/ (next' = next + 1 /\ next \in Accounted')
    BY <1>1, <1>4, <1>5, <1>6, <1>9 DEF Accounted
  <1>12. parked'.ch = 0 /\ pc' # "direct"
    BY <1>1, NoActFacts DEF KeyFrame
  <1> QED
    BY <1>1, <1>8, <1>9, <1>10, <1>11, <1>12, KeyMoves

LEMMA WaitKeyBase ==
  ASSUME Base, NEW a, KeyFrame(a), WaitKey(a)
  PROVE  Base'
  BY WaitHeadStuckBase, WaitLostBase, WaitCancelsFailureBase, WaitGivesUpSnapshotBase,
     WaitRetriesBase, WaitAdmitsBase, WaitLoadingBase DEF WaitKey

-----------------------------------------------------------------------------
(* Plain keys.                                                             *)

(* The host writes a direct letter whatever the session said.              *)
LEMMA DirectFacts ==
  ASSUME TypeOK, SlotsOK, NEW x \in Chars, NEW o \in DoCommit(<<x>>, FALSE),
         Take([o EXCEPT !.doc = Write(<<x>>)])
  PROVE  /\ req' \in Sessions /\ pend' \in Slots \cup {0} /\ doc' \in [Contexts -> Seq(Chars)]
         /\ open' \in BOOLEAN /\ endp' \in Ending
         /\ SlotsOK' /\ Written \subseteq Written' /\ x \in Written' /\ doc' = Write(<<x>>)
         /\ req' = o.req /\ pend' = o.pend /\ open' = o.open /\ endp' = o.endp
  <1>0. <<x>> \in Seq(Chars)
    OBVIOUS
  <1> PICK body \in Seq(Chars) : body = <<x>>
    BY <1>0
  <1> PICK no \in BOOLEAN : no = FALSE
    OBVIOUS
  <1>1. o \in Result /\ SlotsFit(o)
    BY CommitFits
  <1> PICK d : d = Write(body)
    OBVIOUS
  <1>2. /\ d \in [Contexts -> Seq(Chars)] /\ ToSet(d[ctx]) = ToSet(doc[ctx]) \cup ToSet(body)
        /\ \A c \in Contexts : ToSet(doc[c]) \subseteq ToSet(d[c])
    BY Typed, WriteFacts
  <1> PICK o1 : o1 = [o EXCEPT !.doc = d]
    OBVIOUS
  <1>3. /\ o1 \in Result /\ o1.req = o.req /\ o1.pend = o.pend /\ o1.doc = d /\ o1.open = o.open
        /\ o1.endp = o.endp
    BY <1>1, <1>2 DEF Result
  <1>4. SlotsFit(o1)
    BY <1>1, <1>2, <1>3 DEF SlotsFit
  <1>5. Take(o1)
    OBVIOUS
  <1>6. /\ req' \in Sessions /\ pend' \in Slots \cup {0} /\ doc' \in [Contexts -> Seq(Chars)]
        /\ open' \in BOOLEAN /\ endp' \in Ending /\ SlotsOK' /\ Written \subseteq Written'
    BY <1>3, <1>4, <1>5, TakeFacts
  <1>7. req' = o.req /\ pend' = o.pend /\ open' = o.open /\ endp' = o.endp /\ doc' = d
    BY <1>3, <1>5 DEF Take
  <1>8. x \in Written'
    BY <1>2, <1>7, SetOfOne, Typed, ZenonT(60) DEF Written
  <1> QED
    BY <1>6, <1>7, <1>8

LEMMA AdmitParkedBase ==
  ASSUME Base, AdmitParked
  PROVE  Base'
  <1>0. q \in Queue /\ TypeOK /\ SlotsOK /\ IdleIsEmpty /\ UnwrittenOfLost /\ ParkedOK
        /\ parked \in Action
    BY Typed DEF Base, AdmitParked
  <1>00. Fresh(parked)
    BY <1>0 DEF Fresh, ParkedOK
  <1>1. UNCHANGED <<edit, snap, tsf, ctx, ghost>> /\ parked' = NoAct /\ pc = "idle"
    BY DEF AdmitParked
  <1>2. SlotsOK' /\ Written' = Written /\ IdleIsEmpty'
    BY <1>0, <1>1, SlotsSame DEF tsf, edit, IdleIsEmpty
  <1>3. CASE CanAdmit(q, parked.op)
    <2>1. q' = Admitted(q, parked) /\ Accept(parked.ch) /\ pc' \in {"idle", "drain"}
      BY <1>3 DEF AdmitParked, Stop, More
    <2>3. /\ q' \in Queue /\ SameOwner(q', q)
          /\ QueuedChars(q') = QueuedChars(q) \cup (IF parked.op \in TextOps THEN {parked.ch} ELSE {})
      BY <1>0, <1>3, <2>1, AdmittedFacts
    <2>5. /\ next' \in 1..MaxChars + 1 /\ where' \in [Chars -> Contexts \cup {"none"}]
          /\ next' = next \/ (next' = next + 1 /\ next = parked.ch /\ parked.op \in TextOps)
      BY <1>0, <1>00, <2>1, AcceptFacts
    <2>6. TypeOK'
      BY <1>0, <1>1, <2>1, <2>3, <2>5 DEF TypeOK, edit, tsf, ghost
    <2>8. UnwrittenOfLost' /\ Unwritten' = Unwritten
      BY <1>0, <2>3, SameUnwritten
    <2>9. /\ QueuedChars(q) \subseteq Accounted' /\ ToSet(reading) \subseteq Accounted'
          /\ next' = next \/ (next' = next + 1 /\ next \in Accounted')
          /\ Unwritten \subseteq Accounted'
      BY <1>1, <2>3, <2>5, <2>8 DEF Accounted, edit
    <2>10. parked'.ch = 0 /\ pc' # "direct"
      BY <1>1, <2>1, NoActFacts
    <2> QED
      BY <1>1, <1>2, <2>6, <2>8, <2>9, <2>10, KeyMoves DEF ghost
  <1>4. CASE ~CanAdmit(q, parked.op)
    <2>1. UNCHANGED <<q, typed, pc>>
      BY <1>4 DEF AdmitParked
    <2>6. TypeOK'
      BY <1>0, <1>1, <2>1 DEF TypeOK, edit, tsf, ghost, typed
    <2>8. UnwrittenOfLost' /\ Unwritten' = Unwritten
      BY <1>0, <2>1, SameUnwritten DEF SameOwner
    <2>9. /\ QueuedChars(q) \subseteq Accounted' /\ ToSet(reading) \subseteq Accounted'
          /\ Unwritten \subseteq Accounted'
      BY <1>1, <2>1, <2>8 DEF Accounted, edit
    <2>10. parked'.ch = 0 /\ pc' # "direct"
      BY <1>1, <2>1, NoActFacts
    <2> QED
      BY <1>1, <1>2, <2>1, <2>6, <2>8, <2>9, <2>10, KeyMoves DEF ghost, typed
  <1> QED
    BY <1>3, <1>4

LEMMA DirectAfterSettleBase ==
  ASSUME Base, DirectAfterSettle
  PROVE  Base'
  <1>0. TypeOK /\ SlotsOK /\ IdleIsEmpty /\ UnwrittenOfLost /\ ParkedOK
    BY Typed DEF Base
  <1>1. pc = "direct" /\ pc' = "idle" /\ parked' = NoAct /\ UNCHANGED <<q, edit, snap, ctx, ghost>>
        /\ Accept(parked.ch)
    BY DEF DirectAfterSettle
  <1>2. parked.ch # 0 /\ parked.op \in TextOps /\ parked.ch = next
    BY <1>0, <1>1 DEF ParkedOK
  <1>3. parked \in Action /\ Fresh(parked) /\ parked.ch \in Chars
    BY <1>0, <1>2, Typed, NoActFacts, ActionFacts DEF Fresh
  <1> PICK x \in Chars : x = parked.ch
    BY <1>3
  <1>4. PICK o \in DoCommit(<<x>>, FALSE) : Take([o EXCEPT !.doc = Write(<<x>>)])
    BY DEF DirectAfterSettle
  <1>5. /\ req' \in Sessions /\ pend' \in Slots \cup {0} /\ doc' \in [Contexts -> Seq(Chars)]
        /\ open' \in BOOLEAN /\ endp' \in Ending
        /\ SlotsOK' /\ Written \subseteq Written' /\ x \in Written'
    BY <1>0, <1>4, DirectFacts
  <1>6. /\ next' \in 1..MaxChars + 1 /\ where' \in [Chars -> Contexts \cup {"none"}]
        /\ next' = next \/ (next' = next + 1 /\ next = parked.ch /\ parked.op \in TextOps)
    BY <1>0, <1>1, <1>3, AcceptFacts
  <1>7. TypeOK'
    BY <1>0, <1>1, <1>5, <1>6 DEF TypeOK, edit, ghost
  <1>8. UnwrittenOfLost' /\ Unwritten' = Unwritten /\ IdleIsEmpty' /\ reading' = reading
    BY <1>0, <1>1, SameUnwritten DEF SameOwner, IdleIsEmpty, edit
  <1>9. /\ QueuedChars(q) \subseteq Accounted' /\ ToSet(reading) \subseteq Accounted'
        /\ next' = next \/ (next' = next + 1 /\ next \in Accounted')
        /\ Unwritten \subseteq Accounted'
    BY <1>1, <1>5, <1>6, <1>8 DEF Accounted
  <1>10. parked'.ch = 0 /\ pc' # "direct"
    BY <1>1, NoActFacts
  <1> QED
    BY <1>1, <1>5, <1>7, <1>8, <1>9, <1>10, KeyMoves DEF ghost

LEMMA EndKeyBase ==
  ASSUME Base, NEW a, KeyFrame(a), ~q.lost, EndKey(a)
  PROVE  Base'
  <1>0. q \in Queue /\ TypeOK /\ SlotsOK /\ IdleIsEmpty /\ UnwrittenOfLost /\ ParkedOK /\ endp \in Ending
        /\ req \in Sessions /\ pend \in Slots \cup {0} /\ open \in BOOLEAN
    BY Typed DEF Base
  <1>1. UNCHANGED <<snap, pc, parked, typed, thrown, leaked>>
    BY DEF EndKey
  <1>2. CASE a.op = "Cancel" /\ endp.caret
    <2>1. q' = EmptyQueue
      BY <1>2 DEF EndKey
    <2>2. PICK o \in DoCancel :
             /\ Take(o)
             /\ IF o.ok THEN ResetInput ELSE UNCHANGED edit
             /\ Erase(QueuedChars(q) \cup IF o.ok THEN ToSet(reading) ELSE {})
      BY <1>2 DEF EndKey
    <2>3. o \in Result /\ SlotsFit(o) /\ o.pend = 0 /\ o.doc = doc
      BY <1>0, CancelFits
    <2>4. /\ req' \in Sessions /\ pend' \in Slots \cup {0} /\ doc' \in [Contexts -> Seq(Chars)]
          /\ open' \in BOOLEAN /\ endp' \in Ending /\ SlotsOK' /\ Written \subseteq Written'
      BY <2>2, <2>3, TakeFacts
    <2>5. gone' = gone \cup (QueuedChars(q) \cup IF o.ok THEN ToSet(reading) ELSE {})
      BY <2>2 DEF Erase
    <2>6. ToSet(reading) \subseteq Chars /\ QueuedChars(q) \subseteq Chars /\ gone \in SUBSET Chars
      BY <1>0, SetOfTyped, QueuedTyped, Typed
    <2>7. gone' \in SUBSET Chars
      BY <2>5, <2>6
    <2>8. /\ reading' \in Seq(Chars) /\ mode' \in {"idle", mode} /\ window' \in {"closed", window}
          /\ redraw' \in {FALSE, redraw} /\ IdleIsEmpty'
      BY <1>0, <2>2, EmptyReading, Typed DEF edit, IdleIsEmpty, ResetInput
    <2>9. TypeOK'
      BY <1>0, <1>1, <2>1, <2>4, <2>7, <2>8, EmptyQueueFacts DEF TypeOK, KeyFrame, typed
    <2>10. ToSet(reading) \subseteq Accounted'
      <3>1. CASE o.ok
        BY <3>1, <2>5 DEF Accounted
      <3>2. CASE ~o.ok
        BY <3>2, <2>2 DEF Accounted, edit
      <3> QED
        BY <3>1, <3>2
    <2>11. UnwrittenOfLost' /\ Unwritten = {} /\ QueuedChars(q) \subseteq Accounted'
      BY <1>0, <1>2, <2>1, <2>5, LostOnly, NoneUnwritten, EmptyQueueFacts DEF Accounted
    <2> QED
      BY <1>0, <1>1, <2>4, <2>5, <2>8, <2>9, <2>10, <2>11, KeyMoves DEF typed, ParkedOK
  <1>3. CASE ~(a.op = "Cancel" /\ endp.caret)
    <2>1. PICK f \in FinishEnd(endp) :
                   /\ endp' = f.e /\ req' = Disowned(req, pend, f.bump)
                   /\ open' = (open /\ f.e.on)
      BY <1>3 DEF EndKey
    <2>2. UNCHANGED <<q, edit, pend, doc, gone>>
      BY <1>3 DEF EndKey
    <2>3. f.e \in Ending /\ f.bump \in BOOLEAN
      BY <1>0, FinishFacts
    <2>4. req' \in Sessions /\ Weakened(req', req)
      BY <1>0, <2>1, <2>3, DisownedFacts
    <2>5. SlotsOK' /\ Written' = Written
      BY <1>0, <2>2, <2>4, SlotsWeakened, SameWritten
    <2>6. open' \in BOOLEAN
      BY <1>0, <2>1, <2>3 DEF Ending
    <2>7. TypeOK'
      BY <1>0, <1>1, <2>1, <2>2, <2>3, <2>4, <2>6 DEF TypeOK, KeyFrame, edit, typed
    <2> QED
      BY <1>1, <2>2, <2>5, <2>7, TextStays DEF edit, typed, SameOwner
  <1> QED
    BY <1>2, <1>3

LEMMA ConvertingKeyBase ==
  ASSUME Base, NEW a, KeyFrame(a), ConvertingKey(a)
  PROVE  Base'
  <1>0. q \in Queue /\ TypeOK /\ SlotsOK /\ IdleIsEmpty /\ UnwrittenOfLost /\ ParkedOK /\ a \in Action
        /\ Fresh(a)
    BY Typed DEF Base, KeyFrame, Fresh
  <1>1. mode = "converting" /\ UNCHANGED <<snap, endp, req, pend, doc, parked, ghost>>
    BY DEF ConvertingKey
  <1>2. SlotsOK' /\ Written' = Written
    BY <1>0, <1>1, SlotsSame
  <1>3. CASE a.op \in TextOps \cup {"Commit", "Backspace"}
    <2>1. /\ q' = (IF a.op \in TextOps THEN PushCommitThenInsert(q, a) ELSE PushBack(q, a))
          /\ window' = (IF a.op = "Backspace" THEN window ELSE "closed")
          /\ Accept(a.ch) /\ pc' = "drain"
          /\ UNCHANGED <<reading, mode, redraw, open>>
      BY <1>1, <1>3 DEF ConvertingKey, TextOps, More
    <2>2. IF a.op \in TextOps THEN Len(q.acts) + 2 <= Capacity ELSE Len(q.acts) < Capacity
      BY <1>1, <1>3 DEF ConvertingKey, TextOps, CanPush, CanPushCommitThenInsert
    <2>4. q \in LongQueue
      BY <1>0, QueueFields
    <2>3. /\ q' \in Queue /\ SameOwner(q', q)
          /\ QueuedChars(q') = QueuedChars(q) \cup (IF a.op \in TextOps THEN {a.ch} ELSE {})
      <3>1. CASE a.op \in TextOps
        BY <1>0, <2>1, <2>2, <2>4, <3>1, PushCommitFacts
      <3>2. CASE a.op \notin TextOps
        BY <1>0, <2>1, <2>2, <2>4, <3>2, PushBackFacts
      <3> QED
        BY <3>1, <3>2
    <2>5. /\ next' \in 1..MaxChars + 1 /\ where' \in [Chars -> Contexts \cup {"none"}]
          /\ next' = next \/ (next' = next + 1 /\ next = a.ch /\ a.op \in TextOps)
      BY <1>0, <2>1, AcceptFacts
    <2>50. window' \in {window, "closed"}
      BY <2>1
    <2>6. TypeOK'
      BY <1>0, <1>1, <2>1, <2>3, <2>5, <2>50 DEF TypeOK, KeyFrame, ghost
    <2>8. UnwrittenOfLost' /\ Unwritten' = Unwritten /\ IdleIsEmpty'
      BY <1>0, <2>1, <2>3, SameUnwritten DEF IdleIsEmpty
    <2>9. /\ QueuedChars(q) \subseteq Accounted' /\ ToSet(reading) \subseteq Accounted'
          /\ next' = next \/ (next' = next + 1 /\ next \in Accounted')
          /\ Unwritten \subseteq Accounted'
      BY <2>1, <2>3, <2>5, <2>8 DEF Accounted
    <2>10. parked'.ch = 0 /\ pc' # "direct"
      BY <1>1, <2>1, NoActFacts DEF KeyFrame
    <2> QED
      BY <1>1, <1>2, <2>6, <2>8, <2>9, <2>10, KeyMoves DEF ghost
  <1>4. CASE a.op \notin TextOps \cup {"Commit", "Backspace"}
    <2>1. /\ q' \in Queue /\ SameOwner(q', q) /\ QueuedChars(q') = QueuedChars(q)
          /\ reading' = reading /\ mode' \in {"converting", "editing"}
          /\ window' \in {"loading", "closed", "ready"} /\ redraw' \in BOOLEAN /\ open' \in BOOLEAN
          /\ UNCHANGED typed /\ pc' = "idle"
      <3>1. CASE a.op = "Candidate"
        <4>1. /\ Space /\ pc' = "idle" /\ UNCHANGED typed
              /\ q' = IF window' = "loading" THEN BeginWait(q, {}) ELSE q
          BY <1>1, <3>1 DEF ConvertingKey, Stop, TextOps
        <4> PICK texts \in SUBSET Seq(Chars) : texts = {}
          OBVIOUS
        <4>2. q' = BeginWait(q, texts) \/ q' = q
          BY <4>1
        <4>3. q' \in Queue /\ SameOwner(q', q) /\ QueuedChars(q') = QueuedChars(q)
          BY <1>0, <4>2, BeginWaitFacts DEF SameText, SameOwner
        <4> QED
          BY <1>0, <1>1, <4>1, <4>3, SpaceFacts
      <3>2. CASE a.op = "Cancel"
        <4>1. Escape /\ pc' = "idle" /\ UNCHANGED <<q, typed>>
          BY <1>1, <3>2 DEF ConvertingKey, Stop, TextOps
        <4> QED
          BY <1>0, <1>1, <4>1, EscapeFacts DEF SameOwner
      <3>3. CASE a.op \notin {"Candidate", "Cancel"}
        <4>1. /\ window' = "closed" /\ Render /\ pc' = "idle"
              /\ UNCHANGED <<q, reading, mode, typed>>
          BY <1>1, <1>4, <3>3 DEF ConvertingKey, Stop
        <4> QED
          BY <1>0, <1>1, <4>1, DisplayTypes, Typed DEF SameOwner
      <3> QED
        BY <3>1, <3>2, <3>3
    <2>2. TypeOK'
      BY <1>0, <1>1, <2>1 DEF TypeOK, KeyFrame, ghost, typed
    <2> QED
      BY <1>1, <1>2, <2>1, <2>2, TextStays DEF ghost, typed
  <1> QED
    BY <1>3, <1>4

LEMMA InputCharBase ==
  ASSUME Base, NEW a, KeyFrame(a), InputChar(a)
  PROVE  Base'
  <1>0. q \in Queue /\ TypeOK /\ SlotsOK /\ IdleIsEmpty /\ UnwrittenOfLost /\ ParkedOK /\ a \in Action
        /\ Fresh(a) /\ reading \in Seq(Chars)
    BY Typed DEF Base, KeyFrame, Fresh
  <1>1. /\ a.op \in TextOps /\ reading' = Append(reading, a.ch) /\ mode' = "editing"
        /\ Display /\ Accept(a.ch)
        /\ UNCHANGED <<q, window, snap, redraw, endp, req, pend, doc, pc, parked, ghost>>
    BY DEF InputChar, TextOps
  <1>2. a.ch \in Chars
    BY <1>0, <1>1, ActionFacts
  <1>3. reading' \in Seq(Chars) /\ ToSet(reading') = ToSet(reading) \cup {a.ch}
    BY <1>0, <1>1, <1>2, SetOfAppend
  <1>4. open' \in BOOLEAN
    BY <1>0, <1>1, DisplayTypes, Typed
  <1>5. /\ next' \in 1..MaxChars + 1 /\ where' \in [Chars -> Contexts \cup {"none"}]
        /\ next' = next \/ (next' = next + 1 /\ next = a.ch /\ a.op \in TextOps)
    BY <1>0, <1>1, AcceptFacts
  <1>6. TypeOK'
    BY <1>0, <1>1, <1>3, <1>4, <1>5 DEF TypeOK, KeyFrame, ghost
  <1>7. SlotsOK' /\ Written' = Written
    BY <1>0, <1>1, SlotsSame
  <1>8. UnwrittenOfLost' /\ Unwritten' = Unwritten /\ IdleIsEmpty'
    BY <1>0, <1>1, SameUnwritten DEF SameOwner, IdleIsEmpty
  <1>9. /\ QueuedChars(q) \subseteq Accounted' /\ ToSet(reading) \subseteq Accounted'
        /\ next' = next \/ (next' = next + 1 /\ next \in Accounted')
        /\ Unwritten \subseteq Accounted'
    BY <1>1, <1>3, <1>5, <1>8 DEF Accounted
  <1>10. parked'.ch = 0 /\ pc' # "direct"
    BY <1>1, NoActFacts DEF KeyFrame
  <1> QED
    BY <1>1, <1>6, <1>7, <1>8, <1>9, <1>10, KeyMoves DEF ghost

(* The reading is settled, or stays.                                       *)
LEMMA SettleFacts ==
  ASSUME TypeOK, SlotsOK, IdleIsEmpty, NEW o \in DoCommit(reading, FALSE), Take(o),
         IF o.ok THEN ResetInput ELSE UNCHANGED edit
  PROVE  /\ req' \in Sessions /\ pend' \in Slots \cup {0} /\ doc' \in [Contexts -> Seq(Chars)]
         /\ open' \in BOOLEAN /\ endp' \in Ending /\ SlotsOK' /\ Written \subseteq Written'
         /\ reading' \in Seq(Chars) /\ mode' \in {"idle", mode} /\ window' \in {"closed", window}
         /\ redraw' \in {FALSE, redraw} /\ IdleIsEmpty'
         /\ ToSet(reading) \subseteq ToSet(reading') \cup Written'
         /\ o.ok => o.pend = 0 /\ (~o.endp.on => ~o.open)
  <1>0. reading \in Seq(Chars)
    BY Typed
  <1> PICK no \in BOOLEAN : no = FALSE
    OBVIOUS
  <1>1. /\ o \in Result /\ SlotsFit(o)
        /\ o.ok => ToSet(reading) \subseteq WrittenIn(o.doc)
        /\ o.ok => o.pend = 0 /\ (~o.endp.on => ~o.open)
    BY <1>0, CommitFits
  <1>2. /\ req' \in Sessions /\ pend' \in Slots \cup {0} /\ doc' \in [Contexts -> Seq(Chars)]
        /\ open' \in BOOLEAN /\ endp' \in Ending /\ SlotsOK' /\ Written \subseteq Written'
    BY <1>1, TakeFacts
  <1>3. /\ reading' \in Seq(Chars) /\ mode' \in {"idle", mode} /\ window' \in {"closed", window}
        /\ redraw' \in {FALSE, redraw} /\ IdleIsEmpty'
    BY <1>0, EmptyReading DEF edit, IdleIsEmpty, ResetInput
  <1>4. CASE o.ok
    <2>1. ToSet(reading) \subseteq Written'
      BY <1>1, <1>4 DEF Take, Written, WrittenIn
    <2> QED
      BY <1>1, <1>2, <1>3, <2>1
  <1>5. CASE ~o.ok
    BY <1>1, <1>2, <1>3, <1>5 DEF edit
  <1> QED
    BY <1>4, <1>5

LEMMA CommitCharDirectBase ==
  ASSUME Base, NEW a, KeyFrame(a), CommitCharDirect(a)
  PROVE  Base'
  <1>0. q \in Queue /\ TypeOK /\ SlotsOK /\ IdleIsEmpty /\ UnwrittenOfLost /\ ParkedOK /\ a \in Action
        /\ Fresh(a) /\ reading \in Seq(Chars)
    BY Typed DEF Base, KeyFrame, Fresh
  <1>1. a.op \in TextOps /\ UNCHANGED <<q, snap, ghost>>
    BY DEF CommitCharDirect, TextOps
  <1>2. a.ch \in Chars /\ a.ch = next /\ a.ch # 0
    BY <1>0, <1>1, ActionFacts DEF Fresh
  <1>3. UnwrittenOfLost' /\ Unwritten' = Unwritten
    BY <1>0, <1>1, SameUnwritten DEF SameOwner
  <1>4. CASE mode = "idle"
    <2> PICK x \in Chars : x = a.ch
      BY <1>2
    <2>1. PICK o \in DoCommit(<<x>>, FALSE) : Take([o EXCEPT !.doc = Write(<<x>>)])
      BY <1>4 DEF CommitCharDirect
    <2>2. Accept(a.ch) /\ UNCHANGED <<edit, pc, parked>>
      BY <1>4 DEF CommitCharDirect
    <2>3. /\ req' \in Sessions /\ pend' \in Slots \cup {0} /\ doc' \in [Contexts -> Seq(Chars)]
          /\ open' \in BOOLEAN /\ endp' \in Ending
          /\ SlotsOK' /\ Written \subseteq Written' /\ x \in Written'
      BY <1>0, <2>1, DirectFacts
    <2>4. /\ next' \in 1..MaxChars + 1 /\ where' \in [Chars -> Contexts \cup {"none"}]
          /\ next' = next \/ (next' = next + 1 /\ next = a.ch /\ a.op \in TextOps)
      BY <1>0, <2>2, AcceptFacts
    <2>5. TypeOK'
      BY <1>0, <1>1, <2>2, <2>3, <2>4 DEF TypeOK, KeyFrame, edit, ghost
    <2>6. IdleIsEmpty' /\ reading' = reading
      BY <1>0, <2>2 DEF IdleIsEmpty, edit
    <2>9. /\ QueuedChars(q) \subseteq Accounted' /\ ToSet(reading) \subseteq Accounted'
          /\ next' = next \/ (next' = next + 1 /\ next \in Accounted')
          /\ Unwritten \subseteq Accounted'
      BY <1>1, <1>3, <2>3, <2>4, <2>6 DEF Accounted
    <2>10. parked'.ch = 0 /\ pc' # "direct"
      BY <2>2, NoActFacts DEF KeyFrame
    <2> QED
      BY <1>1, <1>3, <2>3, <2>5, <2>6, <2>9, <2>10, KeyMoves DEF ghost
  <1>5. CASE mode # "idle"
    <2>1. PICK o \in DoCommit(reading, FALSE) :
                   /\ Take(o)
                   /\ IF o.ok THEN ResetInput ELSE UNCHANGED edit
                   /\ IF o.ok /\ ~o.endp.on THEN pc' = "direct" /\ parked' = a
                      ELSE UNCHANGED <<pc, parked>>
      BY <1>5 DEF CommitCharDirect
    <2>2. UNCHANGED typed
      BY <1>5 DEF CommitCharDirect
    <2>3. /\ req' \in Sessions /\ pend' \in Slots \cup {0} /\ doc' \in [Contexts -> Seq(Chars)]
          /\ open' \in BOOLEAN /\ endp' \in Ending /\ SlotsOK' /\ Written \subseteq Written'
          /\ reading' \in Seq(Chars) /\ mode' \in {"idle", mode} /\ window' \in {"closed", window}
          /\ redraw' \in {FALSE, redraw} /\ IdleIsEmpty'
          /\ ToSet(reading) \subseteq ToSet(reading') \cup Written'
      <3>1. Take(o) /\ IF o.ok THEN ResetInput ELSE UNCHANGED edit
        BY <2>1
      <3> QED
        BY <1>0, <3>1, SettleFacts
    <2>4. (pc' = "direct" /\ parked' = a) \/ UNCHANGED <<pc, parked>>
      BY <2>1
    <2>5. TypeOK'
      BY <1>0, <1>1, <2>2, <2>3, <2>4 DEF TypeOK, KeyFrame, typed, ghost
    <2>9. /\ QueuedChars(q) \subseteq Accounted' /\ ToSet(reading) \subseteq Accounted'
          /\ Unwritten \subseteq Accounted'
      BY <1>1, <1>3, <2>3 DEF Accounted
    <2>10. /\ parked'.ch # 0 => parked'.op \in TextOps /\ parked'.ch = next'
           /\ pc' = "direct" => parked'.ch # 0
      BY <1>0, <1>1, <1>2, <2>2, <2>4, NoActFacts DEF KeyFrame, typed
    <2> QED
      BY <1>1, <1>3, <2>2, <2>3, <2>5, <2>9, <2>10, KeyMoves DEF ghost, typed
  <1> QED
    BY <1>4, <1>5

LEMMA EditingKeyBase ==
  ASSUME Base, NEW a, KeyFrame(a), EditingKey(a)
  PROVE  Base'
  <1>0. q \in Queue /\ TypeOK /\ SlotsOK /\ IdleIsEmpty /\ UnwrittenOfLost /\ ParkedOK
        /\ reading \in Seq(Chars)
    BY Typed DEF Base
  <1>1. mode = "editing" /\ UNCHANGED <<pc, parked, typed, thrown, leaked>>
    BY DEF EditingKey
  <1>2. CASE a.op = "Commit"
    <2>1. PICK o \in DoCommit(reading, FALSE) :
             Take(o) /\ (IF o.ok THEN ResetInput ELSE UNCHANGED edit)
      BY <1>2 DEF EditingKey
    <2>2. UNCHANGED <<q, snap, gone>>
      BY <1>2 DEF EditingKey
    <2>3. /\ req' \in Sessions /\ pend' \in Slots \cup {0} /\ doc' \in [Contexts -> Seq(Chars)]
          /\ open' \in BOOLEAN /\ endp' \in Ending /\ SlotsOK' /\ Written \subseteq Written'
          /\ reading' \in Seq(Chars) /\ mode' \in {"idle", mode} /\ window' \in {"closed", window}
          /\ redraw' \in {FALSE, redraw} /\ IdleIsEmpty'
          /\ ToSet(reading) \subseteq ToSet(reading') \cup Written'
      BY <1>0, <2>1, SettleFacts
    <2>5. TypeOK'
      BY <1>0, <1>1, <2>2, <2>3 DEF TypeOK, KeyFrame, typed
    <2>9. /\ QueuedChars(q) \subseteq Accounted' /\ ToSet(reading) \subseteq Accounted'
      BY <2>2, <2>3 DEF Accounted
    <2> QED
      BY <1>1, <2>2, <2>3, <2>5, <2>9, TextMoves DEF typed, SameOwner
  <1>3. CASE a.op = "Cancel" \/ (a.op = "Backspace" /\ ~(Len(reading) > 1))
    <2>1. PICK o \in DoCancel : CancelInput(o)
      BY <1>3 DEF EditingKey
    <2>2. UNCHANGED <<q, snap>>
      BY <1>3 DEF EditingKey
    <2>3. /\ req' \in Sessions /\ pend' = 0 /\ doc' = doc /\ open' \in BOOLEAN /\ endp' = o.endp
          /\ o.endp \in Ending /\ SlotsOK' /\ Written' = Written
          /\ reading' \in Seq(Chars) /\ mode' \in {"idle", mode} /\ window' \in {"closed", window}
          /\ redraw' \in BOOLEAN /\ gone' \in SUBSET Chars /\ gone \subseteq gone'
          /\ ToSet(reading) \subseteq ToSet(reading') \cup gone'
          /\ IdleIsEmpty'
      BY <2>1, <1>0, CancelInputFacts
    <2>4. TypeOK'
      BY <1>0, <1>1, <2>2, <2>3 DEF TypeOK, KeyFrame, typed
    <2>5. ToSet(reading) \subseteq Accounted' /\ QueuedChars(q) \subseteq Accounted'
      BY <2>2, <2>3 DEF Accounted
    <2> QED
      BY <1>1, <2>2, <2>3, <2>4, <2>5, TextMoves DEF typed, SameOwner
  <1>4. CASE a.op = "Backspace" /\ Len(reading) > 1
    <2>1. DeleteTail /\ Display /\ UNCHANGED redraw /\ UNCHANGED <<q, snap>>
      BY <1>4 DEF EditingKey
    <2>3. open' \in BOOLEAN
      BY <2>1, <1>0, Typed, DisplayTypes
    <2>4. /\ reading' \in Seq(Chars) /\ gone' \in SUBSET Chars /\ gone \subseteq gone'
          /\ ToSet(reading) \subseteq ToSet(reading') \cup gone'
          /\ window' = "closed" /\ UNCHANGED <<mode, endp, req, pend, doc>>
      BY <2>1, <1>0, <1>4, DeleteFacts
    <2>5. TypeOK'
      BY <1>0, <1>1, <2>1, <2>3, <2>4 DEF TypeOK, KeyFrame, typed
    <2>6. SlotsOK' /\ Written' = Written
      BY <1>0, <2>4, SlotsSame
    <2>7. ToSet(reading) \subseteq Accounted' /\ QueuedChars(q) \subseteq Accounted'
      BY <2>1, <2>4 DEF Accounted
    <2>8. IdleIsEmpty'
      BY <1>1, <2>4 DEF IdleIsEmpty
    <2> QED
      BY <1>1, <2>1, <2>4, <2>5, <2>6, <2>7, <2>8, TextMoves DEF typed, SameOwner
  <1>5. CASE a.op = "Candidate"
    <2>1. CASE mode' = "converting" /\ Render
                 /\ UNCHANGED <<q, reading, window, snap, endp, req, pend, doc, gone>>
      <3>1. open' \in BOOLEAN /\ redraw' \in BOOLEAN
        BY <2>1, <1>0, Typed, DisplayTypes
      <3>2. TypeOK'
        BY <1>0, <1>1, <2>1, <3>1 DEF TypeOK, KeyFrame, typed
      <3>3. SlotsOK'
        BY <1>0, <2>1, SlotsSame
      <3> QED
        BY <1>1, <2>1, <3>2, <3>3, TextStays DEF typed, SameOwner
    <2>2. CASE q' = BeginWait(q, {reading}) /\ snap' = TRUE /\ UNCHANGED <<edit, tsf, gone>>
      <3>1. {reading} \in SUBSET Seq(Chars)
        BY <1>0
      <3> PICK texts \in SUBSET Seq(Chars) : texts = {reading}
        BY <3>1
      <3>2. q' \in Queue /\ SameOwner(q', q) /\ QueuedChars(q') = QueuedChars(q)
        BY <1>0, <2>2, BeginWaitFacts DEF SameText
      <3>3. TypeOK'
        BY <1>0, <1>1, <2>2, <3>2 DEF TypeOK, KeyFrame, typed, edit, tsf
      <3>4. SlotsOK'
        BY <1>0, <2>2, SlotsSame DEF tsf
      <3> QED
        BY <1>1, <2>2, <3>2, <3>3, <3>4, TextStays DEF typed, edit, tsf
    <2> QED
      BY <1>5, <2>1, <2>2 DEF EditingKey
  <1>6. a.op \in {"Commit", "Cancel", "Backspace", "Candidate"}
    BY DEF EditingKey
  <1> QED
    BY <1>2, <1>3, <1>4, <1>5, <1>6

LEMMA FreshKey ==
  ASSUME TypeOK, NEW op \in Ops, op \in TextOps => next <= MaxChars
  PROVE  Fresh(Act(op, IF op \in TextOps THEN next ELSE 0))
  <1>1. op \in TextOps => next \in Chars
    BY Typed, InputFacts
  <1>2. CASE op \in TextOps
    BY <1>1, <1>2 DEF Fresh, Act, Action
  <1>3. CASE op \notin TextOps
    <2>1. Act(op, 0) \in [op : Ops \ TextOps, ch : {0}] /\ Act(op, 0).ch = 0
      BY <1>3 DEF Act
    <2> QED
      BY <1>3, <2>1 DEF Fresh, Action
  <1> QED
    BY <1>2, <1>3

LEMMA NotLost ==
  ASSUME NEW op, ~WaitTakes(op)
  PROVE  ~q.lost
  BY DEF WaitTakes, Claims, Awaited, Headed

LEMMA KeyBase == ASSUME Base, NEW op \in Ops, Key(op) PROVE Base'
  <1>0. TypeOK
    BY DEF Base
  <1> PICK a : a = Act(op, IF op \in TextOps THEN next ELSE 0)
    OBVIOUS
  <1>1. KeyFrame(a)
    BY <1>0, FreshKey DEF Key, KeyFrame
  <1>2. IF WaitTakes(op) THEN WaitKey(a)
        ELSE IF endp.on THEN EndKey(a)
        ELSE ConvertingKey(a) \/ InputChar(a) \/ CommitCharDirect(a) \/ EditingKey(a)
    BY DEF Key
  <1>3. ~WaitTakes(op) => ~q.lost
    BY NotLost
  <1> QED
    BY <1>1, <1>2, <1>3, WaitKeyBase, EndKeyBase, ConvertingKeyBase, InputCharBase,
       CommitCharDirectBase, EditingKeyBase

-----------------------------------------------------------------------------
(* Focus changes, compositions the host ends, sessions it runs later.      *)

LEMMA ResetAbandonedFacts ==
  ASSUME TypeOK, SlotsOK, UnwrittenOfLost, ResetAbandoned
  PROVE  /\ q' \in Queue /\ req' \in Sessions /\ pend' = 0 /\ snap' = FALSE
         /\ Quiet(req') /\ QueuedChars(q') = QueuedChars(q) /\ UnwrittenOfLost'
         /\ Unwritten \subseteq Unwritten'
         /\ reading' \in Seq(Chars) /\ ToSet(reading') = {} /\ reading' = <<>>
         /\ mode' = "idle" /\ window' = "closed" /\ redraw' = FALSE
         /\ open' = FALSE /\ endp' \in Ending /\ gone' \in SUBSET Chars /\ gone \subseteq gone'
         /\ ToSet(reading) \subseteq gone' \cup Unwritten' /\ doc' = doc /\ IdleIsEmpty'
         /\ endp' = NoEnd
  <1>1. /\ RetireOwner /\ ResetInput /\ open' = FALSE /\ endp' = NoEnd /\ doc' = doc
        /\ gone' = gone \cup (ToSet(reading) \ UNION {ToSet(b) : b \in RetiredQueue.unwritten})
    BY DEF ResetAbandoned, Erase
  <1>2. /\ q' \in Queue /\ req' \in Sessions /\ pend' = 0 /\ snap' = FALSE
        /\ Quiet(req') /\ QueuedChars(q') = QueuedChars(q) /\ UnwrittenOfLost'
        /\ Unwritten \subseteq Unwritten' /\ q' = RetiredQueue
    BY <1>1, RetireFacts
  <1>3. Unwritten' = UNION {ToSet(b) : b \in RetiredQueue.unwritten}
    BY <1>2 DEF Unwritten
  <1>4. gone' = gone \cup (ToSet(reading) \ Unwritten')
    BY <1>1, <1>3
  <1>5. ToSet(reading) \subseteq Chars /\ gone \in SUBSET Chars
    BY Typed, SetOfTyped
  <1>6. gone' \in SUBSET Chars /\ gone \subseteq gone' /\ ToSet(reading) \subseteq gone' \cup Unwritten'
    BY <1>4, <1>5
  <1>7. /\ reading' \in Seq(Chars) /\ ToSet(reading') = {} /\ reading' = <<>>
        /\ mode' = "idle" /\ window' = "closed" /\ redraw' = FALSE /\ IdleIsEmpty'
    BY <1>1, EmptyReading DEF ResetInput, IdleIsEmpty
  <1> QED
    BY <1>1, <1>2, <1>6, <1>7, NoEndFacts

LEMMA OnSetFocusBase ==
  ASSUME Base, NEW c \in Contexts, OnSetFocus(c)
  PROVE  Base'
  <1>0. q \in Queue /\ TypeOK /\ SlotsOK /\ IdleIsEmpty /\ UnwrittenOfLost /\ ParkedOK
        /\ req \in Sessions /\ reading \in Seq(Chars) /\ leaked \in SUBSET Chars
    BY Typed DEF Base
  <1>1. pc = "idle" /\ ctx' = c /\ UNCHANGED <<pc, parked, typed, thrown>>
    BY DEF OnSetFocus
  <1>10. /\ parked'.ch # 0 => parked'.op \in TextOps /\ parked'.ch = next'
         /\ pc' = "direct" => parked'.ch # 0
    BY <1>0, <1>1 DEF ParkedOK, typed
  <1>2. CASE open
    <2>1. ResetAbandoned /\ UNCHANGED leaked
      BY <1>2 DEF OnSetFocus
    <2>2. /\ q' \in Queue /\ req' \in Sessions /\ pend' = 0 /\ snap' = FALSE
          /\ Quiet(req') /\ QueuedChars(q') = QueuedChars(q) /\ UnwrittenOfLost'
          /\ Unwritten \subseteq Unwritten'
          /\ reading' \in Seq(Chars)
          /\ mode' = "idle" /\ window' = "closed" /\ redraw' = FALSE
          /\ open' = FALSE /\ endp' \in Ending /\ gone' \in SUBSET Chars /\ gone \subseteq gone'
          /\ ToSet(reading) \subseteq gone' \cup Unwritten' /\ doc' = doc /\ IdleIsEmpty'
      BY <1>0, <2>1, ResetAbandonedFacts
    <2>3. TypeOK'
      BY <1>0, <1>1, <2>1, <2>2 DEF TypeOK, typed
    <2>4. SlotsOK' /\ Written' = Written
      BY <2>2, SlotsQuiet, SameWritten
    <2>5. /\ QueuedChars(q) \subseteq Accounted' /\ ToSet(reading) \subseteq Accounted'
          /\ Unwritten \subseteq Accounted'
      BY <2>2 DEF Accounted
    <2> QED
      BY <1>1, <1>10, <2>2, <2>3, <2>4, <2>5, KeyMoves DEF typed
  <1>3. CASE ~open
    <2>1. /\ leaked' = leaked \cup ToSet(reading)
          /\ UNCHANGED <<edit, open, endp, doc, gone>>
      BY <1>3 DEF OnSetFocus
    <2>2. leaked' \in SUBSET Chars
      BY <1>0, <2>1, SetOfTyped
    <2>3. /\ q' \in Queue /\ req' \in Sessions /\ pend' \in Slots \cup {0} /\ snap' \in BOOLEAN
          /\ QueuedChars(q') = QueuedChars(q) /\ UnwrittenOfLost' /\ Unwritten \subseteq Unwritten'
          /\ SlotsOK'
      <3>1. CASE RetireOwner
        BY <1>0, <3>1, RetireFacts, SlotsQuiet
      <3>2. CASE q' = q /\ req' = Invalidated(req) /\ UNCHANGED <<pend, snap>>
        <4>1. req' \in Sessions /\ Weakened(req', req)
          BY <1>0, <3>2, InvalidFacts
        <4>2. SlotsOK'
          BY <1>0, <2>1, <3>2, <4>1, SlotsWeakened, SameWritten
        <4>3. UnwrittenOfLost' /\ Unwritten' = Unwritten
          BY <1>0, <3>2, SameUnwritten DEF SameOwner
        <4> QED
          BY <1>0, <3>2, <4>1, <4>2, <4>3, Typed
      <3> QED
        BY <1>3, <3>1, <3>2 DEF OnSetFocus
    <2>4. TypeOK'
      BY <1>0, <1>1, <2>1, <2>2, <2>3 DEF TypeOK, typed, edit
    <2>5. IdleIsEmpty' /\ reading' = reading /\ Written' = Written
      BY <1>0, <2>1, SameWritten DEF edit, IdleIsEmpty
    <2>6. /\ QueuedChars(q) \subseteq Accounted' /\ ToSet(reading) \subseteq Accounted'
          /\ Unwritten \subseteq Accounted'
      BY <2>3, <2>5 DEF Accounted
    <2> QED
      BY <1>1, <1>10, <2>1, <2>3, <2>4, <2>5, <2>6, KeyMoves DEF typed
  <1> QED
    BY <1>2, <1>3

LEMMA OnCompositionTerminatedBase ==
  ASSUME Base, OnCompositionTerminated
  PROVE  Base'
  <1>0. q \in Queue /\ TypeOK /\ SlotsOK /\ IdleIsEmpty /\ UnwrittenOfLost /\ ParkedOK
        /\ req \in Sessions
    BY Typed DEF Base
  <1>1. UNCHANGED <<ctx, pc, parked, typed, thrown, leaked>>
    BY DEF OnCompositionTerminated
  <1>10. /\ parked'.ch # 0 => parked'.op \in TextOps /\ parked'.ch = next'
         /\ pc' = "direct" => parked'.ch # 0
    BY <1>0, <1>1 DEF ParkedOK, typed
  <1>2. CASE endp.on
    <2>1. /\ endp' = NoEnd /\ open' = FALSE /\ req' = Invalidated(req)
          /\ UNCHANGED <<q, edit, snap, pend, doc, gone>>
      BY <1>2 DEF OnCompositionTerminated
    <2>2. req' \in Sessions /\ Weakened(req', req)
      BY <1>0, <2>1, InvalidFacts
    <2>3. SlotsOK'
      BY <1>0, <2>1, <2>2, SlotsWeakened, SameWritten
    <2>4. TypeOK'
      BY <1>0, <1>1, <2>1, <2>2, NoEndFacts DEF TypeOK, typed, edit
    <2> QED
      BY <1>1, <2>1, <2>3, <2>4, TextStays DEF typed, edit, SameOwner
  <1>3. CASE ~endp.on
    <2>1. ResetAbandoned
      BY <1>3 DEF OnCompositionTerminated
    <2>2. /\ q' \in Queue /\ req' \in Sessions /\ pend' = 0 /\ snap' = FALSE
          /\ Quiet(req') /\ QueuedChars(q') = QueuedChars(q) /\ UnwrittenOfLost'
          /\ Unwritten \subseteq Unwritten'
          /\ reading' \in Seq(Chars)
          /\ mode' = "idle" /\ window' = "closed" /\ redraw' = FALSE
          /\ open' = FALSE /\ endp' \in Ending /\ gone' \in SUBSET Chars /\ gone \subseteq gone'
          /\ ToSet(reading) \subseteq gone' \cup Unwritten' /\ doc' = doc /\ IdleIsEmpty'
      BY <1>0, <2>1, ResetAbandonedFacts
    <2>3. TypeOK'
      BY <1>0, <1>1, <2>1, <2>2 DEF TypeOK, typed
    <2>4. SlotsOK' /\ Written' = Written
      BY <2>2, SlotsQuiet, SameWritten
    <2>5. /\ QueuedChars(q) \subseteq Accounted' /\ ToSet(reading) \subseteq Accounted'
          /\ Unwritten \subseteq Accounted'
      BY <2>2 DEF Accounted
    <2> QED
      BY <1>1, <1>10, <2>2, <2>3, <2>4, <2>5, KeyMoves DEF typed
  <1> QED
    BY <1>2, <1>3

LEMMA OnPushContextBase ==
  ASSUME Base, OnPushContext
  PROVE  Base'
  <1>0. TypeOK /\ SlotsOK /\ req \in Sessions
    BY Typed DEF Base
  <1>1. /\ req' = Invalidated(req)
        /\ UNCHANGED <<q, edit, snap, open, endp, pend, ctx, doc, pc, parked, typed, ghost>>
    BY DEF OnPushContext
  <1>2. req' \in Sessions /\ Weakened(req', req)
    BY <1>0, <1>1, InvalidFacts
  <1>3. SlotsOK'
    BY <1>0, <1>1, <1>2, SlotsWeakened, SameWritten
  <1>4. TypeOK'
    BY <1>0, <1>1, <1>2 DEF TypeOK, typed, edit, ghost
  <1> QED
    BY <1>1, <1>3, <1>4, TextStays DEF typed, edit, ghost, SameOwner

Put(r, s, x) == [r EXCEPT ![s] = x]

LEMMA PutFacts ==
  ASSUME NEW r \in Sessions, NEW s \in Slots, NEW x \in Request,
         req' = Tidy(Put(r, s, x), pend)
  PROVE  /\ req' \in Sessions
         /\ \A t \in Slots : t # s => Weaker(req'[t], r[t])
         /\ req'[s] = IF x.held \/ s = pend THEN x ELSE FreeReq
  <1> PICK p : p = pend
    OBVIOUS
  <1> PICK r1 : r1 = Put(r, s, x)
    OBVIOUS
  <1>1. r1 \in Sessions /\ r1[s] = x /\ \A t \in Slots : t # s => r1[t] = r[t]
    BY DEF Sessions, Put
  <1>10. r1 \in Sessions
    BY <1>1
  <1> PICK r2 : r2 = Tidy(r1, p)
    OBVIOUS
  <1>20. r2 \in Sessions /\ Weakened(r2, r1)
    BY <1>10, TidyFacts
  <1>21. \A t \in Slots : r2[t] = IF r1[t].held \/ t = p THEN r1[t] ELSE FreeReq
    BY DEF Tidy
  <1>2. /\ Tidy(r1, p) \in Sessions /\ Weakened(Tidy(r1, p), r1)
        /\ \A t \in Slots : Tidy(r1, p)[t] = IF r1[t].held \/ t = p THEN r1[t] ELSE FreeReq
    BY <1>20, <1>21
  <1>3. \A t \in Slots : t # s => Weaker(Tidy(r1, p)[t], r[t])
    BY <1>1, <1>2 DEF Weakened
  <1> QED
    BY <1>1, <1>2, <1>3

LEMMA RanFacts ==
  ASSUME NEW r \in Sessions, NEW s \in Slots, s = pend,
         req' = Tidy([r EXCEPT ![s].held = FALSE, ![s].applied = TRUE], pend)
  PROVE  /\ req' \in Sessions /\ \A t \in Slots : t # s => Weaker(req'[t], r[t])
         /\ ~req'[s].held /\ req'[s].applied /\ req'[s].body = r[s].body /\ req'[s].ctx = r[s].ctx
         /\ req'[s].owned = r[s].owned
  <1>1. PICK x \in Request :
          /\ [r EXCEPT ![s].held = FALSE, ![s].applied = TRUE] = Put(r, s, x)
          /\ ~x.held /\ x.applied /\ x.body = r[s].body /\ x.ctx = r[s].ctx /\ x.owned = r[s].owned
    <2> PICK x \in Request : x = [r[s] EXCEPT !.held = FALSE, !.applied = TRUE]
      <3>1. [r[s] EXCEPT !.held = FALSE, !.applied = TRUE] \in Request
        BY DEF Sessions, Request
      <3> QED
        BY <3>1
    <2>1. ~x.held /\ x.applied /\ x.body = r[s].body /\ x.ctx = r[s].ctx /\ x.owned = r[s].owned
      BY DEF Sessions, Request
    <2>2. [r EXCEPT ![s].held = FALSE, ![s].applied = TRUE] = Put(r, s, x)
      BY DEF Sessions, Request, Put
    <2> QED
      BY <2>1, <2>2
  <1>20. req' = Tidy(Put(r, s, x), pend)
    BY <1>1
  <1>30. req' \in Sessions
    BY <1>20, PutFacts
  <1>31. \A t \in Slots : t # s => Weaker(req'[t], r[t])
    BY <1>20, PutFacts
  <1>32. req'[s] = x
    BY <1>20, PutFacts
  <1>3. /\ req' \in Sessions /\ \A t \in Slots : t # s => Weaker(req'[t], r[t])
        /\ req'[s] = x
    BY <1>30, <1>31, <1>32
  <1> QED
    BY <1>1, <1>3

LEMMA PassedFacts ==
  ASSUME NEW r \in Sessions, NEW s \in Slots, ~r[s].applied,
         req' = Tidy([r EXCEPT ![s].held = FALSE, ![s].stale = TRUE], pend)
  PROVE  /\ req' \in Sessions /\ \A t \in Slots : t # s => Weaker(req'[t], r[t])
         /\ ~req'[s].held /\ ~req'[s].applied
         /\ s = pend => /\ req'[s].body = r[s].body /\ req'[s].ctx = r[s].ctx
                        /\ req'[s].owned = r[s].owned /\ req'[s].stale
  <1>1. PICK x \in Request :
          /\ [r EXCEPT ![s].held = FALSE, ![s].stale = TRUE] = Put(r, s, x)
          /\ ~x.held /\ ~x.applied /\ x.body = r[s].body /\ x.ctx = r[s].ctx /\ x.owned = r[s].owned /\ x.stale
    <2> PICK x \in Request : x = [r[s] EXCEPT !.held = FALSE, !.stale = TRUE]
      <3>1. [r[s] EXCEPT !.held = FALSE, !.stale = TRUE] \in Request
        BY DEF Sessions, Request
      <3> QED
        BY <3>1
    <2>1. ~x.held /\ ~x.applied /\ x.body = r[s].body /\ x.ctx = r[s].ctx /\ x.owned = r[s].owned /\ x.stale
      BY DEF Sessions, Request
    <2>2. [r EXCEPT ![s].held = FALSE, ![s].stale = TRUE] = Put(r, s, x)
      BY DEF Sessions, Request, Put
    <2> QED
      BY <2>1, <2>2
  <1>20. req' = Tidy(Put(r, s, x), pend)
    BY <1>1
  <1>30. req' \in Sessions
    BY <1>20, PutFacts
  <1>31. \A t \in Slots : t # s => Weaker(req'[t], r[t])
    BY <1>20, PutFacts
  <1>33. req'[s] = IF x.held \/ s = pend THEN x ELSE FreeReq
    BY <1>20, PutFacts
  <1>32. req'[s] = IF s = pend THEN x ELSE FreeReq
    BY <1>1, <1>33
  <1>3. /\ req' \in Sessions /\ \A t \in Slots : t # s => Weaker(req'[t], r[t])
        /\ req'[s] = IF s = pend THEN x ELSE FreeReq
    BY <1>30, <1>31, <1>32
  <1> QED
    BY <1>1, <1>3, FreeFacts

LEMMA RunHeldSessionBase ==
  ASSUME Base, NEW s \in Slots, RunHeldSession(s)
  PROVE  Base'
  <1>0. TypeOK /\ SlotsOK /\ req \in Sessions /\ doc \in [Contexts -> Seq(Chars)] /\ open \in BOOLEAN
        /\ UnwrittenOfLost /\ IdleIsEmpty /\ ParkedOK
    BY Typed DEF Base
  <1>1. pc = "idle" /\ req[s].held /\ UNCHANGED <<q, edit, snap, pend, ctx, pc, parked, typed, ghost>>
    BY DEF RunHeldSession
  <1>2. CASE req[s].cur /\ ~req[s].stale /\ ~req[s].past
    <2>1. PICK e \in SessionEnds(open) :
                /\ doc' = [doc EXCEPT ![req[s].ctx] = @ \o req[s].body]
                /\ endp' = e /\ open' = (open /\ e.on)
                /\ req' = Tidy([req EXCEPT ![s].held = FALSE, ![s].applied = TRUE], pend)
      BY <1>2 DEF RunHeldSession
    <2>2. e \in Ending /\ endp' \in Ending /\ open' \in BOOLEAN
      BY <2>1, <1>0, SessionEndsFacts DEF Ending
    <2>3. s = pend /\ req[s].ctx \in Contexts
      BY <1>0, <1>1, <1>2 DEF SlotsOK, Live
    <2> PICK c \in Contexts : c = req[s].ctx
      BY <2>3
    <2> PICK body \in Seq(Chars) : body = req[s].body
      BY <1>0, RequestFields DEF Sessions
    <2> PICK had \in Seq(Chars) : had = doc[c]
      BY <1>0
    <2> PICK txt \in Seq(Chars) : txt = had \o body
      <3>1. had \o body \in Seq(Chars)
        OBVIOUS
      <3> QED
        BY <3>1
    <2> PICK d : d = [doc EXCEPT ![c] = txt]
      OBVIOUS
    <2>4. doc' = d
      BY <2>1
    <2>5. /\ d \in [Contexts -> Seq(Chars)] /\ d[c] = doc[c] \o body
          /\ \A c1 \in Contexts : c1 # c => d[c1] = doc[c1]
      BY <1>0
    <2>6. ToSet(d[c]) = ToSet(doc[c]) \cup ToSet(body)
      <3>1. ToSet(had \o body) = ToSet(had) \cup ToSet(body)
        BY SetOfJoined
      <3>2. d[c] = had \o body
        BY <2>5
      <3> QED
        BY <3>1, <3>2
    <2>7. Written \subseteq Written' /\ ToSet(body) \subseteq Written'
      <3>1. \A c1 \in Contexts : ToSet(doc[c1]) \subseteq ToSet(d[c1])
        BY <2>5, <2>6
      <3>2. Written = UNION {ToSet(doc[c1]) : c1 \in Contexts}
            /\ Written' = UNION {ToSet(d[c1]) : c1 \in Contexts}
        BY <2>4 DEF Written
      <3>3. ToSet(body) \subseteq ToSet(d[c])
        BY <2>6
      <3> QED
        BY <3>1, <3>2, <3>3
    <2>8. /\ req' \in Sessions
          /\ \A t \in Slots : t # s => Weaker(req'[t], req[t])
          /\ ~req'[s].held /\ req'[s].body = body
      BY <1>0, <2>1, <2>3, RanFacts
    <2>9. SlotsOK'
      <3>1. ASSUME NEW t \in Slots
            PROVE  /\ Live(req'[t]) => t = pend' /\ req'[t].ctx \in Contexts
                   /\ req'[t].applied => /\ t = pend' /\ ~req'[t].held
                                         /\ ToSet(req'[t].body) \subseteq Written'
        <4>1. CASE t = s
          BY <4>1, <1>1, <2>3, <2>7, <2>8 DEF Live
        <4>2. CASE t # s
          BY <4>2, <1>0, <1>1, <2>7, <2>8 DEF Weaker, SlotsOK, Live
        <4> QED
          BY <4>1, <4>2
      <3> QED
        BY <3>1 DEF SlotsOK, Live
    <2>10. TypeOK'
      BY <1>0, <1>1, <2>2, <2>4, <2>5, <2>8 DEF TypeOK, typed, edit, ghost
    <2>11. UnwrittenOfLost' /\ Unwritten' = Unwritten /\ IdleIsEmpty' /\ reading' = reading
      BY <1>0, <1>1, SameUnwritten DEF SameOwner, IdleIsEmpty, edit
    <2>12. /\ QueuedChars(q) \subseteq Accounted' /\ ToSet(reading) \subseteq Accounted'
           /\ Unwritten \subseteq Accounted'
      BY <1>1, <2>11 DEF Accounted
    <2>13. parked'.ch # 0 => parked'.op \in TextOps /\ parked'.ch = next'
      BY <1>0, <1>1 DEF ParkedOK, typed
    <2> QED
      BY <1>1, <2>7, <2>9, <2>10, <2>11, <2>12, <2>13, KeyMoves DEF typed, ghost
  <1>3. CASE ~(req[s].cur /\ ~req[s].stale /\ ~req[s].past)
    <2>1. /\ req' = Tidy([req EXCEPT ![s].held = FALSE, ![s].stale = TRUE], pend)
          /\ UNCHANGED <<doc, endp, open>>
      BY <1>3 DEF RunHeldSession
    <2>2. ~req[s].applied
      BY <1>0, <1>1 DEF SlotsOK
    <2>3. /\ req' \in Sessions
          /\ \A t \in Slots : t # s => Weaker(req'[t], req[t])
          /\ ~req'[s].held /\ ~req'[s].applied
      BY <1>0, <2>1, <2>2, PassedFacts
    <2>4. Weakened(req', req)
      BY <2>3 DEF Weakened, Weaker
    <2>5. SlotsOK'
      BY <1>0, <1>1, <2>1, <2>4, SlotsWeakened, SameWritten
    <2>6. TypeOK'
      BY <1>0, <1>1, <2>1, <2>3 DEF TypeOK, typed, edit, ghost
    <2> QED
      BY <1>1, <2>1, <2>5, <2>6, TextStays DEF typed, edit, ghost, SameOwner
  <1> QED
    BY <1>2, <1>3

-----------------------------------------------------------------------------
(* The timers and polls, and the first part of the invariant as a whole.   *)

LEMMA TickBase == ASSUME Base, Tick PROVE Base'
  <1>0. q \in Queue /\ TypeOK /\ SlotsOK /\ req \in Sessions /\ pend \in Slots \cup {0}
    BY Typed DEF Base
  <1>1. CASE /\ q.due = "running" /\ q' = [q EXCEPT !.due = "past"] /\ UNCHANGED req
             /\ UNCHANGED <<edit, snap, open, endp, pend, ctx, doc, pc, parked, typed, ghost>>
    <2>1. q' \in Queue /\ SameOwner(q', q) /\ q'.acts = q.acts
      BY <1>0, <1>1 DEF Queue, LongQueue, Clock, SameOwner
    <2>2. QueuedChars(q') = QueuedChars(q)
      BY <2>1 DEF QueuedChars
    <2>3. TypeOK'
      BY <1>0, <1>1, <2>1 DEF TypeOK, typed, edit, ghost
    <2>4. SlotsOK'
      BY <1>0, <1>1, SlotsSame
    <2> QED
      BY <1>1, <2>1, <2>2, <2>3, <2>4, TextStays DEF typed, edit, ghost
  <1>2. CASE /\ pend # 0 /\ ~req[pend].past /\ req' = [req EXCEPT ![pend].past = TRUE]
             /\ UNCHANGED <<q, edit, snap, open, endp, pend, ctx, doc, pc, parked, typed, ghost>>
    <2>0. pend \in Slots
      BY <1>0, <1>2
    <2> PICK p \in Slots : p = pend
      BY <2>0
    <2>1. PICK x \in Request :
            /\ req' = [req EXCEPT ![p] = x]
            /\ x.held = req[p].held /\ x.applied = req[p].applied /\ x.body = req[p].body
            /\ x.ctx = req[p].ctx /\ x.stale = req[p].stale /\ x.past /\ x.cur = req[p].cur
      <3> PICK x \in Request : x = [req[p] EXCEPT !.past = TRUE]
        <4>1. [req[p] EXCEPT !.past = TRUE] \in Request
          BY <1>0 DEF Sessions, Request
        <4> QED
          BY <4>1
      <3>1. /\ x.held = req[p].held /\ x.applied = req[p].applied /\ x.body = req[p].body
            /\ x.ctx = req[p].ctx /\ x.stale = req[p].stale /\ x.past /\ x.cur = req[p].cur
        BY <1>0 DEF Sessions, Request
      <3>2. req' = [req EXCEPT ![p] = x]
        BY <1>0, <1>2 DEF Sessions, Request
      <3> QED
        BY <3>1, <3>2
    <2>2. req' \in Sessions /\ req'[p] = x /\ \A t \in Slots : t # p => req'[t] = req[t]
      BY <1>0, <2>1 DEF Sessions
    <2>3. Weakened(req', req)
      BY <2>1, <2>2 DEF Weakened, Weaker
    <2>4. SlotsOK'
      BY <1>0, <1>2, <2>3, SlotsWeakened, SameWritten
    <2>5. TypeOK'
      BY <1>0, <1>2, <2>2 DEF TypeOK, typed, edit, ghost
    <2> QED
      BY <1>2, <2>4, <2>5, TextStays DEF typed, edit, ghost, SameOwner
  <1> QED
    BY <1>1, <1>2 DEF Tick

(* The polls, that take no key.                                            *)
LEMMA LookedBase ==
  ASSUME Base, Looked, pc' = "drain", parked = NoAct, next' = next, where' = where, ctx' = ctx,
         UNCHANGED <<reading, mode, redraw, open, endp, doc, parked, gone, thrown>>,
         window' \in {window, "closed"}
  PROVE  Base'
  <1>0. TypeOK /\ SlotsOK /\ IdleIsEmpty
    BY DEF Base
  <1>1. TypeOK'
    BY <1>0 DEF TypeOK, Looked
  <1>2. SlotsOK' /\ UnwrittenOfLost' /\ IdleIsEmpty' /\ Written' = Written
    BY <1>0, SameWritten DEF Looked, IdleIsEmpty
  <1>3. /\ QueuedChars(q) \subseteq Accounted' /\ ToSet(reading) \subseteq Accounted'
        /\ Unwritten \subseteq Accounted'
    BY DEF Looked, Accounted
  <1>4. parked'.ch = 0
    BY NoActFacts
  <1> QED
    BY <1>1, <1>2, <1>3, <1>4, KeyMoves

LEMMA PollBase == ASSUME Base, Poll PROVE Base'
  <1>0. TypeOK /\ SlotsOK /\ UnwrittenOfLost
    BY DEF Base
  <1>1. CASE PollPendingCommit
    <2>1. Looked
      BY <1>0, <1>1, PollPendingFacts DEF PollPendingCommit
    <2> QED
      BY <1>1, <2>1, LookedBase DEF PollPendingCommit, More, edit, typed
  <1>2. CASE PollExpiredWait
    <2>1. Looked /\ window' \in {window, "closed"}
      BY <1>0, <1>2, FailWaitStep DEF PollExpiredWait
    <2> QED
      BY <1>2, <2>1, LookedBase DEF PollExpiredWait, More, typed
  <1> QED
    BY <1>1, <1>2 DEF Poll

LEMMA WaitOverFacts ==
  ASSUME q \in Queue, NEW b
  PROVE  /\ WaitOver(b) \in Queue /\ SameOwner(WaitOver(b), q)
         /\ QueuedChars(WaitOver(b)) = QueuedChars(q)
  <1>1. WaitOver(b) \in {FailWait(q), Resolved(q)}
    BY DEF WaitOver
  <1> QED
    BY <1>1, FailWaitFacts, ResolvedFacts DEF WaitEnded, SameText

LEMMA PollClauseReplyBase ==
  ASSUME Base, NEW w \in {"ready", "closed"}, NEW b \in BOOLEAN, PollClauseReply(w, b)
  PROVE  Base'
  <1>0. q \in Queue /\ TypeOK /\ SlotsOK
    BY Typed DEF Base
  <1>1. /\ window' = (IF Expired(q) THEN "closed" ELSE w) /\ Render
        /\ pc' = "drain"
        /\ UNCHANGED <<reading, mode, snap, endp, req, pend, ctx, doc, parked, typed, ghost>>
    BY DEF PollClauseReply, More
  <1>2. q' = IF q.waiting THEN WaitOver(w = "ready" \/ b) ELSE q
    BY DEF PollClauseReply
  <1>3. q' \in Queue /\ SameOwner(q', q) /\ QueuedChars(q') = QueuedChars(q)
    BY <1>0, <1>2, WaitOverFacts DEF SameOwner
  <1>4. open' \in BOOLEAN /\ redraw' \in BOOLEAN
    BY <1>0, <1>1, Typed, DisplayTypes
  <1>5. TypeOK'
    BY <1>0, <1>1, <1>3, <1>4 DEF TypeOK, typed, ghost
  <1>6. SlotsOK'
    BY <1>0, <1>1, SlotsSame
  <1> QED
    BY <1>1, <1>3, <1>5, <1>6, TextStays DEF typed, ghost

LEMMA PollSnapshotBase ==
  ASSUME Base, PollSnapshot
  PROVE  Base'
  <1>0. q \in Queue /\ TypeOK /\ SlotsOK
    BY Typed DEF Base
  <1>1. /\ snap' = FALSE /\ pc' = "drain"
        /\ UNCHANGED <<reading, endp, req, pend, ctx, doc, parked, typed, ghost>>
    BY DEF PollSnapshot, More
  <1>2. /\ q' \in {Resolved(q), FailWait(q)} /\ mode' \in {mode, "converting"}
        /\ window' \in {window, "closed"} /\ open' \in BOOLEAN /\ redraw' \in BOOLEAN
    BY <1>0, Typed, DisplayTypes DEF PollSnapshot
  <1>3. q' \in Queue /\ SameOwner(q', q) /\ QueuedChars(q') = QueuedChars(q)
    BY <1>0, <1>2, FailWaitFacts, ResolvedFacts DEF WaitEnded, SameText
  <1>5. TypeOK'
    BY <1>0, <1>1, <1>2, <1>3 DEF TypeOK, typed, ghost
  <1>6. SlotsOK'
    BY <1>0, <1>1, SlotsSame
  <1> QED
    BY <1>1, <1>2, <1>3, <1>5, <1>6, TextStays DEF typed, ghost

LEMMA PollRedrawBase == ASSUME Base, PollRedraw PROVE Base'
  <1>0. q \in Queue /\ TypeOK /\ SlotsOK
    BY Typed DEF Base
  <1>1. /\ redraw' = FALSE /\ open' = TRUE /\ pc' = "drain"
        /\ UNCHANGED <<q, reading, mode, window, snap, endp, req, pend, ctx, doc, parked, typed, ghost>>
    BY DEF PollRedraw, More
  <1>2. TypeOK'
    BY <1>0, <1>1 DEF TypeOK, typed, ghost
  <1>3. SlotsOK'
    BY <1>0, <1>1, SlotsSame
  <1> QED
    BY <1>1, <1>2, <1>3, TextStays DEF typed, ghost, SameOwner

LEMMA EndDisplayFacts ==
  ASSUME q \in Queue, EndDisplayAtCapacity
  PROVE  q' \in Queue /\ SameOwner(q', q) /\ SameText(q', q) /\ q'.initial \subseteq q.initial
  <1> PICK y : y = Resolved(q)
    OBVIOUS
  <1>1. y \in Queue /\ SameOwner(y, q) /\ SameText(y, q) /\ y.initial \subseteq q.initial
    BY ResolvedFacts DEF WaitEnded
  <1>2. q' = Failed(y) \/ q' \in CapacityCommit(y)
    BY DEF EndDisplayAtCapacity
  <1>3. CASE q' = Failed(y)
    BY <1>1, <1>3, FailedFacts DEF SameOwner, SameText
  <1>4. CASE q' \in CapacityCommit(y)
    <2>1. Barred(q', y)
      BY <1>1, <1>4, CapacityFacts
    <2> QED
      BY <1>1, <2>1 DEF Barred, SameOwner, SameText, SameWait
  <1> QED
    BY <1>2, <1>3, <1>4

LEMMA EndDisplayBase == ASSUME Base, EndDisplayAtCapacity PROVE Base'
  <1>0. q \in Queue /\ TypeOK /\ SlotsOK
    BY Typed DEF Base
  <1>1. /\ snap' = FALSE /\ redraw' = FALSE /\ pc' \in {"idle", "drain"}
        /\ window' \in {window, "closed"}
        /\ UNCHANGED <<reading, mode, endp, open, req, pend, ctx, doc, parked, typed, ghost>>
    BY DEF EndDisplayAtCapacity, More
  <1>2. q' \in Queue /\ SameOwner(q', q) /\ QueuedChars(q') = QueuedChars(q)
    BY <1>0, EndDisplayFacts DEF SameText
  <1>3. TypeOK'
    BY <1>0, <1>1, <1>2 DEF TypeOK, typed, ghost
  <1>4. SlotsOK'
    BY <1>0, <1>1, SlotsSame
  <1> QED
    BY <1>1, <1>2, <1>3, <1>4, TextStays DEF typed, ghost

LEMMA InitBase == Init => Base
  <1> SUFFICES ASSUME Init PROVE Base
    OBVIOUS
  <1>1. q \in Queue /\ q.unwritten = {}
    BY EmptyQueueFacts DEF Init
  <1>2. req \in Sessions /\ Quiet(req)
    <2>1. FreeReq \in Request /\ ~FreeReq.held /\ ~FreeReq.applied
      BY FreeFacts
    <2> QED
      BY <2>1 DEF Init, Sessions, Quiet, Live
  <1>3. doc \in [Contexts -> Seq(Chars)] /\ reading \in Seq(Chars)
    BY EmptySeq DEF Init
  <1>4. next \in 1..MaxChars + 1 /\ ctx \in Contexts /\ parked \in Action \cup {NoAct}
    BY InputFacts DEF Init
  <1>5. TypeOK
    BY <1>1, <1>2, <1>3, <1>4, NoEndFacts DEF Init, TypeOK
  <1>6. IdleIsEmpty /\ UnwrittenOfLost /\ ParkedOK
    BY <1>1, NoActFacts DEF Init, IdleIsEmpty, UnwrittenOfLost, ParkedOK
  <1>7. SlotsOK
    BY <1>2 DEF SlotsOK, Quiet
  <1>8. NothingLost
    <2>1. next = 1
      BY DEF Init
    <2> QED
      BY <2>1 DEF NothingLost
  <1> QED
    BY <1>5, <1>6, <1>7, <1>8 DEF Base

LEMMA StutterBase == ASSUME Base, UNCHANGED vars PROVE Base'
  <1>0. TypeOK /\ SlotsOK
    BY DEF Base
  <1>1. TypeOK'
    BY <1>0 DEF TypeOK, vars
  <1>2. SlotsOK'
    BY <1>0, SlotsSame DEF vars
  <1> QED
    BY <1>1, <1>2, TextStays DEF vars, SameOwner

LEMMA StepBase == ASSUME Base, [Next]_vars PROVE Base'
  <1>1. CASE \E op \in Ops : Key(op)
    BY <1>1, KeyBase
  <1>2. CASE Event
    BY <1>2, DrainBase, AdmitParkedBase, DirectAfterSettleBase, PollBase, PollSnapshotBase,
       PollRedrawBase, EndDisplayBase, PollClauseReplyBase, OnSetFocusBase,
       OnCompositionTerminatedBase, OnPushContextBase, RunHeldSessionBase, TickBase DEF Event
  <1>3. CASE UNCHANGED vars
    BY <1>3, StutterBase
  <1> QED
    BY <1>1, <1>2, <1>3 DEF Next

(* In every reachable state the queue, the reading, the sessions the host  *)
(* keeps and the documents are of their types, an idle composition has no  *)
(* reading, only a lost queue shows text as unprocessed, only the commit   *)
(* in flight may still be written, and every accepted character has a      *)
(* place (key_event_sink.rs, pending_commit.rs and commit_session.rs       *)
(* together).                                                              *)
THEOREM BaseAlways == Spec => []Base
  BY InitBase, StepBase, PTL DEF Spec

LEMMA TypesChecked == ASSUME TypeOK PROVE InputTypeOK
  <1>0. q \in Queue /\ q.acts \in Seq(Action) /\ Len(q.acts) <= Capacity /\ q.due \in Clock
        /\ q.waiting \in BOOLEAN /\ q.failed \in BOOLEAN /\ q.lost \in BOOLEAN
    BY Typed, QueueFields
  <1>1. ASSUME NEW x \in Action PROVE x \in [op : Ops, ch : Chars \cup {0}]
    BY DEF Action, Ops, EditOps
  <1>2. \A i \in 1..Len(q.acts) : q.acts[i] \in [op : Ops, ch : Chars \cup {0}]
    <2> TAKE i \in 1..Len(q.acts)
    <2>1. q.acts[i] \in Action
      BY <1>0
    <2> QED
      BY <2>1, <1>1
  <1>3. QueueTypeOK(q, Chars)
    BY <1>0, <1>2 DEF QueueTypeOK
  <1>4. endp.on \in BOOLEAN /\ endp.tries \in 0..RetryMax - 1
    BY Typed DEF Ending
  <1> QED
    BY <1>3, <1>4 DEF InputTypeOK, TypeOK

(* The type invariant, with the two limits in it: the queue never holds    *)
(* more than its capacity, whatever is put in front of it (64 actions in   *)
(* conversion_queue.rs), and an attempt to close a composition is counted  *)
(* below its maximum (text_service.rs).                                    *)
THEOREM InputTypesAlways == Spec => []InputTypeOK
  <1>1. Base => InputTypeOK
    BY TypesChecked DEF Base
  <1> QED
    BY <1>1, BaseAlways, PTL

(* Whatever the host refuses, keeps for later or answers late, every       *)
(* accepted character is in a document, in the reading, in the queue, in   *)
(* the text shown as unprocessed, or was erased by a key of the user or    *)
(* thrown out with a loading candidate window or snapshot wait: the code   *)
(* drops none by itself.                                                   *)
THEOREM NothingLostAlways == Spec => []NothingLost
  <1>1. Base => NothingLost
    BY DEF Base
  <1> QED
    BY <1>1, BaseAlways, PTL

(* Both together, as run `input' checks them: a full queue refuses a key   *)
(* whole, and what was accepted is kept (conversion_queue.rs).             *)
THEOREM InputSafe == Spec => []InputInv
  <1>1. InputTypeOK /\ NothingLost => InputInv
    BY DEF InputInv
  <1> QED
    BY <1>1, InputTypesAlways, NothingLostAlways, PTL

-----------------------------------------------------------------------------
(* Second part of the invariant: where the control is, what a commit in    *)
(* flight excludes.                                                        *)

(* A commit in flight is the front of a queue that still has its document. *)
DirectOK == pc = "direct" => pend = 0 /\ ~q.lost /\ mode = "idle" /\ ~open
PendOK ==
  pend # 0 =>
    /\ FrontIs(q, {"Commit"}) /\ ~q.lost /\ mode # "idle" /\ ~redraw
    /\ req[pend].ctx = ctx /\ req[pend].body = CommitBody
    /\ RequestWaits(req[pend]) => q.waiting /\ ~q.failed
    /\ req[pend].applied /\ ~q.waiting /\ ~q.failed => pc = "drain" /\ req[pend].owned
    /\ req[pend].applied => ~q.failed
SnapOK == snap => /\ mode # "converting" /\ ~redraw /\ ~q.failed /\ ~q.lost /\ pend = 0
                  /\ pc = "drain" => q.waiting \/ q.acts = <<>>
WinOK == mode # "converting" => window = "closed"
Control == DirectOK /\ PendOK /\ SnapOK /\ WinOK

LEMMA BodyStays ==
  ASSUME mode' = mode, redraw' = redraw, reading' = reading, q'.initial = q.initial
  PROVE  CommitBody' = CommitBody
  BY DEF CommitBody

LEMMA PendKeeps ==
  ASSUME PendOK, pend' = pend, ctx' = ctx,
         pend # 0 =>
           /\ mode' = mode /\ redraw' = redraw /\ reading' = reading
           /\ FrontIs(q', {"Commit"}) /\ ~q'.lost /\ q'.initial = q.initial
           /\ req'[pend].ctx = req[pend].ctx /\ req'[pend].body = req[pend].body
           /\ RequestWaits(req'[pend]) => q'.waiting /\ ~q'.failed
           /\ req'[pend].applied /\ ~q'.waiting /\ ~q'.failed => pc' = "drain" /\ req'[pend].owned
           /\ req'[pend].applied => ~q'.failed
  PROVE  PendOK'
  <1> SUFFICES ASSUME pend # 0 PROVE PendOK'
    BY DEF PendOK
  <1>1. CommitBody' = CommitBody
    BY BodyStays
  <1> QED
    BY <1>1 DEF PendOK, FrontIs, RequestWaits

LEMMA NonePending == ASSUME pend' = 0 PROVE PendOK'
  BY DEF PendOK

LEMMA CalmControl ==
  ASSUME snap' = FALSE, pend' = 0, pc' # "direct", WinOK'
  PROVE  Control'
  BY DEF Control, DirectOK, PendOK, SnapOK

(* While the front of the queue is no Commit, no commit is in flight.      *)
LEMMA FrontElse ==
  ASSUME PendOK, NEW O, FrontIs(q, O), "Commit" \notin O
  PROVE  pend = 0
  BY DEF PendOK, FrontIs

LEMMA NoSnapInDrain ==
  ASSUME Control, TypeOK, pc = "drain", Runs
  PROVE  snap = FALSE
  BY DEF Control, SnapOK, Runs, TypeOK

Draining == pc = "drain" /\ DrainFrame /\ Runs /\ ~redraw /\ Control /\ Base

LEMMA DrainStopsControl ==
  ASSUME Control, Base, pc = "drain", DrainFrame, DrainStops, UNCHANGED snap
  PROVE  Control'
  <1>1. /\ q.lost \/ q.waiting \/ q.failed \/ q.acts = <<>>
        /\ pc' = "idle" /\ UNCHANGED <<q, reading, mode, window, redraw, open, endp, req, pend, doc, ctx>>
    BY DEF DrainStops, Stop, edit, tsf, DrainFrame
  <1>2. PendOK'
    <2>1. pend # 0 => q.acts # <<>>
      BY DEF Control, PendOK, FrontIs
    <2> QED
      BY <1>1, <2>1, PendKeeps DEF Control, PendOK, FrontIs
  <1> QED
    BY <1>1, <1>2 DEF Control, DirectOK, SnapOK, WinOK

LEMMA DrainRedrawsControl ==
  ASSUME Control, Base, pc = "drain", DrainFrame, Runs, DrainRedraws, UNCHANGED snap
  PROVE  Control'
  <1>1. pend = 0 /\ snap = FALSE
    BY NoSnapInDrain DEF Control, PendOK, DrainRedraws, Base
  <1>2. WinOK'
    BY DEF Control, WinOK, DrainRedraws
  <1> QED
    BY <1>1, <1>2, CalmControl DEF DrainRedraws, Stop, More

LEMMA DrainPlainControl ==
  ASSUME Draining, UNCHANGED snap, DrainPrepends \/ DrainExhausts \/ DrainMove \/ DrainInsert
  PROVE  Control'
  <1>1. pend = 0 /\ snap = FALSE
    BY NoSnapInDrain, FrontElse
    DEF Draining, Control, Base, DrainPrepends, DrainExhausts, DrainMove, DrainInsert, TextOps,
        ExhaustibleOps
  <1>2. pend' = pend /\ pc' \in {"idle", "drain"}
    BY DEF DrainPrepends, DrainExhausts, DrainMove, DrainInsert, tsf, Stop, More
  <1>3. WinOK'
    BY DEF Draining, Control, WinOK, DrainPrepends, DrainExhausts, DrainMove, DrainInsert, edit
  <1> QED
    BY <1>1, <1>2, <1>3, CalmControl

LEMMA DrainDirectControl ==
  ASSUME Draining, UNCHANGED snap, DrainDirect
  PROVE  Control'
  <1>1. pend = 0 /\ snap = FALSE
    BY NoSnapInDrain, FrontElse DEF Draining, Control, Base, DrainDirect
  <1>0. TypeOK /\ SlotsOK /\ q \in Queue /\ reading \in Seq(Chars)
    BY Typed DEF Draining, Base
  <1>2. Head(q.acts).ch \in Chars
    <2>1. q.acts \in Seq(Action) /\ q.acts # <<>> /\ Head(q.acts).op \in TextOps
      BY <1>0, QueueFields DEF DrainDirect, FrontIs, TextOps
    <2>2. Head(q.acts) \in Action
      BY <2>1, TextOfTail
    <2> QED
      BY <2>1, <2>2, ActionFacts
  <1> PICK x \in Chars : x = Head(q.acts).ch
    BY <1>2
  <1>20. <<x>> \in Seq(Chars)
    OBVIOUS
  <1> PICK body \in Seq(Chars) : body = IF mode = "idle" THEN <<x>> ELSE reading
    BY <1>0, <1>20
  <1> PICK no \in BOOLEAN : no = FALSE
    OBVIOUS
  <1>3. PICK o \in DoCommit(body, no) :
         /\ Take(o)
         /\ IF ~o.ok \/ (mode # "idle" /\ o.endp.on)
              THEN q' = Failed(q) /\ Stop
              ELSE q' = (IF mode = "idle" THEN Done(q, o.endp) ELSE q) /\ More
         /\ IF o.ok THEN ResetInput ELSE UNCHANGED edit
    BY DEF DrainDirect
  <1>4. FreshAnswer(o, body, no)
    BY <1>0, <1>1, CommitFacts DEF KeptAnswer, AppliedAnswer
  <1>5. pend' = 0
    BY <1>3, <1>4 DEF FreshAnswer, Idle, Take
  <1>6. pc' \in {"idle", "drain"} /\ WinOK'
    BY <1>3 DEF Stop, More, Draining, Control, WinOK, ResetInput, edit
  <1> QED
    BY <1>1, <1>5, <1>6, CalmControl

LEMMA CancelPend ==
  ASSUME TypeOK, SlotsOK, NEW o \in DoCancel, Take(o)
  PROVE  pend' = 0 /\ doc' = doc
  BY CancelFits DEF Take

LEMMA DrainCancelControl ==
  ASSUME Draining, UNCHANGED snap, DrainCancel
  PROVE  Control'
  <1>1. pend = 0 /\ snap = FALSE
    BY NoSnapInDrain, FrontElse DEF Draining, Control, Base, DrainCancel
  <1>0. TypeOK /\ SlotsOK /\ WinOK
    BY DEF Draining, Base, Control
  <1>2. CASE mode = "converting"
    <2>1. Escape /\ pc' = "drain" /\ pend' = pend
      BY <1>2 DEF DrainCancel, More
    <2>2. WinOK'
      BY <2>1 DEF WinOK, Escape
    <2> QED
      BY <1>1, <2>1, <2>2, CalmControl
  <1>3. CASE mode = "editing"
    <2>1. PICK o \in DoCancel : /\ CancelInput(o)
                                /\ IF o.ok THEN q' = Done(q, o.endp) /\ More
                                   ELSE q' = q /\ Stop
      BY <1>3 DEF DrainCancel
    <2>2. pend' = 0
      BY <1>0, <2>1, CancelPend DEF CancelInput
    <2>3. WinOK' /\ pc' \in {"idle", "drain"}
      BY <1>0, <2>1 DEF CancelInput, ResetInput, edit, WinOK, Stop, More
    <2> QED
      BY <1>1, <2>2, <2>3, CalmControl
  <1>4. CASE mode \notin {"converting", "editing"}
    <2>1. pc' = "drain" /\ pend' = pend /\ UNCHANGED edit
      BY <1>4 DEF DrainCancel, More, tsf
    <2> QED
      BY <1>0, <1>1, <2>1, CalmControl DEF WinOK, edit
  <1> QED
    BY <1>2, <1>3, <1>4

LEMMA DrainBackspaceControl ==
  ASSUME Draining, UNCHANGED snap, DrainBackspace
  PROVE  Control'
  <1>1. pend = 0 /\ snap = FALSE
    BY NoSnapInDrain, FrontElse DEF Draining, Control, Base, DrainBackspace
  <1>0. TypeOK /\ SlotsOK /\ WinOK
    BY DEF Draining, Base, Control
  <1>2. CASE mode = "idle"
    <2>1. pc' = "drain" /\ pend' = pend /\ UNCHANGED edit
      BY <1>2 DEF DrainBackspace, More, tsf
    <2> QED
      BY <1>0, <1>1, <2>1, CalmControl DEF WinOK, edit
  <1>3. CASE mode # "idle" /\ Len(reading) > 1
    <2>1. DeleteTail /\ pc' = "drain"
      BY <1>3 DEF DrainBackspace, More
    <2>2. WinOK' /\ pend' = pend
      BY <2>1 DEF WinOK, DeleteTail
    <2> QED
      BY <1>1, <2>1, <2>2, CalmControl
  <1>4. CASE mode # "idle" /\ ~(Len(reading) > 1)
    <2>1. PICK o \in DoCancel : /\ CancelInput(o)
                       /\ IF o.ok \/ mode = "editing" THEN q' = Done(q, o.endp) /\ More
                          ELSE q' = Failed(q) /\ Stop
      BY <1>4 DEF DrainBackspace
    <2>2. pend' = 0
      BY <1>0, <2>1, CancelPend DEF CancelInput
    <2>3. WinOK' /\ pc' \in {"idle", "drain"}
      BY <1>0, <2>1 DEF CancelInput, ResetInput, edit, WinOK, Stop, More
    <2> QED
      BY <1>1, <2>2, <2>3, CalmControl
  <1> QED
    BY <1>2, <1>3, <1>4

LEMMA DrainCandidateControl ==
  ASSUME Draining, DrainCandidate
  PROVE  Control'
  <1>1. pend = 0 /\ snap = FALSE
    BY NoSnapInDrain, FrontElse DEF Draining, Control, Base, DrainCandidate
  <1>0. TypeOK /\ SlotsOK /\ WinOK /\ q \in Queue /\ ~q.lost /\ ~q.failed /\ redraw = FALSE
        /\ reading \in Seq(Chars)
    BY Typed DEF Draining, Base, Control, Runs
  <1>2. pc' = "drain" /\ UNCHANGED pend
    BY DEF DrainCandidate, More
  <1>3. CASE mode = "converting"
    <2>1. Space /\ UNCHANGED snap
      BY <1>3 DEF DrainCandidate
    <2>2. WinOK'
      BY <1>3, <2>1 DEF WinOK, Space
    <2> QED
      BY <1>1, <1>2, <2>1, <2>2, CalmControl
  <1>4. CASE mode = "editing"
    <2>1. CASE mode' = "converting" /\ UNCHANGED <<reading, window, snap>>
      BY <1>1, <1>2, <2>1, CalmControl DEF WinOK
    <2>2. CASE q' = CompleteFront(BeginWait(q, {reading})) /\ snap' = TRUE /\ UNCHANGED <<edit, open>>
      <3>1. {reading} \in SUBSET Seq(Chars)
        BY <1>0
      <3> PICK texts \in SUBSET Seq(Chars) : texts = {reading}
        BY <3>1
      <3> PICK y : y = BeginWait(q, texts)
        OBVIOUS
      <3>2. y \in Queue /\ y.waiting /\ y.failed = q.failed /\ y.lost = q.lost
        BY <1>0, BeginWaitFacts DEF SameOwner
      <3>3. FrontGone(CompleteFront(y), y) /\ CompleteFront(y).failed = y.failed
        BY <3>2, CompleteFacts
      <3>4. q'.waiting /\ ~q'.failed /\ ~q'.lost
        BY <1>0, <2>2, <3>2, <3>3 DEF FrontGone, SameOwner
      <3>5. SnapOK'
        BY <1>0, <1>1, <1>2, <1>4, <2>2, <3>4 DEF SnapOK, edit
      <3> QED
        BY <1>0, <1>1, <1>2, <2>2, <3>5, NonePending DEF Control, DirectOK, WinOK, edit
    <2> QED
      BY <1>4, <2>1, <2>2 DEF DrainCandidate, Convert
  <1>5. CASE mode \notin {"converting", "editing"}
    <2>1. UNCHANGED <<edit, open, snap>>
      BY <1>5 DEF DrainCandidate
    <2> QED
      BY <1>0, <1>1, <1>2, <2>1, CalmControl DEF WinOK, edit
  <1> QED
    BY <1>3, <1>4, <1>5

LEMMA StaledFields ==
  ASSUME NEW o \in Result, o.pend \in Slots
  PROVE  LET z == [o EXCEPT !.req[o.pend].stale = TRUE]
         IN  /\ z.pend = o.pend /\ z.req[o.pend].stale
             /\ z.req[o.pend].body = o.req[o.pend].body /\ z.req[o.pend].ctx = o.req[o.pend].ctx
             /\ z.req[o.pend].owned = o.req[o.pend].owned
             /\ z.req[o.pend].applied = o.req[o.pend].applied
  <1>1. o.req \in [Slots -> Request]
    BY DEF Result, Sessions
  <1> QED
    BY <1>1 DEF Result, Request

(* A commit just asked for.                                                *)
LEMMA AskedControl ==
  ASSUME snap' = FALSE, pc' = "idle", WinOK', pend' \in Slots,
         FrontIs(q', {"Commit"}), ~q'.lost, mode' # "idle", redraw' = FALSE,
         req'[pend'].ctx = ctx', req'[pend'].body = CommitBody', ~req'[pend'].applied,
         RequestWaits(req'[pend']) => q'.waiting /\ ~q'.failed
  PROVE  Control'
  <1>1. PendOK'
    BY DEF PendOK, RequestWaits
  <1> QED
    BY <1>1 DEF Control, DirectOK, SnapOK

LEMMA DrainCommitControl ==
  ASSUME Draining, UNCHANGED snap, DrainCommit
  PROVE  Control'
  <1>1. snap = FALSE /\ redraw = FALSE /\ ~q.lost /\ ~q.waiting /\ ~q.failed
        /\ FrontIs(q, {"Commit"})
    BY NoSnapInDrain DEF Draining, Base, Runs, DrainCommit, TypeOK
  <1>0. TypeOK /\ SlotsOK /\ q \in Queue /\ reading \in Seq(Chars) /\ WinOK /\ PendOK
        /\ ctx' = ctx /\ CommitBody \in Seq(Chars) /\ pend \in Slots \cup {0}
        /\ q.waiting \in BOOLEAN /\ q.failed \in BOOLEAN
    BY Typed, QueueFields, BodyTyped DEF Draining, Base, Control, DrainFrame
  <1>2. CASE mode = "idle"
    <2>1. UNCHANGED <<edit, tsf>> /\ pc' = "drain"
      BY <1>2 DEF DrainCommit, More
    <2>2. pend = 0
      BY <1>0, <1>2 DEF PendOK
    <2> QED
      BY <1>0, <1>1, <2>1, <2>2, CalmControl DEF WinOK, edit, tsf
  <1>3. CASE mode # "idle"
    <2>1. PICK o \in DoCommit(CommitBody, TRUE) :
             IF o.ok
             THEN /\ Take(o) /\ ResetInput /\ More
             ELSE /\ UNCHANGED edit /\ Stop
                  /\ IF o.pend # 0 /\ RequestWaits(o.req[o.pend])
                       THEN \/ Take(o) /\ q' = [q EXCEPT !.waiting = TRUE]
                            \/ /\ Take([o EXCEPT !.req[o.pend].stale = TRUE])
                               /\ q' = Failed(q)
                       ELSE Take(o) /\ q' = Failed(q)
      BY <1>3 DEF DrainCommit
    <2> PICK yes \in BOOLEAN : yes = TRUE
      OBVIOUS
    <2>2. FreshAnswer(o, CommitBody, yes) \/ KeptAnswer(o, CommitBody) \/ AppliedAnswer(o, CommitBody)
      BY <1>0, <2>1, CommitFacts
    <2>3. CASE o.ok
      <3>1. Take(o) /\ ResetInput /\ pc' = "drain" /\ o.pend = 0
        BY <2>1, <2>2, <2>3 DEF More, FreshAnswer, KeptAnswer, AppliedAnswer, Idle
      <3> QED
        BY <3>1, <1>1, CalmControl DEF Take, ResetInput, WinOK
    <2>4. CASE ~o.ok
      <3>1. UNCHANGED edit /\ pc' = "idle" /\ UNCHANGED redraw /\ WinOK' /\ o \in Result
        BY <2>1, <2>2, <2>4, <1>0 DEF Stop, WinOK, edit, FreshAnswer, KeptAnswer, AppliedAnswer
      <3>2. CASE o.pend = 0
        <4>1. Take(o)
          BY <2>1, <2>4, <3>2
        <4> QED
          BY <3>1, <3>2, <4>1, <1>1, CalmControl DEF Take
      <3>3. CASE FreshAnswer(o, CommitBody, yes) /\ o.pend # 0
        <4>1. Asked(o, CommitBody)
          BY <2>4, <3>3 DEF FreshAnswer, Idle
        <4>2. /\ o.pend \in Slots /\ o.req[o.pend].body = CommitBody /\ o.req[o.pend].ctx = ctx
              /\ ~o.req[o.pend].applied
          BY <4>1 DEF Asked
        <4>3. /\ pend' = o.pend /\ req'[o.pend].body = CommitBody /\ req'[o.pend].ctx = ctx
              /\ ~req'[o.pend].applied
              /\ q' = [q EXCEPT !.waiting = TRUE] \/ (q' = Failed(q) /\ ~RequestWaits(req'[o.pend]))
          <5>1. CASE Take(o) /\ q' = [q EXCEPT !.waiting = TRUE]
            BY <5>1, <4>2 DEF Take
          <5>2. CASE Take([o EXCEPT !.req[o.pend].stale = TRUE]) /\ q' = Failed(q)
            <6> PICK z : z = [o EXCEPT !.req[o.pend].stale = TRUE]
              OBVIOUS
            <6>1. /\ z.pend = o.pend /\ z.req[o.pend].stale
                  /\ z.req[o.pend].body = o.req[o.pend].body /\ z.req[o.pend].ctx = o.req[o.pend].ctx
                  /\ z.req[o.pend].applied = o.req[o.pend].applied
              BY <3>1, <4>2, StaledFields
            <6>2. Take(z) /\ q' = Failed(q)
              BY <5>2
            <6> QED
              BY <6>1, <6>2, <4>2 DEF Take, RequestWaits
          <5>3. CASE Take(o) /\ q' = Failed(q) /\ ~RequestWaits(o.req[o.pend])
            BY <5>3, <4>2 DEF Take
          <5> QED
            BY <5>1, <5>2, <5>3, <2>1, <2>4, <3>3
        <4>4. /\ q'.acts = q.acts /\ q'.lost = q.lost /\ q'.initial = q.initial
              /\ RequestWaits(req'[o.pend]) => q'.waiting /\ ~q'.failed
          <5>1. CASE q' = [q EXCEPT !.waiting = TRUE]
            BY <5>1, <1>0, <1>1 DEF Queue, LongQueue
          <5>2. CASE q' = Failed(q) /\ ~RequestWaits(req'[o.pend])
            BY <5>2, <1>0, FailedFacts DEF SameOwner
          <5> QED
            BY <4>3, <5>1, <5>2
        <4>5. CommitBody' = CommitBody
          BY <3>1, <4>4, BodyStays DEF edit
        <4> QED
          BY <1>0, <1>1, <1>3, <3>1, <4>2, <4>3, <4>4, <4>5, AskedControl DEF FrontIs, edit
      <3>4. CASE KeptAnswer(o, CommitBody)
        <4>1. pend # 0 /\ o.pend = pend /\ o.req = Tidy(req, pend)
              /\ (~req[pend].owned \/ req[pend].ctx # ctx \/ req[pend].body # CommitBody
                   \/ RequestWaits(req[pend]))
          BY <3>4 DEF KeptAnswer
        <4>2. ~RequestWaits(req[pend]) /\ ~req[pend].owned /\ ~req[pend].applied
          BY <4>1, <1>0, <1>1 DEF PendOK
        <4>3. o.req[pend] = req[pend]
          BY <4>1, <1>0, Typed, TidyFacts
        <4>4. Take(o) /\ q' = Failed(q)
          BY <4>1, <4>2, <4>3, <2>1, <2>4
        <4>5. pend' = pend /\ req'[pend] = req[pend]
          BY <4>1, <4>3, <4>4 DEF Take
        <4>6. q'.acts = q.acts /\ q'.lost = q.lost /\ q'.initial = q.initial
          BY <4>4, <1>0, FailedFacts DEF SameOwner
        <4>7. CommitBody' = CommitBody
          BY <3>1, <4>6, BodyStays DEF edit
        <4>8. pend' \in Slots /\ ~RequestWaits(req'[pend'])
          BY <4>1, <4>2, <4>5, <1>0
        <4>9. req'[pend'].ctx = ctx' /\ req'[pend'].body = CommitBody' /\ ~req'[pend'].applied
          BY <4>1, <4>2, <4>5, <4>7, <1>0 DEF PendOK
        <4>10. FrontIs(q', {"Commit"}) /\ ~q'.lost /\ mode' # "idle" /\ redraw' = FALSE
          BY <4>6, <1>1, <1>3, <3>1 DEF FrontIs, edit
        <4> QED
          BY <1>1, <3>1, <4>8, <4>9, <4>10, AskedControl
      <3> QED
        BY <2>2, <2>4, <3>2, <3>3, <3>4 DEF AppliedAnswer
    <2> QED
      BY <2>3, <2>4
  <1> QED
    BY <1>2, <1>3

LEMMA DrainControl == ASSUME Base, Control, Drain PROVE Control'
  <1>1. pc = "drain" /\ DrainFrame
    BY DEF Drain, DrainFrame
  <1>2. CASE DrainStops /\ UNCHANGED snap
    BY <1>1, <1>2, DrainStopsControl
  <1>3. CASE Runs /\ DrainRedraws /\ UNCHANGED snap
    BY <1>1, <1>3, DrainRedrawsControl
  <1>4. CASE Runs /\ ~redraw /\ UNCHANGED snap
             /\ (DrainPrepends \/ DrainExhausts \/ DrainCommit \/ DrainInsert \/ DrainDirect
                  \/ DrainCancel \/ DrainBackspace \/ DrainMove)
    <2>1. Draining
      BY <1>1, <1>4 DEF Draining
    <2> QED
      BY <1>4, <2>1, DrainPlainControl, DrainCommitControl, DrainDirectControl,
         DrainCancelControl, DrainBackspaceControl
  <1>5. CASE Runs /\ ~redraw /\ DrainCandidate
    <2>1. Draining
      BY <1>1, <1>5 DEF Draining
    <2> QED
      BY <1>5, <2>1, DrainCandidateControl
  <1> QED
    BY <1>2, <1>3, <1>4, <1>5 DEF Drain

LEMMA CommitHeads ==
  ASSUME PendOK, pend # 0, TypeOK
  PROVE  Headed = q /\ HasCommit(q)
  <1>1. q.acts # <<>> /\ Head(q.acts).op = "Commit" /\ q.acts \in Seq(Action)
    BY Typed, QueueFields DEF PendOK, FrontIs
  <1>2. 1 \in 1..Len(q.acts) /\ q.acts[1] = Head(q.acts)
    BY <1>1
  <1> QED
    BY <1>1, <1>2 DEF Headed, FrontIs, TextOps, HasCommit, Has

LEMMA SnapHeads ==
  ASSUME SnapOK, snap
  PROVE  Headed = q
  BY DEF SnapOK, Headed

(* What a key that the queue does not take finds.                          *)
LEMMA PlainKey ==
  ASSUME Control, TypeOK, NEW op, ~WaitTakes(op)
  PROVE  /\ ~q.lost /\ ~q.failed
         /\ ~endp.on => pend = 0 /\ snap = FALSE /\ redraw = FALSE /\ window # "loading"
  <1>0. q \in Queue /\ snap \in BOOLEAN /\ redraw \in BOOLEAN /\ pend \in Slots \cup {0}
    BY Typed
  <1>1. q.failed => Headed.failed
    BY <1>0, HeadedFacts
  <1>2. ~q.lost /\ ~q.failed
    BY <1>1, NotLost DEF WaitTakes, Claims, Awaited
  <1>3. ~endp.on => pend = 0 /\ snap = FALSE /\ redraw = FALSE /\ window # "loading"
    BY <1>0, CommitHeads DEF WaitTakes, Awaited, Control
  <1> QED
    BY <1>2, <1>3

LEMMA StaysControl ==
  ASSUME Control, snap = FALSE, pend = 0, UNCHANGED <<snap, pend, mode, window>>, pc' # "direct"
  PROVE  Control'
  BY CalmControl DEF Control, WinOK

LEMMA WaitHeadStuckControl ==
  ASSUME Base, Control, NEW a, KeyFrame(a), WaitHeadStuck(a)
  PROVE  Control'
  <1>1. pend = 0 /\ snap = FALSE
    BY FrontElse DEF Base, TypeOK, Control, SnapOK, WaitHeadStuck, HeadStuck, TextOps
  <1> QED
    BY <1>1, StaysControl DEF WaitHeadStuck, edit, tsf, KeyFrame

LEMMA WaitLostControl ==
  ASSUME Base, Control, NEW a, KeyFrame(a), WaitLost(a)
  PROVE  Control'
  <1>1. pend = 0 /\ snap = FALSE
    BY DEF Base, TypeOK, Control, SnapOK, PendOK, WaitLost
  <1> QED
    BY <1>1, StaysControl DEF WaitLost, edit, tsf, KeyFrame

LEMMA WaitCancelsFailureControl ==
  ASSUME Base, Control, NEW a, KeyFrame(a), WaitCancelsFailure(a)
  PROVE  Control'
  <1>1. snap = FALSE /\ snap' = snap /\ pc' = pc /\ pc = "idle"
    BY SnapHeads DEF Base, TypeOK, Control, SnapOK, WaitCancelsFailure, KeyFrame
  <1>2. PICK o \in DoCancel : Take(o) /\ IF o.ok THEN ResetInput ELSE UNCHANGED edit
    BY DEF WaitCancelsFailure
  <1>3. pend' = 0
    BY <1>2, CancelPend DEF Base
  <1>4. WinOK'
    BY <1>2 DEF Control, WinOK, ResetInput, edit
  <1> QED
    BY <1>1, <1>3, <1>4, CalmControl

LEMMA WaitGivesUpSnapshotControl ==
  ASSUME Base, Control, NEW a, KeyFrame(a), WaitGivesUpSnapshot(a)
  PROVE  Control'
  <1>1. pend = 0 /\ snap' = FALSE /\ pend' = pend /\ UNCHANGED <<mode, window>>
    BY DEF Control, SnapOK, WaitGivesUpSnapshot, edit
  <1>2. pc' # "direct"
    BY DEF WaitGivesUpSnapshot, Stop, More
  <1> QED
    BY <1>1, <1>2, CalmControl DEF Control, WinOK

LEMMA WaitRetriesControl ==
  ASSUME Base, Control, NEW a, KeyFrame(a), WaitRetries(a)
  PROVE  Control'
  <1>0. TypeOK /\ q \in Queue /\ PendOK /\ snap \in BOOLEAN /\ req \in Sessions
        /\ pend \in Slots \cup {0} /\ endp \in Ending /\ Headed \in Queue
    BY Typed, HeadedFacts DEF Base, Control
  <1>1. snap = FALSE
    BY <1>0, SnapHeads DEF Control, SnapOK, WaitRetries
  <1>2. PICK f \in FinishEnd(endp) :
           /\ req' = Disowned(req, pend, f.bump)
           /\ IF f.ok THEN q' = [Headed EXCEPT !.failed = FALSE] /\ More
              ELSE q' = Headed /\ Stop
    BY DEF WaitRetries
  <1>3. UNCHANGED <<edit, snap, pend>> /\ Headed.failed /\ ctx' = ctx
    BY DEF WaitRetries, KeyFrame
  <1>4. pc' \in {"idle", "drain"}
    BY <1>2 DEF Stop, More
  <1>5. PendOK'
    <2> SUFFICES ASSUME pend # 0 PROVE PendOK'
      BY <1>3, NonePending
    <2>1. Headed = q /\ q.failed /\ ~req[pend].applied /\ ~RequestWaits(req[pend])
      BY <1>0, <1>3, CommitHeads DEF PendOK
    <2>2. q'.acts = q.acts /\ q'.lost = q.lost /\ q'.initial = q.initial
      BY <1>0, <1>2, <2>1 DEF Queue, LongQueue
    <2>3. f.bump \in BOOLEAN /\ pend \in Slots
      BY <1>0, <1>2, FinishFacts
    <2>4. /\ req'[pend].body = req[pend].body /\ req'[pend].ctx = req[pend].ctx
          /\ req'[pend].applied = req[pend].applied
          /\ req'[pend].stale = req[pend].stale /\ req'[pend].past = req[pend].past
      BY <1>0, <1>2, <2>3, DisownedFacts
    <2>5. ~RequestWaits(req'[pend]) /\ ~req'[pend].applied
      BY <2>1, <2>4 DEF RequestWaits
    <2>6. FrontIs(q', {"Commit"}) /\ ~q'.lost
      BY <2>2, <1>0 DEF FrontIs, PendOK
    <2> QED
      BY <1>0, <1>3, <2>2, <2>4, <2>5, <2>6, PendKeeps DEF edit
  <1> QED
    BY <1>1, <1>3, <1>4, <1>5 DEF Control, DirectOK, SnapOK, WinOK, edit

LEMMA PollPendingControl ==
  ASSUME Base, Control, pend # 0, PollPending, pc' = "drain",
         UNCHANGED <<reading, mode, redraw, window, ctx>>
  PROVE  Control'
  <1>0. TypeOK /\ q \in Queue /\ PendOK /\ snap = FALSE /\ req \in Sessions
        /\ pend \in Slots
    BY Typed DEF Base, Control, SnapOK
  <1>1. CASE ~req[pend].owned
    <2>1. pend' = 0 /\ snap' = FALSE
      BY <1>1 DEF PollPending, RetireOwner
    <2> QED
      BY <2>1, CalmControl DEF Control, WinOK
  <1>2. CASE req[pend].owned
    <2> PICK over : over = [q EXCEPT !.waiting = FALSE]
      OBVIOUS
    <2>1. over \in Queue /\ over.acts = q.acts /\ over.lost = q.lost /\ over.failed = q.failed
          /\ over.initial = q.initial /\ ~over.waiting
      BY <1>0, UnwaitedFacts DEF WaitEnded, SameOwner, Queue, LongQueue
    <2>2. /\ IF q.failed \/ RequestWaits(req[pend]) THEN UNCHANGED <<q, req>>
                ELSE IF req[pend].applied THEN q' = over /\ UNCHANGED req
                ELSE q' = Failed(over) /\ req' = Revoked(req, pend)
          /\ UNCHANGED <<pend, snap>>
      BY <1>2 DEF PollPending
    <2>3. PendOK'
      <3>1. CASE q.failed \/ RequestWaits(req[pend])
        BY <1>0, <1>2, <2>2, <3>1, PendKeeps DEF PendOK
      <3>2. CASE ~(q.failed \/ RequestWaits(req[pend])) /\ req[pend].applied
        <4>1. ~RequestWaits(req[pend])
          BY <3>2
        <4> QED
          BY <1>0, <1>2, <2>1, <2>2, <3>2, <4>1, PendKeeps DEF PendOK, FrontIs
      <3>3. CASE ~(q.failed \/ RequestWaits(req[pend])) /\ ~req[pend].applied
        <4>1. q' = Failed(over) /\ req' = Revoked(req, pend)
          BY <2>2, <3>3
        <4>2. q'.acts = q.acts /\ q'.lost = q.lost /\ q'.initial = q.initial
          BY <2>1, <4>1, FailedFacts DEF SameOwner
        <4>3. /\ req'[pend].body = req[pend].body /\ req'[pend].ctx = req[pend].ctx
              /\ ~req'[pend].applied /\ req'[pend].stale
          BY <1>0, <3>3, <4>1, RevokedFacts
        <4>4. ~RequestWaits(req'[pend]) /\ FrontIs(q', {"Commit"}) /\ ~q'.lost
          BY <1>0, <4>2, <4>3 DEF RequestWaits, FrontIs, PendOK
        <4> QED
          BY <1>0, <2>2, <4>2, <4>3, <4>4, PendKeeps
      <3> QED
        BY <3>1, <3>2, <3>3
    <2> QED
      BY <1>0, <2>2, <2>3 DEF Control, DirectOK, SnapOK, WinOK
  <1> QED
    BY <1>1, <1>2

LEMMA FailConversionWaitControl ==
  ASSUME Base, Control, FailConversionWait, pc' = "drain",
         UNCHANGED <<reading, mode, redraw, ctx>>
  PROVE  Control'
  <1>1. CASE pend # 0
    BY <1>1, PollPendingControl DEF FailConversionWait
  <1>2. CASE pend = 0
    BY <1>2, CalmControl DEF FailConversionWait, WinOK
  <1> QED
    BY <1>1, <1>2

(* The queue takes a key.                                                  *)
LEMMA AdmitsControl ==
  ASSUME Base, Control, NEW x \in Queue, NEW a \in Action, x = q \/ (~snap /\ pend = 0),
         q' = Admitted(x, a), IF snap THEN Stop ELSE More, pc = "idle",
         UNCHANGED <<reading, mode, redraw, window, ctx, snap, req, pend>>
  PROVE  Control'
  <1>0. TypeOK /\ q \in Queue /\ PendOK /\ SnapOK /\ WinOK
    BY Typed DEF Base, Control
  <1>1. SameOwner(q', x) /\ SameWait(q', x) /\ (FrontIs(x, {"Commit"}) => FrontIs(q', {"Commit"}))
    BY AdmittedFacts
  <1>2. PendOK'
    <2> SUFFICES ASSUME pend # 0 PROVE PendOK'
      BY NonePending
    <2>1. FrontIs(q', {"Commit"}) /\ q'.lost = q.lost /\ q'.waiting = q.waiting
          /\ q'.failed = q.failed /\ q'.initial = q.initial
      BY <1>0, <1>1 DEF PendOK, SameOwner, SameWait
    <2>2. pc # "drain"
      OBVIOUS
    <2> QED
      BY <1>0, <2>1, <2>2, PendKeeps DEF PendOK
  <1>3. pc' \in {"idle", "drain"} /\ (snap => pc' = "idle")
    BY DEF Stop, More
  <1>4. SnapOK'
    BY <1>0, <1>1, <1>3 DEF SnapOK, SameOwner, SameWait
  <1> QED
    BY <1>0, <1>2, <1>3, <1>4 DEF Control, DirectOK, WinOK

LEMMA WaitAdmitsControl ==
  ASSUME Base, Control, NEW a, KeyFrame(a), WaitAdmits(a)
  PROVE  Control'
  <1>0. TypeOK /\ q \in Queue /\ Headed \in Queue /\ a \in Action /\ pc = "idle"
        /\ UNCHANGED <<reading, mode, redraw, ctx>>
    BY Typed, HeadedFacts DEF Base, KeyFrame, Fresh, WaitAdmits
  <1>1. CASE CanAdmit(Headed, a.op)
    <2>1. /\ q' = Admitted(Headed, a) /\ (IF snap THEN Stop ELSE More)
          /\ UNCHANGED <<window, snap, req, pend>>
      BY <1>1 DEF WaitAdmits
    <2>2. Headed = q \/ (~snap /\ pend = 0)
      BY <1>0, CommitHeads, SnapHeads DEF Control
    <2> QED
      BY <1>0, <2>1, <2>2, AdmitsControl
  <1>2. CASE ~CanAdmit(Headed, a.op)
    BY <1>0, <1>2, FailConversionWaitControl DEF WaitAdmits, More
  <1> QED
    BY <1>1, <1>2

LEMMA WaitLoadingControl ==
  ASSUME Base, Control, NEW a, KeyFrame(a), NEW how, WaitLoading(a, how)
  PROVE  Control'
  <1>0. TypeOK /\ snap \in BOOLEAN /\ pend \in Slots \cup {0}
    BY Typed DEF Base
  <1>1. snap = FALSE
    BY <1>0 DEF Control, WinOK, SnapOK, WaitLoading
  <1>2. pend = 0
    <2> SUFFICES ASSUME pend # 0 PROVE FALSE
      OBVIOUS
    <2>1. HasCommit(Headed)
      BY <1>0, CommitHeads DEF Control
    <2>2. how = "Defer"
      BY <2>1 DEF WaitLoading, Disposition
    <2> QED
      BY <2>2 DEF WaitLoading
  <1>3. pend' = pend /\ snap' = snap /\ window' = "closed" /\ pc' # "direct"
    BY DEF WaitLoading, Stop, More
  <1> QED
    BY <1>1, <1>2, <1>3, CalmControl DEF WinOK

LEMMA WaitKeyControl ==
  ASSUME Base, Control, NEW a, KeyFrame(a), WaitKey(a)
  PROVE  Control'
  BY WaitHeadStuckControl, WaitLostControl, WaitCancelsFailureControl, WaitGivesUpSnapshotControl,
     WaitRetriesControl, WaitAdmitsControl, WaitLoadingControl DEF WaitKey

LEMMA AdmitParkedControl ==
  ASSUME Base, Control, AdmitParked
  PROVE  Control'
  <1>0. TypeOK /\ q \in Queue /\ pc = "idle" /\ parked \in Action
    BY Typed DEF Base, AdmitParked
  <1>1. UNCHANGED <<reading, mode, redraw, window, ctx, snap, req, pend>>
    BY DEF AdmitParked, edit, tsf
  <1>2. CASE CanAdmit(q, parked.op)
    BY <1>0, <1>1, <1>2, AdmitsControl DEF AdmitParked
  <1>3. CASE ~CanAdmit(q, parked.op)
    <2>1. q' = q /\ pc' = pc
      BY <1>3 DEF AdmitParked
    <2>2. PendOK'
      BY <1>0, <1>1, <2>1, PendKeeps DEF Control, PendOK
    <2> QED
      BY <1>0, <1>1, <2>1, <2>2 DEF Control, DirectOK, SnapOK, WinOK
  <1> QED
    BY <1>2, <1>3

(* A commit that nothing may answer later leaves no commit in flight.      *)
LEMMA PlainCommit ==
  ASSUME TypeOK, SlotsOK, pend = 0, NEW body \in Seq(Chars), NEW o \in DoCommit(body, FALSE)
  PROVE  o.pend = 0 /\ FreshAnswer(o, body, FALSE)
  <1> PICK no \in BOOLEAN : no = FALSE
    OBVIOUS
  <1>1. FreshAnswer(o, body, no)
    BY CommitFacts DEF KeptAnswer, AppliedAnswer
  <1> QED
    BY <1>1 DEF FreshAnswer, Idle

LEMMA DirectAfterSettleControl ==
  ASSUME Base, Control, DirectAfterSettle
  PROVE  Control'
  <1>0. TypeOK /\ SlotsOK /\ pc = "direct" /\ snap \in BOOLEAN
    BY Typed DEF Base, DirectAfterSettle
  <1>1. parked.ch \in Chars
    <2>1. parked.ch # 0 /\ parked.op \in TextOps
      BY <1>0 DEF Base, ParkedOK
    <2> QED
      BY <1>0, <2>1, Typed, ActionFacts, NoActFacts
  <1> PICK x \in Chars : x = parked.ch
    BY <1>1
  <1>2. <<x>> \in Seq(Chars)
    OBVIOUS
  <1>3. PICK o \in DoCommit(<<x>>, FALSE) : Take([o EXCEPT !.doc = Write(<<x>>)])
    BY DEF DirectAfterSettle
  <1>4. o.pend = 0 /\ pend' = o.pend
    BY <1>0, <1>2, <1>3, PlainCommit, DirectFacts DEF Control, DirectOK
  <1>5. UNCHANGED <<q, edit, snap, ctx>> /\ pc' = "idle"
    BY DEF DirectAfterSettle
  <1>6. PendOK'
    BY <1>4, NonePending
  <1>7. SnapOK' /\ WinOK'
    BY <1>4, <1>5 DEF Control, SnapOK, WinOK, edit
  <1> QED
    BY <1>5, <1>6, <1>7 DEF Control, DirectOK

LEMMA EndKeyControl ==
  ASSUME Base, Control, NEW a, KeyFrame(a), ~WaitTakes(a.op), EndKey(a)
  PROVE  Control'
  <1>0. TypeOK /\ q \in Queue /\ pc = "idle" /\ ctx' = ctx /\ snap' = snap /\ pc' = pc
        /\ req \in Sessions /\ pend \in Slots \cup {0} /\ endp \in Ending
    BY Typed DEF Base, KeyFrame, EndKey
  <1>1. CASE a.op = "Cancel" /\ endp.caret
    <2>1. PICK o \in DoCancel : Take(o) /\ IF o.ok THEN ResetInput ELSE UNCHANGED edit
      BY <1>1 DEF EndKey
    <2>2. pend' = 0
      BY <2>1, CancelPend DEF Base
    <2>3. q' = EmptyQueue
      BY <1>1 DEF EndKey
    <2>4. SnapOK'
      BY <1>0, <2>1, <2>2, <2>3, EmptyQueueFacts DEF Control, SnapOK, ResetInput, edit
    <2>5. WinOK'
      BY <2>1 DEF Control, WinOK, ResetInput, edit
    <2> QED
      BY <1>0, <2>2, <2>4, <2>5, NonePending DEF Control, DirectOK
  <1>2. CASE ~(a.op = "Cancel" /\ endp.caret)
    <2>1. PICK f \in FinishEnd(endp) : req' = Disowned(req, pend, f.bump)
      BY <1>2 DEF EndKey
    <2>2. UNCHANGED <<q, edit, pend>>
      BY <1>2 DEF EndKey
    <2>3. PendOK'
      <3> SUFFICES ASSUME pend # 0 PROVE PendOK'
        BY <2>2, NonePending
      <3>1. f.bump \in BOOLEAN /\ pend \in Slots
        BY <1>0, <2>1, FinishFacts
      <3>2. /\ req'[pend].body = req[pend].body /\ req'[pend].ctx = req[pend].ctx
            /\ req'[pend].applied = req[pend].applied
            /\ req'[pend].stale = req[pend].stale /\ req'[pend].past = req[pend].past
        BY <1>0, <2>1, <3>1, DisownedFacts
      <3>3. RequestWaits(req'[pend]) = RequestWaits(req[pend])
        BY <3>2 DEF RequestWaits
      <3> QED
        BY <1>0, <2>2, <3>2, <3>3, PendKeeps DEF Control, PendOK, edit
    <2> QED
      BY <1>0, <2>2, <2>3 DEF Control, DirectOK, SnapOK, WinOK, edit
  <1> QED
    BY <1>1, <1>2

PlainFrame(a) == /\ Base /\ Control /\ KeyFrame(a) /\ ~q.lost /\ ~q.failed
                 /\ pend = 0 /\ snap = FALSE /\ redraw = FALSE /\ window # "loading"

LEMMA ConvertingKeyControl ==
  ASSUME NEW a, PlainFrame(a), ConvertingKey(a)
  PROVE  Control'
  <1>1. snap' = FALSE /\ pend' = 0
    BY DEF PlainFrame, ConvertingKey
  <1>2. CASE a.op \in TextOps \cup {"Commit", "Backspace"}
    <2>1. mode' = mode /\ mode = "converting" /\ pc' = "drain"
      BY <1>2 DEF ConvertingKey, More, TextOps
    <2> QED
      BY <1>1, <2>1, CalmControl DEF WinOK
  <1>3. CASE a.op = "Candidate"
    <2>1. Space /\ pc' = "idle" /\ mode = "converting"
      BY <1>3 DEF ConvertingKey, Stop, TextOps
    <2> QED
      BY <1>1, <2>1, CalmControl DEF WinOK, Space
  <1>4. CASE a.op = "Cancel"
    <2>1. Escape /\ pc' = "idle"
      BY <1>4 DEF ConvertingKey, Stop, TextOps
    <2> QED
      BY <1>1, <2>1, CalmControl DEF WinOK, Escape
  <1>5. CASE a.op \notin TextOps \cup {"Commit", "Backspace", "Candidate", "Cancel"}
    <2>1. window' = "closed" /\ pc' = "idle"
      BY <1>5 DEF ConvertingKey, Stop
    <2> QED
      BY <1>1, <2>1, CalmControl DEF WinOK
  <1> QED
    BY <1>2, <1>3, <1>4, <1>5

LEMMA InputCharControl ==
  ASSUME NEW a, PlainFrame(a), InputChar(a)
  PROVE  Control'
  BY CalmControl DEF PlainFrame, InputChar, KeyFrame, Control, WinOK

LEMMA CommitCharDirectControl ==
  ASSUME NEW a, PlainFrame(a), CommitCharDirect(a)
  PROVE  Control'
  <1>0. TypeOK /\ SlotsOK /\ IdleIsEmpty /\ pend = 0 /\ snap' = FALSE /\ reading \in Seq(Chars)
        /\ q' = q /\ pc = "idle" /\ WinOK /\ a \in Action /\ a.op = "Direct" /\ ~q.lost
    BY Typed DEF PlainFrame, Base, Control, CommitCharDirect, KeyFrame, Fresh
  <1>1. CASE mode = "idle"
    <2>1. a.ch \in Chars
      BY <1>0, ActionFacts DEF TextOps
    <2> PICK x \in Chars : x = a.ch
      BY <2>1
    <2>2. <<x>> \in Seq(Chars)
      OBVIOUS
    <2>3. PICK o \in DoCommit(<<x>>, FALSE) : Take([o EXCEPT !.doc = Write(<<x>>)])
      BY <1>1 DEF CommitCharDirect
    <2>4. o.pend = 0 /\ pend' = o.pend
      BY <1>0, <2>2, <2>3, PlainCommit, DirectFacts
    <2>5. UNCHANGED <<edit, pc>>
      BY <1>1 DEF CommitCharDirect
    <2> QED
      BY <1>0, <2>4, <2>5, CalmControl DEF WinOK, edit
  <1>2. CASE mode # "idle"
    <2>1. PICK o \in DoCommit(reading, FALSE) :
                   /\ Take(o)
                   /\ IF o.ok THEN ResetInput ELSE UNCHANGED edit
                   /\ IF o.ok /\ ~o.endp.on THEN pc' = "direct" /\ parked' = a
                      ELSE UNCHANGED <<pc, parked>>
      BY <1>2 DEF CommitCharDirect
    <2>2. pend' = 0 /\ open' = o.open
      BY <1>0, <2>1, PlainCommit DEF Take
    <2>3. WinOK'
      BY <1>0, <2>1 DEF WinOK, ResetInput, edit
    <2>4. CASE o.ok /\ ~o.endp.on
      <3>1. ~o.open
        BY <1>0, <2>1, <2>4, SettleFacts
      <3>2. DirectOK'
        BY <1>0, <2>1, <2>2, <2>4, <3>1 DEF DirectOK, ResetInput
      <3> QED
        BY <1>0, <2>2, <2>3, <3>2, NonePending DEF Control, SnapOK
    <2>5. CASE ~(o.ok /\ ~o.endp.on)
      BY <1>0, <2>1, <2>2, <2>3, <2>5, CalmControl
    <2> QED
      BY <2>4, <2>5
  <1> QED
    BY <1>1, <1>2

LEMMA EditingKeyControl ==
  ASSUME NEW a, PlainFrame(a), EditingKey(a)
  PROVE  Control'
  <1>0. /\ TypeOK /\ SlotsOK /\ pend = 0 /\ snap = FALSE /\ redraw = FALSE /\ pc' = "idle"
        /\ reading \in Seq(Chars) /\ WinOK /\ mode = "editing" /\ ~q.lost /\ ~q.failed /\ q \in Queue
    BY Typed DEF PlainFrame, Base, Control, EditingKey, KeyFrame
  <1>1. ASSUME NEW o \in DoCancel, CancelInput(o), snap' = snap PROVE Control'
    <2>1. pend' = 0
      BY <1>0, <1>1, CancelPend DEF CancelInput
    <2>2. WinOK'
      BY <1>0, <1>1 DEF CancelInput, ResetInput, edit, WinOK
    <2> QED
      BY <1>0, <1>1, <2>1, <2>2, CalmControl
  <1>2. CASE a.op = "Commit"
    <2>1. PICK o \in DoCommit(reading, FALSE) :
            Take(o) /\ (IF o.ok THEN ResetInput ELSE UNCHANGED edit)
      BY <1>2 DEF EditingKey
    <2>2. pend' = 0 /\ snap' = snap
      BY <1>0, <1>2, <2>1, PlainCommit DEF Take, EditingKey
    <2>3. WinOK'
      BY <1>0, <2>1 DEF WinOK, ResetInput, edit
    <2> QED
      BY <1>0, <2>2, <2>3, CalmControl
  <1>3. CASE a.op = "Cancel"
    <2>1. (\E o \in DoCancel : CancelInput(o)) /\ UNCHANGED snap
      BY <1>3 DEF EditingKey
    <2> QED
      BY <1>1, <2>1
  <1>4. CASE a.op = "Backspace"
    <2>1. CASE Len(reading) > 1
      <3>1. DeleteTail /\ snap' = snap
        BY <1>4, <2>1 DEF EditingKey
      <3> QED
        BY <1>0, <3>1, CalmControl DEF DeleteTail, WinOK
    <2>2. CASE ~(Len(reading) > 1)
      <3>1. (\E o \in DoCancel : CancelInput(o)) /\ UNCHANGED snap
        BY <1>4, <2>2 DEF EditingKey
      <3> QED
        BY <1>1, <3>1
    <2> QED
      BY <2>1, <2>2
  <1>5. CASE a.op = "Candidate"
    <2>1. CASE mode' = "converting" /\ Render /\ UNCHANGED <<q, reading, window, snap, endp, req, pend, doc, gone>>
      BY <1>0, <2>1, CalmControl DEF WinOK
    <2>2. CASE q' = BeginWait(q, {reading}) /\ snap' = TRUE /\ UNCHANGED <<edit, tsf, gone>>
      <3>1. {reading} \in SUBSET Seq(Chars)
        BY <1>0
      <3> PICK texts \in SUBSET Seq(Chars) : texts = {reading}
        BY <3>1
      <3>2. q'.failed = q.failed /\ q'.lost = q.lost
        BY <1>0, <2>2, BeginWaitFacts DEF SameOwner
      <3>3. SnapOK'
        BY <1>0, <2>2, <3>2 DEF SnapOK, edit, tsf
      <3> QED
        BY <1>0, <2>2, <3>3, NonePending DEF Control, DirectOK, WinOK, edit, tsf
    <2> QED
      BY <1>5, <2>1, <2>2 DEF EditingKey
  <1>6. a.op \in {"Commit", "Cancel", "Backspace", "Candidate"}
    BY DEF EditingKey
  <1> QED
    BY <1>2, <1>3, <1>4, <1>5, <1>6

LEMMA KeyControl ==
  ASSUME Base, Control, NEW op \in Ops, Key(op)
  PROVE  Control'
  <1>0. TypeOK
    BY DEF Base
  <1> PICK a : a = Act(op, IF op \in TextOps THEN next ELSE 0)
    OBVIOUS
  <1>1. /\ pc = "idle" /\ parked = NoAct /\ ctx' = ctx /\ (op \in TextOps => next <= MaxChars)
        /\ IF WaitTakes(op) THEN WaitKey(a)
           ELSE IF endp.on THEN EndKey(a)
           ELSE ConvertingKey(a) \/ InputChar(a) \/ CommitCharDirect(a) \/ EditingKey(a)
    BY DEF Key
  <1>2. KeyFrame(a) /\ a.op = op
    BY <1>0, <1>1, FreshKey DEF KeyFrame, Act
  <1>3. CASE WaitTakes(op)
    BY <1>1, <1>2, <1>3, WaitKeyControl
  <1>4. CASE ~WaitTakes(op) /\ endp.on
    BY <1>1, <1>2, <1>4, EndKeyControl
  <1>5. CASE ~WaitTakes(op) /\ ~endp.on
    <2>1. PlainFrame(a)
      BY <1>0, <1>2, <1>5, PlainKey DEF PlainFrame
    <2> QED
      BY <1>1, <1>5, <2>1, ConvertingKeyControl, InputCharControl, CommitCharDirectControl,
         EditingKeyControl
  <1> QED
    BY <1>3, <1>4, <1>5

LEMMA InvalidKeeps ==
  ASSUME NEW r \in Sessions, NEW s \in Slots
  PROVE  /\ Invalidated(r)[s].body = r[s].body /\ Invalidated(r)[s].ctx = r[s].ctx
         /\ Invalidated(r)[s].owned = r[s].owned /\ Invalidated(r)[s].applied = r[s].applied
         /\ Invalidated(r)[s].stale = r[s].stale /\ Invalidated(r)[s].past = r[s].past
  BY DEF Invalidated, Sessions, Request

LEMMA InvalidatedControl ==
  ASSUME Control, TypeOK, req' = Invalidated(req), UNCHANGED <<q, edit, snap, pend, ctx, pc>>,
         pc # "direct"
  PROVE  Control'
  <1>1. PendOK'
    <2> SUFFICES ASSUME pend # 0 PROVE PendOK'
      BY NonePending
    <2>1. pend \in Slots /\ req \in Sessions
      BY Typed
    <2>2. /\ req'[pend].body = req[pend].body /\ req'[pend].ctx = req[pend].ctx
          /\ req'[pend].applied = req[pend].applied /\ req'[pend].owned = req[pend].owned
          /\ req'[pend].stale = req[pend].stale /\ req'[pend].past = req[pend].past
      BY <2>1, InvalidKeeps
    <2>3. RequestWaits(req'[pend]) = RequestWaits(req[pend])
      BY <2>2 DEF RequestWaits
    <2> QED
      BY <2>2, <2>3, PendKeeps DEF Control, PendOK, edit
  <1> QED
    BY <1>1 DEF Control, DirectOK, SnapOK, WinOK, edit

LEMMA OnSetFocusControl ==
  ASSUME Base, Control, NEW c \in Contexts, OnSetFocus(c)
  PROVE  Control'
  <1>0. pc = "idle" /\ pc' = pc
    BY DEF OnSetFocus
  <1>1. CASE open
    <2>1. pend' = 0 /\ snap' = FALSE /\ ResetInput
      BY <1>1 DEF OnSetFocus, ResetAbandoned, RetireOwner
    <2> QED
      BY <1>0, <2>1, CalmControl DEF WinOK, ResetInput
  <1>2. CASE ~open /\ HasWork(q)
    <2>1. pend' = 0 /\ snap' = FALSE /\ UNCHANGED edit
      BY <1>2 DEF OnSetFocus, RetireOwner
    <2> QED
      BY <1>0, <2>1, CalmControl DEF Control, WinOK, edit
  <1>3. CASE ~open /\ ~HasWork(q)
    <2>1. q' = q /\ UNCHANGED <<pend, snap, edit>>
      BY <1>3 DEF OnSetFocus
    <2>2. pend = 0
      BY <1>3 DEF Control, PendOK, FrontIs, HasWork
    <2> QED
      BY <1>0, <2>1, <2>2, NonePending DEF Control, DirectOK, SnapOK, WinOK, edit
  <1> QED
    BY <1>1, <1>2, <1>3

LEMMA OnCompositionTerminatedControl ==
  ASSUME Base, Control, OnCompositionTerminated
  PROVE  Control'
  <1>0. pc # "direct" /\ pc' = pc /\ ctx' = ctx
    BY DEF OnCompositionTerminated, Control, DirectOK
  <1>1. CASE endp.on
    <2>1. req' = Invalidated(req) /\ UNCHANGED <<q, edit, snap, pend>>
      BY <1>1 DEF OnCompositionTerminated
    <2> QED
      BY <1>0, <2>1, InvalidatedControl DEF Base
  <1>2. CASE ~endp.on
    <2>1. pend' = 0 /\ snap' = FALSE /\ ResetInput
      BY <1>2 DEF OnCompositionTerminated, ResetAbandoned, RetireOwner
    <2> QED
      BY <1>0, <2>1, CalmControl DEF WinOK, ResetInput
  <1> QED
    BY <1>1, <1>2

LEMMA OnPushContextControl ==
  ASSUME Base, Control, OnPushContext
  PROVE  Control'
  BY InvalidatedControl DEF Base, OnPushContext

LEMMA OtherSession ==
  ASSUME NEW r \in Sessions, NEW s \in Slots, pend \in Slots, s # pend,
         req' = Tidy([r EXCEPT ![s].held = FALSE, ![s].stale = TRUE], pend)
  PROVE  req'[pend] = r[pend]
  BY DEF Tidy, Sessions

LEMMA RunHeldSessionControl ==
  ASSUME Base, Control, NEW s \in Slots, RunHeldSession(s)
  PROVE  Control'
  <1>0. /\ TypeOK /\ SlotsOK /\ PendOK /\ req \in Sessions /\ pend \in Slots \cup {0}
        /\ pc = "idle" /\ req[s].held /\ UNCHANGED <<q, edit, snap, pend, ctx, pc>>
    BY Typed DEF Base, Control, RunHeldSession
  <1>1. ~req[s].applied
    BY <1>0 DEF SlotsOK
  <1>2. PendOK'
    <2> SUFFICES ASSUME pend # 0 PROVE PendOK'
      BY <1>0, NonePending
    <2>1. CASE Live(req[s])
      <3>1. req' = Tidy([req EXCEPT ![s].held = FALSE, ![s].applied = TRUE], pend)
        BY <1>0, <2>1 DEF RunHeldSession, Live
      <3>2. s = pend
        BY <1>0, <2>1 DEF SlotsOK
      <3>3. /\ req'[pend].applied /\ req'[pend].body = req[pend].body
            /\ req'[pend].ctx = req[pend].ctx
        BY <1>0, <3>1, <3>2, RanFacts, ZenonT(60)
      <3>4. RequestWaits(req[pend])
        BY <1>1, <2>1, <3>2 DEF RequestWaits, Live
      <3>5. q.waiting /\ ~q.failed /\ ~RequestWaits(req'[pend])
        BY <1>0, <3>3, <3>4 DEF PendOK, RequestWaits
      <3> QED
        BY <1>0, <3>3, <3>5, PendKeeps DEF PendOK, edit
    <2>2. CASE ~Live(req[s])
      <3>1. req' = Tidy([req EXCEPT ![s].held = FALSE, ![s].stale = TRUE], pend)
        BY <1>0, <2>2 DEF RunHeldSession, Live
      <3>2. CASE s = pend
        <4>1. /\ req'[pend].body = req[pend].body /\ req'[pend].ctx = req[pend].ctx
              /\ req'[pend].stale /\ ~req'[pend].applied
          BY <1>0, <1>1, <3>1, <3>2, PassedFacts, ZenonT(60)
        <4>2. ~RequestWaits(req'[pend])
          BY <4>1 DEF RequestWaits
        <4> QED
          BY <1>0, <4>1, <4>2, PendKeeps DEF PendOK, edit
      <3>3. CASE s # pend
        <4>1. req'[pend] = req[pend]
          BY <1>0, <3>1, <3>3, OtherSession
        <4> QED
          BY <1>0, <4>1, PendKeeps DEF PendOK, edit
      <3> QED
        BY <3>2, <3>3
    <2> QED
      BY <2>1, <2>2
  <1> QED
    BY <1>0, <1>2 DEF Control, DirectOK, SnapOK, WinOK, edit

LEMMA TickControl == ASSUME Base, Control, Tick PROVE Control'
  <1>0. TypeOK /\ q \in Queue /\ PendOK /\ req \in Sessions /\ pend \in Slots \cup {0}
    BY Typed DEF Base, Control
  <1>1. UNCHANGED <<edit, snap, pend, ctx, pc, open>>
    BY DEF Tick
  <1>2. /\ q'.acts = q.acts /\ q'.lost = q.lost /\ q'.initial = q.initial
        /\ q'.waiting = q.waiting /\ q'.failed = q.failed
    BY <1>0 DEF Tick, Queue, LongQueue
  <1>3. PendOK'
    <2> SUFFICES ASSUME pend # 0 PROVE PendOK'
      BY <1>1, NonePending
    <2>1. /\ req'[pend].body = req[pend].body /\ req'[pend].ctx = req[pend].ctx
          /\ req'[pend].applied = req[pend].applied /\ req'[pend].owned = req[pend].owned
          /\ req'[pend].stale = req[pend].stale /\ (req[pend].past => req'[pend].past)
      BY <1>0 DEF Tick, Sessions, Request
    <2>2. RequestWaits(req'[pend]) => RequestWaits(req[pend])
      BY <2>1 DEF RequestWaits
    <2> QED
      BY <1>0, <1>1, <1>2, <2>1, <2>2, PendKeeps DEF PendOK, FrontIs, edit
  <1> QED
    BY <1>1, <1>2, <1>3 DEF Control, DirectOK, SnapOK, WinOK, edit

LEMMA PollControl == ASSUME Base, Control, Poll PROVE Control'
  <1>1. CASE PollPendingCommit
    BY <1>1, PollPendingControl DEF PollPendingCommit, More, edit
  <1>2. CASE PollExpiredWait
    BY <1>2, FailConversionWaitControl DEF PollExpiredWait, More
  <1> QED
    BY <1>1, <1>2 DEF Poll

LEMMA PollClauseReplyControl ==
  ASSUME Base, Control, NEW w \in {"ready", "closed"}, NEW b \in BOOLEAN, PollClauseReply(w, b)
  PROVE  Control'
  <1>1. mode = "converting" /\ snap = FALSE
    BY DEF Base, TypeOK, Control, WinOK, SnapOK, PollClauseReply
  <1>2. pend' = 0 /\ snap' = snap /\ mode' = mode /\ pc' = "drain"
    BY DEF PollClauseReply, More
  <1> QED
    BY <1>1, <1>2, CalmControl DEF WinOK

LEMMA PollSnapshotControl ==
  ASSUME Base, Control, PollSnapshot
  PROVE  Control'
  <1>1. pend' = 0 /\ snap' = FALSE /\ pc' = "drain"
    BY DEF PollSnapshot, Control, SnapOK, More
  <1>2. WinOK'
    BY DEF PollSnapshot, Control, WinOK
  <1> QED
    BY <1>1, <1>2, CalmControl

LEMMA PollRedrawControl == ASSUME Base, Control, PollRedraw PROVE Control'
  <1>1. pend' = 0 /\ snap' = FALSE /\ pc' = "drain"
    BY DEF Base, TypeOK, PollRedraw, Control, SnapOK, More
  <1> QED
    BY <1>1, CalmControl DEF PollRedraw, Control, WinOK

LEMMA EndDisplayControl == ASSUME Base, Control, EndDisplayAtCapacity PROVE Control'
  <1>1. pend' = 0 /\ snap' = FALSE /\ pc' \in {"idle", "drain"} /\ mode' = mode
        /\ window' \in {window, "closed"}
    BY DEF EndDisplayAtCapacity, More
  <1> QED
    BY <1>1, CalmControl DEF Control, WinOK

LEMMA InitControl == Init => Control
  BY DEF Init, Control, DirectOK, PendOK, SnapOK, WinOK

LEMMA StepControl == ASSUME Base, Control, [Next]_vars PROVE Control'
  <1>1. CASE \E op \in Ops : Key(op)
    BY <1>1, KeyControl
  <1>2. CASE Event
    BY <1>2, DrainControl, AdmitParkedControl, DirectAfterSettleControl, PollControl,
       PollSnapshotControl, PollRedrawControl, EndDisplayControl, PollClauseReplyControl,
       OnSetFocusControl, OnCompositionTerminatedControl, OnPushContextControl,
       RunHeldSessionControl, TickControl
    DEF Event
  <1>3. CASE UNCHANGED vars
    <2>1. PendOK'
      BY <1>3 DEF vars, Control, PendOK, FrontIs, RequestWaits, CommitBody
    <2> QED
      BY <1>3, <2>1 DEF vars, Control, DirectOK, SnapOK, WinOK
  <1> QED
    BY <1>1, <1>2, <1>3 DEF Next

-----------------------------------------------------------------------------
(* Third part of the invariant: the order of the text.                     *)

(* Order of texts, beside the characters of L and after the overtaken O.   *)
Behind(x, y, O) == x # y /\ (x < y \/ y \in O)
Ord(s, L, O) == \A i, j \in DOMAIN s : i < j /\ s[i] \notin L /\ s[j] \notin L => Behind(s[i], s[j], O)
Bef(A, B, L, O) == \A x \in A, y \in B : x \notin L /\ y \notin L => Behind(x, y, O)

LEMMA OrdEmpty == ASSUME NEW L, NEW O PROVE Ord(<<>>, L, O)
  BY DEF Ord

LEMMA OrdOne == ASSUME NEW L, NEW O, NEW x PROVE Ord(<<x>>, L, O)
  BY DEF Ord

LEMMA OrdMono ==
  ASSUME NEW s, NEW L, NEW O, NEW L1, NEW O1, Ord(s, L, O), L \subseteq L1, O \subseteq O1
  PROVE  Ord(s, L1, O1)
  BY DEF Ord, Behind

LEMMA BefMono ==
  ASSUME NEW A, NEW B, NEW L, NEW O, NEW A1, NEW B1, NEW L1, NEW O1, Bef(A, B, L, O),
         A1 \subseteq A \cup L1, B1 \subseteq B \cup L1, L \subseteq L1, O \subseteq O1
  PROVE  Bef(A1, B1, L1, O1)
  BY DEF Bef, Behind

LEMMA BefJoin ==
  ASSUME NEW A, NEW A1, NEW B, NEW L, NEW O, Bef(A, B, L, O), Bef(A1, B, L, O)
  PROVE  Bef(A \cup A1, B, L, O)
  BY DEF Bef

LEMMA BefJoinRight ==
  ASSUME NEW A, NEW B, NEW B1, NEW L, NEW O, Bef(A, B, L, O), Bef(A, B1, L, O)
  PROVE  Bef(A, B \cup B1, L, O)
  BY DEF Bef

LEMMA BefNothing ==
  ASSUME NEW A, NEW B, NEW L, NEW O, A \subseteq L \/ B \subseteq L
  PROVE  Bef(A, B, L, O)
  BY DEF Bef

LEMMA BefLess ==
  ASSUME NEW A, NEW B, NEW L, NEW O, A \subseteq Nat, B \subseteq Nat, \A x \in A, y \in B : x < y
  PROVE  Bef(A, B, L, O)
  BY DEF Bef, Behind

LEMMA BefOvertaken ==
  ASSUME NEW A, NEW B, NEW L, NEW O, B \subseteq O, A \cap B = {}
  PROVE  Bef(A, B, L, O)
  BY DEF Bef, Behind

LEMMA OrdJoin ==
  ASSUME NEW S, NEW s \in Seq(S), NEW t \in Seq(S), NEW L, NEW O,
         Ord(s, L, O), Ord(t, L, O), Bef(ToSet(s), ToSet(t), L, O)
  PROVE  Ord(s \o t, L, O)
  <1> DEFINE u == s \o t
  <1>1. /\ DOMAIN s = 1..Len(s) /\ DOMAIN t = 1..Len(t) /\ DOMAIN u = 1..(Len(s) + Len(t))
        /\ Len(s) \in Nat /\ Len(t) \in Nat
        /\ \A i \in 1..Len(s) : u[i] = s[i]
        /\ \A i \in 1..Len(t) : u[Len(s) + i] = t[i]
    OBVIOUS
  <1>2. \A k \in DOMAIN u : k \in 1..Len(s) \/ (k - Len(s) \in 1..Len(t) /\ u[k] = t[k - Len(s)])
    <2> TAKE k \in DOMAIN u
    <2>1. CASE k > Len(s)
      <3>1. k - Len(s) \in 1..Len(t) /\ k = Len(s) + (k - Len(s))
        BY <1>1, <2>1
      <3> QED
        BY <1>1, <3>1
    <2> QED
      BY <1>1, <2>1
  <1> HIDE DEF u
  <1>3. ASSUME NEW i \in DOMAIN u, NEW j \in DOMAIN u, i < j, u[i] \notin L, u[j] \notin L
        PROVE  Behind(u[i], u[j], O)
    <2>1. CASE i \in 1..Len(s) /\ j \in 1..Len(s)
      BY <1>1, <1>3, <2>1 DEF Ord
    <2>2. CASE i \in 1..Len(s) /\ j \notin 1..Len(s)
      <3>1. u[i] \in ToSet(s) /\ u[j] \in ToSet(t)
        BY <1>1, <1>2, <2>2 DEF ToSet
      <3> QED
        BY <1>3, <3>1 DEF Bef
    <2>3. CASE i \notin 1..Len(s)
      <3>1. i - Len(s) \in 1..Len(t) /\ u[i] = t[i - Len(s)]
        BY <1>2, <2>3
      <3>2. j \notin 1..Len(s)
        BY <1>1, <1>3, <2>3
      <3>3. j - Len(s) \in 1..Len(t) /\ u[j] = t[j - Len(s)] /\ i - Len(s) < j - Len(s)
        BY <1>1, <1>2, <1>3, <3>2
      <3> QED
        BY <1>1, <1>3, <3>1, <3>3 DEF Ord
    <2> QED
      BY <2>1, <2>2, <2>3
  <1> QED
    BY <1>3 DEF Ord, u

LEMMA OrdAppend ==
  ASSUME NEW S, NEW s \in Seq(S), NEW x \in S, NEW L, NEW O,
         Ord(s, L, O), Bef(ToSet(s), {x}, L, O)
  PROVE  Ord(Append(s, x), L, O)
  <1>1. Append(s, x) = s \o <<x>> /\ <<x>> \in Seq(S)
    OBVIOUS
  <1>2. Ord(s \o <<x>>, L, O)
    BY <1>1, OrdOne, SetOfOne, OrdJoin
  <1> QED
    BY <1>1, <1>2

LEMMA OrdFront ==
  ASSUME NEW S, NEW s \in Seq(S), NEW L, NEW O, Ord(s, L, O), Len(s) > 1
  PROVE  Ord(Front(s), L, O)
  <1>1. DOMAIN Front(s) \subseteq DOMAIN s /\ \A i \in DOMAIN Front(s) : Front(s)[i] = s[i]
    BY SetOfFront
  <1> QED
    BY <1>1 DEF Ord

-----------------------------------------------------------------------------
(* The invariant of the order of the text.                                 *)
InitialChars(x) == UNION {ToSet(r) : r \in x.initial}
Mentioned == overtaken \cup leaked \cup Written \cup ToSet(reading) \cup Unwritten
               \cup QueuedChars(q) \cup InitialChars(q)
Known == Mentioned \subseteq 1..(next - 1)
DocsOK == \A c \in Contexts : /\ Ord(doc[c], leaked, overtaken)
                              /\ \A ch \in ToSet(doc[c]) \ leaked : where[ch] = c
ReadingOK == /\ Ord(reading, leaked, overtaken)
             /\ \A ch \in ToSet(reading) \ leaked : where[ch] = ctx
             /\ ~Spent => Bef(ToSet(doc[ctx]), ToSet(reading), leaked, overtaken)
QueueOK == /\ Rises(q.acts)
           /\ ~q.lost => /\ Bef(ToSet(doc[ctx]), QueuedChars(q), leaked, overtaken)
                         /\ Bef(ToSet(reading), QueuedChars(q), leaked, overtaken)
                         /\ \A ch \in QueuedChars(q) \ leaked : where[ch] = ctx
BodyOK == pend # 0 => /\ ToSet(req[pend].body) \subseteq ToSet(reading) \cup leaked
                      /\ Ord(req[pend].body, leaked, overtaken)
StartsOK == \A r \in q.initial : Ord(r, leaked, overtaken)
LostOK == q.lost => (QueuedChars(q) \cup Unwritten) \cap Written \subseteq leaked
TextOK == Known /\ DocsOK /\ ReadingOK /\ QueueOK /\ BodyOK /\ StartsOK /\ LostOK

(* The history of a step: what it may add to what is overtaken.            *)
Passing == overtaken \subseteq overtaken' /\ overtaken' \subseteq overtaken \cup QueuedChars(q)
Grows == Passing /\ leaked \subseteq leaked'

LEMMA KnownFacts ==
  ASSUME TypeOK, Known
  PROVE  /\ next \in Nat
         /\ \A x \in Mentioned : x \in Nat /\ x < next
         /\ QueuedChars(q) \subseteq Mentioned /\ ToSet(reading) \subseteq Mentioned
         /\ \A c \in Contexts : ToSet(doc[c]) \subseteq Mentioned
         /\ leaked \subseteq Mentioned /\ overtaken \subseteq Mentioned
         /\ \A r \in q.initial : ToSet(r) \subseteq Mentioned
         /\ Written \subseteq Mentioned /\ Unwritten \subseteq Mentioned
  <1>1. next \in 1..MaxChars + 1 /\ MaxChars \in Nat
    BY Typed, InputFacts
  <1>2. next \in Nat
    BY <1>1
  <1>3. \A x \in Mentioned : x \in Nat /\ x < next
    BY <1>2 DEF Known
  <1> QED
    BY <1>2, <1>3 DEF Mentioned, Written, InitialChars

LEMMA BeforeNext ==
  ASSUME TypeOK, Known, NEW L, NEW O
  PROVE  \A A : A \subseteq Mentioned => Bef(A, {next}, L, O)
  BY KnownFacts DEF Bef, Behind

(* Where the characters were typed does not change.                        *)
WhereStays == \/ next' = next /\ where' = where
              \/ next' = next + 1 /\ where' = [where EXCEPT ![next] = ctx] /\ next \in Chars

LEMMA WhereFacts ==
  ASSUME TypeOK, Known, WhereStays
  PROVE  /\ \A x \in Mentioned : where'[x] = where[x]
         /\ next' # next => where'[next] = ctx
         /\ next' \in {next, next + 1}
  <1>1. where \in [Chars -> Contexts \cup {"none"}] /\ next \in Nat
        /\ \A x \in Mentioned : x \in Nat /\ x < next
    BY Typed, KnownFacts
  <1>2. CASE next' = next /\ where' = where
    BY <1>2
  <1>3. CASE next' = next + 1 /\ where' = [where EXCEPT ![next] = ctx] /\ next \in Chars
    <2>1. \A x : x # next => where'[x] = where[x]
      BY <1>1, <1>3
    <2>2. where'[next] = ctx
      BY <1>1, <1>3
    <2>3. \A x \in Mentioned : x # next
      BY <1>1
    <2> QED
      BY <1>3, <2>1, <2>2, <2>3
  <1> QED
    BY <1>2, <1>3 DEF WhereStays

LEMMA KnownStep ==
  ASSUME TypeOK, Known, WhereStays,
         Mentioned' \subseteq Mentioned \cup (IF next' = next THEN {} ELSE {next})
  PROVE  Known'
  <1>1. next \in Nat /\ (next' = next \/ next' = next + 1)
    BY KnownFacts DEF WhereStays
  <1>2. ASSUME NEW x \in Mentioned' PROVE x \in 1..(next' - 1)
    <2>1. x \in 1..(next - 1) \/ (next' = next + 1 /\ x = next)
      BY <1>1, <1>2 DEF Known
    <2>2. next >= 1
      BY Typed
    <2> QED
      BY <1>1, <2>1, <2>2
  <1> QED
    BY <1>2 DEF Known

LEMMA DocsSame ==
  ASSUME TypeOK, Known, DocsOK, Grows, WhereStays, doc' = doc
  PROVE  DocsOK'
  <1> SUFFICES ASSUME NEW c \in Contexts
               PROVE  /\ Ord(doc'[c], leaked', overtaken')
                      /\ \A ch \in ToSet(doc'[c]) \ leaked' : where'[ch] = c
    BY DEF DocsOK
  <1>1. Ord(doc[c], leaked, overtaken) /\ \A ch \in ToSet(doc[c]) \ leaked : where[ch] = c
    BY DEF DocsOK
  <1>2. Ord(doc[c], leaked', overtaken')
    BY <1>1, OrdMono DEF Grows, Passing
  <1>3. ToSet(doc[c]) \subseteq Mentioned
    BY KnownFacts
  <1>4. \A ch \in ToSet(doc[c]) \ leaked' : where'[ch] = c
    BY <1>1, <1>3, WhereFacts DEF Grows
  <1> QED
    BY <1>2, <1>4

LEMMA DocsWritten ==
  ASSUME TypeOK, Known, DocsOK, Grows, WhereStays, NEW body \in Seq(Chars), doc' = Write(body),
         Ord(body, leaked', overtaken'),
         Bef(ToSet(doc[ctx]), ToSet(body), leaked', overtaken'),
         \A ch \in ToSet(body) \ leaked' : where'[ch] = ctx
  PROVE  DocsOK'
  <1>0. doc \in [Contexts -> Seq(Chars)] /\ ctx \in Contexts
    BY Typed
  <1> SUFFICES ASSUME NEW c \in Contexts
               PROVE  /\ Ord(doc'[c], leaked', overtaken')
                      /\ \A ch \in ToSet(doc'[c]) \ leaked' : where'[ch] = c
    BY DEF DocsOK
  <1> PICK txt \in Seq(Chars) : txt = doc[c]
    BY <1>0
  <1>1. Ord(txt, leaked, overtaken) /\ \A ch \in ToSet(txt) \ leaked : where[ch] = c
    BY DEF DocsOK
  <1>2. Ord(txt, leaked', overtaken')
    BY <1>1, OrdMono DEF Grows, Passing
  <1>3. ToSet(txt) \subseteq Mentioned
    BY KnownFacts
  <1>4. \A ch \in ToSet(txt) \ leaked' : where'[ch] = c
    BY <1>1, <1>3, WhereFacts DEF Grows
  <1>5. CASE c # ctx
    <2>1. doc'[c] = txt
      BY <1>0, <1>5, WriteFacts
    <2> QED
      BY <1>2, <1>4, <2>1
  <1>6. CASE c = ctx
    <2>1. doc'[c] = txt \o body /\ ToSet(txt \o body) = ToSet(txt) \cup ToSet(body)
      BY <1>0, <1>6, WriteFacts, SetOfJoined
    <2>2. Ord(txt \o body, leaked', overtaken')
      BY <1>2, <1>6, OrdJoin
    <2> QED
      BY <1>4, <1>6, <2>1, <2>2
  <1> QED
    BY <1>5, <1>6

(* Steps that write nothing and move no text into the reading.             *)
SessionKept ==
  \/ pend' = 0 /\ ~Spent
  \/ /\ pend' = pend
     /\ pend # 0 => req'[pend].body = req[pend].body /\ req'[pend].applied = req[pend].applied
ReadingKept ==
  \/ reading' = reading
  \/ pend' = 0 /\ ToSet(reading') \subseteq ToSet(reading) /\ Ord(reading', leaked, overtaken)
Freshly ==
  \/ next' = next /\ where' = where /\ QueuedChars(q') \subseteq QueuedChars(q)
  \/ /\ next' = next + 1 /\ where' = [where EXCEPT ![next] = ctx] /\ next \in Chars
     /\ QueuedChars(q') \subseteq QueuedChars(q) \cup {next} /\ ~q'.lost
QueueFlows ==
  /\ Freshly /\ Rises(q'.acts) /\ q'.initial \subseteq q.initial \cup {reading}
  /\ q'.lost => q.lost /\ q'.unwritten = q.unwritten
  /\ ~q'.lost => ~q.lost \/ QueuedChars(q') = {}

LEMMA KeepsKnown ==
  ASSUME TypeOK, UnwrittenOfLost', Known, Grows, leaked' = leaked, doc' = doc,
         ToSet(reading') \subseteq ToSet(reading), QueueFlows
  PROVE  Known'
  <1>1. WhereStays
    BY DEF QueueFlows, Freshly, WhereStays
  <1>2. QueuedChars(q') \subseteq Mentioned \cup (IF next' = next THEN {} ELSE {next})
    <2>1. next \in Nat /\ QueuedChars(q) \subseteq Mentioned
      BY KnownFacts
    <2>2. next + 1 # next
      BY <2>1
    <2> QED
      BY <2>1, <2>2 DEF QueueFlows, Freshly
  <1>3. InitialChars(q') \subseteq Mentioned
    BY DEF QueueFlows, InitialChars, Mentioned
  <1>4. Written' = Written /\ overtaken' \subseteq Mentioned
    BY SameWritten DEF Grows, Passing, Mentioned
  <1>5. Unwritten' \subseteq Unwritten
    BY DEF QueueFlows, UnwrittenOfLost, Unwritten
  <1>6. Mentioned' \subseteq Mentioned \cup (IF next' = next THEN {} ELSE {next})
    BY <1>2, <1>3, <1>4, <1>5 DEF Mentioned
  <1> QED
    BY <1>1, <1>6, KnownStep

LEMMA StartsKept ==
  ASSUME StartsOK, Grows, Ord(reading, leaked, overtaken),
         q'.initial \subseteq q.initial \cup {reading}
  PROVE  StartsOK'
  <1> SUFFICES ASSUME NEW r \in q'.initial PROVE Ord(r, leaked', overtaken')
    BY DEF StartsOK
  <1>1. Ord(r, leaked, overtaken)
    BY DEF StartsOK
  <1> QED
    BY <1>1, OrdMono DEF Grows, Passing

LEMMA BodyKept ==
  ASSUME BodyOK, Grows, SessionKept, reading' = reading \/ pend' = 0
  PROVE  BodyOK'
  <1> SUFFICES ASSUME pend' # 0
               PROVE  /\ ToSet(req'[pend'].body) \subseteq ToSet(reading') \cup leaked'
                      /\ Ord(req'[pend'].body, leaked', overtaken')
    BY DEF BodyOK
  <1> PICK body : body = req[pend].body
    OBVIOUS
  <1>1. pend' = pend /\ req'[pend'].body = body /\ reading' = reading
    BY DEF SessionKept
  <1>2. ToSet(body) \subseteq ToSet(reading) \cup leaked /\ Ord(body, leaked, overtaken)
    BY <1>1 DEF BodyOK
  <1>3. Ord(body, leaked', overtaken')
    BY <1>2, OrdMono DEF Grows, Passing
  <1> QED
    BY <1>1, <1>2, <1>3 DEF Grows

LEMMA LostKept ==
  ASSUME LostOK, doc' = doc, leaked \subseteq leaked',
         q'.lost => /\ q.lost /\ q'.unwritten = q.unwritten
                    /\ QueuedChars(q') \subseteq QueuedChars(q)
  PROVE  LostOK'
  BY SameWritten DEF LostOK, Unwritten

LEMMA ReadingStays ==
  ASSUME TypeOK, Known, ReadingOK, Grows, WhereStays, doc' = doc, ctx' = ctx, SessionKept, ReadingKept
  PROVE  ReadingOK'
  <1>1. ToSet(reading') \subseteq ToSet(reading)
    BY DEF ReadingKept
  <1>2. Ord(reading', leaked, overtaken)
    BY DEF ReadingKept, ReadingOK
  <1>3. Ord(reading', leaked', overtaken')
    BY <1>2, OrdMono DEF Grows, Passing
  <1>4. \A ch \in ToSet(reading') \ leaked' : where'[ch] = ctx'
    BY <1>1, KnownFacts, WhereFacts DEF Grows, ReadingOK
  <1>5. ~Spent' => ~Spent
    BY DEF SessionKept, Spent
  <1>6. ~Spent => Bef(ToSet(doc[ctx]), ToSet(reading), leaked, overtaken)
    BY DEF ReadingOK
  <1>7. ~Spent => Bef(ToSet(doc[ctx]), ToSet(reading'), leaked', overtaken')
    BY <1>1, <1>6, BefMono DEF Grows, Passing
  <1> QED
    BY <1>3, <1>4, <1>5, <1>7 DEF ReadingOK

LEMMA QueueStays ==
  ASSUME TypeOK, Known, QueueOK, Grows, doc' = doc, ctx' = ctx,
         ToSet(reading') \subseteq ToSet(reading), QueueFlows
  PROVE  QueueOK'
  <1>1. Rises(q'.acts)
    BY DEF QueueFlows
  <1> SUFFICES ASSUME ~q'.lost
               PROVE  /\ Bef(ToSet(doc[ctx]), QueuedChars(q'), leaked', overtaken')
                      /\ Bef(ToSet(reading'), QueuedChars(q'), leaked', overtaken')
                      /\ \A ch \in QueuedChars(q') \ leaked' : where'[ch] = ctx
    BY <1>1 DEF QueueOK
  <1>2. CASE QueuedChars(q') = {}
    BY <1>2, BefNothing
  <1>3. CASE QueuedChars(q') # {}
    <2>1. ~q.lost
      BY <1>3 DEF QueueFlows
    <2>2. /\ Bef(ToSet(doc[ctx]), QueuedChars(q), leaked, overtaken)
          /\ Bef(ToSet(reading), QueuedChars(q), leaked, overtaken)
          /\ \A ch \in QueuedChars(q) \ leaked : where[ch] = ctx
      BY <2>1 DEF QueueOK
    <2>3. /\ ToSet(doc[ctx]) \subseteq Mentioned /\ ToSet(reading) \subseteq Mentioned
          /\ QueuedChars(q) \subseteq Mentioned
          /\ \A x \in Mentioned : x \in Nat /\ x < next /\ next \in Nat
      BY Typed, KnownFacts
    <2>4. CASE next' = next /\ where' = where /\ QueuedChars(q') \subseteq QueuedChars(q)
      <3>1. /\ Bef(ToSet(doc[ctx]), QueuedChars(q'), leaked', overtaken')
            /\ Bef(ToSet(reading'), QueuedChars(q'), leaked', overtaken')
        BY <2>2, <2>4, BefMono DEF Grows, Passing
      <3> QED
        BY <2>2, <2>4, <3>1 DEF Grows
    <2>5. CASE /\ next' = next + 1 /\ where' = [where EXCEPT ![next] = ctx] /\ next \in Chars
               /\ QueuedChars(q') \subseteq QueuedChars(q) \cup {next}
      <3> PICK new : new = QueuedChars(q) \cup {next}
        OBVIOUS
      <3>0. \A A : A \subseteq Mentioned => Bef(A, {next}, leaked, overtaken)
        BY BeforeNext
      <3>1. Bef(ToSet(doc[ctx]), {next}, leaked, overtaken)
        BY <2>3, <3>0
      <3>2. Bef(ToSet(reading), {next}, leaked, overtaken)
        BY <2>3, <3>0
      <3>3. Bef(ToSet(doc[ctx]), new, leaked, overtaken) /\ Bef(ToSet(reading), new, leaked, overtaken)
        BY <2>2, <3>1, <3>2, BefJoinRight
      <3>4. QueuedChars(q') \subseteq new
        BY <2>5
      <3>5. /\ Bef(ToSet(doc[ctx]), QueuedChars(q'), leaked', overtaken')
            /\ Bef(ToSet(reading'), QueuedChars(q'), leaked', overtaken')
        BY <3>3, <3>4, BefMono DEF Grows, Passing
      <3>6. WhereStays /\ next' # next
        BY <2>3, <2>5, KnownFacts DEF WhereStays
      <3>7. where'[next] = ctx /\ \A ch \in QueuedChars(q) : where'[ch] = where[ch]
        BY <2>3, <3>6, WhereFacts
      <3> QED
        BY <2>2, <2>5, <3>5, <3>7 DEF Grows
    <2> QED
      BY <2>4, <2>5 DEF QueueFlows, Freshly
  <1> QED
    BY <1>2, <1>3

LEMMA TextKeeps ==
  ASSUME Base, UnwrittenOfLost', TextOK, Passing, leaked' = leaked, doc' = doc, ctx' = ctx,
         SessionKept, ReadingKept, QueueFlows
  PROVE  TextOK'
  <1>0. TypeOK /\ Grows /\ ToSet(reading') \subseteq ToSet(reading)
    BY DEF Base, Grows, ReadingKept
  <1>1. WhereStays
    BY DEF QueueFlows, Freshly, WhereStays
  <1>2. Known'
    BY <1>0, KeepsKnown DEF TextOK
  <1>3. DocsOK'
    BY <1>0, <1>1, DocsSame DEF TextOK
  <1>4. ReadingOK'
    BY <1>0, <1>1, ReadingStays DEF TextOK
  <1>5. QueueOK'
    BY <1>0, QueueStays DEF TextOK
  <1>6. BodyOK'
    BY <1>0, BodyKept DEF TextOK, ReadingKept
  <1>7. StartsOK'
    BY <1>0, StartsKept DEF TextOK, ReadingOK, QueueFlows
  <1>8. LostOK'
    <2>1. q'.lost => QueuedChars(q') \subseteq QueuedChars(q)
      BY DEF QueueFlows, Freshly
    <2> QED
      BY <2>1, LostKept DEF TextOK, QueueFlows
  <1> QED
    BY <1>2, <1>3, <1>4, <1>5, <1>6, <1>7, <1>8 DEF TextOK

-----------------------------------------------------------------------------
(* Drain steps and the order of the text.                                  *)

LEMMA QueueCalm ==
  ASSUME SameOwner(q', q), QueuedChars(q') \subseteq QueuedChars(q), Rises(q'.acts),
         q'.initial \subseteq q.initial \cup {reading}, UNCHANGED typed
  PROVE  QueueFlows
  BY DEF QueueFlows, Freshly, SameOwner, typed

LEMMA QueueSame ==
  ASSUME TextOK, q' = q, UNCHANGED typed
  PROVE  QueueFlows
  BY DEF QueueFlows, Freshly, typed, TextOK, QueueOK

LEMMA QueueGone ==
  ASSUME TextOK, NEW x \in Queue, FrontGone(q', x), SameOwner(x, q), SameText(x, q),
         x.initial \subseteq q.initial \cup {reading}, UNCHANGED typed
  PROVE  QueueFlows
  <1>1. SameOwner(q', q) /\ QueuedChars(q') \subseteq QueuedChars(q) /\ Rises(q'.acts)
    BY DEF FrontGone, SameOwner, SameText, TextOK, QueueOK
  <1>2. q'.initial \subseteq q.initial \cup {reading}
    BY DEF FrontGone
  <1> QED
    BY <1>1, <1>2, QueueCalm

LEMMA QueueDone ==
  ASSUME TextOK, TypeOK, NEW e \in Ending, q' = Done(q, e) \/ q' = CompleteFront(q), UNCHANGED typed
  PROVE  QueueFlows
  <1>1. q \in Queue
    BY Typed
  <1>2. FrontGone(q', q)
    BY <1>1, DoneFacts, CompleteFacts
  <1> QED
    BY <1>1, <1>2, QueueGone DEF SameOwner, SameText

LEMMA QueueFailed ==
  ASSUME TextOK, TypeOK, q' = Failed(q), UNCHANGED typed
  PROVE  QueueFlows
  <1>1. q \in Queue
    BY Typed
  <1>2. SameOwner(q', q) /\ QueuedChars(q') = QueuedChars(q) /\ Rises(q'.acts) /\ q'.initial = q.initial
    BY <1>1, FailedFacts DEF SameText, TextOK, QueueOK
  <1> QED
    BY <1>2, QueueCalm

LEMMA SessionSame == ASSUME UNCHANGED <<req, pend>> PROVE SessionKept
  BY DEF SessionKept

LEMMA ReadingSame == ASSUME reading' = reading PROVE ReadingKept
  BY DEF ReadingKept

LEMMA ReadingReset ==
  ASSUME pend' = 0, reading' = <<>> PROVE ReadingKept
  BY OrdEmpty, SetOfEmpty DEF ReadingKept

LEMMA SessionNone == ASSUME pend = 0, pend' = 0 PROVE SessionKept
  BY DEF SessionKept, Spent

TextDrain == /\ Draining /\ Base' /\ TextOK /\ Passing
(* A drain step that leaves the sessions and the documents alone.          *)
LEMMA DrainKeeps ==
  ASSUME TextDrain, leaked' = leaked, doc' = doc, SessionKept, ReadingKept, QueueFlows
  PROVE  TextOK'
  BY TextKeeps DEF TextDrain, Draining, DrainFrame, Base

LEMMA DrainStopsText ==
  ASSUME Base, Base', TextOK, Passing, DrainFrame, DrainStops
  PROVE  TextOK'
  <1>1. /\ UNCHANGED <<q, reading, req, pend, doc, leaked, ctx, typed>>
    BY DEF DrainStops, edit, tsf, ghost, DrainFrame
  <1>2. SessionKept /\ ReadingKept /\ QueueFlows
    BY <1>1, SessionSame, ReadingSame, QueueSame
  <1> QED
    BY <1>1, <1>2, TextKeeps DEF Base

LEMMA DrainRedrawsText ==
  ASSUME Base, Base', TextOK, Passing, DrainFrame, DrainRedraws
  PROVE  TextOK'
  <1>1. /\ UNCHANGED <<q, reading, req, pend, doc, leaked, ctx, typed>>
    BY DEF DrainRedraws, edit, tsf, ghost, DrainFrame
  <1>2. SessionKept /\ ReadingKept /\ QueueFlows
    BY <1>1, SessionSame, ReadingSame, QueueSame
  <1> QED
    BY <1>1, <1>2, TextKeeps DEF Base

LEMMA DrainBarsText ==
  ASSUME TextDrain, DrainPrepends \/ DrainExhausts
  PROVE  TextOK'
  <1>0. TypeOK /\ q \in Queue /\ UNCHANGED typed
    BY Typed DEF TextDrain, Draining, Base, DrainFrame
  <1>1. UNCHANGED <<reading, req, pend, doc, leaked>>
    BY DEF DrainPrepends, DrainExhausts, edit, tsf, ghost
  <1>2. \/ q' = PrependCommit(q) /\ Len(q.acts) < Capacity
        \/ q' = Failed(q)
        \/ q' = ExhaustedCommit(q)
    BY DEF DrainPrepends, DrainExhausts, CanPrependCommit
  <1>3. QueueFlows
    <2>1. CASE q' = Failed(q)
      BY <1>0, <2>1, QueueFailed DEF TextDrain
    <2>2. CASE \/ q' = PrependCommit(q) /\ Len(q.acts) < Capacity
               \/ q' = ExhaustedCommit(q) /\ DrainExhausts
      <3>1. Barred(q', q)
        BY <1>0, <2>2, PrependFacts, ExhaustedFacts DEF DrainExhausts, FrontIs, TextOps, ExhaustibleOps
      <3> QED
        BY <1>0, <3>1, QueueCalm DEF Barred, SameWait, SameText, TextDrain, TextOK, QueueOK
    <2> QED
      <3>1. CASE DrainPrepends
        BY <2>1, <2>2, <3>1 DEF DrainPrepends, CanPrependCommit
      <3>2. CASE DrainExhausts
        BY <2>2, <3>2 DEF DrainExhausts
      <3> QED
        BY <3>1, <3>2
  <1> QED
    BY <1>1, <1>3, SessionSame, ReadingSame, DrainKeeps

LEMMA DrainMoveText ==
  ASSUME TextDrain, DrainMove
  PROVE  TextOK'
  <1>0. TypeOK /\ endp \in Ending /\ UNCHANGED typed
    BY Typed DEF TextDrain, Draining, Base, DrainFrame
  <1>1. UNCHANGED <<reading, req, pend, doc, leaked>> /\ q' = Done(q, endp)
    BY DEF DrainMove, ghost
  <1>2. QueueFlows
    BY <1>0, <1>1, QueueDone DEF TextDrain
  <1> QED
    BY <1>1, <1>2, SessionSame, ReadingSame, DrainKeeps

(* A composition given up where no commit is in flight.                    *)
LEMMA GivenUp ==
  ASSUME TypeOK, SlotsOK, pend = 0, NEW o \in DoCancel, CancelInput(o)
  PROVE  /\ SessionKept /\ ReadingKept /\ doc' = doc /\ o.endp \in Ending
  <1>1. pend' = 0 /\ doc' = doc
    BY CancelPend DEF CancelInput
  <1>2. reading' = <<>> \/ reading' = reading
    BY DEF CancelInput, ResetInput, edit
  <1>3. o.endp \in Ending
    BY CancelFits DEF Result
  <1> QED
    BY <1>1, <1>2, <1>3, SessionNone, ReadingSame, ReadingReset

LEMMA DrainCancelText ==
  ASSUME TextDrain, DrainCancel
  PROVE  TextOK'
  <1>0. TypeOK /\ SlotsOK /\ endp \in Ending /\ UNCHANGED typed /\ TextOK
    BY Typed DEF TextDrain, Draining, Base, DrainFrame
  <1>1. pend = 0 /\ leaked' = leaked
    BY FrontElse DEF TextDrain, Draining, Control, DrainCancel
  <1>2. CASE mode = "converting"
    <2>1. UNCHANGED <<reading, req, pend, doc>> /\ q' = Done(q, endp)
      BY <1>2 DEF DrainCancel, Escape
    <2>2. QueueFlows
      BY <1>0, <2>1, QueueDone
    <2> QED
      BY <1>1, <2>1, <2>2, SessionSame, ReadingSame, DrainKeeps
  <1>3. CASE mode = "editing"
    <2>1. PICK o \in DoCancel : /\ CancelInput(o)
                                /\ IF o.ok THEN q' = Done(q, o.endp) /\ More
                                   ELSE q' = q /\ Stop
      BY <1>3 DEF DrainCancel
    <2>2. /\ SessionKept /\ ReadingKept /\ doc' = doc /\ o.endp \in Ending
      BY <1>0, <1>1, <2>1, GivenUp
    <2>3. QueueFlows
      BY <1>0, <2>1, <2>2, QueueDone, QueueSame
    <2> QED
      BY <1>1, <2>2, <2>3, DrainKeeps
  <1>4. CASE mode \notin {"converting", "editing"}
    <2>1. UNCHANGED <<reading, req, pend, doc>> /\ q' = Done(q, endp)
      BY <1>4 DEF DrainCancel, edit, tsf
    <2>2. QueueFlows
      BY <1>0, <2>1, QueueDone
    <2> QED
      BY <1>1, <2>1, <2>2, SessionSame, ReadingSame, DrainKeeps
  <1> QED
    BY <1>2, <1>3, <1>4

LEMMA TailDeleted ==
  ASSUME TypeOK, TextOK, pend = 0, Len(reading) > 1, DeleteTail
  PROVE  SessionKept /\ ReadingKept /\ doc' = doc
  <1>1. reading \in Seq(Chars) /\ reading' = Front(reading) /\ UNCHANGED <<req, pend, doc>>
    BY Typed DEF DeleteTail
  <1>2. ToSet(reading') \subseteq ToSet(reading)
    BY <1>1, SetOfFront
  <1>3. Ord(reading', leaked, overtaken)
    BY <1>1, OrdFront DEF TextOK, ReadingOK
  <1> QED
    BY <1>1, <1>2, <1>3, SessionSame DEF ReadingKept

LEMMA DrainBackspaceText ==
  ASSUME TextDrain, DrainBackspace
  PROVE  TextOK'
  <1>0. TypeOK /\ SlotsOK /\ endp \in Ending /\ UNCHANGED typed /\ TextOK
    BY Typed DEF TextDrain, Draining, Base, DrainFrame
  <1>1. pend = 0 /\ leaked' = leaked
    BY FrontElse DEF TextDrain, Draining, Control, DrainBackspace
  <1>2. CASE mode = "idle"
    <2>1. UNCHANGED <<reading, req, pend, doc>> /\ q' = Done(q, endp)
      BY <1>2 DEF DrainBackspace, edit, tsf
    <2>2. QueueFlows
      BY <1>0, <2>1, QueueDone
    <2> QED
      BY <1>1, <2>1, <2>2, SessionSame, ReadingSame, DrainKeeps
  <1>3. CASE mode # "idle" /\ Len(reading) > 1
    <2>1. DeleteTail /\ q' = Done(q, endp)
      BY <1>3 DEF DrainBackspace
    <2>2. QueueFlows
      BY <1>0, <2>1, QueueDone
    <2>3. SessionKept /\ ReadingKept /\ doc' = doc
      BY <1>0, <1>1, <1>3, <2>1, TailDeleted
    <2> QED
      BY <1>1, <2>2, <2>3, DrainKeeps
  <1>4. CASE mode # "idle" /\ ~(Len(reading) > 1)
    <2>1. PICK o \in DoCancel : /\ CancelInput(o)
                       /\ IF o.ok \/ mode = "editing" THEN q' = Done(q, o.endp) /\ More
                          ELSE q' = Failed(q) /\ Stop
      BY <1>4 DEF DrainBackspace
    <2>2. /\ SessionKept /\ ReadingKept /\ doc' = doc /\ o.endp \in Ending
      BY <1>0, <1>1, <2>1, GivenUp
    <2>3. QueueFlows
      BY <1>0, <2>1, <2>2, QueueDone, QueueFailed
    <2> QED
      BY <1>1, <2>2, <2>3, DrainKeeps
  <1> QED
    BY <1>2, <1>3, <1>4

LEMMA QueueConverts ==
  ASSUME TypeOK, TextOK, UNCHANGED typed, NEW texts \in SUBSET Seq(Chars), texts \subseteq {reading},
         q' = CompleteFront(BeginWait(q, texts)) \/ q' = CompleteFront(q)
  PROVE  QueueFlows
  <1>1. q \in Queue
    BY Typed
  <1>2. CASE q' = CompleteFront(q)
    <2>1. FrontGone(q', q)
      BY <1>1, <1>2, CompleteFacts
    <2> QED
      BY <1>1, <2>1, QueueGone DEF SameOwner, SameText
  <1>3. CASE q' = CompleteFront(BeginWait(q, texts))
    <2> PICK y : y = BeginWait(q, texts)
      OBVIOUS
    <2>1. y \in Queue /\ SameOwner(y, q) /\ SameText(y, q) /\ y.initial \subseteq q.initial \cup texts
      BY <1>1, BeginWaitFacts
    <2>2. FrontGone(q', y)
      BY <1>3, <2>1, CompleteFacts
    <2>3. y.initial \subseteq q.initial \cup {reading}
      BY <2>1
    <2> QED
      BY <2>1, <2>2, <2>3, QueueGone
  <1> QED
    BY <1>2, <1>3

LEMMA DrainCandidateText ==
  ASSUME TextDrain, DrainCandidate
  PROVE  TextOK'
  <1>0. TypeOK /\ SlotsOK /\ UNCHANGED typed /\ TextOK /\ reading \in Seq(Chars)
    BY Typed DEF TextDrain, Draining, Base, DrainFrame
  <1>1. UNCHANGED <<req, pend, doc, leaked>>
    BY DEF DrainCandidate, ghost
  <1>2. {reading} \in SUBSET Seq(Chars) /\ {} \in SUBSET Seq(Chars)
    BY <1>0
  <1> PICK texts \in SUBSET Seq(Chars) : texts = {reading}
    BY <1>2
  <1> PICK none \in SUBSET Seq(Chars) : none = {}
    BY <1>2
  <1>3. /\ reading' = reading
        /\ \/ q' = CompleteFront(BeginWait(q, none)) \/ q' = CompleteFront(q)
           \/ q' = CompleteFront(BeginWait(q, texts))
    <2>1. CASE mode = "converting"
      BY <2>1 DEF DrainCandidate, Space
    <2>2. CASE mode = "editing"
      BY <2>2 DEF DrainCandidate, Convert, edit
    <2>3. CASE mode \notin {"converting", "editing"}
      BY <2>3 DEF DrainCandidate, edit
    <2> QED
      BY <2>1, <2>2, <2>3
  <1>4. QueueFlows
    <2>1. CASE q' = CompleteFront(BeginWait(q, none)) \/ q' = CompleteFront(q)
      BY <1>0, <2>1, QueueConverts
    <2>2. CASE q' = CompleteFront(BeginWait(q, texts))
      BY <1>0, <2>2, QueueConverts
    <2> QED
      BY <1>3, <2>1, <2>2
  <1> QED
    BY <1>1, <1>3, <1>4, SessionSame, ReadingSame, DrainKeeps

(* Steps that write a text.                                                *)
New == IF next' = next THEN {} ELSE {next}
AfterWrite(body) ==
  \/ reading' = <<>> /\ pend' = 0
  \/ Spent' /\ reading' = reading /\ pend' = pend /\ req'[pend].body = req[pend].body

LEMMA WroteText ==
  ASSUME Base, Base', TextOK, Grows, WhereStays, ctx' = ctx, NEW body \in Seq(Chars),
         doc' = Write(body), Ord(body, leaked', overtaken'),
         Bef(ToSet(doc[ctx]), ToSet(body), leaked', overtaken'),
         \A ch \in ToSet(body) \ leaked' : where'[ch] = ctx,
         ToSet(body) \subseteq Mentioned \cup New, leaked' \subseteq Mentioned,
         ~q.lost, ~q'.lost, Rises(q'.acts), QueuedChars(q') \subseteq QueuedChars(q),
         q'.initial \subseteq q.initial,
         Bef(ToSet(body), QueuedChars(q'), leaked', overtaken'), AfterWrite(body)
  PROVE  TextOK'
  <1>0. TypeOK /\ Known /\ doc \in [Contexts -> Seq(Chars)] /\ ctx \in Contexts
    BY Typed DEF Base, TextOK
  <1>1. ToSet(reading') \subseteq ToSet(reading)
    BY SetOfEmpty DEF AfterWrite
  <1>2. ToSet(doc'[ctx]) = ToSet(doc[ctx]) \cup ToSet(body)
        /\ \A c \in Contexts : c # ctx => doc'[c] = doc[c]
    BY <1>0, WriteFacts
  <1>3. Known'
    <2>1. Written' \subseteq Mentioned \cup New
      <3>1. \A c \in Contexts : ToSet(doc'[c]) \subseteq Mentioned \cup New
        BY <1>0, <1>2, KnownFacts
      <3> QED
        BY <3>1 DEF Written
    <2>2. InitialChars(q') \subseteq Mentioned /\ overtaken' \subseteq Mentioned
      BY DEF InitialChars, Mentioned, Grows, Passing
    <2>3. Unwritten' = {}
      BY DEF Base, UnwrittenOfLost, Unwritten
    <2>4. Mentioned' \subseteq Mentioned \cup New
      BY <1>1, <2>1, <2>2, <2>3 DEF Mentioned
    <2> QED
      BY <1>0, <2>4, KnownStep DEF New
  <1>4. DocsOK'
    BY <1>0, DocsWritten DEF TextOK
  <1>5. Ord(reading, leaked', overtaken') /\ \A ch \in ToSet(reading) \ leaked' : where'[ch] = ctx
    <2>1. Ord(reading, leaked, overtaken)
      BY DEF TextOK, ReadingOK
    <2>2. Ord(reading, leaked', overtaken')
      BY <2>1, OrdMono DEF Grows, Passing
    <2>3. ToSet(reading) \subseteq Mentioned
      BY <1>0, KnownFacts
    <2> QED
      BY <1>0, <2>2, <2>3, WhereFacts DEF Grows, TextOK, ReadingOK
  <1>6. ReadingOK'
    <2>1. CASE reading' = <<>> /\ pend' = 0
      BY <2>1, OrdEmpty, SetOfEmpty, BefNothing DEF ReadingOK
    <2>2. CASE Spent' /\ reading' = reading
      BY <2>2, <1>5 DEF ReadingOK
    <2> QED
      BY <2>1, <2>2 DEF AfterWrite
  <1>7. QueueOK'
    <2>1. /\ Bef(ToSet(doc[ctx]), QueuedChars(q), leaked, overtaken)
          /\ Bef(ToSet(reading), QueuedChars(q), leaked, overtaken)
          /\ \A ch \in QueuedChars(q) \ leaked : where[ch] = ctx
      BY DEF TextOK, QueueOK
    <2>2. /\ Bef(ToSet(doc[ctx]), QueuedChars(q'), leaked', overtaken')
          /\ Bef(ToSet(reading'), QueuedChars(q'), leaked', overtaken')
      BY <1>1, <2>1, BefMono DEF Grows, Passing
    <2>3. Bef(ToSet(doc'[ctx]), QueuedChars(q'), leaked', overtaken')
      BY <1>2, <2>2, BefJoin
    <2>4. \A ch \in QueuedChars(q') \ leaked' : where'[ch] = ctx
      BY <1>0, <2>1, KnownFacts, WhereFacts DEF Grows
    <2> QED
      BY <2>2, <2>3, <2>4 DEF QueueOK
  <1>8. BodyOK'
    <2> SUFFICES ASSUME pend' # 0 PROVE BodyOK'
      BY DEF BodyOK
    <2> PICK b : b = req[pend].body
      OBVIOUS
    <2>1. reading' = reading /\ pend' = pend /\ req'[pend'].body = b
      BY DEF AfterWrite
    <2>2. ToSet(b) \subseteq ToSet(reading) \cup leaked /\ Ord(b, leaked, overtaken)
      BY <2>1 DEF TextOK, BodyOK
    <2>3. Ord(b, leaked', overtaken')
      BY <2>2, OrdMono DEF Grows, Passing
    <2> QED
      BY <2>1, <2>2, <2>3 DEF BodyOK, Grows
  <1>9. StartsOK'
    BY StartsKept DEF TextOK, ReadingOK
  <1>10. LostOK'
    BY DEF LostOK
  <1> QED
    BY <1>3, <1>4, <1>6, <1>7, <1>8, <1>9, <1>10 DEF TextOK

(* The reading is settled, or the host refuses.                            *)
LEMMA SettledText ==
  ASSUME Base, Base', TextOK, Passing, leaked' = leaked, ctx' = ctx, UNCHANGED typed,
         pend = 0, ~q.lost, QueueFlows, SameOwner(q', q), q'.initial \subseteq q.initial,
         NEW o \in DoCommit(reading, FALSE), Take(o),
         IF o.ok THEN ResetInput ELSE UNCHANGED edit
  PROVE  TextOK'
  <1>0. TypeOK /\ SlotsOK /\ Known /\ reading \in Seq(Chars) /\ Grows /\ WhereStays
    BY Typed DEF Base, TextOK, Grows, WhereStays, typed
  <1>1. o.pend = 0 /\ FreshAnswer(o, reading, FALSE)
    BY <1>0, PlainCommit
  <1>2. pend' = 0
    BY <1>1 DEF Take
  <1>3. CASE ~o.ok
    <2>1. doc' = doc /\ reading' = reading
      BY <1>1, <1>3 DEF FreshAnswer, Take, edit
    <2> QED
      BY <1>2, <2>1, SessionNone, ReadingSame, TextKeeps DEF Base
  <1>4. CASE o.ok
    <2>1. doc' = Write(reading) /\ reading' = <<>>
      BY <1>1, <1>4 DEF FreshAnswer, Take, ResetInput
    <2>2. ~Spent
      BY DEF Spent
    <2>3. /\ Ord(reading, leaked, overtaken) /\ \A ch \in ToSet(reading) \ leaked : where[ch] = ctx
          /\ Bef(ToSet(doc[ctx]), ToSet(reading), leaked, overtaken)
          /\ Bef(ToSet(reading), QueuedChars(q), leaked, overtaken)
      BY <2>2 DEF TextOK, ReadingOK, QueueOK
    <2>4. Ord(reading, leaked', overtaken')
      BY <2>3, OrdMono DEF Passing
    <2>5. Bef(ToSet(doc[ctx]), ToSet(reading), leaked', overtaken')
      BY <2>3, BefMono DEF Passing
    <2>6. ToSet(reading) \subseteq Mentioned /\ leaked' \subseteq Mentioned
      BY <1>0, KnownFacts
    <2>7. \A ch \in ToSet(reading) \ leaked' : where'[ch] = ctx
      BY <2>3 DEF typed
    <2>8. ~q'.lost /\ Rises(q'.acts) /\ QueuedChars(q') \subseteq QueuedChars(q)
      <3>1. next' = next /\ next \in Nat
        BY <1>0, KnownFacts DEF typed
      <3>2. next' # next + 1
        BY <3>1
      <3> QED
        BY <3>2 DEF QueueFlows, Freshly, SameOwner
    <2>9. Bef(ToSet(reading), QueuedChars(q'), leaked', overtaken')
      BY <2>3, <2>8, BefMono DEF Passing
    <2>10. AfterWrite(reading)
      BY <1>2, <2>1 DEF AfterWrite
    <2> QED
      BY <1>0, <2>1, <2>4, <2>5, <2>6, <2>7, <2>8, <2>9, <2>10, WroteText
  <1> QED
    BY <1>3, <1>4

(* A letter is written by itself, nothing being composed.                  *)
LEMMA LetterText ==
  ASSUME Base, Base', TextOK, Passing, WhereStays, leaked' = leaked, ctx' = ctx,
         pend' = 0, reading' = <<>>, ~q.lost, ~q'.lost, NEW x \in Chars,
         doc' = Write(<<x>>), x \in Mentioned \cup New, x \in leaked \/ where'[x] = ctx,
         Bef(ToSet(doc[ctx]), {x}, leaked, overtaken),
         Bef({x}, QueuedChars(q'), leaked', overtaken'),
         Rises(q'.acts), QueuedChars(q') \subseteq QueuedChars(q), q'.initial \subseteq q.initial
  PROVE  TextOK'
  <1>0. Grows /\ leaked' \subseteq Mentioned
    BY KnownFacts DEF Base, TextOK, Grows
  <1>1. <<x>> \in Seq(Chars)
    OBVIOUS
  <1> PICK body \in Seq(Chars) : body = <<x>>
    BY <1>1
  <1>2. ToSet(body) = {x} /\ Ord(body, leaked', overtaken')
    BY SetOfOne, OrdOne
  <1>3. Bef(ToSet(doc[ctx]), ToSet(body), leaked', overtaken')
    BY <1>2, BefMono DEF Passing
  <1>4. Bef(ToSet(body), QueuedChars(q'), leaked', overtaken')
    BY <1>2
  <1>5. doc' = Write(body) /\ AfterWrite(body)
    BY DEF AfterWrite
  <1>6. ToSet(body) \subseteq Mentioned \cup New /\ \A ch \in ToSet(body) \ leaked' : where'[ch] = ctx
    BY <1>2
  <1> QED
    BY <1>0, <1>2, <1>3, <1>4, <1>5, <1>6, WroteText

LEMMA DrainDirectText ==
  ASSUME TextDrain, DrainDirect
  PROVE  TextOK'
  <1>0. /\ TypeOK /\ SlotsOK /\ UNCHANGED typed /\ TextOK /\ ctx' = ctx /\ q \in Queue /\ ~q.lost
        /\ reading \in Seq(Chars) /\ IdleIsEmpty /\ Base /\ Base' /\ Passing /\ leaked' = leaked
    BY Typed DEF TextDrain, Draining, Base, DrainFrame, Runs, DrainDirect, ghost
  <1>1. pend = 0
    BY FrontElse DEF TextDrain, Draining, Control, DrainDirect
  <1>2. q.acts # <<>> /\ Head(q.acts).op \in TextOps
    BY DEF DrainDirect, FrontIs, TextOps
  <1>3. CASE mode = "idle"
    <2>0. Head(q.acts).ch \in Chars /\ Head(q.acts).ch \in QueuedChars(q)
      BY <1>0, <1>2, CompleteFacts DEF FrontGone
    <2> PICK x \in Chars : x = Head(q.acts).ch
      BY <2>0
    <2> PICK body \in Seq(Chars) : body = <<x>>
      <3>1. <<x>> \in Seq(Chars)
        OBVIOUS
      <3> QED
        BY <3>1
    <2>1. PICK o \in DoCommit(body, FALSE) :
         /\ Take(o)
         /\ IF ~o.ok THEN q' = Failed(q) ELSE q' = Done(q, o.endp)
         /\ IF o.ok THEN ResetInput ELSE UNCHANGED edit
      BY <1>3 DEF DrainDirect
    <2>2. o.pend = 0 /\ FreshAnswer(o, body, FALSE)
      BY <1>0, <1>1, PlainCommit
    <2>3. pend' = 0 /\ reading' = <<>> /\ reading = <<>>
      BY <1>0, <1>3, <2>1, <2>2 DEF Take, ResetInput, edit, IdleIsEmpty
    <2>4. CASE ~o.ok
      <3>1. doc' = doc /\ q' = Failed(q)
        BY <2>1, <2>2, <2>4 DEF FreshAnswer, Take
      <3>2. QueueFlows
        BY <1>0, <3>1, QueueFailed
      <3> QED
        BY <1>0, <1>1, <2>3, <3>1, <3>2, SessionNone, ReadingSame, DrainKeeps
    <2>5. CASE o.ok
      <3>1. doc' = Write(body) /\ q' = Done(q, o.endp) /\ o.endp \in Ending
        BY <2>1, <2>2, <2>5 DEF FreshAnswer, Take, Result
      <3>2. FrontGone(q', q)
        BY <1>0, <3>1, DoneFacts
      <3>3. ~q'.lost /\ Rises(q'.acts) /\ QueuedChars(q') \subseteq QueuedChars(q)
            /\ q'.initial \subseteq q.initial /\ x \in QueuedChars(q)
            /\ \A z \in QueuedChars(q') : x < z
        BY <1>0, <1>2, <3>2 DEF FrontGone, SameOwner, TextOK, QueueOK
      <3>4. QueuedChars(q) \subseteq Mentioned /\ \A z \in Mentioned : z \in Nat
        BY <1>0, KnownFacts DEF TextOK
      <3>5. Bef({x}, QueuedChars(q'), leaked', overtaken')
        <4>1. {x} \subseteq Nat /\ QueuedChars(q') \subseteq Nat
          BY <3>3, <3>4, InputFacts
        <4>2. \A y \in {x}, z \in QueuedChars(q') : y < z
          BY <3>3
        <4> QED
          BY <4>1, <4>2, BefLess
      <3>6. Bef(ToSet(doc[ctx]), QueuedChars(q), leaked, overtaken)
            /\ (x \in leaked \/ where[x] = ctx)
        BY <1>0, <3>3 DEF TextOK, QueueOK
      <3>7. Bef(ToSet(doc[ctx]), {x}, leaked, overtaken)
        BY <3>3, <3>6 DEF Bef
      <3>8. WhereStays /\ x \in Mentioned \cup New /\ (x \in leaked \/ where'[x] = ctx)
        BY <1>0, <3>3, <3>4, <3>6 DEF WhereStays, typed
      <3>9. doc' = Write(<<x>>)
        BY <3>1
      <3> QED
        BY <1>0, <2>3, <3>3, <3>5, <3>7, <3>8, <3>9, LetterText
    <2> QED
      BY <2>4, <2>5
  <1>4. CASE mode # "idle"
    <2>1. PICK o \in DoCommit(reading, FALSE) :
         /\ Take(o)
         /\ q' = Failed(q) \/ q' = q
         /\ IF o.ok THEN ResetInput ELSE UNCHANGED edit
      BY <1>4 DEF DrainDirect
    <2>2. QueueFlows
      BY <1>0, <2>1, QueueFailed, QueueSame
    <2>3. SameOwner(q', q) /\ q'.initial = q.initial
      BY <1>0, <2>1, FailedFacts DEF SameOwner
    <2> QED
      BY <1>0, <1>1, <2>1, <2>2, <2>3, SettledText
  <1> QED
    BY <1>3, <1>4

(* The body of a commit: the reading, or the reading a wait started from.  *)
LEMMA BodyText ==
  ASSUME TypeOK, TextOK
  PROVE  /\ Ord(CommitBody, leaked, overtaken) /\ ToSet(CommitBody) \subseteq Mentioned
         /\ CommitBody \in Seq(Chars)
  <1>0. Known /\ CommitBody \in Seq(Chars)
    BY BodyTyped DEF TextOK
  <1>1. CASE CommitBody = reading
    BY <1>0, <1>1, KnownFacts DEF TextOK, ReadingOK
  <1>2. CASE CommitBody # reading
    <2>1. CommitBody \in q.initial
      BY <1>2 DEF CommitBody
    <2> QED
      BY <1>0, <2>1, KnownFacts DEF TextOK, StartsOK
  <1> QED
    BY <1>1, <1>2

(* What a queued commit adds to what is leaked.                            *)
LEMMA LeakedBody ==
  ASSUME TypeOK, TextOK, Passing, UNCHANGED typed,
         leaked' = leaked \cup (ToSet(CommitBody) \ ToSet(reading))
  PROVE  /\ Grows /\ leaked' \subseteq Mentioned /\ WhereStays
         /\ ToSet(CommitBody) \subseteq ToSet(reading) \cup leaked'
         /\ Ord(CommitBody, leaked', overtaken')
  <1>1. Grows /\ WhereStays
    BY DEF Grows, WhereStays, typed
  <1>2. leaked \subseteq Mentioned /\ ToSet(CommitBody) \subseteq Mentioned
    BY BodyText, KnownFacts DEF TextOK
  <1>3. Ord(CommitBody, leaked', overtaken')
    BY <1>1, BodyText, OrdMono DEF Grows, Passing
  <1> QED
    BY <1>1, <1>2, <1>3

(* Where nothing is written but more is leaked.                            *)
LEMMA AskedText ==
  ASSUME Base, Base', TextOK, Grows, UNCHANGED typed, leaked' \subseteq Mentioned, ctx' = ctx,
         doc' = doc, reading' = reading, QueueFlows, ~Spent, BodyOK'
  PROVE  TextOK'
  <1>0. TypeOK /\ Known /\ WhereStays /\ UnwrittenOfLost'
    BY DEF Base, TextOK, WhereStays, typed
  <1>1. Known'
    <2>1. QueuedChars(q') \subseteq Mentioned /\ InitialChars(q') \subseteq Mentioned
      <3>1. next \in Nat /\ next' = next
        BY <1>0, KnownFacts DEF typed
      <3>2. next' # next + 1
        BY <3>1
      <3> QED
        BY <3>2 DEF QueueFlows, Freshly, InitialChars, Mentioned
    <2>2. Written' = Written /\ overtaken' \subseteq Mentioned
      BY SameWritten DEF Grows, Passing, Mentioned
    <2>3. Unwritten' \subseteq Unwritten
      BY <1>0 DEF QueueFlows, UnwrittenOfLost, Unwritten
    <2>4. Mentioned' \subseteq Mentioned
      BY <2>1, <2>2, <2>3 DEF Mentioned
    <2> QED
      BY <1>0, <2>4, KnownStep
  <1>2. DocsOK'
    BY <1>0, DocsSame DEF TextOK
  <1>3. ReadingOK'
    <2>1. /\ Ord(reading, leaked, overtaken) /\ \A ch \in ToSet(reading) \ leaked : where[ch] = ctx
          /\ Bef(ToSet(doc[ctx]), ToSet(reading), leaked, overtaken)
      BY DEF TextOK, ReadingOK
    <2>2. /\ Ord(reading, leaked', overtaken')
          /\ Bef(ToSet(doc[ctx]), ToSet(reading), leaked', overtaken')
      BY <2>1, OrdMono, BefMono DEF Grows, Passing
    <2> QED
      BY <2>1, <2>2 DEF ReadingOK, Grows, typed
  <1>4. QueueOK'
    BY <1>0, QueueStays DEF TextOK
  <1>5. StartsOK'
    BY StartsKept DEF TextOK, ReadingOK, QueueFlows
  <1>6. LostOK'
    <2>1. q'.lost => QueuedChars(q') \subseteq QueuedChars(q)
      BY DEF QueueFlows, Freshly
    <2> QED
      BY <2>1, LostKept DEF TextOK, QueueFlows, Grows
  <1> QED
    BY <1>1, <1>2, <1>3, <1>4, <1>5, <1>6 DEF TextOK

LEMMA DrainCommitText ==
  ASSUME TextDrain, Control', UNCHANGED snap, DrainCommit
  PROVE  TextOK'
  <1>0. /\ TypeOK /\ SlotsOK /\ UNCHANGED typed /\ TextOK /\ ctx' = ctx /\ q \in Queue /\ ~q.lost
        /\ ~q.waiting /\ ~q.failed /\ endp \in Ending /\ Known
        /\ reading \in Seq(Chars) /\ Base /\ Base' /\ Passing /\ PendOK /\ pend \in Slots \cup {0}
    BY Typed DEF TextDrain, Draining, Control, Base, DrainFrame, Runs, TextOK
  <1>1. CASE mode = "idle"
    <2>1. UNCHANGED <<reading, req, pend, doc, leaked>> /\ q' = Done(q, endp)
      BY <1>1 DEF DrainCommit, edit, tsf, ghost
    <2>2. QueueFlows
      BY <1>0, <2>1, QueueDone
    <2> QED
      BY <2>1, <2>2, SessionSame, ReadingSame, DrainKeeps
  <1>2. CASE mode # "idle"
    <2> PICK body \in Seq(Chars) : body = CommitBody
      BY <1>0, BodyText
    <2> PICK yes \in BOOLEAN : yes = TRUE
      OBVIOUS
    <2>1. PICK o \in DoCommit(body, yes) :
           /\ leaked' = leaked \cup (ToSet(body) \ ToSet(reading))
           /\ IF o.ok
             THEN /\ Take(o) /\ ResetInput /\ q' = Done(q, o.endp)
             ELSE /\ UNCHANGED edit
                  /\ IF o.pend # 0 /\ RequestWaits(o.req[o.pend])
                       THEN \/ Take(o) /\ q' = [q EXCEPT !.waiting = TRUE]
                            \/ /\ Take([o EXCEPT !.req[o.pend].stale = TRUE])
                               /\ q' = Failed(q)
                       ELSE Take(o) /\ q' = Failed(q)
      BY <1>2 DEF DrainCommit
    <2>2. \/ FreshAnswer(o, body, yes) /\ Unspent
          \/ KeptAnswer(o, body) \/ AppliedAnswer(o, body)
      BY <1>0, <2>1, CommitFacts
    <2>3. /\ Grows /\ leaked' \subseteq Mentioned /\ WhereStays
          /\ ToSet(body) \subseteq ToSet(reading) \cup leaked'
          /\ Ord(body, leaked', overtaken') /\ ToSet(body) \subseteq Mentioned
          /\ Ord(body, leaked, overtaken)
      BY <1>0, <2>1, LeakedBody, BodyText
    <2>4. CASE o.ok /\ FreshAnswer(o, body, yes) /\ Unspent
      <3>1. Take(o) /\ reading' = <<>> /\ q' = Done(q, o.endp) /\ o.endp \in Ending /\ Idle(o)
            /\ o.doc = Write(body)
        BY <2>1, <2>4 DEF ResetInput, FreshAnswer, Result
      <3>2. doc' = Write(body) /\ pend' = 0
        BY <3>1 DEF Take, Idle
      <3>3. FrontGone(q', q)
        BY <1>0, <3>1, DoneFacts
      <3>4. ~q'.lost /\ Rises(q'.acts) /\ QueuedChars(q') \subseteq QueuedChars(q)
            /\ q'.initial \subseteq q.initial
        BY <1>0, <3>3 DEF FrontGone, SameOwner, TextOK, QueueOK
      <3>5. ~Spent
        BY <2>4 DEF Spent, Unspent
      <3>6. /\ Bef(ToSet(doc[ctx]), ToSet(reading), leaked, overtaken)
            /\ Bef(ToSet(reading), QueuedChars(q), leaked, overtaken)
            /\ \A ch \in ToSet(reading) \ leaked : where[ch] = ctx
        BY <1>0, <3>5 DEF TextOK, ReadingOK, QueueOK
      <3>7. Bef(ToSet(doc[ctx]), ToSet(body), leaked', overtaken')
        BY <2>3, <3>6, BefMono DEF Grows, Passing
      <3>8. Bef(ToSet(body), QueuedChars(q'), leaked', overtaken')
        BY <2>3, <3>4, <3>6, BefMono DEF Grows, Passing
      <3>9. \A ch \in ToSet(body) \ leaked' : where'[ch] = ctx
        BY <1>0, <2>3, <3>6 DEF Grows, typed
      <3>10. AfterWrite(body)
        BY <3>1, <3>2 DEF AfterWrite
      <3> QED
        BY <1>0, <2>3, <3>2, <3>4, <3>7, <3>8, <3>9, <3>10, WroteText
    <2>5. CASE AppliedAnswer(o, body)
      <3>1. Take(o) /\ reading' = <<>> /\ q' = Done(q, o.endp) /\ o.endp \in Ending /\ o.pend = 0
            /\ o.doc = doc /\ pend # 0 /\ req[pend].body = body
        BY <2>1, <2>5 DEF ResetInput, AppliedAnswer, Result, Idle
      <3>2. doc' = doc /\ pend' = 0
        BY <3>1 DEF Take
      <3>3. leaked' = leaked
        <4>1. ToSet(body) \subseteq ToSet(reading) \cup leaked
          BY <1>0, <3>1 DEF TextOK, BodyOK
        <4> QED
          BY <2>1, <4>1
      <3>4. QueueFlows
        BY <1>0, <3>1, QueueDone
      <3>5. Known'
        BY <1>0, <2>3, <3>1, <3>2, <3>3, <3>4, SetOfEmpty, KeepsKnown DEF Base
      <3>6. DocsOK'
        BY <1>0, <2>3, <3>2, DocsSame DEF TextOK
      <3>7. ReadingOK'
        BY <3>1, OrdEmpty, SetOfEmpty, BefNothing DEF ReadingOK
      <3>8. QueueOK'
        BY <1>0, <2>3, <3>1, <3>2, <3>4, SetOfEmpty, QueueStays DEF TextOK
      <3>9. BodyOK' /\ StartsOK'
        BY <1>0, <2>3, <3>2, <3>4, StartsKept DEF BodyOK, TextOK, ReadingOK, QueueFlows
      <3>10. LostOK'
        <4>1. q'.lost => QueuedChars(q') \subseteq QueuedChars(q)
          BY <3>4 DEF QueueFlows, Freshly
        <4> QED
          BY <1>0, <2>3, <3>2, <3>4, <4>1, LostKept DEF TextOK, QueueFlows, Grows
      <3> QED
        BY <3>5, <3>6, <3>7, <3>8, <3>9, <3>10 DEF TextOK
    <2>6. CASE ~o.ok
      <3>0. reading' = reading /\ mode' = mode /\ redraw' = redraw /\ o.doc = doc
        BY <2>1, <2>2, <2>6 DEF edit, FreshAnswer, KeptAnswer, AppliedAnswer
      <3>1. doc' = doc
        <4>1. [o EXCEPT !.req[o.pend].stale = TRUE].doc = o.doc
          BY <2>2 DEF FreshAnswer, KeptAnswer, AppliedAnswer, Result
        <4> QED
          BY <2>1, <2>6, <3>0, <4>1 DEF Take
      <3>2. SameOwner(q', q) /\ q'.acts = q.acts /\ q'.initial = q.initial /\ q' \in Queue
        <4>1. [q EXCEPT !.waiting = TRUE] \in Queue
              /\ SameOwner([q EXCEPT !.waiting = TRUE], q)
              /\ [q EXCEPT !.waiting = TRUE].acts = q.acts
              /\ [q EXCEPT !.waiting = TRUE].initial = q.initial
          BY <1>0 DEF Queue, LongQueue, SameOwner
        <4> QED
          BY <1>0, <2>1, <2>6, <4>1, FailedFacts
      <3>3. QueuedChars(q') = QueuedChars(q)
        BY <1>0, <3>2, QueuedTyped
      <3>4. QueueFlows
        BY <1>0, <3>2, <3>3, QueueCalm DEF TextOK, QueueOK
      <3>5. ~Spent
        <4>1. CASE Unspent
          BY <4>1 DEF Spent, Unspent
        <4>2. CASE KeptAnswer(o, body)
          BY <1>0, <4>2 DEF KeptAnswer, PendOK, Spent, RequestWaits
        <4> QED
          BY <2>2, <2>6, <4>1, <4>2 DEF AppliedAnswer
      <3>6. BodyOK'
        <4> SUFFICES ASSUME pend' # 0 PROVE BodyOK'
          BY DEF BodyOK
        <4>1. CommitBody' = CommitBody
          BY <3>0, <3>2, BodyStays
        <4>2. req'[pend'].body = body
          BY <4>1 DEF TextDrain, Control, PendOK
        <4> QED
          BY <2>3, <3>0, <4>2 DEF BodyOK
      <3> QED
        BY <1>0, <2>3, <3>0, <3>1, <3>4, <3>5, <3>6, AskedText
    <2> QED
      BY <2>2, <2>4, <2>5, <2>6 DEF KeptAnswer
  <1> QED
    BY <1>1, <1>2

LEMMA DrainInsertText ==
  ASSUME TextDrain, DrainInsert
  PROVE  TextOK'
  <1>0. /\ TypeOK /\ UNCHANGED typed /\ TextOK /\ ctx' = ctx /\ q \in Queue /\ ~q.lost /\ Known
        /\ reading \in Seq(Chars) /\ Base /\ Base' /\ Passing /\ leaked' = leaked
        /\ req \in Sessions /\ pend \in Slots \cup {0} /\ doc' = doc /\ UnwrittenOfLost'
        /\ doc \in [Contexts -> Seq(Chars)] /\ ctx \in Contexts
    BY Typed DEF TextDrain, Draining, Base, DrainFrame, Runs, TextOK, DrainInsert, ghost
  <1>1. pend = 0 /\ pend' = 0
    BY FrontElse DEF TextDrain, Draining, Control, DrainInsert
  <1>2. q.acts # <<>> /\ Head(q.acts).op \in TextOps
    BY DEF DrainInsert, FrontIs, TextOps
  <1>3. \/ q' = Failed(q) /\ reading' = reading
        \/ reading' = Append(reading, Head(q.acts).ch) /\ q' = CompleteFront(q)
    BY DEF DrainInsert
  <1>4. CASE q' = Failed(q) /\ reading' = reading
    BY <1>0, <1>1, <1>4, QueueFailed, SessionNone, ReadingSame, DrainKeeps
  <1>5. CASE reading' = Append(reading, Head(q.acts).ch) /\ q' = CompleteFront(q)
    <2>1. FrontGone(q', q)
      BY <1>0, <1>5, CompleteFacts
    <2>2. Head(q.acts).ch \in Chars /\ Head(q.acts).ch \in QueuedChars(q)
      BY <1>0, <1>2, <2>1 DEF FrontGone
    <2> PICK x \in Chars : x = Head(q.acts).ch
      BY <2>2
    <2>3. /\ reading' = Append(reading, x) /\ ToSet(reading') = ToSet(reading) \cup {x}
          /\ x \in QueuedChars(q)
      BY <1>0, <1>5, <2>2, SetOfAppend
    <2>4. /\ Bef(ToSet(doc[ctx]), QueuedChars(q), leaked, overtaken)
          /\ Bef(ToSet(reading), QueuedChars(q), leaked, overtaken)
          /\ \A ch \in QueuedChars(q) \ leaked : where[ch] = ctx
          /\ \A ch \in ToSet(reading) \ leaked : where[ch] = ctx
          /\ Ord(reading, leaked, overtaken) /\ Rises(q.acts)
      BY <1>0 DEF TextOK, QueueOK, ReadingOK
    <2>5. Bef(ToSet(doc[ctx]), ToSet(reading), leaked, overtaken)
      BY <1>0, <1>1 DEF TextOK, ReadingOK, Spent
    <2>6. Bef(ToSet(doc[ctx]), {x}, leaked, overtaken) /\ Bef(ToSet(reading), {x}, leaked, overtaken)
      BY <2>3, <2>4 DEF Bef
    <2>7. Grows /\ WhereStays
      BY <1>0 DEF Grows, WhereStays, typed
    <2>8. /\ ~q'.lost /\ Rises(q'.acts) /\ QueuedChars(q') \subseteq QueuedChars(q)
          /\ q'.initial \subseteq q.initial /\ \A z \in QueuedChars(q') : x < z
      BY <1>0, <1>2, <2>1, <2>4 DEF FrontGone, SameOwner
    <2>9. Known'
      <3>1. InitialChars(q') \subseteq Mentioned /\ overtaken' \subseteq Mentioned
        BY <1>0, <2>8 DEF InitialChars, Mentioned, Passing
      <3>2. Unwritten' = {} /\ Written' = Written
        BY <1>0, <2>8, SameWritten DEF UnwrittenOfLost, Unwritten
      <3>3. Mentioned' \subseteq Mentioned
        BY <1>0, <2>3, <2>8, <3>1, <3>2 DEF Mentioned
      <3> QED
        BY <1>0, <2>7, <3>3, KnownStep
    <2>10. DocsOK'
      BY <1>0, <2>7, DocsSame DEF TextOK
    <2>11. ReadingOK'
      <3>1. Ord(Append(reading, x), leaked, overtaken)
        BY <1>0, <2>4, <2>6, OrdAppend
      <3>2. Ord(reading', leaked', overtaken')
        BY <2>3, <2>7, <3>1, OrdMono DEF Grows, Passing
      <3>3. Bef(ToSet(doc[ctx]), ToSet(reading) \cup {x}, leaked, overtaken)
        BY <2>5, <2>6, BefJoinRight
      <3>4. Bef(ToSet(doc[ctx]), ToSet(reading'), leaked', overtaken')
        BY <2>3, <2>7, <3>3, BefMono DEF Grows, Passing
      <3>5. \A ch \in ToSet(reading') \ leaked' : where'[ch] = ctx'
        BY <1>0, <2>3, <2>4 DEF typed
      <3> QED
        BY <1>0, <3>2, <3>4, <3>5 DEF ReadingOK
    <2>12. QueueOK'
      <3>1. QueuedChars(q) \subseteq Mentioned /\ \A z \in Mentioned : z \in Nat
        BY <1>0, KnownFacts
      <3>2. Bef({x}, QueuedChars(q'), leaked, overtaken)
        <4>1. {x} \subseteq Nat /\ QueuedChars(q') \subseteq Nat
          BY <2>8, <3>1, InputFacts
        <4>2. \A y \in {x}, z \in QueuedChars(q') : y < z
          BY <2>8
        <4> QED
          BY <4>1, <4>2, BefLess
      <3>3. Bef(ToSet(reading), QueuedChars(q'), leaked, overtaken)
        BY <2>4, <2>8, BefMono
      <3>4. Bef(ToSet(reading) \cup {x}, QueuedChars(q'), leaked, overtaken)
        BY <3>2, <3>3, BefJoin
      <3>5. /\ Bef(ToSet(reading'), QueuedChars(q'), leaked', overtaken')
            /\ Bef(ToSet(doc[ctx]), QueuedChars(q'), leaked', overtaken')
        BY <2>3, <2>4, <2>7, <2>8, <3>4, BefMono DEF Grows, Passing
      <3> QED
        BY <1>0, <2>4, <2>8, <3>5 DEF QueueOK, typed
    <2>13. BodyOK' /\ LostOK'
      BY <1>1, <2>8 DEF BodyOK, LostOK
    <2>14. StartsOK'
      BY <1>0, <2>4, <2>7, <2>8, StartsKept DEF TextOK
    <2> QED
      BY <2>9, <2>10, <2>11, <2>12, <2>13, <2>14 DEF TextOK
  <1> QED
    BY <1>3, <1>4, <1>5

LEMMA DrainText ==
  ASSUME Base, Base', Control, Control', TextOK, Passing, Drain
  PROVE  TextOK'
  <1>1. pc = "drain" /\ DrainFrame
    BY DEF Drain, DrainFrame
  <1>2. CASE DrainStops
    BY <1>1, <1>2, DrainStopsText
  <1>3. CASE DrainRedraws
    BY <1>1, <1>3, DrainRedrawsText
  <1>4. CASE Runs /\ ~redraw /\ UNCHANGED snap
             /\ (DrainPrepends \/ DrainExhausts \/ DrainCommit \/ DrainInsert \/ DrainDirect
                  \/ DrainCancel \/ DrainBackspace \/ DrainMove)
    <2>1. TextDrain
      BY <1>1, <1>4 DEF Draining, TextDrain
    <2> QED
      BY <1>4, <2>1, DrainBarsText, DrainCommitText, DrainInsertText, DrainDirectText,
         DrainCancelText, DrainBackspaceText, DrainMoveText
  <1>5. CASE Runs /\ ~redraw /\ DrainCandidate
    <2>1. TextDrain
      BY <1>1, <1>5 DEF Draining, TextDrain
    <2> QED
      BY <1>5, <2>1, DrainCandidateText
  <1> QED
    BY <1>2, <1>3, <1>4, <1>5 DEF Drain

-----------------------------------------------------------------------------
(* The owner of the queue is lost.                                         *)
LEMMA Apart ==
  ASSUME DocsOK, NEW A, Bef(ToSet(doc[ctx]), A, leaked, overtaken),
         \A ch \in A \ leaked : where[ch] = ctx
  PROVE  A \cap Written \subseteq leaked
  <1> SUFFICES ASSUME NEW ch \in A, ch \notin leaked, NEW c \in Contexts, ch \in ToSet(doc[c])
               PROVE FALSE
    BY DEF Written
  <1>1. where[ch] = c
    BY DEF DocsOK
  <1>2. c = ctx
    BY <1>1
  <1> QED
    BY <1>2 DEF Bef, Behind

LEMMA RetiredText ==
  ASSUME Base, TextOK, Grows, RetireOwner, doc' = doc, UNCHANGED typed, leaked' \subseteq Mentioned,
         reading' = <<>> \/ (reading' = reading /\ ToSet(reading) \subseteq leaked')
  PROVE  TextOK'
  <1>0. /\ TypeOK /\ Known /\ WhereStays /\ SlotsOK /\ UnwrittenOfLost /\ TypeOK
        /\ pend \in Slots \cup {0}
    BY Typed DEF Base, TextOK, WhereStays, typed
  <1>1. /\ pend' = 0 /\ QueuedChars(q') = QueuedChars(q) /\ Rises(q'.acts)
        /\ q'.initial \subseteq q.initial
        /\ ~q'.lost => QueuedChars(q') = {}
    BY <1>0, RetireFacts DEF TextOK, QueueOK
  <1>10. q.lost => q' = q
    BY <1>0, RetireFacts
  <1>2. /\ ~q.lost => q'.unwritten \in {{}, {IF pend # 0 THEN req[pend].body ELSE reading}}
        /\ ~q.lost /\ pend # 0 /\ req[pend].applied => q'.unwritten = {}
    BY <1>0, RetireFacts
  <1>3. ~q.lost => Unwritten' \subseteq ToSet(reading) \cup leaked
    <2> PICK txt : txt = IF pend # 0 THEN req[pend].body ELSE reading
      OBVIOUS
    <2>1. ToSet(txt) \subseteq ToSet(reading) \cup leaked
      BY DEF TextOK, BodyOK
    <2>2. ~q.lost => q'.unwritten \in {{}, {txt}}
      BY <1>2
    <2> QED
      BY <2>1, <2>2 DEF Unwritten
  <1>4. Known'
    <2>1. Unwritten' \subseteq Mentioned
      <3>1. q.lost => Unwritten' = Unwritten
        BY <1>10 DEF Unwritten
      <3> QED
        BY <1>3, <3>1 DEF Mentioned
    <2>2. InitialChars(q') \subseteq Mentioned /\ overtaken' \subseteq Mentioned
      BY <1>1 DEF InitialChars, Mentioned, Grows, Passing
    <2>3. Written' = Written /\ ToSet(reading') \subseteq Mentioned
      BY SameWritten, SetOfEmpty DEF Mentioned
    <2>4. Mentioned' \subseteq Mentioned
      BY <1>1, <2>1, <2>2, <2>3 DEF Mentioned
    <2> QED
      BY <1>0, <2>4, KnownStep
  <1>5. DocsOK'
    BY <1>0, DocsSame DEF TextOK
  <1>6. ReadingOK'
    <2>1. CASE reading' = <<>>
      BY <2>1, OrdEmpty, SetOfEmpty, BefNothing DEF ReadingOK
    <2>2. CASE reading' = reading /\ ToSet(reading) \subseteq leaked'
      <3>1. Ord(reading, leaked', overtaken')
        BY OrdMono DEF TextOK, ReadingOK, Grows, Passing
      <3> QED
        BY <2>2, <3>1, BefNothing DEF ReadingOK
    <2> QED
      BY <2>1, <2>2
  <1>7. QueueOK'
    BY <1>1, BefNothing DEF QueueOK
  <1>8. BodyOK'
    BY <1>1 DEF BodyOK
  <1>9. StartsOK'
    BY <1>1, StartsKept DEF TextOK, ReadingOK
  <1>11. LostOK'
    <2>1. CASE q.lost
      BY <1>10, <2>1, LostKept DEF TextOK, Grows
    <2>2. CASE ~q.lost
      <3>1. QueuedChars(q) \cap Written \subseteq leaked
        BY <2>2, Apart DEF TextOK, QueueOK
      <3>2. Unwritten' \cap Written \subseteq leaked
        <4>1. CASE Spent
          BY <1>2, <2>2, <4>1 DEF Spent, Unwritten
        <4>2. CASE ~Spent
          <5>1. ToSet(reading) \cap Written \subseteq leaked
            BY <4>2, Apart DEF TextOK, ReadingOK
          <5> QED
            BY <1>3, <2>2, <5>1
        <4> QED
          BY <4>1, <4>2
      <3>3. Written' = Written
        BY SameWritten
      <3> QED
        BY <1>1, <3>1, <3>2, <3>3 DEF LostOK, Grows
    <2> QED
      BY <2>1, <2>2
  <1> QED
    BY <1>4, <1>5, <1>6, <1>7, <1>8, <1>9, <1>11 DEF TextOK

-----------------------------------------------------------------------------
(* Keys and the order of the text.                                         *)

TextKey(a) == Base /\ Base' /\ Control /\ TextOK /\ Passing /\ KeyFrame(a)

(* A queue that takes the key.                                             *)
LEMMA QueueTakes ==
  ASSUME TypeOK, TextOK, NEW a, Fresh(a), Accept(a.ch), NEW x \in Queue, ~x.lost, ~q.lost,
         QueuedChars(x) \subseteq QueuedChars(q), Rises(x.acts), x.initial \subseteq q.initial,
         q' = Admitted(x, a) \/ q' = PushBack(x, a) \/ q' = PushCommitThenInsert(x, a)
  PROVE  QueueFlows
  <1>0. a \in Action /\ Known /\ x \in LongQueue
    BY QueueFields DEF Fresh, TextOK
  <1>1. /\ SameOwner(q', x) /\ SameWait(q', x)
        /\ QueuedChars(q') = QueuedChars(x) \cup (IF a.op \in TextOps THEN {a.ch} ELSE {})
        /\ Rises(x.acts) /\ (a.op \in TextOps => \A y \in QueuedChars(x) : y < a.ch)
              => Rises(q'.acts)
    <2>1. CASE q' = Admitted(x, a)
      BY <1>0, <2>1, AdmittedFacts
    <2>2. CASE q' = PushBack(x, a)
      BY <1>0, <2>2, PushBackFacts
    <2>3. CASE q' = PushCommitThenInsert(x, a)
      BY <1>0, <2>3, PushCommitFacts
    <2> QED
      BY <2>1, <2>2, <2>3
  <1>2. a.op \in TextOps => a.ch = next /\ a.ch \in Chars /\ a.ch # 0
    BY <1>0, ActionFacts DEF Fresh
  <1>3. a.op \notin TextOps => a.ch = 0
    BY <1>0, ActionFacts
  <1>4. \A y \in QueuedChars(x) : y < next
    BY <1>0, KnownFacts
  <1>5. Rises(q'.acts)
    BY <1>1, <1>2, <1>4
  <1>6. ~q'.lost /\ q'.initial \subseteq q.initial
    BY <1>1 DEF SameOwner, SameWait
  <1>7. Freshly
    <2>1. CASE a.op \in TextOps
      BY <1>1, <1>2, <1>6, <2>1 DEF Accept, Freshly
    <2>2. CASE a.op \notin TextOps
      BY <1>1, <1>3, <2>2 DEF Accept, Freshly, typed
    <2> QED
      BY <2>1, <2>2
  <1> QED
    BY <1>5, <1>6, <1>7 DEF QueueFlows

LEMMA QueueEmptied ==
  ASSUME q' = EmptyQueue, UNCHANGED typed
  PROVE  QueueFlows
  <1>1. QueuedChars(q') = {} /\ ~q'.lost /\ q'.initial = {} /\ Rises(q'.acts)
    BY EmptyQueueFacts
  <1> QED
    BY <1>1 DEF QueueFlows, Freshly, typed

LEMMA KeyKeeps ==
  ASSUME NEW a, TextKey(a), leaked' = leaked, doc' = doc, SessionKept, ReadingKept, QueueFlows
  PROVE  TextOK'
  BY TextKeeps DEF TextKey, KeyFrame, Base

LEMMA NoText == ASSUME NEW a, Fresh(a), a.op \notin TextOps PROVE a.ch = 0
  BY ActionFacts DEF Fresh

LEMMA WaitHeadStuckText ==
  ASSUME NEW a, TextKey(a), WaitHeadStuck(a)
  PROVE  TextOK'
  <1>1. UNCHANGED <<reading, req, pend, doc, leaked, typed>> /\ q' = Failed(q)
    BY DEF WaitHeadStuck, edit, tsf, ghost
  <1>2. QueueFlows
    BY <1>1, QueueFailed DEF TextKey, Base
  <1> QED
    BY <1>1, <1>2, SessionSame, ReadingSame, KeyKeeps

LEMMA WaitLostText ==
  ASSUME NEW a, TextKey(a), WaitLost(a)
  PROVE  TextOK'
  <1>1. UNCHANGED <<reading, req, pend, doc, leaked, typed>> /\ (q' = q \/ q' = EmptyQueue)
    BY DEF WaitLost, edit, tsf
  <1>2. QueueFlows
    BY <1>1, QueueSame, QueueEmptied DEF TextKey
  <1> QED
    BY <1>1, <1>2, SessionSame, ReadingSame, KeyKeeps

LEMMA WaitCancelsFailureText ==
  ASSUME NEW a, TextKey(a), WaitCancelsFailure(a)
  PROVE  TextOK'
  <1>0. TypeOK /\ SlotsOK /\ PendOK
    BY DEF TextKey, Base, Control
  <1>1. UNCHANGED <<leaked, typed>> /\ q' = EmptyQueue /\ Headed.failed
    BY DEF WaitCancelsFailure
  <1>2. PICK o \in DoCancel : Take(o) /\ IF o.ok THEN ResetInput ELSE UNCHANGED edit
    BY DEF WaitCancelsFailure
  <1>3. pend' = 0 /\ doc' = doc
    BY <1>0, <1>2, CancelPend
  <1>4. ~Spent
    BY <1>0, <1>1, CommitHeads DEF Spent, PendOK
  <1>5. reading' = reading \/ reading' = <<>>
    BY <1>2 DEF ResetInput, edit
  <1>6. SessionKept /\ ReadingKept /\ QueueFlows
    BY <1>1, <1>3, <1>4, <1>5, ReadingSame, ReadingReset, QueueEmptied DEF SessionKept
  <1> QED
    BY <1>1, <1>3, <1>6, KeyKeeps

LEMMA WaitGivesUpSnapshotText ==
  ASSUME NEW a, TextKey(a), WaitGivesUpSnapshot(a)
  PROVE  TextOK'
  <1>0. TypeOK /\ TextOK /\ Fresh(a) /\ ~q.lost /\ Accept(a.ch)
    BY DEF TextKey, Base, KeyFrame, WaitGivesUpSnapshot
  <1>1. UNCHANGED <<reading, req, pend, doc, leaked>>
    BY DEF WaitGivesUpSnapshot, edit
  <1>2. QueueFlows
    <2>1. CASE a.op = "Cancel"
      <3>1. a.ch = 0
        BY <1>0, <2>1, NoText DEF TextOps
      <3> QED
        BY <1>0, <2>1, <3>1, QueueEmptied DEF WaitGivesUpSnapshot, Accept
    <2>2. CASE a.op # "Cancel"
      <3> PICK x \in Queue : x = EmptyQueue
        BY EmptyQueueFacts
      <3>1. ~x.lost /\ QueuedChars(x) \subseteq QueuedChars(q) /\ Rises(x.acts)
            /\ x.initial \subseteq q.initial
        BY EmptyQueueFacts
      <3>2. q' = PushBack(x, a)
        BY <2>2 DEF WaitGivesUpSnapshot
      <3> QED
        BY <1>0, <3>1, <3>2, QueueTakes
    <2> QED
      BY <2>1, <2>2
  <1> QED
    BY <1>1, <1>2, SessionSame, ReadingSame, KeyKeeps

LEMMA SessionDisowned ==
  ASSUME TypeOK, NEW b \in BOOLEAN, req' = Disowned(req, pend, b), pend' = pend
  PROVE  SessionKept
  <1>1. req \in Sessions /\ pend \in Slots \cup {0}
    BY Typed
  <1>2. \A s \in Slots : req'[s].body = req[s].body /\ req'[s].applied = req[s].applied
    BY <1>1, DisownedFacts
  <1> QED
    BY <1>1, <1>2 DEF SessionKept

LEMMA WaitRetriesText ==
  ASSUME NEW a, TextKey(a), WaitRetries(a)
  PROVE  TextOK'
  <1>0. TypeOK /\ TextOK /\ q \in Queue /\ endp \in Ending /\ Headed \in Queue
        /\ SameOwner(Headed, q) /\ SameText(Headed, q) /\ Headed.initial = q.initial
    BY Typed, HeadedFacts DEF TextKey, Base
  <1>1. UNCHANGED <<reading, pend, doc, leaked, typed>>
    BY DEF WaitRetries, edit, ghost
  <1>2. PICK f \in FinishEnd(endp) :
           /\ req' = Disowned(req, pend, f.bump)
           /\ q' = [Headed EXCEPT !.failed = FALSE] \/ q' = Headed
    BY DEF WaitRetries
  <1>3. f.bump \in BOOLEAN
    BY <1>0, <1>2, FinishFacts
  <1>4. SessionKept
    BY <1>0, <1>1, <1>2, <1>3, SessionDisowned
  <1>5. QueueFlows
    <2> PICK x : x = Headed
      OBVIOUS
    <2>1. /\ q' \in Queue /\ q'.acts = x.acts /\ q'.lost = x.lost /\ q'.unwritten = x.unwritten
          /\ q'.initial = x.initial
      BY <1>0, <1>2 DEF Queue, LongQueue
    <2>2. QueuedChars(q') = QueuedChars(x)
      BY <1>0, <2>1, QueuedTyped
    <2> QED
      BY <1>0, <1>1, <2>1, <2>2, QueueCalm DEF SameOwner, SameText, TextOK, QueueOK
  <1> QED
    BY <1>1, <1>4, <1>5, ReadingSame, KeyKeeps

(* A look at the commit in flight, or the end of another wait.             *)
LEMMA QueueEnded ==
  ASSUME TextOK, WaitEnded(q', q), UNCHANGED typed
  PROVE  QueueFlows
  BY QueueCalm DEF WaitEnded, SameText, TextOK, QueueOK

LEMMA PollPendingText ==
  ASSUME Base, Base', TextOK, Passing, pend # 0, PollPending,
         UNCHANGED <<reading, doc, ctx, typed>>
  PROVE  TextOK'
  <1>0. TypeOK /\ q \in Queue /\ req \in Sessions /\ pend \in Slots /\ Known
    BY Typed DEF Base, TextOK
  <1>1. CASE ~req[pend].owned
    <2>1. RetireOwner /\ leaked' = leaked \cup ToSet(reading)
      BY <1>1 DEF PollPending
    <2>2. Grows /\ leaked' \subseteq Mentioned
      BY <1>0, <2>1, KnownFacts DEF Grows
    <2> QED
      BY <2>1, <2>2, RetiredText
  <1>2. CASE req[pend].owned
    <2> PICK over : over = [q EXCEPT !.waiting = FALSE]
      OBVIOUS
    <2>1. over \in Queue /\ WaitEnded(over, q)
      BY <1>0, UnwaitedFacts
    <2>2. /\ IF q.failed \/ RequestWaits(req[pend]) THEN UNCHANGED <<q, req>>
                ELSE IF req[pend].applied THEN q' = over /\ UNCHANGED req
                ELSE q' = Failed(over) /\ req' = Revoked(req, pend)
          /\ UNCHANGED <<pend, leaked>>
      BY <1>2 DEF PollPending
    <2>3. SessionKept
      <3>1. req' = req \/ req' = Revoked(req, pend)
        BY <2>2
      <3>2. req'[pend].body = req[pend].body /\ req'[pend].applied = req[pend].applied
        BY <1>0, <3>1, RevokedFacts
      <3> QED
        BY <2>2, <3>2 DEF SessionKept
    <2>4. QueueFlows
      <3>1. CASE q' = q
        BY <3>1, QueueSame
      <3>2. CASE q' = over
        BY <2>1, <3>2, QueueEnded
      <3>3. CASE q' = Failed(over)
        <4>1. /\ SameOwner(q', q) /\ QueuedChars(q') = QueuedChars(q)
              /\ (Rises(q.acts) => Rises(q'.acts)) /\ q'.initial \subseteq q.initial
          BY <2>1, <3>3, FailedFacts DEF WaitEnded, SameOwner, SameText
        <4> QED
          BY <4>1, QueueCalm DEF TextOK, QueueOK
      <3> QED
        BY <2>2, <3>1, <3>2, <3>3
    <2> QED
      BY <2>2, <2>3, <2>4, ReadingSame, TextKeeps DEF Base
  <1> QED
    BY <1>1, <1>2

LEMMA FailConversionWaitText ==
  ASSUME Base, Base', TextOK, Passing, FailConversionWait, UNCHANGED <<reading, doc, ctx, typed>>
  PROVE  TextOK'
  <1>1. CASE pend # 0
    BY <1>1, PollPendingText DEF FailConversionWait
  <1>2. CASE pend = 0
    <2>1. UNCHANGED <<req, pend, leaked>> /\ q' = FailWait(q)
      BY <1>2 DEF FailConversionWait
    <2>2. QueueFlows
      BY <2>1, FailWaitFacts, Typed, QueueEnded DEF Base
    <2> QED
      BY <2>1, <2>2, SessionSame, ReadingSame, TextKeeps DEF Base
  <1> QED
    BY <1>1, <1>2

LEMMA WaitAdmitsText ==
  ASSUME NEW a, TextKey(a), WaitAdmits(a)
  PROVE  TextOK'
  <1>0. TypeOK /\ TextOK /\ Fresh(a) /\ ~q.lost /\ q \in Queue /\ ctx' = ctx
        /\ UNCHANGED <<reading, doc>>
    BY Typed DEF TextKey, Base, KeyFrame, WaitAdmits
  <1>1. CASE CanAdmit(Headed, a.op)
    <2>1. /\ q' = Admitted(Headed, a) /\ Accept(a.ch)
          /\ UNCHANGED <<req, pend, leaked>>
      BY <1>1 DEF WaitAdmits
    <2> PICK x \in Queue : x = Headed
      BY <1>0, HeadedFacts
    <2>2. SameOwner(x, q) /\ SameText(x, q) /\ x.initial = q.initial
      BY <1>0, HeadedFacts
    <2>3. ~x.lost /\ QueuedChars(x) \subseteq QueuedChars(q) /\ Rises(x.acts)
            /\ x.initial \subseteq q.initial
      BY <1>0, <2>2 DEF SameOwner, SameText, TextOK, QueueOK
    <2>4. QueueFlows
      BY <1>0, <2>1, <2>3, QueueTakes
    <2> QED
      BY <1>0, <2>1, <2>4, SessionSame, ReadingSame, KeyKeeps
  <1>2. CASE ~CanAdmit(Headed, a.op)
    BY <1>0, <1>2, FailConversionWaitText DEF WaitAdmits, TextKey
  <1> QED
    BY <1>1, <1>2

LEMMA WaitLoadingText ==
  ASSUME NEW a, TextKey(a), NEW how, WaitLoading(a, how)
  PROVE  TextOK'
  <1>0. TypeOK /\ TextOK /\ Fresh(a) /\ ~q.lost /\ Accept(a.ch)
    BY DEF TextKey, Base, KeyFrame, WaitLoading
  <1>1. UNCHANGED <<reading, req, pend, doc, leaked>>
    BY DEF WaitLoading
  <1>2. QueueFlows
    <2>1. CASE how = "Close" \/ a.op = "Move"
      <3>1. a.op \notin TextOps
        BY <2>1 DEF WaitLoading, Disposition, TextOps
      <3>2. a.ch = 0
        BY <1>0, <3>1, NoText
      <3> QED
        BY <1>0, <2>1, <3>2, QueueEmptied DEF WaitLoading, Accept
    <2>2. CASE ~(how = "Close" \/ a.op = "Move")
      <3> PICK x \in Queue : x = EmptyQueue
        BY EmptyQueueFacts
      <3>1. ~x.lost /\ QueuedChars(x) \subseteq QueuedChars(q) /\ Rises(x.acts)
            /\ x.initial \subseteq q.initial
        BY EmptyQueueFacts
      <3>2. q' = PushBack(x, a) \/ q' = PushCommitThenInsert(x, a)
        BY <2>2 DEF WaitLoading
      <3> QED
        BY <1>0, <3>1, <3>2, QueueTakes
    <2> QED
      BY <2>1, <2>2
  <1> QED
    BY <1>1, <1>2, SessionSame, ReadingSame, KeyKeeps

LEMMA WaitKeyText ==
  ASSUME NEW a, TextKey(a), WaitKey(a)
  PROVE  TextOK'
  BY WaitHeadStuckText, WaitLostText, WaitCancelsFailureText, WaitGivesUpSnapshotText,
     WaitRetriesText, WaitAdmitsText, WaitLoadingText DEF WaitKey

Overtaking == Overtakes => QueuedChars(q) \subseteq overtaken'
TextPlain(a) == TextKey(a) /\ Overtaking /\ PlainFrame(a)

(* What the next letter stands behind, and before what it stands.          *)
LEMMA NextLetter ==
  ASSUME TypeOK, Known, Accept(next), next \in Chars, q' = q, Overtaking
  PROVE  /\ WhereStays /\ next' # next /\ where'[next] = ctx
         /\ \A A : A \subseteq Mentioned => Bef(A, {next}, leaked, overtaken)
         /\ Bef({next}, QueuedChars(q), leaked', overtaken')
  <1>0. next \in Nat /\ next # 0 /\ next \notin QueuedChars(q)
    BY KnownFacts, InputFacts
  <1>1. next' = next + 1 /\ where' = [where EXCEPT ![next] = ctx]
    BY <1>0 DEF Accept
  <1>2. WhereStays /\ next' # next
    BY <1>0, <1>1 DEF WhereStays
  <1>3. where'[next] = ctx
    BY <1>2, WhereFacts
  <1>4. \A A : A \subseteq Mentioned => Bef(A, {next}, leaked, overtaken)
    BY BeforeNext
  <1>5. QueuedChars(q) \subseteq overtaken'
    BY <1>0, <1>2 DEF Overtaking, Overtakes
  <1>6. {next} \cap QueuedChars(q) = {}
    BY <1>0
  <1>7. Bef({next}, QueuedChars(q), leaked', overtaken')
    BY <1>5, <1>6, BefOvertaken
  <1> QED
    BY <1>2, <1>3, <1>4, <1>7

LEMMA NextLetterText ==
  ASSUME Base, Base', TextOK, Passing, Overtaking, leaked' = leaked, ctx' = ctx,
         reading' = <<>>, pend' = 0, ~q.lost, q' = q, next \in Chars, Accept(next),
         doc' = Write(<<next>>)
  PROVE  TextOK'
  <1>0. TypeOK /\ Known /\ ctx \in Contexts
    BY Typed DEF Base, TextOK
  <1>1. /\ WhereStays /\ next' # next /\ where'[next] = ctx
        /\ Bef({next}, QueuedChars(q), leaked', overtaken')
    BY <1>0, NextLetter
  <1>2. ToSet(doc[ctx]) \subseteq Mentioned
    BY <1>0, KnownFacts
  <1>3. Bef(ToSet(doc[ctx]), {next}, leaked, overtaken)
    BY <1>0, <1>2, NextLetter
  <1>4. next \in Mentioned \cup New
    BY <1>1 DEF New
  <1>5. Rises(q'.acts)
    BY DEF TextOK, QueueOK
  <1> PICK x \in Chars : x = next
    OBVIOUS
  <1>6. /\ doc' = Write(<<x>>) /\ x \in Mentioned \cup New /\ where'[x] = ctx
        /\ Bef(ToSet(doc[ctx]), {x}, leaked, overtaken)
        /\ Bef({x}, QueuedChars(q'), leaked', overtaken')
    BY <1>1, <1>3, <1>4
  <1> QED
    BY <1>1, <1>5, <1>6, LetterText

LEMMA EndKeyText ==
  ASSUME NEW a, TextKey(a), ~WaitTakes(a.op), EndKey(a)
  PROVE  TextOK'
  <1>0. TypeOK /\ SlotsOK /\ PendOK /\ TextOK /\ endp \in Ending /\ UNCHANGED <<leaked, typed>>
        /\ ~q.lost
    BY Typed, PlainKey DEF TextKey, Base, Control, EndKey
  <1>1. CASE a.op = "Cancel" /\ endp.caret
    <2>1. PICK o \in DoCancel : Take(o) /\ IF o.ok THEN ResetInput ELSE UNCHANGED edit
      BY <1>1 DEF EndKey
    <2>2. pend' = 0 /\ doc' = doc /\ q' = EmptyQueue
      BY <1>0, <1>1, <2>1, CancelPend DEF EndKey
    <2>3. pend = 0
      BY <1>0, <1>1, CommitHeads DEF WaitTakes, Awaited, Claims
    <2>4. reading' = reading \/ reading' = <<>>
      BY <2>1 DEF ResetInput, edit
    <2>5. SessionKept /\ ReadingKept
      BY <2>2, <2>3, <2>4, SessionNone, ReadingSame, ReadingReset
    <2>6. QueueFlows
      BY <1>0, <2>2, QueueEmptied
    <2> QED
      BY <1>0, <2>2, <2>5, <2>6, KeyKeeps
  <1>2. CASE ~(a.op = "Cancel" /\ endp.caret)
    <2>1. PICK f \in FinishEnd(endp) : req' = Disowned(req, pend, f.bump)
      BY <1>2 DEF EndKey
    <2>2. UNCHANGED <<q, reading, pend, doc>>
      BY <1>2 DEF EndKey, edit
    <2>3. f.bump \in BOOLEAN
      BY <1>0, <2>1, FinishFacts
    <2>4. SessionKept
      BY <1>0, <2>1, <2>2, <2>3, SessionDisowned
    <2> QED
      BY <1>0, <2>2, <2>4, QueueSame, ReadingSame, KeyKeeps
  <1> QED
    BY <1>1, <1>2

LEMMA ConvertingKeyText ==
  ASSUME NEW a, TextPlain(a), ConvertingKey(a)
  PROVE  TextOK'
  <1>0. TypeOK /\ TextOK /\ TextKey(a) /\ Fresh(a) /\ ~q.lost /\ q \in Queue
        /\ UNCHANGED <<req, pend, doc, leaked>>
    BY Typed DEF TextPlain, TextKey, KeyFrame, PlainFrame, Base, ConvertingKey, ghost
  <1>1. CASE a.op \in TextOps \cup {"Commit", "Backspace"}
    <2>1. /\ q' = PushCommitThenInsert(q, a) \/ q' = PushBack(q, a)
          /\ Accept(a.ch) /\ reading' = reading
      BY <1>1 DEF ConvertingKey, TextOps
    <2>2. Rises(q.acts)
      BY <1>0 DEF TextOK, QueueOK
    <2>3. QueueFlows
      BY <1>0, <2>1, <2>2, QueueTakes
    <2> QED
      BY <1>0, <2>1, <2>3, SessionSame, ReadingSame, KeyKeeps
  <1>2. CASE a.op = "Candidate"
    <2>1. /\ reading' = reading /\ UNCHANGED typed
          /\ q' = IF window' = "loading" THEN BeginWait(q, {}) ELSE q
      BY <1>2 DEF ConvertingKey, TextOps, Space
    <2> PICK none \in SUBSET Seq(Chars) : none = {}
      OBVIOUS
    <2>2. QueueFlows
      <3>1. CASE q' = q
        BY <1>0, <2>1, <3>1, QueueSame
      <3>2. CASE q' = BeginWait(q, none)
        <4>1. SameOwner(q', q) /\ SameText(q', q) /\ q'.initial \subseteq q.initial \cup none
          BY <1>0, <3>2, BeginWaitFacts
        <4> QED
          BY <1>0, <2>1, <4>1, QueueCalm DEF SameText, TextOK, QueueOK
      <3> QED
        BY <2>1, <3>1, <3>2
    <2> QED
      BY <1>0, <2>1, <2>2, SessionSame, ReadingSame, KeyKeeps
  <1>3. CASE a.op \notin TextOps \cup {"Commit", "Backspace", "Candidate"}
    <2>1. UNCHANGED <<q, reading, typed>>
      BY <1>3 DEF ConvertingKey, Escape
    <2> QED
      BY <1>0, <2>1, QueueSame, SessionSame, ReadingSame, KeyKeeps
  <1> QED
    BY <1>1, <1>2, <1>3

LEMMA InputCharText ==
  ASSUME NEW a, TextPlain(a), InputChar(a)
  PROVE  TextOK'
  <1>0. /\ TypeOK /\ TextOK /\ Known /\ Fresh(a) /\ ~q.lost /\ pend = 0 /\ Passing /\ Overtaking
        /\ reading \in Seq(Chars) /\ ctx' = ctx /\ ctx \in Contexts /\ a.op = "Insert"
        /\ UnwrittenOfLost
    BY Typed DEF TextPlain, TextKey, KeyFrame, PlainFrame, Base, InputChar, TextOK
  <1>1. a.ch = next /\ next \in Chars
    BY <1>0, ActionFacts, InputFacts DEF Fresh, TextOps
  <1>2. /\ UNCHANGED <<q, req, pend, doc, leaked>> /\ Accept(next)
        /\ reading' = Append(reading, next)
    BY <1>1 DEF InputChar, ghost
  <1>3. ToSet(reading') = ToSet(reading) \cup {next}
    BY <1>0, <1>1, <1>2, SetOfAppend
  <1>4. /\ WhereStays /\ next' # next /\ where'[next] = ctx
        /\ Bef({next}, QueuedChars(q), leaked', overtaken')
    BY <1>0, <1>1, <1>2, NextLetter
  <1>5. Grows
    BY <1>0, <1>2 DEF Grows
  <1>6. /\ ToSet(doc[ctx]) \subseteq Mentioned /\ ToSet(reading) \subseteq Mentioned
        /\ QueuedChars(q) \subseteq Mentioned
    BY <1>0, KnownFacts
  <1>7. Bef(ToSet(doc[ctx]), {next}, leaked, overtaken) /\ Bef(ToSet(reading), {next}, leaked, overtaken)
    BY <1>0, <1>1, <1>2, <1>6, NextLetter
  <1>8. /\ Bef(ToSet(doc[ctx]), QueuedChars(q), leaked, overtaken)
        /\ Bef(ToSet(reading), QueuedChars(q), leaked, overtaken)
        /\ Ord(reading, leaked, overtaken)
        /\ Bef(ToSet(doc[ctx]), ToSet(reading), leaked, overtaken)
        /\ \A ch \in ToSet(reading) \ leaked : where[ch] = ctx
        /\ \A ch \in QueuedChars(q) \ leaked : where[ch] = ctx
    BY <1>0 DEF TextOK, ReadingOK, QueueOK, Spent
  <1>9. Known'
    <2>1. Written' = Written /\ overtaken' \subseteq Mentioned
      BY <1>0, <1>2, SameWritten DEF Passing, Mentioned
    <2>2. Unwritten' = Unwritten /\ InitialChars(q') = InitialChars(q)
      BY <1>2 DEF Unwritten, InitialChars
    <2>3. Mentioned' \subseteq Mentioned \cup {next}
      BY <1>2, <1>3, <2>1, <2>2 DEF Mentioned
    <2> QED
      BY <1>0, <1>4, <2>3, KnownStep
  <1>10. DocsOK'
    BY <1>0, <1>2, <1>4, <1>5, DocsSame DEF TextOK
  <1>11. ReadingOK'
    <2>1. Ord(Append(reading, next), leaked, overtaken)
      BY <1>0, <1>1, <1>7, <1>8, OrdAppend
    <2>2. Ord(reading', leaked', overtaken')
      BY <1>2, <1>5, <2>1, OrdMono DEF Grows, Passing
    <2>3. Bef(ToSet(doc[ctx]), ToSet(reading) \cup {next}, leaked, overtaken)
      BY <1>7, <1>8, BefJoinRight
    <2>4. Bef(ToSet(doc[ctx]), ToSet(reading'), leaked', overtaken')
      BY <1>3, <1>5, <2>3, BefMono DEF Grows, Passing
    <2>5. \A ch \in ToSet(reading') \ leaked' : where'[ch] = ctx
      BY <1>0, <1>2, <1>3, <1>4, <1>6, <1>8, WhereFacts
    <2> QED
      BY <1>0, <1>2, <2>2, <2>4, <2>5 DEF ReadingOK
  <1>12. QueueOK'
    <2>1. /\ Bef(ToSet(doc[ctx]), QueuedChars(q), leaked', overtaken')
          /\ Bef(ToSet(reading), QueuedChars(q), leaked', overtaken')
      BY <1>5, <1>8, BefMono DEF Grows, Passing
    <2>2. Bef(ToSet(reading) \cup {next}, QueuedChars(q), leaked', overtaken')
      BY <1>4, <2>1, BefJoin
    <2>3. \A ch \in QueuedChars(q) \ leaked : where'[ch] = ctx
      BY <1>0, <1>4, <1>6, <1>8, WhereFacts
    <2>4. Rises(q.acts)
      BY <1>0 DEF TextOK, QueueOK
    <2> QED
      BY <1>0, <1>2, <1>3, <2>1, <2>2, <2>3, <2>4 DEF QueueOK
  <1>13. BodyOK' /\ LostOK'
    BY <1>0, <1>2 DEF BodyOK, LostOK
  <1>14. StartsOK'
    BY <1>0, <1>2, <1>5, <1>8, StartsKept DEF TextOK
  <1> QED
    BY <1>9, <1>10, <1>11, <1>12, <1>13, <1>14 DEF TextOK

LEMMA CommitCharDirectText ==
  ASSUME NEW a, TextPlain(a), CommitCharDirect(a)
  PROVE  TextOK'
  <1>0. /\ TypeOK /\ SlotsOK /\ IdleIsEmpty /\ Base /\ Base' /\ TextOK /\ Passing /\ Overtaking
        /\ pend = 0 /\ ~q.lost /\ ctx' = ctx /\ Fresh(a) /\ a.op = "Direct"
        /\ UNCHANGED <<q, leaked>>
    BY DEF TextPlain, TextKey, KeyFrame, PlainFrame, Base, CommitCharDirect, ghost
  <1>1. CASE mode = "idle"
    <2>1. a.ch = next /\ next \in Chars
      BY <1>0, ActionFacts, InputFacts DEF Fresh, TextOps
    <2> PICK x \in Chars : x = next
      BY <2>1
    <2>2. <<x>> \in Seq(Chars)
      OBVIOUS
    <2>3. PICK o \in DoCommit(<<x>>, FALSE) : Take([o EXCEPT !.doc = Write(<<x>>)])
      BY <1>1, <2>1 DEF CommitCharDirect
    <2>4. o.pend = 0 /\ pend' = o.pend /\ doc' = Write(<<x>>)
      BY <1>0, <2>2, <2>3, PlainCommit, DirectFacts
    <2>5. UNCHANGED edit /\ Accept(next)
      BY <1>1, <2>1 DEF CommitCharDirect
    <2>6. reading' = <<>>
      BY <1>0, <1>1, <2>5 DEF edit, IdleIsEmpty
    <2> QED
      BY <1>0, <2>1, <2>4, <2>5, <2>6, NextLetterText
  <1>2. CASE mode # "idle"
    <2>1. PICK o \in DoCommit(reading, FALSE) :
                   /\ Take(o)
                   /\ IF o.ok THEN ResetInput ELSE UNCHANGED edit
      BY <1>2 DEF CommitCharDirect
    <2>2. UNCHANGED typed
      BY <1>2 DEF CommitCharDirect
    <2>3. QueueFlows /\ SameOwner(q', q)
      BY <1>0, <2>2, QueueSame DEF SameOwner
    <2> QED
      BY <1>0, <2>1, <2>2, <2>3, SettledText
  <1> QED
    BY <1>1, <1>2

LEMMA EditingKeyText ==
  ASSUME NEW a, TextPlain(a), EditingKey(a)
  PROVE  TextOK'
  <1>0. /\ TypeOK /\ SlotsOK /\ Base /\ Base' /\ TextOK /\ Passing /\ TextKey(a) /\ q \in Queue
        /\ pend = 0 /\ ~q.lost /\ ctx' = ctx /\ reading \in Seq(Chars)
        /\ UNCHANGED <<leaked, typed>>
    BY Typed DEF TextPlain, TextKey, KeyFrame, PlainFrame, Base, EditingKey
  <1>1. ASSUME NEW o \in DoCancel, CancelInput(o), q' = q PROVE TextOK'
    <2>1. SessionKept /\ ReadingKept /\ doc' = doc
      BY <1>0, <1>1, GivenUp
    <2>2. QueueFlows
      BY <1>0, <1>1, QueueSame
    <2> QED
      BY <1>0, <2>1, <2>2, KeyKeeps
  <1>2. CASE a.op = "Commit"
    <2>1. PICK o \in DoCommit(reading, FALSE) :
            Take(o) /\ (IF o.ok THEN ResetInput ELSE UNCHANGED edit)
      BY <1>2 DEF EditingKey
    <2>2. q' = q
      BY <1>2 DEF EditingKey
    <2>3. QueueFlows /\ SameOwner(q', q)
      BY <1>0, <2>2, QueueSame DEF SameOwner
    <2> QED
      BY <1>0, <2>1, <2>2, <2>3, SettledText
  <1>3. CASE a.op = "Cancel"
    <2>1. (\E o \in DoCancel : CancelInput(o)) /\ q' = q
      BY <1>3 DEF EditingKey
    <2> QED
      BY <1>1, <2>1
  <1>4. CASE a.op = "Backspace"
    <2>0. q' = q
      BY <1>4 DEF EditingKey
    <2>1. CASE Len(reading) > 1
      <3>1. DeleteTail
        BY <1>4, <2>1 DEF EditingKey
      <3>2. SessionKept /\ ReadingKept /\ doc' = doc
        BY <1>0, <2>1, <3>1, TailDeleted
      <3> QED
        BY <1>0, <2>0, <3>2, QueueSame, KeyKeeps
    <2>2. CASE ~(Len(reading) > 1)
      <3>1. \E o \in DoCancel : CancelInput(o)
        BY <1>4, <2>2 DEF EditingKey
      <3> QED
        BY <1>1, <2>0, <3>1
    <2> QED
      BY <2>1, <2>2
  <1>5. CASE a.op = "Candidate"
    <2>1. /\ UNCHANGED <<reading, req, pend, doc>>
          /\ q' = q \/ q' = BeginWait(q, {reading})
      BY <1>5 DEF EditingKey, edit, tsf
    <2>2. {reading} \in SUBSET Seq(Chars)
      BY <1>0
    <2> PICK texts \in SUBSET Seq(Chars) : texts = {reading}
      BY <2>2
    <2>3. QueueFlows
      <3>1. CASE q' = q
        BY <1>0, <3>1, QueueSame
      <3>2. CASE q' = BeginWait(q, texts)
        <4>1. SameOwner(q', q) /\ SameText(q', q) /\ q'.initial \subseteq q.initial \cup texts
          BY <1>0, <3>2, BeginWaitFacts
        <4> QED
          BY <1>0, <4>1, QueueCalm DEF SameText, TextOK, QueueOK
      <3> QED
        BY <2>1, <3>1, <3>2
    <2> QED
      BY <1>0, <2>1, <2>3, SessionSame, ReadingSame, KeyKeeps
  <1>6. a.op \in {"Commit", "Cancel", "Backspace", "Candidate"}
    BY DEF EditingKey
  <1> QED
    BY <1>2, <1>3, <1>4, <1>5, <1>6

LEMMA KeyText ==
  ASSUME Base, Base', Control, TextOK, Passing, Overtaking, NEW op \in Ops, Key(op)
  PROVE  TextOK'
  <1>0. TypeOK
    BY DEF Base
  <1> PICK a : a = Act(op, IF op \in TextOps THEN next ELSE 0)
    OBVIOUS
  <1>1. /\ pc = "idle" /\ parked = NoAct /\ ctx' = ctx /\ (op \in TextOps => next <= MaxChars)
        /\ IF WaitTakes(op) THEN WaitKey(a)
           ELSE IF endp.on THEN EndKey(a)
           ELSE ConvertingKey(a) \/ InputChar(a) \/ CommitCharDirect(a) \/ EditingKey(a)
    BY DEF Key
  <1>2. KeyFrame(a) /\ a.op = op
    BY <1>0, <1>1, FreshKey DEF KeyFrame, Act
  <1>2a. TextKey(a)
    BY <1>2 DEF TextKey
  <1>3. CASE WaitTakes(op)
    BY <1>1, <1>2a, <1>3, WaitKeyText
  <1>4. CASE ~WaitTakes(op) /\ endp.on
    BY <1>1, <1>2, <1>2a, <1>4, EndKeyText
  <1>5. CASE ~WaitTakes(op) /\ ~endp.on
    <2>1. PlainFrame(a)
      BY <1>0, <1>2, <1>5, PlainKey DEF PlainFrame
    <2>2. TextPlain(a)
      BY <1>2a, <2>1 DEF TextPlain
    <2> QED
      BY <1>1, <1>5, <2>2, ConvertingKeyText, InputCharText, CommitCharDirectText,
         EditingKeyText
  <1> QED
    BY <1>3, <1>4, <1>5

-----------------------------------------------------------------------------
(* Events and the order of the text.                                       *)

Turns == Base /\ Base' /\ Control /\ TextOK /\ Passing

LEMMA AdmitParkedText ==
  ASSUME Turns, AdmitParked
  PROVE  TextOK'
  <1>0. /\ TypeOK /\ TextOK /\ q \in Queue /\ parked \in Action /\ Fresh(parked)
        /\ UNCHANGED <<reading, req, pend, doc, leaked, ctx>>
    BY Typed DEF Turns, Base, AdmitParked, ParkedOK, Fresh, edit, tsf, ghost
  <1>1. QueueFlows
    <2>1. CASE CanAdmit(q, parked.op)
      <3>1. q' = Admitted(q, parked) /\ Accept(parked.ch)
        BY <2>1 DEF AdmitParked
      <3>2. ~q.lost
        BY <2>1 DEF CanAdmit, CanPush, CanPushCommitThenInsert
      <3>3. Rises(q.acts)
        BY <1>0 DEF TextOK, QueueOK
      <3> QED
        BY <1>0, <3>1, <3>2, <3>3, QueueTakes
    <2>2. CASE ~CanAdmit(q, parked.op)
      <3>1. q' = q /\ UNCHANGED typed
        BY <2>2 DEF AdmitParked
      <3> QED
        BY <1>0, <3>1, QueueSame
    <2> QED
      BY <2>1, <2>2
  <1> QED
    BY <1>0, <1>1, SessionSame, ReadingSame, TextKeeps DEF Turns, Base

LEMMA DirectAfterSettleText ==
  ASSUME Turns, Overtaking, DirectAfterSettle
  PROVE  TextOK'
  <1>0. /\ TypeOK /\ SlotsOK /\ IdleIsEmpty /\ pc = "direct" /\ pend = 0 /\ ~q.lost /\ mode = "idle"
        /\ UNCHANGED <<q, leaked, ctx>> /\ UNCHANGED edit
    BY DEF Turns, Base, Control, DirectOK, DirectAfterSettle, ghost
  <1>1. parked.ch \in Chars /\ parked.ch = next
    <2>1. parked.ch # 0 /\ parked.op \in TextOps /\ parked.ch = next
      BY <1>0 DEF Turns, Base, ParkedOK
    <2> QED
      BY <1>0, <2>1, Typed, ActionFacts, NoActFacts
  <1> PICK x \in Chars : x = next
    BY <1>1
  <1>2. <<x>> \in Seq(Chars)
    OBVIOUS
  <1>3. PICK o \in DoCommit(<<x>>, FALSE) : Take([o EXCEPT !.doc = Write(<<x>>)])
    BY <1>1 DEF DirectAfterSettle
  <1>4. o.pend = 0 /\ pend' = o.pend /\ doc' = Write(<<x>>)
    BY <1>0, <1>2, <1>3, PlainCommit, DirectFacts
  <1>5. Accept(next) /\ reading' = <<>>
    BY <1>0, <1>1 DEF DirectAfterSettle, edit, IdleIsEmpty
  <1> QED
    BY <1>0, <1>1, <1>4, <1>5, NextLetterText DEF Turns

(* The reading that a focus change leaves behind.                          *)
LEMMA LeftBehindText ==
  ASSUME Turns, q' = q, QueuedChars(q) = {}, pend = 0, pend' = 0, UNCHANGED <<reading, doc, typed>>,
         leaked' = leaked \cup ToSet(reading)
  PROVE  TextOK'
  <1>0. TypeOK /\ Known /\ Grows /\ WhereStays /\ TextOK
    BY DEF Turns, Base, TextOK, Grows, WhereStays, typed
  <1>1. Known'
    <2>1. Written' = Written /\ overtaken' \subseteq Mentioned
      BY <1>0, SameWritten DEF Grows, Passing, Mentioned
    <2>2. Unwritten' = Unwritten /\ InitialChars(q') = InitialChars(q)
      BY DEF Unwritten, InitialChars
    <2>3. Mentioned' \subseteq Mentioned
      BY <2>1, <2>2 DEF Mentioned
    <2> QED
      BY <1>0, <2>3, KnownStep
  <1>2. DocsOK'
    BY <1>0, DocsSame DEF TextOK
  <1>3. ReadingOK'
    <2>1. Ord(reading, leaked, overtaken)
      BY <1>0 DEF TextOK, ReadingOK
    <2>2. Ord(reading', leaked', overtaken')
      BY <1>0, <2>1, OrdMono DEF Grows, Passing
    <2> QED
      BY <2>2, BefNothing DEF ReadingOK
  <1>4. QueueOK'
    BY <1>0, BefNothing DEF TextOK, QueueOK
  <1>5. BodyOK'
    BY DEF BodyOK
  <1>6. StartsOK'
    BY <1>0, StartsKept DEF TextOK, ReadingOK
  <1>7. LostOK'
    BY <1>0, LostKept DEF TextOK
  <1> QED
    BY <1>1, <1>2, <1>3, <1>4, <1>5, <1>6, <1>7 DEF TextOK

LEMMA OnSetFocusText ==
  ASSUME Turns, NEW c \in Contexts, OnSetFocus(c)
  PROVE  TextOK'
  <1>0. /\ TypeOK /\ TextOK /\ Base /\ Known /\ Passing /\ q \in Queue /\ UNCHANGED typed
    BY Typed DEF Turns, Base, TextOK, OnSetFocus
  <1>1. leaked \subseteq Mentioned /\ ToSet(reading) \subseteq Mentioned
    BY <1>0, KnownFacts
  <1>2. CASE open
    <2>1. RetireOwner /\ reading' = <<>> /\ doc' = doc /\ leaked' = leaked
      BY <1>2 DEF OnSetFocus, ResetAbandoned, ResetInput
    <2>2. Grows
      BY <1>0, <2>1 DEF Grows
    <2> QED
      BY <1>0, <1>1, <2>1, <2>2, RetiredText
  <1>3. CASE ~open /\ HasWork(q)
    <2>1. RetireOwner /\ reading' = reading /\ doc' = doc /\ leaked' = leaked \cup ToSet(reading)
      BY <1>3 DEF OnSetFocus, edit
    <2>2. Grows
      BY <1>0, <2>1 DEF Grows
    <2> QED
      BY <1>0, <1>1, <2>1, <2>2, RetiredText
  <1>4. CASE ~open /\ ~HasWork(q)
    <2>1. /\ q' = q /\ UNCHANGED pend /\ reading' = reading /\ doc' = doc
          /\ leaked' = leaked \cup ToSet(reading)
      BY <1>4 DEF OnSetFocus, edit
    <2>2. pend = 0
      BY <1>4 DEF Turns, Control, PendOK, FrontIs, HasWork
    <2>3. QueuedChars(q) = {}
      BY <1>0, <1>4, QueuedTyped, TextOfNone DEF HasWork
    <2> QED
      BY <1>0, <2>1, <2>2, <2>3, LeftBehindText
  <1> QED
    BY <1>2, <1>3, <1>4

LEMMA InvalidatedText ==
  ASSUME Turns, req' = Invalidated(req), UNCHANGED <<q, reading, pend, doc, ctx, typed, leaked>>
  PROVE  TextOK'
  <1>0. TypeOK /\ req \in Sessions /\ pend \in Slots \cup {0} /\ TextOK
    BY Typed DEF Turns, Base
  <1>1. SessionKept
    BY <1>0, InvalidKeeps DEF SessionKept
  <1> QED
    BY <1>0, <1>1, QueueSame, ReadingSame, TextKeeps DEF Turns, Base

LEMMA OnCompositionTerminatedText ==
  ASSUME Turns, OnCompositionTerminated
  PROVE  TextOK'
  <1>0. UNCHANGED <<ctx, typed, leaked>>
    BY DEF OnCompositionTerminated
  <1>1. CASE endp.on
    BY <1>0, <1>1, InvalidatedText DEF OnCompositionTerminated, edit
  <1>2. CASE ~endp.on
    <2>1. RetireOwner /\ reading' = <<>> /\ doc' = doc
      BY <1>2 DEF OnCompositionTerminated, ResetAbandoned, ResetInput
    <2>2. Grows /\ leaked' \subseteq Mentioned
      BY <1>0, KnownFacts DEF Grows, Turns, Base, TextOK
    <2> QED
      BY <1>0, <2>1, <2>2, RetiredText DEF Turns
  <1> QED
    BY <1>1, <1>2

LEMMA OnPushContextText ==
  ASSUME Turns, OnPushContext
  PROVE  TextOK'
  BY InvalidatedText DEF OnPushContext, edit, ghost

LEMMA RunHeldSessionText ==
  ASSUME Turns, NEW s \in Slots, RunHeldSession(s)
  PROVE  TextOK'
  <1>0. /\ TypeOK /\ SlotsOK /\ PendOK /\ TextOK /\ Known /\ req \in Sessions
        /\ pend \in Slots \cup {0} /\ doc \in [Contexts -> Seq(Chars)] /\ ctx \in Contexts
    BY Typed DEF Turns, Base, Control, TextOK
  <1>1. req[s].held /\ UNCHANGED <<q, reading, pend, ctx, typed, leaked>>
    BY DEF RunHeldSession, edit, ghost
  <1>2. ~req[s].applied
    BY <1>0, <1>1 DEF SlotsOK
  <1>3. CASE Live(req[s])
    <2>1. s = pend /\ pend # 0
      BY <1>0, <1>3, InputFacts DEF SlotsOK
    <2>2. /\ doc' = [doc EXCEPT ![req[s].ctx] = @ \o req[s].body]
          /\ req' = Tidy([req EXCEPT ![s].held = FALSE, ![s].applied = TRUE], pend)
      BY <1>3 DEF RunHeldSession, Live
    <2> PICK body \in Seq(Chars) : body = req[s].body
      BY <1>0, RequestFields DEF Sessions
    <2>3. req[s].ctx = ctx /\ ~q.lost
      BY <1>0, <2>1 DEF PendOK
    <2>4. doc' = Write(body)
      BY <2>2, <2>3 DEF Write
    <2>5. /\ req'[s].applied /\ req'[s].body = req[s].body
      BY <1>0, <2>1, <2>2, RanFacts
    <2>6. AfterWrite(body)
      BY <1>1, <2>1, <2>5 DEF AfterWrite, Spent
    <2>7. Grows /\ WhereStays
      BY <1>1 DEF Grows, WhereStays, Turns, typed
    <2>8. ToSet(body) \subseteq ToSet(reading) \cup leaked /\ Ord(body, leaked, overtaken)
      BY <1>0, <2>1 DEF TextOK, BodyOK
    <2>9. ~Spent
      BY <1>2, <2>1 DEF Spent
    <2>10. /\ Bef(ToSet(doc[ctx]), ToSet(reading), leaked, overtaken)
           /\ Bef(ToSet(reading), QueuedChars(q), leaked, overtaken)
           /\ \A ch \in ToSet(reading) \ leaked : where[ch] = ctx
           /\ Rises(q.acts)
      BY <1>0, <2>3, <2>9 DEF TextOK, ReadingOK, QueueOK
    <2>11. Ord(body, leaked', overtaken')
      BY <2>7, <2>8, OrdMono DEF Grows, Passing
    <2>12. Bef(ToSet(doc[ctx]), ToSet(body), leaked', overtaken')
      BY <2>7, <2>8, <2>10, BefMono DEF Grows, Passing
    <2>13. Bef(ToSet(body), QueuedChars(q'), leaked', overtaken')
      BY <1>1, <2>7, <2>8, <2>10, BefMono DEF Grows, Passing
    <2>14. \A ch \in ToSet(body) \ leaked' : where'[ch] = ctx
      BY <1>1, <2>8, <2>10 DEF typed
    <2>15. ToSet(body) \subseteq Mentioned \cup New /\ leaked' \subseteq Mentioned
      BY <1>1, <2>8 DEF Mentioned
    <2>16. ~q'.lost /\ Rises(q'.acts) /\ QueuedChars(q') \subseteq QueuedChars(q)
           /\ q'.initial \subseteq q.initial
      BY <1>1, <2>3, <2>10
    <2> QED
      BY <1>0, <1>1, <2>3, <2>4, <2>6, <2>7, <2>11, <2>12, <2>13, <2>14, <2>15, <2>16, WroteText
      DEF Turns
  <1>4. CASE ~Live(req[s])
    <2>1. /\ req' = Tidy([req EXCEPT ![s].held = FALSE, ![s].stale = TRUE], pend)
          /\ doc' = doc
      BY <1>4, <1>1 DEF RunHeldSession, Live
    <2>2. SessionKept
      <3> SUFFICES ASSUME pend # 0
                   PROVE  req'[pend].body = req[pend].body /\ req'[pend].applied = req[pend].applied
        BY <1>1 DEF SessionKept
      <3>1. CASE s = pend
        <4>1. req' \in Sessions /\ ~req'[s].applied /\ req'[s].body = req[s].body
          BY <1>0, <1>2, <2>1, <3>1, PassedFacts
        <4>2. req'[s].applied \in BOOLEAN /\ req[s].applied \in BOOLEAN
          BY <1>0, <4>1, RequestFields DEF Sessions
        <4> QED
          BY <1>2, <3>1, <4>1, <4>2
      <3>2. CASE s # pend
        BY <1>0, <2>1, <3>2, OtherSession
      <3> QED
        BY <3>1, <3>2
    <2> QED
      BY <1>0, <1>1, <2>1, <2>2, QueueSame, ReadingSame, TextKeeps DEF Turns, Base
  <1> QED
    BY <1>3, <1>4

LEMMA TickText ==
  ASSUME Turns, Tick
  PROVE  TextOK'
  <1>0. TypeOK /\ TextOK /\ q \in Queue /\ req \in Sessions /\ pend \in Slots \cup {0}
    BY Typed DEF Turns, Base
  <1>1. UNCHANGED <<reading, pend, ctx, doc, typed, leaked>>
    BY DEF Tick, edit, ghost
  <1>2. /\ q' \in Queue /\ q'.acts = q.acts /\ SameOwner(q', q) /\ q'.initial = q.initial
    BY <1>0 DEF Tick, Queue, LongQueue, Clock, SameOwner
  <1>3. QueueFlows
    <2>1. QueuedChars(q') = QueuedChars(q)
      BY <1>2 DEF QueuedChars
    <2> QED
      BY <1>0, <1>1, <1>2, <2>1, QueueCalm DEF TextOK, QueueOK
  <1>4. SessionKept
    BY <1>0, <1>1 DEF Tick, SessionKept, Sessions, Request
  <1> QED
    BY <1>0, <1>1, <1>3, <1>4, ReadingSame, TextKeeps DEF Turns, Base

LEMMA PollText ==
  ASSUME Turns, Poll
  PROVE  TextOK'
  <1>1. CASE PollPendingCommit
    BY <1>1, PollPendingText DEF Turns, PollPendingCommit, edit
  <1>2. CASE PollExpiredWait
    BY <1>2, FailConversionWaitText DEF Turns, PollExpiredWait
  <1> QED
    BY <1>1, <1>2 DEF Poll

LEMMA WaitEndsText ==
  ASSUME Turns, q' = q \/ q' = Resolved(q) \/ q' = FailWait(q),
         UNCHANGED <<reading, req, pend, doc, ctx, typed, leaked>>
  PROVE  TextOK'
  <1>0. TypeOK /\ TextOK /\ q \in Queue
    BY Typed DEF Turns, Base
  <1>1. QueueFlows
    <2>1. CASE q' = q
      BY <1>0, <2>1, QueueSame
    <2>2. CASE q' = Resolved(q)
      BY <1>0, <2>2, ResolvedFacts, QueueEnded
    <2>3. CASE q' = FailWait(q)
      BY <1>0, <2>3, FailWaitFacts, QueueEnded
    <2> QED
      BY <2>1, <2>2, <2>3
  <1> QED
    BY <1>0, <1>1, SessionSame, ReadingSame, TextKeeps DEF Turns, Base

LEMMA PollClauseReplyText ==
  ASSUME Turns, NEW w \in {"ready", "closed"}, NEW b \in BOOLEAN, PollClauseReply(w, b)
  PROVE  TextOK'
  BY WaitEndsText DEF PollClauseReply, WaitOver, ghost

LEMMA PollSnapshotText ==
  ASSUME Turns, PollSnapshot
  PROVE  TextOK'
  BY WaitEndsText DEF PollSnapshot, ghost

LEMMA PollRedrawText ==
  ASSUME Turns, PollRedraw
  PROVE  TextOK'
  BY WaitEndsText DEF PollRedraw, ghost

LEMMA EndDisplayText ==
  ASSUME Turns, EndDisplayAtCapacity
  PROVE  TextOK'
  <1>0. TypeOK /\ TextOK /\ q \in Queue
    BY Typed DEF Turns, Base
  <1>1. UNCHANGED <<reading, req, pend, doc, ctx, typed, leaked>>
    BY DEF EndDisplayAtCapacity, ghost
  <1>2. QueueFlows
    BY <1>0, <1>1, EndDisplayFacts, QueueCalm DEF SameText, TextOK, QueueOK
  <1> QED
    BY <1>0, <1>1, <1>2, SessionSame, ReadingSame, TextKeeps DEF Turns, Base

-----------------------------------------------------------------------------
(* The invariant as a whole, and what follows from it.                     *)

LEMMA PassFacts == ASSUME Next PROVE Passing /\ Overtaking
  <1>1. overtaken' = overtaken \cup (IF Overtakes THEN QueuedChars(q) ELSE {})
    BY DEF Next, Remembers
  <1> QED
    BY <1>1 DEF Passing, Overtaking

LEMMA InitText == Init => TextOK
  <1> SUFFICES ASSUME Init PROVE TextOK
    OBVIOUS
  <1>1. /\ q = EmptyQueue /\ reading = <<>> /\ pend = 0 /\ next = 1
        /\ \A c \in Contexts : doc[c] = <<>>
        /\ leaked = {} /\ overtaken = {}
    BY DEF Init
  <1>2. ToSet(reading) = {} /\ \A c \in Contexts : ToSet(doc[c]) = {}
    BY <1>1, SetOfEmpty
  <1>3. QueuedChars(q) = {} /\ ~q.lost /\ q.initial = {} /\ q.unwritten = {} /\ Rises(q.acts)
    BY <1>1, EmptyQueueFacts
  <1>4. Known
    <2>1. Written = {} /\ Unwritten = {} /\ InitialChars(q) = {}
      BY <1>2, <1>3 DEF Written, Unwritten, InitialChars
    <2> QED
      BY <1>1, <1>2, <1>3, <2>1 DEF Known, Mentioned
  <1>5. DocsOK
    BY <1>1, <1>2, OrdEmpty DEF DocsOK
  <1>6. ReadingOK
    BY <1>1, <1>2, OrdEmpty, BefNothing DEF ReadingOK
  <1>7. QueueOK
    BY <1>3, BefNothing DEF QueueOK
  <1>8. BodyOK /\ StartsOK /\ LostOK
    BY <1>1, <1>3 DEF BodyOK, StartsOK, LostOK
  <1> QED
    BY <1>4, <1>5, <1>6, <1>7, <1>8 DEF TextOK

LEMMA StutterText ==
  ASSUME TextOK, UNCHANGED vars
  PROVE  TextOK'
  <1>1. Known'
    BY DEF TextOK, Known, Mentioned, Written, Unwritten, InitialChars, vars
  <1>2. DocsOK' /\ ReadingOK' /\ QueueOK'
    BY DEF TextOK, DocsOK, ReadingOK, QueueOK, Spent, vars
  <1>3. BodyOK' /\ StartsOK' /\ LostOK'
    BY DEF TextOK, BodyOK, StartsOK, LostOK, Unwritten, Written, vars
  <1> QED
    BY <1>1, <1>2, <1>3 DEF TextOK

LEMMA StepText ==
  ASSUME Base, Base', Control, Control', TextOK, [Next]_vars
  PROVE  TextOK'
  <1>1. CASE Next
    <2>0. Passing /\ Overtaking /\ Turns
      BY <1>1, PassFacts DEF Turns
    <2>1. CASE \E op \in Ops : Key(op)
      BY <2>0, <2>1, KeyText
    <2>2. CASE Event
      BY <2>0, <2>2, DrainText, AdmitParkedText, DirectAfterSettleText, PollText,
         PollSnapshotText, PollRedrawText, EndDisplayText, PollClauseReplyText,
         OnSetFocusText, OnCompositionTerminatedText, OnPushContextText,
         RunHeldSessionText, TickText
      DEF Event
    <2> QED
      BY <1>1, <2>1, <2>2 DEF Next
  <1>2. CASE UNCHANGED vars
    BY <1>2, StutterText
  <1> QED
    BY <1>1, <1>2

IInv == Base /\ Control /\ TextOK

(* The inductive invariant: types and accounts, what a commit in flight    *)
(* excludes, and the order of all the text there is.                       *)
THEOREM IInvAlways == Spec => []IInv
  <1>1. Init => IInv
    BY InitBase, InitControl, InitText DEF IInv
  <1>2. IInv /\ [Next]_vars => IInv'
    BY StepBase, StepControl, StepText DEF IInv
  <1> QED
    BY <1>1, <1>2, PTL DEF Spec

LEMMA Honest == ASSUME TextOK PROVE OwnerLossIsHonest
  BY DEF TextOK, DocsOK, LostOK, OwnerLossIsHonest

(* When ConversionQueue::detach shows text as unprocessed after the        *)
(* document was lost, none of it was written, however late the session of  *)
(* its commit runs; and a character is only ever written to the document   *)
(* it was typed in.                                                        *)
THEOREM OwnerLossIsHonestAlways == Spec => []OwnerLossIsHonest
  <1>1. IInv => OwnerLossIsHonest
    BY Honest DEF IInv
  <1> QED
    BY <1>1, IInvAlways, PTL

LEMMA QueuedTextFacts ==
  ASSUME q \in Queue, Rises(q.acts)
  PROVE  /\ QueuedText \in Seq(Nat) /\ ToSet(QueuedText) \subseteq QueuedChars(q) \cup {0}
         /\ \A L, O : 0 \in L => Ord(QueuedText, L, O)
  <1>0. q.acts \in Seq(Action)
    BY QueueFields
  <1> PICK acts \in Seq(Action) : acts = q.acts
    BY <1>0
  <1> PICK txt : txt = QueuedText
    OBVIOUS
  <1>1. /\ DOMAIN acts = 1..Len(acts) /\ Len(acts) \in Nat
        /\ txt = [i \in 1..Len(acts) |-> acts[i].ch]
    BY DEF QueuedText
  <1>2. \A i \in 1..Len(acts) : /\ acts[i].op \in TextOps => acts[i].ch \in Nat
                                /\ acts[i].op \notin TextOps => acts[i].ch = 0
    <2> SUFFICES ASSUME NEW i \in 1..Len(acts)
                 PROVE  /\ acts[i].op \in TextOps => acts[i].ch \in Nat
                        /\ acts[i].op \notin TextOps => acts[i].ch = 0
      OBVIOUS
    <2>1. acts[i] \in Action
      OBVIOUS
    <2> QED
      BY <2>1, ActionFacts, InputFacts
  <1>3. txt \in Seq(Nat) /\ DOMAIN txt = 1..Len(acts) /\ \A i \in 1..Len(acts) : txt[i] = acts[i].ch
    <2>1. \A i \in 1..Len(acts) : acts[i].ch \in Nat
      BY <1>2
    <2> QED
      BY <1>1, <2>1
  <1>4. \A i \in 1..Len(acts) : acts[i].op \in TextOps => acts[i].ch \in QueuedChars(q)
    BY QueuedTyped DEF TextIn
  <1>5. ToSet(txt) \subseteq QueuedChars(q) \cup {0}
    BY <1>2, <1>3, <1>4 DEF ToSet
  <1>6. ASSUME NEW L, NEW O, 0 \in L PROVE Ord(txt, L, O)
    <2> SUFFICES ASSUME NEW i \in 1..Len(acts), NEW j \in 1..Len(acts), i < j,
                        txt[i] \notin L, txt[j] \notin L
                 PROVE  Behind(txt[i], txt[j], O)
      BY <1>3 DEF Ord
    <2>1. acts[i].op \in TextOps /\ acts[j].op \in TextOps
      BY <1>2, <1>3, <1>6
    <2>2. acts[i].ch < acts[j].ch /\ acts[i].ch \in Nat /\ acts[j].ch \in Nat
      BY <1>2, <2>1 DEF Rises
    <2> QED
      BY <1>3, <2>2 DEF Behind
  <1> QED
    BY <1>3, <1>5, <1>6

LEMMA OrdJoinThree ==
  ASSUME NEW L, NEW O, NEW d \in Seq(Nat), NEW r \in Seq(Nat), NEW t \in Seq(Nat),
         Ord(d, L, O), Ord(r, L, O), Ord(t, L, O), Bef(ToSet(d), ToSet(r), L, O),
         Bef(ToSet(d), ToSet(t), L, O), Bef(ToSet(r), ToSet(t), L, O)
  PROVE  Ord((d \o r) \o t, L, O)
  <1>1. Ord(d \o r, L, O)
    BY OrdJoin
  <1>2. PICK u \in Seq(Nat) : u = d \o r
    BY ConcatProperties
  <1>3. ToSet(u) = ToSet(d) \cup ToSet(r)
    BY <1>2, SetOfJoined
  <1>4. Bef(ToSet(u), ToSet(t), L, O)
    BY <1>3, BefJoin
  <1>5. Ord(u, L, O)
    BY <1>1, <1>2
  <1>6. Ord(u \o t, L, O)
    BY <1>4, <1>5, OrdJoin
  <1> QED
    BY <1>2, <1>6

LEMMA SeqWidens ==
  ASSUME NEW S, NEW T, S \subseteq T, NEW s \in Seq(S)
  PROVE  s \in Seq(T)
  <1>1. Len(s) \in Nat /\ s \in [1..Len(s) -> S]
    OBVIOUS
  <1>2. s \in [1..Len(s) -> T]
    BY <1>1
  <1> QED
    BY <1>1, <1>2

LEMMA OrdIsInOrder ==
  ASSUME NEW s, NEW L, L \subseteq leaked \cup {0}, Ord(s, L, overtaken)
  PROVE  InOrder(s)
  BY DEF Ord, Behind, InOrder, Follows

LEMMA Ordered ==
  ASSUME TypeOK, TextOK
  PROVE  WrittenOnceInOrder
  <1>0. /\ q \in Queue /\ reading \in Seq(Chars) /\ doc \in [Contexts -> Seq(Chars)]
        /\ ctx \in Contexts /\ Rises(q.acts) /\ Chars \subseteq Nat
    BY Typed, InputFacts DEF TextOK, QueueOK
  <1>1. ASSUME NEW c \in Contexts, NEW d \in Contexts, c # d
        PROVE  ToSet(doc[c]) \cap ToSet(doc[d]) \subseteq leaked
    <2> SUFFICES ASSUME NEW ch \in ToSet(doc[c]), ch \in ToSet(doc[d]), ch \notin leaked
                 PROVE  FALSE
      OBVIOUS
    <2>1. where[ch] = c /\ where[ch] = d
      BY DEF TextOK, DocsOK
    <2> QED
      BY <1>1, <2>1
  <1>2. ASSUME NEW c \in Contexts PROVE InOrder(doc[c])
    <2>1. Ord(doc[c], leaked, overtaken)
      BY DEF TextOK, DocsOK
    <2> QED
      BY <2>1, OrdIsInOrder
  <1>3. ASSUME ~q.lost
        PROVE  InOrder(doc[ctx] \o (IF Spent THEN <<>> ELSE reading) \o QueuedText)
    <2> PICK L : L = leaked \cup {0}
      OBVIOUS
    <2> PICK d : d = doc[ctx]
      OBVIOUS
    <2> PICK r : r = IF Spent THEN <<>> ELSE reading
      OBVIOUS
    <2> PICK t : t = QueuedText
      OBVIOUS
    <2>1. d \in Seq(Nat) /\ r \in Seq(Nat) /\ t \in Seq(Nat)
      <3>1. d \in Seq(Chars) /\ r \in Seq(Chars)
        BY <1>0, EmptySeq
      <3> QED
        BY <1>0, <3>1, SeqWidens, QueuedTextFacts
    <2>2. Ord(d, leaked, overtaken) /\ Ord(r, leaked, overtaken) /\ Ord(t, L, overtaken)
      BY <1>0, OrdEmpty, QueuedTextFacts DEF TextOK, DocsOK, ReadingOK
    <2>3. Ord(d, L, overtaken) /\ Ord(r, L, overtaken)
      BY <2>2, OrdMono
    <2>4. Bef(ToSet(d), ToSet(r), leaked, overtaken)
      BY SetOfEmpty, BefNothing DEF TextOK, ReadingOK
    <2>5. Bef(ToSet(d), ToSet(r), L, overtaken)
      BY <2>4, BefMono
    <2>6. Bef(ToSet(d), QueuedChars(q), leaked, overtaken)
          /\ Bef(ToSet(reading), QueuedChars(q), leaked, overtaken)
      BY <1>3 DEF TextOK, QueueOK
    <2>7. ToSet(r) \subseteq ToSet(reading) /\ ToSet(t) \subseteq QueuedChars(q) \cup L
      BY <1>0, SetOfEmpty, QueuedTextFacts
    <2>8. Bef(ToSet(d), ToSet(t), L, overtaken) /\ Bef(ToSet(r), ToSet(t), L, overtaken)
      BY <2>6, <2>7, BefMono
    <2>9. Ord((d \o r) \o t, L, overtaken)
      BY <2>1, <2>2, <2>3, <2>5, <2>8, OrdJoinThree
    <2> QED
      BY <2>9, OrdIsInOrder
  <1> QED
    BY <1>1, <1>2, <1>3 DEF WrittenOnceInOrder

(* Every character is written at most once and in the order it was typed,  *)
(* and document, reading and queue stay in that order one behind the       *)
(* other, for any number of retries, late sessions, focus changes and      *)
(* waits, but for the characters that a later key overtook in a stalled    *)
(* queue.                                                                  *)
THEOREM WrittenOnceInOrderAlways == Spec => []WrittenOnceInOrder
  <1>1. IInv => WrittenOnceInOrder
    BY Ordered DEF IInv, Base
  <1> QED
    BY <1>1, IInvAlways, PTL

=============================================================================
