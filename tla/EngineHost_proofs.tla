-------------------------- MODULE EngineHost_proofs --------------------------
(***************************************************************************)
(* What holds of two workers of the engine host, one after the other.      *)
(*                                                                         *)
(* The maintenance lane, for any jobs, labels, fences, delays and          *)
(* capacity.  Its inductive invariant LaneIInv adds to the checked one the *)
(* full shapes of the variables (Shape) and where the drain stands that a  *)
(* fence relies on (Behind).                                               *)
(*                                                                         *)
(* The GPU worker supervisor, for any set of callers and any number of     *)
(* generations, whatever threads of past generations are still under way:  *)
(* its books agree with its child whenever a request can get in, and only  *)
(* a lifecycle operation opens a quarantined or disabled supervisor.  The  *)
(* actions on the operation are first described field by field; the layers *)
(* of the invariant rest on these descriptions.                            *)
(***************************************************************************)
EXTENDS BackgroundMaintenance, GPUWorkerSupervisor, FiniteSetTheorems, TLAPS

-----------------------------------------------------------------------------
(* The maintenance lane.                                                   *)

Delay == [left : Nat, work : Works]

Shape ==
  /\ pending \in Seq(Jobs) /\ order \in Seq(Labels)
  /\ queue \in Seq({Drain, TimerEvent} \cup Fences)
  /\ DOMAIN coalesced \subseteq Labels /\ coalesced \in [DOMAIN coalesced -> Works]
  /\ DOMAIN delayed \subseteq Labels /\ delayed \in [DOMAIN delayed -> Delay]
  /\ accepted \in [Labels -> Seq(Works)]
  /\ awaited \in [Fences -> SUBSET (Jobs \cup Labels)]
  /\ running \in BOOLEAN /\ prefer \in BOOLEAN /\ active \in {"none", "drain", "job"}

Bounds ==
  /\ Len(pending) <= Capacity
  /\ Cardinality(DOMAIN coalesced) + Cardinality(DOMAIN delayed) <= Capacity

(* Ahead of block b there is a drain in the queue qq.                      *)
DrainAhead(qq, b) ==
  \E i \in DOMAIN qq : qq[i] = Drain /\ \A j \in DOMAIN qq : qq[j] = b => i < j

(* What a fence waits for is still runnable, and a drain is at work on it  *)
(* or stands ahead of the fence.                                           *)
Behind ==
  \A b \in Fences :
    /\ awaited[b] \subseteq ToSet(pending) \cup ToSet(order)
    /\ awaited[b] # {} => active # "none" \/ DrainAhead(queue, b)

LaneIInv == Shape /\ Bounds /\ OneDrain /\ LatestIsKept /\ Behind

-----------------------------------------------------------------------------
(* Sequences without repetitions.                                          *)
LEMMA AppendFresh ==
  ASSUME NEW S, NEW s \in Seq(S), NEW x \in S
  PROVE  /\ Append(s, x) \in Seq(S) /\ Append(s, x) # <<>>
         /\ ToSet(Append(s, x)) = ToSet(s) \cup {x}
         /\ IsInjective(s) /\ x \notin ToSet(s) => IsInjective(Append(s, x))
  <1>1. /\ Append(s, x) \in Seq(S) /\ Len(Append(s, x)) = Len(s) + 1
        /\ \A i \in 1..Len(s) : Append(s, x)[i] = s[i]
        /\ Append(s, x)[Len(s) + 1] = x
    OBVIOUS
  <1>2. DOMAIN Append(s, x) = DOMAIN s \cup {Len(s) + 1} /\ DOMAIN s = 1..Len(s)
    BY <1>1
  <1>3. ToSet(Append(s, x)) = ToSet(s) \cup {x}
    BY <1>1, <1>2 DEF ToSet
  <1>4. ASSUME IsInjective(s), x \notin ToSet(s)
        PROVE  IsInjective(Append(s, x))
    BY <1>1, <1>2, <1>4 DEF ToSet, IsInjective
  <1> QED
    BY <1>1, <1>3, <1>4

LEMMA TailOf ==
  ASSUME NEW S, NEW s \in Seq(S), s # <<>>
  PROVE  /\ Tail(s) \in Seq(S) /\ Head(s) \in ToSet(s) /\ Head(s) \in S
         /\ Len(Tail(s)) = Len(s) - 1
         /\ ToSet(s) = ToSet(Tail(s)) \cup {Head(s)}
         /\ IsInjective(s) => IsInjective(Tail(s)) /\ ToSet(Tail(s)) = ToSet(s) \ {Head(s)}
  <1>1. /\ Tail(s) \in Seq(S) /\ Len(s) > 0 /\ Len(Tail(s)) = Len(s) - 1
        /\ \A i \in 1..(Len(s) - 1) : Tail(s)[i] = s[i + 1]
        /\ Head(s) = s[1]
    OBVIOUS
  <1>2. /\ DOMAIN s = 1..Len(s) /\ DOMAIN Tail(s) = 1..(Len(s) - 1) /\ Len(s) \in Nat
    BY <1>1
  <1>3. \A i \in DOMAIN Tail(s) : i + 1 \in DOMAIN s /\ Tail(s)[i] = s[i + 1]
    BY <1>1, <1>2
  <1>4. \A i \in DOMAIN s : i # 1 => i - 1 \in DOMAIN Tail(s) /\ Tail(s)[i - 1] = s[i]
    BY <1>1, <1>2
  <1>5. Head(s) \in ToSet(s) /\ Head(s) \in S
    BY <1>1, <1>2 DEF ToSet
  <1>6. ToSet(s) = ToSet(Tail(s)) \cup {Head(s)}
    BY <1>1, <1>2, <1>3, <1>4 DEF ToSet
  <1>7. ASSUME IsInjective(s)
        PROVE  IsInjective(Tail(s)) /\ Head(s) \notin ToSet(Tail(s))
    <2>1. IsInjective(Tail(s))
      BY <1>2, <1>3, <1>7 DEF IsInjective
    <2>2. Head(s) \notin ToSet(Tail(s))
      BY <1>1, <1>2, <1>3, <1>7 DEF IsInjective, ToSet
    <2> QED
      BY <2>1, <2>2
  <1> QED
    BY <1>1, <1>5, <1>6, <1>7

LEMMA EmptyOrNot ==
  ASSUME NEW S, NEW s \in Seq(S)
  PROVE  s = <<>> <=> ToSet(s) = {}
  <1>1. s = <<>> => ToSet(s) = {}
    BY DEF ToSet
  <1>2. s # <<>> => ToSet(s) # {}
    BY TailOf
  <1> QED
    BY <1>1, <1>2

(* The orders promoteDueDelayed may find are the enumerations of the set.  *)
LEMMA Enumerations ==
  ASSUME NEW S, IsFiniteSet(S), NEW s \in SetToSeqs(S)
  PROVE  s \in Seq(S) /\ ToSet(s) = S /\ IsInjective(s)
  <1>1. Cardinality(S) \in Nat
    BY FS_CardinalityType
  <1>2. /\ s \in [1..Cardinality(S) -> S]
        /\ \A i, j \in 1..Cardinality(S) : i # j => s[i] # s[j]
    BY DEF SetToSeqs
  <1>3. s \in Injection(1..Cardinality(S), S)
    BY <1>2 DEF Injection, IsInjective
  <1>4. Cardinality(1..Cardinality(S)) = Cardinality(S)
    BY <1>1, FS_Interval
  <1>5. s \in Surjection(1..Cardinality(S), S)
    BY <1>3, <1>4, FS_Injection
  <1>6. \A t \in S : \E i \in 1..Cardinality(S) : s[i] = t
    BY <1>5 DEF Surjection
  <1>7. s \in Seq(S)
    BY <1>1, <1>2
  <1>8. DOMAIN s = 1..Cardinality(S)
    BY <1>2
  <1> QED
    BY <1>2, <1>6, <1>7, <1>8 DEF ToSet, IsInjective

LEMMA JoinFresh ==
  ASSUME NEW S, NEW s \in Seq(S), NEW t \in Seq(S), IsInjective(s), IsInjective(t),
         ToSet(s) \cap ToSet(t) = {}
  PROVE  s \o t \in Seq(S) /\ ToSet(s \o t) = ToSet(s) \cup ToSet(t) /\ IsInjective(s \o t)
  <1>1. /\ s \o t \in Seq(S) /\ Len(s \o t) = Len(s) + Len(t)
        /\ \A i \in 1..Len(s) : (s \o t)[i] = s[i]
        /\ \A i \in 1..Len(s) + Len(t) : i > Len(s) => (s \o t)[i] = t[i - Len(s)]
    OBVIOUS
  <1>2. /\ DOMAIN s = 1..Len(s) /\ DOMAIN t = 1..Len(t) /\ Len(s) \in Nat /\ Len(t) \in Nat
        /\ DOMAIN (s \o t) = 1..Len(s) + Len(t)
    BY <1>1
  <1>3. \A i \in DOMAIN t : i + Len(s) \in DOMAIN (s \o t) /\ (s \o t)[i + Len(s)] = t[i]
    BY <1>1, <1>2
  <1>4. \A i \in DOMAIN s : i \in DOMAIN (s \o t) /\ (s \o t)[i] = s[i]
    BY <1>1, <1>2
  <1>5. \A i \in DOMAIN (s \o t) : \/ i \in DOMAIN s /\ (s \o t)[i] = s[i]
                                   \/ i - Len(s) \in DOMAIN t /\ (s \o t)[i] = t[i - Len(s)]
    BY <1>1, <1>2
  <1>6. ToSet(s \o t) = ToSet(s) \cup ToSet(t)
    <2>1. ASSUME NEW x \in ToSet(s \o t) PROVE x \in ToSet(s) \cup ToSet(t)
      <3>1. PICK i \in DOMAIN (s \o t) : x = (s \o t)[i]
        BY <2>1 DEF ToSet
      <3> QED
        BY <1>5, <3>1 DEF ToSet
    <2>2. ASSUME NEW x \in ToSet(s) PROVE x \in ToSet(s \o t)
      BY <1>4 DEF ToSet
    <2>3. ASSUME NEW x \in ToSet(t) PROVE x \in ToSet(s \o t)
      <3>1. PICK i \in DOMAIN t : x = t[i]
        BY <2>3 DEF ToSet
      <3> QED
        BY <1>3, <3>1 DEF ToSet
    <2> QED
      BY <2>1, <2>2, <2>3
  <1>7. ASSUME NEW i \in DOMAIN (s \o t), NEW j \in DOMAIN (s \o t), (s \o t)[i] = (s \o t)[j]
        PROVE  i = j
    <2>1. \A k \in DOMAIN s, l \in DOMAIN t : s[k] # t[l]
      BY DEF ToSet
    <2>2. CASE i \in DOMAIN s /\ (s \o t)[i] = s[i]
      BY <1>5, <1>7, <2>1, <2>2 DEF IsInjective
    <2>3. CASE i - Len(s) \in DOMAIN t /\ (s \o t)[i] = t[i - Len(s)]
      <3>1. j - Len(s) \in DOMAIN t /\ (s \o t)[j] = t[j - Len(s)]
        BY <1>5, <1>7, <2>1, <2>3
      <3>2. i - Len(s) = j - Len(s)
        BY <1>7, <2>3, <3>1 DEF IsInjective
      <3> QED
        BY <1>2, <3>2
    <2> QED
      BY <1>5, <2>2, <2>3
  <1> QED
    BY <1>1, <1>6, <1>7 DEF IsInjective

(* A drain that stands ahead of a block still does so when another block is*)
(* queued behind both, and when a block ahead of both has gone.            *)
LEMMA AheadAppend ==
  ASSUME NEW S, NEW s \in Seq(S), NEW x \in S, NEW b, b # x, DrainAhead(s, b)
  PROVE  DrainAhead(Append(s, x), b)
  <1>1. PICK i \in DOMAIN s : s[i] = Drain /\ \A j \in DOMAIN s : s[j] = b => i < j
    BY DEF DrainAhead
  <1>2. /\ DOMAIN s = 1..Len(s) /\ DOMAIN Append(s, x) = 1..(Len(s) + 1) /\ Len(s) \in Nat
        /\ \A j \in 1..Len(s) : Append(s, x)[j] = s[j]
        /\ Append(s, x)[Len(s) + 1] = x
    OBVIOUS
  <1>3. i \in DOMAIN Append(s, x) /\ Append(s, x)[i] = Drain
    BY <1>1, <1>2
  <1>4. \A j \in DOMAIN Append(s, x) : Append(s, x)[j] = b => i < j
    BY <1>1, <1>2
  <1> QED
    BY <1>3, <1>4 DEF DrainAhead

LEMMA AheadOfTheNew ==
  ASSUME NEW S, NEW s \in Seq(S), NEW b \in S, b \notin ToSet(s), Drain \in ToSet(s)
  PROVE  DrainAhead(Append(s, b), b)
  <1>1. /\ DOMAIN s = 1..Len(s) /\ DOMAIN Append(s, b) = 1..(Len(s) + 1) /\ Len(s) \in Nat
        /\ \A j \in 1..Len(s) : Append(s, b)[j] = s[j]
        /\ Append(s, b)[Len(s) + 1] = b
    OBVIOUS
  <1>2. PICK i \in DOMAIN s : s[i] = Drain
    BY DEF ToSet
  <1>3. \A j \in DOMAIN s : s[j] # b
    BY DEF ToSet
  <1>4. i \in DOMAIN Append(s, b) /\ Append(s, b)[i] = Drain
    BY <1>1, <1>2
  <1>5. \A j \in DOMAIN Append(s, b) : Append(s, b)[j] = b => i < j
    BY <1>1, <1>2, <1>3
  <1> QED
    BY <1>4, <1>5 DEF DrainAhead

LEMMA AheadTail ==
  ASSUME NEW S, NEW s \in Seq(S), s # <<>>, NEW b, Head(s) # Drain, DrainAhead(s, b)
  PROVE  DrainAhead(Tail(s), b) /\ Head(s) # b
  <1>1. PICK i \in DOMAIN s : s[i] = Drain /\ \A j \in DOMAIN s : s[j] = b => i < j
    BY DEF DrainAhead
  <1>2. /\ DOMAIN s = 1..Len(s) /\ DOMAIN Tail(s) = 1..(Len(s) - 1) /\ Len(s) \in Nat
        /\ \A j \in 1..(Len(s) - 1) : Tail(s)[j] = s[j + 1]
        /\ Head(s) = s[1] /\ Len(s) > 0
    OBVIOUS
  <1>3. i - 1 \in DOMAIN Tail(s) /\ Tail(s)[i - 1] = Drain
    BY <1>1, <1>2
  <1>4. \A j \in DOMAIN Tail(s) : Tail(s)[j] = b => i - 1 < j
    BY <1>1, <1>2
  <1>5. s[1] # b
    BY <1>1, <1>2
  <1> QED
    BY <1>2, <1>3, <1>4, <1>5 DEF DrainAhead

-----------------------------------------------------------------------------
LEMMA WithoutIs ==
  ASSUME NEW f, NEW l
  PROVE  /\ DOMAIN Without(f, l) = DOMAIN f \ {l}
         /\ \A k \in DOMAIN f \ {l} : Without(f, l)[k] = f[k]
  BY DEF Without, Restrict

(* The size of the two tables of labels.                                   *)
LEMMA TablesAreFinite ==
  ASSUME Shape
  PROVE  /\ IsFiniteSet(DOMAIN coalesced) /\ Cardinality(DOMAIN coalesced) \in Nat
         /\ IsFiniteSet(DOMAIN delayed) /\ Cardinality(DOMAIN delayed) \in Nat
  BY LaneAssumption, FS_Subset, FS_CardinalityType DEF Shape

(* A submission on an idle lane queues the one drain there is.             *)
LEMMA WakeKeeps ==
  ASSUME Shape, OneDrain, Wake
  PROVE  /\ queue' \in Seq({Drain, TimerEvent} \cup Fences) /\ running' = TRUE
         /\ Drain \in ToSet(queue') \/ active # "none"
         /\ active # "none" => Drain \notin ToSet(queue')
         /\ IsInjective(queue')
         /\ \A b \in Fences : DrainAhead(queue, b) => DrainAhead(queue', b)
  <1> DEFINE Blocks == {Drain, TimerEvent} \cup Fences
  <1>1. queue \in Seq(Blocks) /\ IsInjective(queue)
    BY DEF Shape, OneDrain
  <1>2. CASE running
    BY <1>1, <1>2 DEF Wake, OneDrain
  <1>3. CASE ~running
    <2>1. queue' = Append(queue, Drain) /\ running' = TRUE
      BY <1>3 DEF Wake
    <2>2. Drain \notin ToSet(queue) /\ active = "none"
      BY <1>3 DEF OneDrain
    <2>3. /\ queue' \in Seq(Blocks) /\ ToSet(queue') = ToSet(queue) \cup {Drain}
          /\ IsInjective(queue')
      BY <1>1, <2>1, <2>2, AppendFresh
    <2>4. ASSUME NEW b \in Fences, DrainAhead(queue, b)
          PROVE  DrainAhead(queue', b)
      <3>1. b # Drain
        BY LaneAssumption DEF Drain
      <3> QED
        BY <1>1, <2>1, <2>4, <3>1, AheadAppend
    <2> QED
      BY <2>1, <2>2, <2>3, <2>4
  <1> QED
    BY <1>2, <1>3

-----------------------------------------------------------------------------
(* One lemma per action.                                                   *)
LEMMA SubmitKeeps ==
  ASSUME LaneIInv, NEW j \in Jobs, Submit(j)
  PROVE  LaneIInv'
  <1>0. Shape /\ Bounds /\ OneDrain /\ LatestIsKept /\ Behind
    BY DEF LaneIInv
  <1>1. /\ pending' = Append(pending, j) /\ Len(pending) < Capacity /\ Wake
        /\ UNCHANGED <<coalesced, order, delayed, prefer, active, accepted, awaited>>
    BY DEF Submit, historyVars
  <1>2. /\ pending' \in Seq(Jobs) /\ Len(pending') = Len(pending) + 1
        /\ ToSet(pending') = ToSet(pending) \cup {j}
    BY <1>0, <1>1, AppendFresh DEF Shape
  <1>3. Shape'
    BY <1>0, <1>1, <1>2, WakeKeeps DEF Shape
  <1>4. Bounds'
    BY <1>0, <1>1, <1>2, LaneAssumption DEF Bounds, Shape
  <1>5. OneDrain'
    BY <1>0, <1>1, WakeKeeps DEF OneDrain
  <1>6. LatestIsKept'
    BY <1>0, <1>1 DEF LatestIsKept
  <1>7. Behind'
    BY <1>0, <1>1, <1>2, WakeKeeps DEF Behind
  <1> QED
    BY <1>3, <1>4, <1>5, <1>6, <1>7 DEF LaneIInv

LEMMA SubmitLatestKeeps ==
  ASSUME LaneIInv, NEW l \in Labels, NEW w \in Works, SubmitLatest(l, w)
  PROVE  LaneIInv'
  <1>0. Shape /\ Bounds /\ OneDrain /\ LatestIsKept /\ Behind
    BY DEF LaneIInv
  <1>1. /\ delayed' = Without(delayed, l)
        /\ accepted' = [accepted EXCEPT ![l] = <<w>>]
        /\ UNCHANGED <<pending, prefer, active, awaited>>
    BY DEF SubmitLatest
  <1>2. /\ DOMAIN delayed' = DOMAIN delayed \ {l}
        /\ \A k \in DOMAIN delayed \ {l} : delayed'[k] = delayed[k]
    BY <1>1, WithoutIs
  <1>3. delayed' \in [DOMAIN delayed' -> Delay]
    BY <1>0, <1>1, <1>2 DEF Shape, Without, Restrict
  <1>4. /\ Cardinality(DOMAIN delayed') <= Cardinality(DOMAIN delayed)
        /\ Cardinality(DOMAIN delayed') \in Nat
    <2>1. /\ IsFiniteSet(DOMAIN delayed \ {l})
          /\ Cardinality(DOMAIN delayed \ {l}) <= Cardinality(DOMAIN delayed)
      BY <1>0, TablesAreFinite, FS_Subset, SMT
    <2> QED
      BY <1>2, <2>1, FS_CardinalityType
  <1>5. accepted' \in [Labels -> Seq(Works)]
    BY <1>0, <1>1 DEF Shape
  <1>6. CASE l \in DOMAIN coalesced
    <2>1. coalesced' = [coalesced EXCEPT ![l] = w] /\ UNCHANGED <<order, running, queue>>
      BY <1>6 DEF SubmitLatest
    <2>2. /\ DOMAIN coalesced' = DOMAIN coalesced /\ coalesced' \in [DOMAIN coalesced' -> Works]
          /\ coalesced'[l] = w /\ \A k \in DOMAIN coalesced \ {l} : coalesced'[k] = coalesced[k]
      BY <1>0, <1>6, <2>1 DEF Shape
    <2>3. Shape'
      BY <1>0, <1>1, <1>2, <1>3, <1>5, <2>1, <2>2 DEF Shape
    <2>4. Bounds'
      BY <1>0, <1>1, <1>4, <2>2, TablesAreFinite, LaneAssumption DEF Bounds
    <2>5. OneDrain' /\ Behind'
      BY <1>0, <1>1, <2>1 DEF OneDrain, Behind
    <2>6. LatestIsKept'
      BY <1>0, <1>1, <1>2, <1>6, <2>1, <2>2 DEF LatestIsKept, Shape
    <2> QED
      BY <2>3, <2>4, <2>5, <2>6 DEF LaneIInv
  <1>7. CASE l \notin DOMAIN coalesced
    <2>1. /\ coalesced' = With(coalesced, l, w) /\ order' = Append(order, l) /\ Wake
          /\ Cardinality(DOMAIN coalesced) + Cardinality(DOMAIN delayed') < Capacity
      BY <1>7 DEF SubmitLatest
    <2>2. /\ DOMAIN coalesced' = DOMAIN coalesced \cup {l} /\ coalesced'[l] = w
          /\ \A k \in DOMAIN coalesced \ {l} : coalesced'[k] = coalesced[k]
      BY <2>1 DEF With
    <2>3. coalesced' \in [DOMAIN coalesced' -> Works]
      BY <1>0, <2>1, <2>2 DEF Shape, With
    <2>4. l \notin ToSet(order) /\ ToSet(order) = DOMAIN coalesced /\ IsInjective(order)
      BY <1>0, <1>7 DEF LatestIsKept
    <2>5. /\ order' \in Seq(Labels) /\ ToSet(order') = ToSet(order) \cup {l}
          /\ IsInjective(order')
      BY <1>0, <2>1, <2>4, AppendFresh DEF Shape
    <2>6. Shape'
      BY <1>0, <1>1, <1>2, <1>3, <1>5, <2>1, <2>2, <2>3, <2>5, WakeKeeps DEF Shape
    <2>7. Cardinality(DOMAIN coalesced') = Cardinality(DOMAIN coalesced) + 1
      BY <1>0, <1>7, <2>2, TablesAreFinite, FS_AddElement
    <2>8. Bounds'
      BY <1>0, <1>1, <1>4, <2>1, <2>7, TablesAreFinite, LaneAssumption DEF Bounds
    <2>9. OneDrain'
      BY <1>0, <1>1, <2>1, WakeKeeps DEF OneDrain
    <2>10. LatestIsKept'
      <3>1. ToSet(order') = DOMAIN coalesced' /\ IsInjective(order')
        BY <2>2, <2>4, <2>5
      <3>2. DOMAIN coalesced' \cap DOMAIN delayed' = {}
        BY <1>0, <1>2, <2>2 DEF LatestIsKept
      <3>3. ASSUME NEW k \in Labels
            PROVE  accepted'[k] = IF k \in DOMAIN coalesced' THEN <<coalesced'[k]>>
                     ELSE IF k \in DOMAIN delayed' THEN <<delayed'[k].work>> ELSE <<>>
        BY <1>0, <1>1, <1>2, <2>2 DEF LatestIsKept, Shape
      <3> QED
        BY <3>1, <3>2, <3>3 DEF LatestIsKept
    <2>11. Behind'
      BY <1>0, <1>1, <2>1, <2>5, WakeKeeps DEF Behind
    <2> QED
      BY <2>6, <2>8, <2>9, <2>10, <2>11 DEF LaneIInv
  <1> QED
    BY <1>6, <1>7

LEMMA SubmitLatestAfterKeeps ==
  ASSUME LaneIInv, NEW l \in Labels, NEW w \in Works, NEW d \in Delays, SubmitLatestAfter(l, w, d)
  PROVE  LaneIInv'
  <1>0. Shape /\ Bounds /\ OneDrain /\ LatestIsKept /\ Behind
    BY DEF LaneIInv
  <1>1. /\ delayed' = With(delayed, l, [left |-> d, work |-> w])
        /\ accepted' = [accepted EXCEPT ![l] = <<w>>]
        /\ l \notin DOMAIN coalesced /\ (l \in DOMAIN delayed \/ ~Full)
        /\ UNCHANGED <<pending, coalesced, order, prefer, running, queue, active, awaited>>
    BY DEF SubmitLatestAfter
  <1>2. /\ DOMAIN delayed' = DOMAIN delayed \cup {l}
        /\ delayed'[l] = [left |-> d, work |-> w]
        /\ \A k \in DOMAIN delayed \ {l} : delayed'[k] = delayed[k]
    BY <1>1 DEF With
  <1>3. delayed' \in [DOMAIN delayed' -> Delay]
    <2>1. [left |-> d, work |-> w] \in Delay
      BY LaneAssumption DEF Delay
    <2> QED
      BY <1>0, <1>1, <1>2, <2>1 DEF Shape, With
  <1>4. Shape'
    BY <1>0, <1>1, <1>2, <1>3 DEF Shape
  <1>5. Bounds'
    <2>1. Cardinality(DOMAIN delayed') = IF l \in DOMAIN delayed THEN Cardinality(DOMAIN delayed)
                                         ELSE Cardinality(DOMAIN delayed) + 1
      BY <1>0, <1>2, TablesAreFinite, FS_AddElement
    <2> QED
      BY <1>0, <1>1, <2>1, TablesAreFinite, LaneAssumption DEF Bounds, Full
  <1>6. OneDrain' /\ Behind'
    BY <1>0, <1>1 DEF OneDrain, Behind
  <1>7. LatestIsKept'
    <2>1. [left |-> d, work |-> w].work = w
      OBVIOUS
    <2> QED
      BY <1>0, <1>1, <1>2, <2>1 DEF LatestIsKept, Shape
  <1> QED
    BY <1>4, <1>5, <1>6, <1>7 DEF LaneIInv

(* A new block other than the drain, behind all others.                    *)
LEMMA BlockQueued ==
  ASSUME Shape, OneDrain, NEW x \in {TimerEvent} \cup Fences, x \notin ToSet(queue),
         queue' = Append(queue, x)
  PROVE  /\ queue' \in Seq({Drain, TimerEvent} \cup Fences)
         /\ Drain \in ToSet(queue') <=> Drain \in ToSet(queue)
         /\ IsInjective(queue')
         /\ \A b \in Fences : b # x /\ DrainAhead(queue, b) => DrainAhead(queue', b)
  <1>1. queue \in Seq({Drain, TimerEvent} \cup Fences) /\ IsInjective(queue)
    BY DEF Shape, OneDrain
  <1>2. x # Drain
    BY LaneAssumption DEF Drain, TimerEvent
  <1>3. /\ queue' \in Seq({Drain, TimerEvent} \cup Fences)
        /\ ToSet(queue') = ToSet(queue) \cup {x} /\ IsInjective(queue')
    BY <1>1, AppendFresh
  <1>4. ASSUME NEW b \in Fences, b # x, DrainAhead(queue, b)
        PROVE  DrainAhead(queue', b)
    BY <1>1, <1>4, AheadAppend
  <1> QED
    BY <1>2, <1>3, <1>4

LEMMA BlockGone ==
  ASSUME Shape, OneDrain, queue # <<>>, queue' = Tail(queue)
  PROVE  /\ queue' \in Seq({Drain, TimerEvent} \cup Fences)
         /\ ToSet(queue') = ToSet(queue) \ {Head(queue)} /\ Head(queue) \in ToSet(queue)
         /\ IsInjective(queue')
         /\ Head(queue) # Drain =>
              \A b \in Fences : DrainAhead(queue, b) => DrainAhead(queue', b) /\ b # Head(queue)
  <1>1. queue \in Seq({Drain, TimerEvent} \cup Fences) /\ IsInjective(queue)
    BY DEF Shape, OneDrain
  <1>2. /\ queue' \in Seq({Drain, TimerEvent} \cup Fences) /\ IsInjective(queue')
        /\ ToSet(queue') = ToSet(queue) \ {Head(queue)} /\ Head(queue) \in ToSet(queue)
    BY <1>1, TailOf
  <1>3. ASSUME Head(queue) # Drain, NEW b \in Fences, DrainAhead(queue, b)
        PROVE  DrainAhead(queue', b) /\ b # Head(queue)
    BY <1>1, <1>3, AheadTail
  <1> QED
    BY <1>2, <1>3

LEMMA FenceKeeps ==
  ASSUME LaneIInv, NEW b \in Fences, Fence(b)
  PROVE  LaneIInv'
  <1>0. Shape /\ Bounds /\ OneDrain /\ LatestIsKept /\ Behind
    BY DEF LaneIInv
  <1>1. /\ b \notin ToSet(queue) /\ queue' = Append(queue, b)
        /\ awaited' = [awaited EXCEPT ![b] = ToSet(pending) \cup DOMAIN coalesced]
        /\ UNCHANGED <<pending, coalesced, order, delayed, prefer, running, active, accepted>>
    BY DEF Fence
  <1>2. ToSet(pending) \subseteq Jobs /\ ToSet(order) = DOMAIN coalesced
    BY <1>0 DEF Shape, LatestIsKept, ToSet
  <1>3. Shape'
    <2>1. awaited' \in [Fences -> SUBSET (Jobs \cup Labels)]
      BY <1>0, <1>1, <1>2 DEF Shape
    <2> QED
      BY <1>0, <1>1, <2>1, BlockQueued DEF Shape
  <1>4. Bounds' /\ LatestIsKept'
    BY <1>0, <1>1 DEF Bounds, LatestIsKept
  <1>5. OneDrain'
    BY <1>0, <1>1, BlockQueued DEF OneDrain
  <1>6. Behind'
    <2>1. ASSUME NEW c \in Fences, c # b
          PROVE  /\ awaited'[c] \subseteq ToSet(pending') \cup ToSet(order')
                 /\ awaited'[c] # {} => active' # "none" \/ DrainAhead(queue', c)
      <3>1. awaited'[c] = awaited[c]
        BY <1>0, <1>1, <2>1 DEF Shape
      <3> QED
        BY <1>0, <1>1, <2>1, <3>1, BlockQueued DEF Behind
    <2>2. awaited'[b] = ToSet(pending) \cup ToSet(order)
      BY <1>0, <1>1, <1>2 DEF Shape
    <2>3. ASSUME awaited'[b] # {}
          PROVE  active' # "none" \/ DrainAhead(queue', b)
      <3>1. pending # <<>> \/ order # <<>>
        BY <2>2, <2>3 DEF ToSet
      <3>2. active # "none" \/ Drain \in ToSet(queue)
        BY <1>0, <3>1 DEF OneDrain
      <3>3. Drain \in ToSet(queue) => DrainAhead(queue', b)
        BY <1>0, <1>1, AheadOfTheNew DEF Shape
      <3> QED
        BY <1>1, <3>2, <3>3
    <2> QED
      BY <1>1, <2>1, <2>2, <2>3 DEF Behind
  <1> QED
    BY <1>3, <1>4, <1>5, <1>6 DEF LaneIInv

LEMMA TimerFiresKeeps ==
  ASSUME LaneIInv, TimerFires
  PROVE  LaneIInv'
  <1>0. Shape /\ Bounds /\ OneDrain /\ LatestIsKept /\ Behind
    BY DEF LaneIInv
  <1>1. /\ queue' = IF TimerEvent \in ToSet(queue) THEN queue ELSE Append(queue, TimerEvent)
        /\ UNCHANGED <<pending, coalesced, order, delayed, prefer, running, active, accepted, awaited>>
    BY DEF TimerFires, historyVars
  <1>2. /\ queue' \in Seq({Drain, TimerEvent} \cup Fences)
        /\ Drain \in ToSet(queue') <=> Drain \in ToSet(queue)
        /\ IsInjective(queue')
        /\ \A b \in Fences : DrainAhead(queue, b) => DrainAhead(queue', b)
    <2>1. CASE TimerEvent \in ToSet(queue)
      BY <1>0, <1>1, <2>1 DEF Shape, OneDrain
    <2>2. CASE TimerEvent \notin ToSet(queue)
      <3>1. TimerEvent \notin Fences
        BY LaneAssumption DEF TimerEvent
      <3> QED
        BY <1>0, <1>1, <2>2, <3>1, BlockQueued
    <2> QED
      BY <2>1, <2>2
  <1>3. Shape'
    BY <1>0, <1>1, <1>2 DEF Shape
  <1>4. Bounds' /\ LatestIsKept'
    BY <1>0, <1>1 DEF Bounds, LatestIsKept
  <1>5. OneDrain' /\ Behind'
    BY <1>0, <1>1, <1>2 DEF OneDrain, Behind
  <1> QED
    BY <1>3, <1>4, <1>5 DEF LaneIInv

LEMMA StartDrainKeeps ==
  ASSUME LaneIInv, StartDrain
  PROVE  LaneIInv'
  <1>0. Shape /\ Bounds /\ OneDrain /\ LatestIsKept /\ Behind
    BY DEF LaneIInv
  <1>1. /\ queue # <<>> /\ Head(queue) = Drain /\ active = "none"
        /\ queue' = Tail(queue) /\ active' = "drain"
        /\ UNCHANGED <<pending, coalesced, order, delayed, prefer, running, accepted, awaited>>
    BY DEF StartDrain, AtHead, historyVars
  <1>2. Shape'
    BY <1>0, <1>1, BlockGone DEF Shape
  <1>3. Bounds' /\ LatestIsKept'
    BY <1>0, <1>1 DEF Bounds, LatestIsKept
  <1>4. OneDrain'
    BY <1>0, <1>1, BlockGone DEF OneDrain
  <1>5. Behind'
    BY <1>0, <1>1 DEF Behind
  <1> QED
    BY <1>2, <1>3, <1>4, <1>5 DEF LaneIInv

LEMMA FencePassesKeeps ==
  ASSUME LaneIInv, NEW b \in Fences, FencePasses(b)
  PROVE  LaneIInv'
  <1>0. Shape /\ Bounds /\ OneDrain /\ LatestIsKept /\ Behind
    BY DEF LaneIInv
  <1>1. /\ queue # <<>> /\ Head(queue) = b /\ queue' = Tail(queue)
        /\ awaited' = [awaited EXCEPT ![b] = {}]
        /\ UNCHANGED <<pending, coalesced, order, delayed, prefer, running, active, accepted>>
    BY DEF FencePasses, AtHead
  <1>2. b # Drain
    BY LaneAssumption DEF Drain
  <1>3. /\ awaited' \in [Fences -> SUBSET (Jobs \cup Labels)] /\ awaited'[b] = {}
        /\ \A c \in Fences \ {b} : awaited'[c] = awaited[c]
    BY <1>0, <1>1 DEF Shape
  <1>4. Shape'
    BY <1>0, <1>1, <1>3, BlockGone DEF Shape
  <1>5. Bounds' /\ LatestIsKept'
    BY <1>0, <1>1 DEF Bounds, LatestIsKept
  <1>6. OneDrain'
    BY <1>0, <1>1, <1>2, BlockGone DEF OneDrain
  <1>7. Behind'
    BY <1>0, <1>1, <1>2, <1>3, BlockGone DEF Behind
  <1> QED
    BY <1>4, <1>5, <1>6, <1>7 DEF LaneIInv

LEMMA PromoteDueDelayedKeeps ==
  ASSUME LaneIInv, PromoteDueDelayed
  PROVE  LaneIInv'
  <1>0. Shape /\ Bounds /\ OneDrain /\ LatestIsKept /\ Behind
    BY DEF LaneIInv
  <1> DEFINE due == {l \in DOMAIN delayed : delayed[l].left = 0}
  <1>1. /\ queue # <<>> /\ Head(queue) = TimerEvent /\ active = "none" /\ queue' = Tail(queue)
        /\ delayed' = Restrict(delayed, DOMAIN delayed \ due)
        /\ coalesced' = [l \in DOMAIN coalesced \cup due |->
                            IF l \in DOMAIN coalesced THEN coalesced[l] ELSE delayed[l].work]
        /\ UNCHANGED <<pending, accepted, awaited, prefer>>
    BY DEF PromoteDueDelayed, AtHead, historyVars
  <1>2. PICK s \in SetToSeqs(due \ DOMAIN coalesced) : order' = order \o s
    BY DEF PromoteDueDelayed
  <1>3. IF due # {} /\ ~running /\ coalesced' # <<>>
        THEN running' = TRUE /\ active' = "drain"
        ELSE UNCHANGED <<running, active>>
    BY DEF PromoteDueDelayed
  <1> HIDE DEF due
  <1>4. TimerEvent # Drain
    BY DEF TimerEvent, Drain
  (* The two tables.                                                       *)
  <1>5. /\ due \subseteq DOMAIN delayed /\ due \subseteq Labels /\ IsFiniteSet(due)
        /\ due \cap DOMAIN coalesced = {} /\ due \ DOMAIN coalesced = due
    <2>1. due \subseteq DOMAIN delayed
      BY DEF due
    <2>2. DOMAIN delayed \subseteq Labels /\ DOMAIN coalesced \cap DOMAIN delayed = {}
      BY <1>0 DEF Shape, LatestIsKept
    <2>3. IsFiniteSet(due)
      BY <2>1, <2>2, LaneAssumption, FS_Subset
    <2> QED
      BY <2>1, <2>2, <2>3
  <1>6. /\ DOMAIN delayed' = DOMAIN delayed \ due
        /\ \A k \in DOMAIN delayed \ due : delayed'[k] = delayed[k]
    BY <1>1 DEF Restrict
  <1>7. /\ DOMAIN coalesced' = DOMAIN coalesced \cup due
        /\ \A k \in DOMAIN coalesced : coalesced'[k] = coalesced[k]
        /\ \A k \in due : coalesced'[k] = delayed[k].work
    BY <1>1, <1>5
  <1>8. delayed' \in [DOMAIN delayed' -> Delay]
    BY <1>0, <1>1, <1>6 DEF Shape, Restrict
  <1>9. coalesced' \in [DOMAIN coalesced' -> Works]
    <2>1. \A k \in due : delayed[k].work \in Works
      BY <1>0, <1>5 DEF Shape, Delay
    <2>2. \A k \in DOMAIN coalesced : coalesced[k] \in Works
      BY <1>0 DEF Shape
    <2> QED
      BY <1>1, <1>7, <2>1, <2>2
  <1>10. s \in Seq(due) /\ ToSet(s) = due /\ IsInjective(s)
    BY <1>2, <1>5, Enumerations
  <1>11. order' \in Seq(Labels) /\ ToSet(order') = ToSet(order) \cup due /\ IsInjective(order')
    <2>1. s \in Seq(Labels)
      BY <1>5, <1>10
    <2>2. order \in Seq(Labels) /\ IsInjective(order) /\ ToSet(order) = DOMAIN coalesced
      BY <1>0 DEF Shape, LatestIsKept
    <2> QED
      BY <1>2, <1>5, <1>10, <2>1, <2>2, JoinFresh
  (* The lane.                                                             *)
  <1>12. due # {} => coalesced' # <<>>
    <2>1. DOMAIN <<>> = {}
      OBVIOUS
    <2> QED
      BY <1>7, <2>1
  <1>13. /\ running' \in BOOLEAN /\ active' \in {"none", "drain"}
         /\ due = {} => UNCHANGED <<running, active>>
         /\ due # {} => running'
         /\ running => UNCHANGED <<running, active>>
         /\ ~running /\ due # {} => active' = "drain"
    BY <1>0, <1>1, <1>3, <1>12 DEF Shape
  <1>14. Shape'
    BY <1>0, <1>1, <1>5, <1>6, <1>7, <1>8, <1>9, <1>11, <1>13, BlockGone DEF Shape
  <1>15. Bounds'
    <2>1. Cardinality(DOMAIN coalesced \cup due) = Cardinality(DOMAIN coalesced) + Cardinality(due)
      <3>1. Cardinality(DOMAIN coalesced \cap due) = 0
        BY <1>5, FS_EmptySet
      <3>2. Cardinality(due) \in Nat
        BY <1>5, FS_CardinalityType
      <3>3. Cardinality(DOMAIN coalesced \cup due) =
              Cardinality(DOMAIN coalesced) + Cardinality(due) - Cardinality(DOMAIN coalesced \cap due)
        BY <1>0, <1>5, TablesAreFinite, FS_Union
      <3> QED
        BY <1>0, <3>1, <3>2, <3>3, TablesAreFinite
    <2>2. Cardinality(DOMAIN delayed \ due) = Cardinality(DOMAIN delayed) - Cardinality(due)
      <3>1. DOMAIN delayed \cap due = due
        BY <1>5
      <3> QED
        BY <1>0, <3>1, TablesAreFinite, FS_Difference
    <2>3. Cardinality(due) \in Nat
      BY <1>5, FS_CardinalityType
    <2> QED
      BY <1>0, <1>1, <1>6, <1>7, <2>1, <2>2, <2>3, TablesAreFinite, LaneAssumption DEF Bounds
  <1>16. OneDrain'
    <2>1. /\ Drain \in ToSet(queue') <=> Drain \in ToSet(queue)
          /\ IsInjective(queue')
      BY <1>0, <1>1, <1>4, BlockGone
    <2>2. pending' # <<>> \/ order' # <<>> => running'
      <3>1. due = {} => ToSet(order') = ToSet(order)
        BY <1>11
      <3>2. due = {} /\ order' # <<>> => order # <<>>
        BY <1>0, <1>11, <3>1, EmptyOrNot DEF Shape
      <3> QED
        BY <1>0, <1>1, <1>13, <3>2 DEF OneDrain
    <2> QED
      BY <1>0, <1>1, <1>13, <2>1, <2>2 DEF OneDrain
  <1>17. LatestIsKept'
    <2>1. ToSet(order') = DOMAIN coalesced' /\ IsInjective(order')
      BY <1>0, <1>7, <1>11 DEF LatestIsKept
    <2>2. DOMAIN coalesced' \cap DOMAIN delayed' = {}
      BY <1>0, <1>6, <1>7 DEF LatestIsKept
    <2>3. ASSUME NEW k \in Labels
          PROVE  accepted'[k] = IF k \in DOMAIN coalesced' THEN <<coalesced'[k]>>
                   ELSE IF k \in DOMAIN delayed' THEN <<delayed'[k].work>> ELSE <<>>
      <3>1. accepted'[k] = IF k \in DOMAIN coalesced THEN <<coalesced[k]>>
                   ELSE IF k \in DOMAIN delayed THEN <<delayed[k].work>> ELSE <<>>
        BY <1>0, <1>1 DEF LatestIsKept
      <3> QED
        BY <1>5, <1>6, <1>7, <3>1
    <2> QED
      BY <2>1, <2>2, <2>3 DEF LatestIsKept
  <1>18. Behind'
    <2>1. active # active' => active' # "none"
      BY <1>1
    <2> QED
      BY <1>0, <1>1, <1>4, <1>11, <2>1, BlockGone DEF Behind
  <1> QED
    BY <1>14, <1>15, <1>16, <1>17, <1>18 DEF LaneIInv

LEMMA TakeCoalescedKeeps ==
  ASSUME LaneIInv, TakeCoalesced
  PROVE  LaneIInv'
  <1>0. Shape /\ Bounds /\ OneDrain /\ LatestIsKept /\ Behind
    BY DEF LaneIInv
  <1>1. PICK l : l = Head(order)
    OBVIOUS
  <1>2. /\ order # <<>> /\ order' = Tail(order) /\ active = "drain" /\ active' = "job"
        /\ coalesced' = Without(coalesced, l) /\ prefer' = FALSE
        /\ accepted' = [accepted EXCEPT ![l] = <<>>]
        /\ awaited' = [b \in Fences |-> awaited[b] \ {l}]
        /\ UNCHANGED <<pending, delayed, running, queue>>
    BY <1>1 DEF TakeCoalesced
  <1>3. order \in Seq(Labels) /\ IsInjective(order) /\ ToSet(order) = DOMAIN coalesced
    BY <1>0 DEF Shape, LatestIsKept
  <1>4. /\ l \in Labels /\ l \in ToSet(order) /\ order' \in Seq(Labels) /\ IsInjective(order')
        /\ ToSet(order') = ToSet(order) \ {l}
    BY <1>1, <1>2, <1>3, TailOf
  <1>5. /\ DOMAIN coalesced' = DOMAIN coalesced \ {l}
        /\ \A k \in DOMAIN coalesced \ {l} : coalesced'[k] = coalesced[k]
    BY <1>2, WithoutIs
  <1>6. coalesced' \in [DOMAIN coalesced' -> Works]
    BY <1>0, <1>2, <1>5 DEF Shape, Without, Restrict
  <1>7. /\ accepted' \in [Labels -> Seq(Works)]
        /\ awaited' \in [Fences -> SUBSET (Jobs \cup Labels)]
    <2>1. accepted' \in [Labels -> Seq(Works)]
      <3>1. accepted \in [Labels -> Seq(Works)] /\ <<>> \in Seq(Works)
        BY <1>0 DEF Shape
      <3> QED
        BY <1>2, <3>1
    <2>2. \A b \in Fences : awaited[b] \ {l} \in SUBSET (Jobs \cup Labels)
      BY <1>0 DEF Shape
    <2> QED
      BY <1>2, <2>1, <2>2
  <1>8. Shape'
    BY <1>0, <1>2, <1>4, <1>5, <1>6, <1>7 DEF Shape
  <1>9. Bounds'
    <2>1. Cardinality(DOMAIN coalesced') = Cardinality(DOMAIN coalesced) - 1
      BY <1>0, <1>3, <1>4, <1>5, TablesAreFinite, FS_RemoveElement
    <2> QED
      BY <1>0, <1>2, <2>1, TablesAreFinite, LaneAssumption DEF Bounds
  <1>10. OneDrain'
    BY <1>0, <1>2 DEF OneDrain
  <1>11. LatestIsKept'
    <2>1. ToSet(order') = DOMAIN coalesced' /\ DOMAIN coalesced' \cap DOMAIN delayed' = {}
      BY <1>0, <1>2, <1>3, <1>4, <1>5 DEF LatestIsKept
    <2>2. l \notin DOMAIN delayed
      BY <1>0, <1>3, <1>4 DEF LatestIsKept
    <2>3. ASSUME NEW k \in Labels
          PROVE  accepted'[k] = IF k \in DOMAIN coalesced' THEN <<coalesced'[k]>>
                   ELSE IF k \in DOMAIN delayed' THEN <<delayed'[k].work>> ELSE <<>>
      <3>1. accepted[k] = IF k \in DOMAIN coalesced THEN <<coalesced[k]>>
                   ELSE IF k \in DOMAIN delayed THEN <<delayed[k].work>> ELSE <<>>
        BY <1>0 DEF LatestIsKept
      <3>2. accepted'[k] = IF k = l THEN <<>> ELSE accepted[k]
        BY <1>0, <1>2 DEF Shape
      <3> QED
        BY <1>2, <1>5, <2>2, <3>1, <3>2
    <2> QED
      BY <1>4, <2>1, <2>3 DEF LatestIsKept
  <1>12. Behind'
    BY <1>0, <1>2, <1>4 DEF Behind
  <1> QED
    BY <1>8, <1>9, <1>10, <1>11, <1>12 DEF LaneIInv

LEMMA TakePendingKeeps ==
  ASSUME LaneIInv, TakePending
  PROVE  LaneIInv'
  <1>0. Shape /\ Bounds /\ OneDrain /\ LatestIsKept /\ Behind
    BY DEF LaneIInv
  <1>1. /\ pending # <<>> /\ pending' = Tail(pending) /\ active = "drain" /\ active' = "job"
        /\ awaited' = [b \in Fences |-> awaited[b] \ {Head(pending)}] /\ prefer' = TRUE
        /\ UNCHANGED <<coalesced, order, delayed, running, queue, accepted>>
    BY DEF TakePending
  <1>2. /\ pending' \in Seq(Jobs) /\ Len(pending') = Len(pending) - 1
        /\ ToSet(pending) = ToSet(pending') \cup {Head(pending)}
    BY <1>0, <1>1, TailOf DEF Shape
  <1>3. awaited' \in [Fences -> SUBSET (Jobs \cup Labels)]
    BY <1>0, <1>1 DEF Shape
  <1>4. Shape'
    BY <1>0, <1>1, <1>2, <1>3 DEF Shape
  <1>5. Bounds'
    BY <1>0, <1>1, <1>2, LaneAssumption DEF Bounds, Shape
  <1>6. OneDrain'
    BY <1>0, <1>1 DEF OneDrain
  <1>7. LatestIsKept'
    BY <1>0, <1>1 DEF LatestIsKept
  <1>8. Behind'
    BY <1>0, <1>1, <1>2 DEF Behind
  <1> QED
    BY <1>4, <1>5, <1>6, <1>7, <1>8 DEF LaneIInv

LEMMA JobEndsKeeps ==
  ASSUME LaneIInv, JobEnds
  PROVE  LaneIInv'
  <1>1. /\ active = "job" /\ active' = "drain"
        /\ UNCHANGED <<pending, coalesced, order, delayed, prefer, running, queue, accepted, awaited>>
    BY DEF JobEnds, historyVars
  <1>2. Shape' /\ Bounds' /\ LatestIsKept'
    BY <1>1 DEF LaneIInv, Shape, Bounds, LatestIsKept
  <1>3. OneDrain' /\ Behind'
    BY <1>1 DEF LaneIInv, OneDrain, Behind
  <1> QED
    BY <1>2, <1>3 DEF LaneIInv

(* The drain ends when nothing is runnable, so no fence waits for anything.*)
LEMMA DrainEndsKeeps ==
  ASSUME LaneIInv, DrainEnds
  PROVE  LaneIInv'
  <1>1. /\ active = "drain" /\ order = <<>> /\ pending = <<>>
        /\ running' = FALSE /\ active' = "none"
        /\ UNCHANGED <<pending, coalesced, order, delayed, prefer, queue, accepted, awaited>>
    BY DEF DrainEnds, historyVars
  <1>2. Shape' /\ Bounds' /\ LatestIsKept'
    BY <1>1 DEF LaneIInv, Shape, Bounds, LatestIsKept
  <1>3. OneDrain'
    BY <1>1 DEF LaneIInv, OneDrain
  <1>4. \A b \in Fences : awaited[b] = {}
    BY <1>1 DEF LaneIInv, Behind, ToSet
  <1>5. Behind'
    BY <1>1, <1>4 DEF Behind
  <1> QED
    BY <1>2, <1>3, <1>5 DEF LaneIInv

LEMMA TickKeeps ==
  ASSUME LaneIInv, Tick
  PROVE  LaneIInv'
  <1>0. Shape /\ Bounds /\ OneDrain /\ LatestIsKept /\ Behind
    BY DEF LaneIInv
  <1>1. /\ delayed' = [l \in DOMAIN delayed |-> [delayed[l] EXCEPT !.left = Before(@)]]
        /\ UNCHANGED <<pending, coalesced, order, prefer, running, queue, active, accepted, awaited>>
    BY DEF Tick, historyVars
  <1>2. DOMAIN delayed' = DOMAIN delayed
    BY <1>1
  <1>3. ASSUME NEW l \in DOMAIN delayed
        PROVE  delayed'[l] \in Delay /\ delayed'[l].work = delayed[l].work
    <2>1. delayed[l] \in Delay
      BY <1>0 DEF Shape
    <2>2. PICK n \in Nat, w \in Works : delayed[l] = [left |-> n, work |-> w]
      BY <2>1 DEF Delay
    <2>3. Before(n) \in Nat
      BY DEF Before
    <2>4. delayed'[l] = [left |-> Before(n), work |-> w]
      BY <1>1, <2>2
    <2> QED
      BY <2>2, <2>3, <2>4 DEF Delay
  <1>4. Shape'
    <2>1. delayed' \in [DOMAIN delayed' -> Delay]
      BY <1>1, <1>2, <1>3
    <2> QED
      BY <1>0, <1>1, <1>2, <2>1 DEF Shape
  <1>5. Bounds' /\ OneDrain' /\ Behind'
    BY <1>0, <1>1, <1>2 DEF Bounds, OneDrain, Behind
  <1>6. LatestIsKept'
    BY <1>0, <1>1, <1>2, <1>3 DEF LatestIsKept
  <1> QED
    BY <1>4, <1>5, <1>6 DEF LaneIInv

-----------------------------------------------------------------------------
LEMMA LaneStarts == LaneInit => LaneIInv
  <1> SUFFICES ASSUME LaneInit PROVE LaneIInv
    OBVIOUS
  <1>1. DOMAIN coalesced = {} /\ DOMAIN delayed = {} /\ ToSet(queue) = {} /\ ToSet(order) = {}
    BY DEF LaneInit, ToSet
  <1>2. Cardinality({}) = 0
    BY FS_EmptySet
  <1>3. Shape
    <2>1. coalesced \in [DOMAIN coalesced -> Works] /\ delayed \in [DOMAIN delayed -> Delay]
      BY <1>1 DEF LaneInit
    <2>2. accepted \in [Labels -> Seq(Works)] /\ awaited \in [Fences -> SUBSET (Jobs \cup Labels)]
      BY DEF LaneInit
    <2>3. pending \in Seq(Jobs) /\ order \in Seq(Labels) /\ queue \in Seq({Drain, TimerEvent} \cup Fences)
      BY DEF LaneInit
    <2> QED
      BY <1>1, <2>1, <2>2, <2>3 DEF LaneInit, Shape
  <1>4. Bounds
    BY <1>1, <1>2, LaneAssumption DEF LaneInit, Bounds
  <1>5. OneDrain /\ LatestIsKept
    BY <1>1 DEF LaneInit, OneDrain, LatestIsKept, IsInjective
  <1>6. Behind
    BY DEF LaneInit, Behind
  <1> QED
    BY <1>3, <1>4, <1>5, <1>6 DEF LaneIInv

LEMMA LaneSteps == LaneIInv /\ [LaneNext]_laneAndHistory => LaneIInv'
  <1> SUFFICES ASSUME LaneIInv, [LaneNext]_laneAndHistory PROVE LaneIInv'
    OBVIOUS
  <1>1. ASSUME NEW j \in Jobs, Submit(j) PROVE LaneIInv'
    BY <1>1, SubmitKeeps
  <1>2. ASSUME NEW l \in Labels, NEW w \in Works, SubmitLatest(l, w) PROVE LaneIInv'
    BY <1>2, SubmitLatestKeeps
  <1>3. ASSUME NEW l \in Labels, NEW w \in Works, NEW d \in Delays, SubmitLatestAfter(l, w, d)
        PROVE  LaneIInv'
    BY <1>3, SubmitLatestAfterKeeps
  <1>4. ASSUME NEW b \in Fences, Fence(b) PROVE LaneIInv'
    BY <1>4, FenceKeeps
  <1>5. ASSUME NEW b \in Fences, FencePasses(b) PROVE LaneIInv'
    BY <1>5, FencePassesKeeps
  <1>6. CASE StartDrain
    BY <1>6, StartDrainKeeps
  <1>7. CASE PromoteDueDelayed
    BY <1>7, PromoteDueDelayedKeeps
  <1>8. CASE TakeCoalesced
    BY <1>8, TakeCoalescedKeeps
  <1>9. CASE TakePending
    BY <1>9, TakePendingKeeps
  <1>10. CASE JobEnds
    BY <1>10, JobEndsKeeps
  <1>11. CASE DrainEnds
    BY <1>11, DrainEndsKeeps
  <1>12. CASE TimerFires
    BY <1>12, TimerFiresKeeps
  <1>13. CASE Tick
    BY <1>13, TickKeeps
  <1>14. CASE UNCHANGED laneAndHistory
    BY <1>14 DEF laneAndHistory, laneVars, historyVars, LaneIInv, Shape, Bounds, OneDrain, LatestIsKept, Behind
  <1> QED
    BY <1>1, <1>2, <1>3, <1>4, <1>5, <1>6, <1>7, <1>8, <1>9, <1>10, <1>11, <1>12, <1>13, <1>14
    DEF LaneNext, Lane

(* The inductive invariant holds in every reachable state, whatever threads*)
(* submit, however timer, drain and fences interleave.                     *)
THEOREM LaneIInvAlways == LaneSpec => []LaneIInv
  BY LaneStarts, LaneSteps, PTL DEF LaneSpec

(* Exactly one drain is on its way to runnable work, the latest work of a  *)
(* label waits in exactly one place, and both backlogs keep their bounds.  *)
THEOREM LaneSafe == LaneSpec => []LaneInv
  <1>1. LaneIInv => LaneInv
    <2> SUFFICES ASSUME LaneIInv PROVE LaneInv
      OBVIOUS
    <2>1. LaneTypeOK
      BY DEF LaneIInv, Shape, Bounds, LaneTypeOK, ToSet
    <2> QED
      BY <2>1 DEF LaneIInv, LaneInv
  <1> QED
    BY <1>1, LaneIInvAlways, PTL

(* A fence whose turn has come finds all work done that was runnable when  *)
(* it entered the serial queue (barrier).                                  *)
THEOREM FenceHolds == LaneSpec => []FenceIsAFence
  <1>1. LaneIInv => FenceIsAFence
    <2> SUFFICES ASSUME LaneIInv, NEW b \in Fences, AtHead(b), awaited[b] # {} PROVE FALSE
      BY DEF FenceIsAFence
    <2>1. queue \in Seq({Drain, TimerEvent} \cup Fences) /\ queue # <<>> /\ Head(queue) = b
      BY DEF LaneIInv, Shape, AtHead
    <2>2. DrainAhead(queue, b)
      BY DEF LaneIInv, Behind, AtHead
    <2>3. b # Drain
      BY LaneAssumption DEF Drain
    <2> QED
      BY <2>1, <2>2, <2>3, AheadTail
  <1> QED
    BY <1>1, LaneIInvAlways, PTL

-----------------------------------------------------------------------------
(* The GPU worker supervisor.                                              *)

(* The holder of operationLock: nobody, or a thread with a phase and the   *)
(* generation it works for.                                                *)
OperationType == [thread : Callers \cup {"none", "start", "reap"}, phase : Phases,
                  gen : 0..MaxGeneration, reap : BOOLEAN, retry : BOOLEAN]

OperationOK ==
  /\ op \in OperationType
  /\ op.thread = "none" <=> op = Unlocked
  /\ op.phase = "idle" <=> op = Unlocked

GenerationsOK ==
  /\ generation \in Generations
  /\ transportGeneration \in 0..generation /\ terminatedGeneration \in 0..generation
  /\ autoRetryGeneration \in {Nil, generation} /\ child \in 0..generation

ThreadsOK ==
  /\ waiting \subseteq Callers /\ starters \subseteq 1..generation
  /\ sleepers \subseteq 1..generation /\ reapers \subseteq 1..generation

LatchesOK ==
  /\ state \in States /\ retryArmed \in BOOLEAN /\ owes \in BOOLEAN
  /\ consecutiveTimeouts \in Nat

DataOK == GenerationsOK /\ ThreadsOK /\ LatchesOK

TypeOK == OperationOK /\ DataOK

(* The generations of the holder and of the reapers are of the past, the   *)
(* reapers' strictly so.                                                   *)
Holder ==
  /\ op.gen <= generation
  /\ op.phase \in {"spawning", "sent", "failed", "terminate"} => op.gen # Nil
  /\ op.retry => op.phase = "terminate" /\ op.gen < generation
  /\ generation \notin reapers

(* What the state says of the timeouts so far and of the generation that   *)
(* was given up on.                                                        *)
Escalation ==
  /\ state \in {"stopped", "disabled", "ready"} => consecutiveTimeouts = 0
  /\ state \in {"retryPending", "probation", "liveSuppressed"} => consecutiveTimeouts > 0
  /\ state \in {"stopped", "disabled"} => autoRetryGeneration = Nil
  /\ state = "retryPending" => autoRetryGeneration = generation
  /\ state = "starting" => (autoRetryGeneration = generation <=> consecutiveTimeouts > 0)
  /\ terminatedGeneration = generation
       => \/ state \in {"quarantined", "liveSuppressed"}
          \/ op.phase = "failed" /\ op.reap /\ Current

(* The books on the child, at each place of the operation: only the holder *)
(* of the lock makes a state requestable, and only for its own generation. *)
Books ==
  /\ op.phase = "spawning" /\ Current => state = "starting"
  /\ op.phase = "sent" /\ Current => state \in Requestable
  /\ op.phase = "failed" /\ Current => state \in Requestable \cup {"starting"}
  /\ op.phase \in {"spawning", "terminate"} => state \notin Requestable
  /\ op.phase \in {"sent", "failed"} /\ state \in Requestable => Current
  /\ op.phase \in {"spawning", "sent"} => transportGeneration = op.gen
  /\ op.phase = "failed" => transportGeneration = op.gen \/ op.reap
  /\ state \in Requestable /\ op.phase \in {"idle", "serving", "sent"}
       => transportGeneration = generation /\ child = generation /\ ~owes
  /\ child # Nil /\ transportGeneration = Nil
       => op.phase = "terminate" \/ (op.phase = "failed" /\ op.reap)

IInv == TypeOK /\ Holder /\ Escalation /\ Books

-----------------------------------------------------------------------------
(* The numbers and sets of a typed state.                                  *)
LEMMA Numbers ==
  ASSUME TypeOK
  PROVE  /\ MaxGeneration \in Nat /\ generation \in Nat /\ generation >= 1
         /\ generation <= MaxGeneration /\ Nil = 0 /\ op.gen \in Nat
         /\ transportGeneration \in Nat /\ terminatedGeneration \in Nat /\ child \in Nat
         /\ consecutiveTimeouts \in Nat
         /\ terminatedGeneration <= generation /\ autoRetryGeneration \in {Nil, generation}
  BY SupervisorAssumption DEF TypeOK, OperationOK, DataOK, GenerationsOK, LatchesOK,
                              OperationType, Generations, Nil

LEMMA TypedGenerations ==
  ASSUME TypeOK
  PROVE  Nil \in 0..MaxGeneration /\ generation \in 0..MaxGeneration
  BY Numbers

(* The fields of an operation, however it is made.                         *)
LEMMA UnlockedFields ==
  /\ Unlocked \in OperationType /\ Unlocked.thread = "none" /\ Unlocked.phase = "idle"
  /\ Unlocked.gen = Nil /\ Unlocked.reap = FALSE /\ Unlocked.retry = FALSE
  BY SupervisorAssumption DEF Unlocked, Holding, OperationType, Phases, Nil

Becomes(phase, g, reap, retry) ==
  op'.phase = phase /\ op'.gen = g /\ op'.reap = reap /\ op'.retry = retry

LEMMA Unlocks ==
  ASSUME op' = Unlocked
  PROVE  OperationOK' /\ Becomes("idle", Nil, FALSE, FALSE)
  BY UnlockedFields DEF OperationOK, Becomes

LEMMA Takes ==
  ASSUME NEW thread \in Callers \cup {"start", "reap"},
         NEW phase \in {"spawning", "serving", "sent", "terminate"},
         NEW g \in 0..MaxGeneration, op' = Holding(thread, phase, g)
  PROVE  OperationOK' /\ op' # Unlocked /\ Becomes(phase, g, FALSE, FALSE)
  <1>1. /\ thread # "none" /\ op'.thread = thread /\ op'.phase # "idle"
        /\ Unlocked.thread = "none" /\ Unlocked.phase = "idle"
    BY SupervisorAssumption, UnlockedFields DEF Holding
  <1>2. op' \in OperationType
    BY DEF Holding, OperationType, Phases
  <1> QED
    BY <1>1, <1>2 DEF OperationOK, Becomes, Holding

(* The holder moves on with its generation.                                *)
LEMMA Moves ==
  ASSUME OperationOK, op # Unlocked, NEW phase \in {"failed", "terminate"},
         NEW reap \in BOOLEAN, NEW retry \in BOOLEAN,
         \/ op' = [op EXCEPT !.phase = phase] /\ reap = op.reap /\ retry = op.retry
         \/ op' = [op EXCEPT !.phase = phase, !.reap = reap] /\ retry = op.retry
         \/ op' = [op EXCEPT !.phase = phase, !.retry = retry] /\ reap = op.reap
  PROVE  OperationOK' /\ op' # Unlocked /\ Becomes(phase, op.gen, reap, retry)
  <1>1. /\ op \in OperationType /\ op.thread # "none"
        /\ Unlocked.thread = "none" /\ Unlocked.phase = "idle"
    BY UnlockedFields DEF OperationOK
  <1>2. op' \in OperationType /\ op'.thread = op.thread
    BY <1>1 DEF OperationType, Phases
  <1>3. Becomes(phase, op.gen, reap, retry)
    BY <1>1 DEF Becomes, OperationType
  <1> QED
    BY <1>1, <1>2, <1>3 DEF OperationOK, Becomes

LEMMA MovesOn ==
  ASSUME OperationOK, op # Unlocked, NEW phase \in {"failed", "terminate"},
         op' = [op EXCEPT !.phase = phase]
  PROVE  OperationOK' /\ op' # Unlocked /\ Becomes(phase, op.gen, op.reap, op.retry)
  <1>1. op.reap \in BOOLEAN /\ op.retry \in BOOLEAN
    BY DEF OperationOK, OperationType
  <1> QED
    BY <1>1, Moves

(* What the actions on the operation do, field by field.                   *)
LEMMA EnsureReadyEffect ==
  ASSUME TypeOK, NEW c \in Callers, EnsureReady(c)
  PROVE  /\ OperationOK' /\ op = Unlocked /\ retryArmed' \in BOOLEAN /\ waiting' \subseteq waiting
         /\ UNCHANGED <<generation, terminatedGeneration, autoRetryGeneration,
                        consecutiveTimeouts, starters, sleepers, reapers, child, owes>>
         /\ \/ UNCHANGED <<op, state, transportGeneration>>
            \/ state \in Requestable /\ Becomes("serving", Nil, FALSE, FALSE)
               /\ UNCHANGED <<state, transportGeneration>>
            \/ state = "stopped" /\ state' = "starting" /\ transportGeneration' = generation
               /\ Becomes("spawning", generation, FALSE, FALSE)
  <1>1. /\ op = Unlocked /\ waiting' \subseteq waiting /\ OperationOK
        /\ UNCHANGED <<generation, terminatedGeneration, autoRetryGeneration,
                       consecutiveTimeouts, starters, sleepers, reapers, child, owes>>
    BY DEF EnsureReady, childVars, TypeOK
  <1>2. CASE state \in Requestable
    <2>1. op' = Holding(c, "serving", Nil) /\ UNCHANGED <<state, transportGeneration, retryArmed>>
      BY <1>2 DEF EnsureReady, Requestable
    <2> QED
      BY <1>1, <1>2, <2>1, Takes, TypedGenerations DEF TypeOK, DataOK, LatchesOK
  <1>3. CASE state = "stopped"
    <2>1. /\ state' = "starting" /\ retryArmed' = FALSE /\ transportGeneration' = generation
          /\ op' = Holding(c, "spawning", generation)
      BY <1>3 DEF EnsureReady, Requestable, ClaimTransport
    <2> QED
      BY <1>1, <1>3, <2>1, Takes, TypedGenerations
  <1>4. CASE state \notin Requestable /\ state # "stopped"
    <2>1. UNCHANGED <<state, transportGeneration, retryArmed, op>>
      BY <1>4 DEF EnsureReady
    <2> QED
      BY <1>1, <2>1 DEF TypeOK, DataOK, LatchesOK, OperationOK
  <1> QED
    BY <1>2, <1>3, <1>4

LEMMA PerformStartEffect ==
  ASSUME TypeOK, NEW g \in Generations, PerformStart(g)
  PROVE  /\ OperationOK' /\ op = Unlocked /\ starters' \subseteq starters
         /\ UNCHANGED <<state, generation, terminatedGeneration, autoRetryGeneration,
                        retryArmed, consecutiveTimeouts, waiting, sleepers, reapers, child,
                        owes>>
         /\ \/ UNCHANGED <<op, transportGeneration>>
            \/ state = "starting" /\ transportGeneration' = generation
               /\ Becomes("spawning", generation, FALSE, FALSE)
  <1>1. OperationOK
    BY DEF TypeOK
  <1>2. CASE generation = g /\ state = "starting"
    <2>1. op' = Holding("start", "spawning", generation) /\ transportGeneration' = generation
      BY <1>2 DEF PerformStart, ClaimTransport
    <2> QED
      BY <1>2, <2>1, Takes, TypedGenerations DEF PerformStart, childVars
  <1>3. CASE ~(generation = g /\ state = "starting")
    BY <1>1, <1>3 DEF PerformStart, childVars, OperationOK
  <1> QED
    BY <1>2, <1>3

LEMMA ReapEffect ==
  ASSUME TypeOK, NEW g \in Generations, Reap(g)
  PROVE  /\ OperationOK' /\ op = Unlocked /\ g \in reapers /\ reapers' \subseteq reapers
         /\ UNCHANGED <<state, generation, terminatedGeneration, autoRetryGeneration,
                        retryArmed, consecutiveTimeouts, waiting, starters, sleepers, child,
                        owes>>
         /\ \/ UNCHANGED <<op, transportGeneration>>
            \/ transportGeneration = g /\ transportGeneration' = Nil
               /\ Becomes("terminate", g, FALSE, FALSE)
  <1>1. OperationOK
    BY DEF TypeOK
  <1>2. CASE transportGeneration = g
    <2>1. op' = Holding("reap", "terminate", g) /\ transportGeneration' = Nil
      BY <1>2 DEF Reap
    <2>2. g \in 0..MaxGeneration
      BY SupervisorAssumption DEF Generations
    <2> QED
      BY <1>2, <2>1, <2>2, Takes DEF Reap, childVars
  <1>3. CASE transportGeneration # g
    BY <1>1, <1>3 DEF Reap, childVars, OperationOK
  <1> QED
    BY <1>2, <1>3

LEMMA Held ==
  ASSUME OperationOK, op.phase # "idle"
  PROVE  op # Unlocked /\ (op.thread = "start" \/ op.thread \in Callers \cup {"reap"})
  BY UnlockedFields DEF OperationOK, OperationType

LEMMA SupersededEffect ==
  ASSUME TypeOK, op.phase = "spawning", Superseded
  PROVE  /\ OperationOK' /\ ~(Current /\ state = "starting")
         /\ UNCHANGED <<state, autoRetryGeneration>>
         /\ transportGeneration' \in {Nil, transportGeneration}
         /\ Becomes("terminate", op.gen, op.reap, op.retry)
  <1>1. OperationOK /\ op # Unlocked
    BY Held DEF TypeOK
  <1> QED
    BY <1>1, MovesOn DEF Superseded

LEMMA StartSucceedsEffect ==
  ASSUME TypeOK, StartSucceeds
  PROVE  /\ OperationOK' /\ op.phase = "spawning" /\ child' = op.gen /\ owes' = FALSE
         /\ UNCHANGED <<generation, terminatedGeneration, retryArmed, consecutiveTimeouts,
                        waiting, starters, sleepers, reapers>>
         /\ \/ /\ ~(Current /\ state = "starting") /\ UNCHANGED <<state, autoRetryGeneration>>
               /\ transportGeneration' \in {Nil, transportGeneration}
               /\ Becomes("terminate", op.gen, op.reap, op.retry)
            \/ /\ Current /\ state = "starting" /\ UNCHANGED transportGeneration
               /\ state' = IF autoRetryGeneration = generation THEN "probation" ELSE "ready"
               /\ autoRetryGeneration' = Nil
               /\ \/ Becomes("idle", Nil, FALSE, FALSE) /\ op' = Unlocked
                  \/ Becomes("serving", Nil, FALSE, FALSE)
  <1>1. /\ op.phase = "spawning" /\ child' = op.gen /\ owes' = FALSE
        /\ UNCHANGED <<generation, terminatedGeneration, retryArmed, consecutiveTimeouts,
                       waiting, starters, sleepers, reapers>>
    BY DEF StartSucceeds
  <1>2. CASE Superseded
    BY <1>1, <1>2, SupersededEffect
  <1>3. CASE Current /\ state = "starting" /\ UNCHANGED transportGeneration
             /\ state' = (IF autoRetryGeneration = generation THEN "probation" ELSE "ready")
             /\ autoRetryGeneration' = Nil
             /\ op' = IF op.thread = "start" THEN Unlocked ELSE Holding(op.thread, "serving", Nil)
    <2>1. op.thread \in Callers \cup {"start", "reap"}
      BY <1>1, Held DEF TypeOK
    <2>2. \/ op' = Unlocked
          \/ op' = Holding(op.thread, "serving", Nil)
      BY <1>3
    <2> QED
      BY <1>1, <1>3, <2>1, <2>2, Unlocks, Takes, TypedGenerations
  <1> QED
    BY <1>2, <1>3 DEF StartSucceeds

LEMMA StartFailsEffect ==
  ASSUME TypeOK, StartFails
  PROVE  /\ OperationOK' /\ op.phase = "spawning"
         /\ child' \in {Nil, op.gen, child} /\ owes' \in {FALSE, owes}
         /\ UNCHANGED <<state, generation, terminatedGeneration, autoRetryGeneration,
                        retryArmed, consecutiveTimeouts, waiting, starters, sleepers, reapers>>
         /\ \/ /\ ~(Current /\ state = "starting")
               /\ transportGeneration' \in {Nil, transportGeneration}
               /\ Becomes("terminate", op.gen, op.reap, op.retry)
            \/ /\ Current /\ state = "starting" /\ UNCHANGED transportGeneration
               /\ Becomes("failed", op.gen, op.reap, op.retry)
  <1>1. /\ op.phase = "spawning" /\ child' \in {Nil, op.gen, child} /\ owes' \in {FALSE, owes}
        /\ UNCHANGED <<generation, terminatedGeneration, retryArmed, consecutiveTimeouts,
                       waiting, starters, sleepers, reapers>>
    BY DEF StartFails, childVars
  <1>2. OperationOK /\ op # Unlocked
    BY <1>1, Held DEF TypeOK
  <1>3. CASE Superseded
    BY <1>1, <1>3, SupersededEffect
  <1>4. CASE Current /\ state = "starting" /\ op' = [op EXCEPT !.phase = "failed"]
             /\ UNCHANGED <<state, transportGeneration, autoRetryGeneration>>
    BY <1>1, <1>2, <1>4, MovesOn
  <1> QED
    BY <1>3, <1>4 DEF StartFails

LEMMA SendEffect ==
  ASSUME TypeOK, Send
  PROVE  /\ OperationOK' /\ op.phase = "serving"
         /\ UNCHANGED <<state, generation, latchVars, waiting, starters, sleepers, reapers,
                        childVars>>
         /\ \/ Becomes("idle", Nil, FALSE, FALSE)
            \/ state \in Requestable /\ transportGeneration = generation
               /\ Becomes("sent", generation, FALSE, FALSE)
  <1>1. op.phase = "serving" /\ op.thread \in Callers \cup {"start", "reap"}
    BY Held DEF TypeOK, Send
  <1>2. CASE state \in Requestable /\ transportGeneration = generation
    <2>1. op' = Holding(op.thread, "sent", generation)
      BY <1>2 DEF Send
    <2> QED
      BY <1>1, <1>2, <2>1, Takes, TypedGenerations DEF Send
  <1>3. CASE ~(state \in Requestable /\ transportGeneration = generation)
    BY <1>1, <1>3, Unlocks DEF Send
  <1> QED
    BY <1>2, <1>3

LEMMA RankFailsEffect ==
  ASSUME TypeOK, RankFails
  PROVE  OperationOK' /\ op.phase = "sent" /\ Becomes("failed", op.gen, op.reap, op.retry)
  BY Held, MovesOn DEF TypeOK, RankFails

LEMMA FirstTimeoutEffect ==
  ASSUME TypeOK, FirstTimeout
  PROVE  /\ OperationOK' /\ op.phase = "sent" /\ Current /\ state = "ready"
         /\ generation < MaxGeneration /\ generation' = generation + 1
         /\ state' = "retryPending" /\ autoRetryGeneration' = generation'
         /\ consecutiveTimeouts' = consecutiveTimeouts + 1 /\ owes' = TRUE
         /\ terminatedGeneration' = generation /\ transportGeneration' = Nil
         /\ UNCHANGED <<child, retryArmed, waiting, starters, sleepers, reapers>>
         /\ IF MustTerminate THEN Becomes("terminate", op.gen, op.reap, TRUE)
            ELSE Becomes("idle", Nil, FALSE, FALSE)
  <1>1. OperationOK /\ op # Unlocked /\ op.reap \in BOOLEAN
    BY Held DEF FirstTimeout, TimeoutCounts, RankTimesOut, TypeOK, OperationOK, OperationType
  <1>2. CASE MustTerminate
    <2>1. op' = [op EXCEPT !.phase = "terminate", !.retry = TRUE]
      BY <1>2 DEF FirstTimeout, AfterTimeout
    <2>2. OperationOK' /\ Becomes("terminate", op.gen, op.reap, TRUE)
      BY <1>1, <2>1, Moves
    <2> QED
      BY <1>2, <2>2 DEF FirstTimeout, TimeoutCounts, RankTimesOut
  <1>3. CASE ~MustTerminate
    <2>1. op' = Unlocked
      BY <1>3 DEF FirstTimeout, AfterTimeout
    <2> QED
      BY <1>3, <2>1, Unlocks DEF FirstTimeout, TimeoutCounts, RankTimesOut
  <1> QED
    BY <1>2, <1>3

LEMMA TimeoutSuppressesLiveEffect ==
  ASSUME TypeOK, TimeoutSuppressesLive
  PROVE  /\ OperationOK' /\ op.phase = "sent" /\ Current /\ state = "probation"
         /\ state' = "liveSuppressed" /\ owes' = TRUE
         /\ consecutiveTimeouts' = consecutiveTimeouts + 1
         /\ terminatedGeneration' = generation /\ transportGeneration' = Nil
         /\ UNCHANGED <<generation, autoRetryGeneration, child, retryArmed, waiting, starters,
                        sleepers, reapers>>
         /\ IF MustTerminate THEN Becomes("terminate", op.gen, op.reap, FALSE)
            ELSE Becomes("idle", Nil, FALSE, FALSE)
  <1>1. OperationOK /\ op # Unlocked /\ op.reap \in BOOLEAN
    BY Held DEF TimeoutSuppressesLive, TimeoutCounts, RankTimesOut, TypeOK, OperationOK,
                OperationType
  <1>2. CASE MustTerminate
    <2>1. op' = [op EXCEPT !.phase = "terminate", !.retry = FALSE]
      BY <1>2 DEF TimeoutSuppressesLive, AfterTimeout
    <2>2. OperationOK' /\ Becomes("terminate", op.gen, op.reap, FALSE)
      BY <1>1, <2>1, Moves
    <2> QED
      BY <1>2, <2>2 DEF TimeoutSuppressesLive, TimeoutCounts, RankTimesOut
  <1>3. CASE ~MustTerminate
    <2>1. op' = Unlocked
      BY <1>3 DEF TimeoutSuppressesLive, AfterTimeout
    <2> QED
      BY <1>3, <2>1, Unlocks DEF TimeoutSuppressesLive, TimeoutCounts, RankTimesOut
  <1> QED
    BY <1>2, <1>3

LEMMA TimeoutEscalatesEffect ==
  ASSUME TypeOK, TimeoutEscalates
  PROVE  /\ OperationOK' /\ op.phase = "sent" /\ Current /\ state = "probation"
         /\ owes' = TRUE /\ consecutiveTimeouts' = consecutiveTimeouts + 1
         /\ terminatedGeneration' = generation /\ transportGeneration' = Nil
         /\ UNCHANGED <<state, generation, autoRetryGeneration, child, retryArmed, waiting,
                        starters, sleepers, reapers>>
         /\ Becomes("failed", op.gen, MustTerminate, op.retry) /\ (MustTerminate => op'.reap)
  <1>1. OperationOK /\ op # Unlocked /\ op.retry \in BOOLEAN
    BY Held DEF TimeoutEscalates, TimeoutCounts, RankTimesOut, TypeOK, OperationOK,
                OperationType
  <1>2. MustTerminate \in BOOLEAN /\ op' = [op EXCEPT !.phase = "failed", !.reap = MustTerminate]
    BY DEF TimeoutEscalates, MustTerminate
  <1>3. OperationOK' /\ Becomes("failed", op.gen, MustTerminate, op.retry)
    BY <1>1, <1>2, Moves
  <1> QED
    BY <1>3 DEF Becomes, TimeoutEscalates, TimeoutCounts, RankTimesOut

LEMMA QuarantineEffect ==
  ASSUME TypeOK, Quarantine
  PROVE  /\ OperationOK' /\ op.phase = "failed"
         /\ UNCHANGED <<generation, retryArmed, consecutiveTimeouts, waiting, starters,
                        sleepers, reapers, child, owes>>
         /\ \/ /\ Current /\ state # "quarantined"
               /\ state' = "quarantined" /\ autoRetryGeneration' = Nil
               /\ terminatedGeneration' = generation /\ transportGeneration' = Nil
               /\ IF op.reap \/ MustTerminate
                  THEN Becomes("terminate", op.gen, op.reap, op.retry)
                  ELSE Becomes("idle", Nil, FALSE, FALSE)
            \/ /\ ~(Current /\ state # "quarantined")
               /\ UNCHANGED <<state, autoRetryGeneration, terminatedGeneration,
                              transportGeneration>>
               /\ IF op.reap THEN Becomes("terminate", op.gen, op.reap, op.retry)
                  ELSE Becomes("idle", Nil, FALSE, FALSE)
  <1>1. /\ OperationOK /\ op # Unlocked /\ op.phase = "failed"
        /\ UNCHANGED <<generation, retryArmed, consecutiveTimeouts, waiting, starters,
                       sleepers, reapers, child, owes>>
    BY Held DEF Quarantine, childVars, TypeOK
  <1>2. CASE Current /\ state # "quarantined"
    <2>1. /\ state' = "quarantined" /\ autoRetryGeneration' = Nil
          /\ terminatedGeneration' = generation /\ transportGeneration' = Nil
          /\ op' = IF op.reap \/ MustTerminate THEN [op EXCEPT !.phase = "terminate"]
                   ELSE Unlocked
      BY <1>2 DEF Quarantine
    <2> QED
      BY <1>1, <1>2, <2>1, MovesOn, Unlocks
  <1>3. CASE ~(Current /\ state # "quarantined")
    <2>1. /\ UNCHANGED <<state, autoRetryGeneration, terminatedGeneration, transportGeneration>>
          /\ op' = IF op.reap THEN [op EXCEPT !.phase = "terminate"] ELSE Unlocked
      BY <1>3 DEF Quarantine
    <2> QED
      BY <1>1, <1>3, <2>1, MovesOn, Unlocks
  <1> QED
    BY <1>2, <1>3

LEMMA HeldGenerations ==
  ASSUME TypeOK, Holder
  PROVE  op.gen \in 0..generation /\ (op.retry => op.gen + 1 \in 1..generation)
  BY Numbers DEF Holder

LEMMA Reaping ==
  ASSUME TypeOK, ScheduleTermination
  PROVE  reapers' \subseteq 1..generation
  <1>1. generation \in 1..generation /\ reapers \subseteq 1..generation
    BY Numbers DEF TypeOK, DataOK, ThreadsOK
  <1> QED
    BY <1>1 DEF ScheduleTermination

LEMMA GenerationsFrom ==
  ASSUME TypeOK, Holder, generation' = generation,
         transportGeneration' \in {Nil, transportGeneration, generation},
         terminatedGeneration' \in {terminatedGeneration, generation},
         autoRetryGeneration' \in {Nil, autoRetryGeneration}, child' \in {child, op.gen}
  PROVE  GenerationsOK'
  <1>1. /\ Nil \in 0..generation /\ generation \in 0..generation
        /\ op.gen \in 0..generation
    BY Numbers, HeldGenerations
  <1> QED
    BY <1>1 DEF TypeOK, DataOK, GenerationsOK

LEMMA Ranges ==
  ASSUME TypeOK
  PROVE  /\ generation \in 1..generation /\ 1..generation \subseteq 1..(generation + 1)
         /\ generation + 1 \in 1..(generation + 1)
  BY Numbers

LEMMA NotYetReaped ==
  ASSUME TypeOK
  PROVE  generation + 1 \notin reapers /\ (ScheduleTermination => generation + 1 \notin reapers')
  <1>1. generation + 1 \notin 1..generation /\ reapers \subseteq 1..generation
    BY Numbers DEF TypeOK, DataOK, ThreadsOK
  <1> QED
    BY <1>1, Reaping

LEMMA ReaperGenerations ==
  ASSUME TypeOK
  PROVE  \A g \in reapers : g \in Nat /\ g # Nil /\ g <= generation
  BY Numbers DEF TypeOK, DataOK, ThreadsOK

-----------------------------------------------------------------------------
(* The types are kept.                                                     *)
LEMMA TypeKept ==
  ASSUME TypeOK, Holder, Next
  PROVE  TypeOK'
  <1> OperationOK /\ GenerationsOK /\ ThreadsOK /\ LatchesOK
    BY DEF TypeOK, DataOK
  <1>1. ASSUME NEW c \in Callers, Rerank(c) \/ GiveUp(c) \/ EnsureReady(c) PROVE TypeOK'
    <2>1. CASE Rerank(c)
      <3>1. OperationOK'
        BY <2>1 DEF Rerank, latchVars, childVars, OperationOK
      <3>2. GenerationsOK'
        BY <2>1, Numbers DEF Rerank, Requestable, latchVars, childVars, GenerationsOK,
           Generations
      <3>3. ThreadsOK'
        BY <2>1, Numbers DEF Rerank, Requestable, latchVars, childVars, ThreadsOK
      <3>4. LatchesOK'
        BY <2>1, Numbers DEF Rerank, Requestable, latchVars, childVars, LatchesOK
      <3> QED
        BY <3>1, <3>2, <3>3, <3>4 DEF TypeOK, DataOK
    <2>2. CASE GiveUp(c)
      <3>1. OperationOK'
        BY <2>2 DEF GiveUp, latchVars, childVars, OperationOK
      <3>2. GenerationsOK'
        BY <2>2, Numbers DEF GiveUp, latchVars, childVars, GenerationsOK, Generations
      <3>3. ThreadsOK'
        BY <2>2, Numbers DEF GiveUp, latchVars, childVars, ThreadsOK
      <3>4. LatchesOK'
        BY <2>2, Numbers DEF GiveUp, latchVars, childVars, LatchesOK
      <3> QED
        BY <3>1, <3>2, <3>3, <3>4 DEF TypeOK, DataOK
    <2>3. CASE EnsureReady(c)
      <3>1. OperationOK'
        BY <2>3, EnsureReadyEffect
      <3>2. GenerationsOK'
        BY <2>3, EnsureReadyEffect, GenerationsFrom
      <3>3. ThreadsOK'
        BY <2>3, EnsureReadyEffect, Numbers DEF ThreadsOK
      <3>4. LatchesOK'
        BY <2>3, EnsureReadyEffect, Numbers DEF LatchesOK, States
      <3> QED
        BY <3>1, <3>2, <3>3, <3>4 DEF TypeOK, DataOK
    <2> QED
      BY <1>1, <2>1, <2>2, <2>3
  <1>2. CASE ArmStrongCallerProbe
    <2>1. OperationOK'
      BY <1>2 DEF ArmStrongCallerProbe, childVars, OperationOK
    <2>2. GenerationsOK'
      BY <1>2, Numbers DEF ArmStrongCallerProbe, childVars, GenerationsOK, Generations
    <2>3. ThreadsOK'
      BY <1>2, Ranges DEF ArmStrongCallerProbe, latchVars, childVars, ThreadsOK
    <2>4. LatchesOK'
      BY <1>2, Numbers DEF ArmStrongCallerProbe, childVars, LatchesOK, States
    <2> QED
      BY <2>1, <2>2, <2>3, <2>4 DEF TypeOK, DataOK
  <1>3. CASE Operation
    <2>1. CASE StartSucceeds
      <3>1. OperationOK'
        BY <2>1, StartSucceedsEffect
      <3>2. GenerationsOK'
        BY <2>1, StartSucceedsEffect, GenerationsFrom
      <3>3. ThreadsOK'
        BY <2>1, StartSucceedsEffect, Numbers, HeldGenerations DEF ThreadsOK
      <3>4. LatchesOK'
        BY <2>1, StartSucceedsEffect, Numbers, HeldGenerations DEF LatchesOK, States
      <3> QED
        BY <3>1, <3>2, <3>3, <3>4 DEF TypeOK, DataOK
    <2>2. CASE StartFails
      <3>1. OperationOK'
        BY <2>2, StartFailsEffect
      <3>2. GenerationsOK'
        BY <2>2, StartFailsEffect, Numbers, HeldGenerations DEF GenerationsOK,
           Generations
      <3>3. ThreadsOK'
        BY <2>2, StartFailsEffect, Numbers, HeldGenerations DEF ThreadsOK
      <3>4. LatchesOK'
        BY <2>2, StartFailsEffect, Numbers, HeldGenerations DEF LatchesOK, States
      <3> QED
        BY <3>1, <3>2, <3>3, <3>4 DEF TypeOK, DataOK
    <2>3. CASE Send
      <3>1. OperationOK'
        BY <2>3, SendEffect
      <3>2. GenerationsOK'
        BY <2>3, SendEffect, Numbers DEF latchVars, childVars, GenerationsOK,
           Generations
      <3>3. ThreadsOK'
        BY <2>3, SendEffect, Numbers DEF latchVars, childVars, ThreadsOK
      <3>4. LatchesOK'
        BY <2>3, SendEffect, Numbers DEF latchVars, childVars, LatchesOK
      <3> QED
        BY <3>1, <3>2, <3>3, <3>4 DEF TypeOK, DataOK
    <2>4. CASE RankSucceeds
      <3>1. OperationOK'
        BY <2>4, Unlocks DEF RankSucceeds
      <3>2. GenerationsOK'
        BY <2>4, Numbers DEF RankSucceeds, Current, childVars, GenerationsOK,
           Generations
      <3>3. ThreadsOK'
        BY <2>4, Numbers DEF RankSucceeds, Current, childVars, ThreadsOK
      <3>4. LatchesOK'
        BY <2>4, Numbers DEF RankSucceeds, Current, childVars, LatchesOK, States
      <3> QED
        BY <3>1, <3>2, <3>3, <3>4 DEF TypeOK, DataOK
    <2>5. CASE LateAnswerDiscarded
      <3>1. OperationOK'
        BY <2>5, Unlocks DEF LateAnswerDiscarded
      <3>2. GenerationsOK'
        BY <2>5, Numbers DEF LateAnswerDiscarded, latchVars, childVars, GenerationsOK,
           Generations
      <3>3. ThreadsOK'
        BY <2>5, Numbers DEF LateAnswerDiscarded, latchVars, childVars, ThreadsOK
      <3>4. LatchesOK'
        BY <2>5, Numbers DEF LateAnswerDiscarded, latchVars, childVars, LatchesOK
      <3> QED
        BY <3>1, <3>2, <3>3, <3>4 DEF TypeOK, DataOK
    <2>6. CASE RankFails
      <3>1. OperationOK'
        BY <2>6, RankFailsEffect
      <3>2. GenerationsOK'
        BY <2>6, RankFailsEffect, Numbers DEF RankFails, latchVars, childVars,
           GenerationsOK, Generations
      <3>3. ThreadsOK'
        BY <2>6, RankFailsEffect, Numbers DEF RankFails, latchVars, childVars, ThreadsOK
      <3>4. LatchesOK'
        BY <2>6, RankFailsEffect, Numbers DEF RankFails, latchVars, childVars, LatchesOK
      <3> QED
        BY <3>1, <3>2, <3>3, <3>4 DEF TypeOK, DataOK
    <2>7. CASE TimeoutIsStale
      <3>1. OperationOK'
        BY <2>7, Unlocks DEF TimeoutIsStale
      <3>2. GenerationsOK'
        BY <2>7, Numbers DEF TimeoutIsStale, RankTimesOut, Current, Requestable,
           latchVars, GenerationsOK, Generations
      <3>3. ThreadsOK'
        BY <2>7, Numbers DEF TimeoutIsStale, RankTimesOut, Current, Requestable,
           latchVars, ThreadsOK
      <3>4. LatchesOK'
        BY <2>7, Numbers DEF TimeoutIsStale, RankTimesOut, Current, Requestable,
           latchVars, LatchesOK
      <3> QED
        BY <3>1, <3>2, <3>3, <3>4 DEF TypeOK, DataOK
    <2>8. CASE FirstTimeout
      <3>1. OperationOK'
        BY <2>8, FirstTimeoutEffect
      <3>2. GenerationsOK'
        BY <2>8, FirstTimeoutEffect, Numbers DEF GenerationsOK, Generations
      <3>3. ThreadsOK'
        BY <2>8, FirstTimeoutEffect, Ranges DEF ThreadsOK
      <3>4. LatchesOK'
        BY <2>8, FirstTimeoutEffect, Numbers DEF LatchesOK, States
      <3> QED
        BY <3>1, <3>2, <3>3, <3>4 DEF TypeOK, DataOK
    <2>9. CASE TimeoutSuppressesLive
      <3>1. OperationOK'
        BY <2>9, TimeoutSuppressesLiveEffect
      <3>2. GenerationsOK'
        BY <2>9, TimeoutSuppressesLiveEffect, Numbers DEF GenerationsOK, Generations
      <3>3. ThreadsOK'
        BY <2>9, TimeoutSuppressesLiveEffect, Numbers DEF ThreadsOK
      <3>4. LatchesOK'
        BY <2>9, TimeoutSuppressesLiveEffect, Numbers DEF LatchesOK, States
      <3> QED
        BY <3>1, <3>2, <3>3, <3>4 DEF TypeOK, DataOK
    <2>10. CASE TimeoutEscalates
      <3>1. OperationOK'
        BY <2>10, TimeoutEscalatesEffect
      <3>2. GenerationsOK'
        BY <2>10, TimeoutEscalatesEffect, Numbers DEF GenerationsOK, Generations
      <3>3. ThreadsOK'
        BY <2>10, TimeoutEscalatesEffect, Numbers DEF ThreadsOK
      <3>4. LatchesOK'
        BY <2>10, TimeoutEscalatesEffect, Numbers DEF LatchesOK
      <3> QED
        BY <3>1, <3>2, <3>3, <3>4 DEF TypeOK, DataOK
    <2>11. CASE Quarantine
      <3>1. OperationOK'
        BY <2>11, QuarantineEffect
      <3>2. GenerationsOK'
        BY <2>11, QuarantineEffect, GenerationsFrom
      <3>3. ThreadsOK'
        BY <2>11, QuarantineEffect, Numbers DEF ThreadsOK
      <3>4. LatchesOK'
        BY <2>11, QuarantineEffect, Numbers DEF LatchesOK, States
      <3> QED
        BY <3>1, <3>2, <3>3, <3>4 DEF TypeOK, DataOK
    <2>12. CASE Terminate
      <3>1. OperationOK'
        BY <2>12, Unlocks DEF Terminate
      <3>2. GenerationsOK'
        BY <2>12, Numbers, HeldGenerations DEF Terminate, latchVars, GenerationsOK,
           Generations
      <3>3. ThreadsOK'
        BY <2>12, Numbers, HeldGenerations DEF Terminate, latchVars, ThreadsOK
      <3>4. LatchesOK'
        BY <2>12, Numbers, HeldGenerations DEF Terminate, latchVars, LatchesOK
      <3> QED
        BY <3>1, <3>2, <3>3, <3>4 DEF TypeOK, DataOK
    <2> QED
      BY <1>3, <2>1, <2>2, <2>3, <2>4, <2>5, <2>6, <2>7, <2>8, <2>9, <2>10, <2>11, <2>12
         DEF Operation, Answer
  <1>4. ASSUME NEW g \in Generations, PerformStart(g) \/ AutoRetry(g) \/ Reap(g) PROVE TypeOK'
    <2>1. CASE PerformStart(g)
      <3>1. OperationOK'
        BY <2>1, PerformStartEffect
      <3>2. GenerationsOK'
        BY <2>1, PerformStartEffect, GenerationsFrom
      <3>3. ThreadsOK'
        BY <2>1, PerformStartEffect, Numbers DEF ThreadsOK
      <3>4. LatchesOK'
        BY <2>1, PerformStartEffect, Numbers DEF LatchesOK
      <3> QED
        BY <3>1, <3>2, <3>3, <3>4 DEF TypeOK, DataOK
    <2>2. CASE AutoRetry(g)
      <3>1. OperationOK'
        BY <2>2 DEF AutoRetry, childVars, OperationOK
      <3>2. GenerationsOK'
        BY <2>2, Numbers DEF AutoRetry, childVars, GenerationsOK, Generations
      <3>3. ThreadsOK'
        BY <2>2, Numbers DEF AutoRetry, childVars, ThreadsOK
      <3>4. LatchesOK'
        BY <2>2, Numbers DEF AutoRetry, childVars, LatchesOK, States
      <3> QED
        BY <3>1, <3>2, <3>3, <3>4 DEF TypeOK, DataOK
    <2>3. CASE Reap(g)
      <3>1. OperationOK'
        BY <2>3, ReapEffect
      <3>2. GenerationsOK'
        BY <2>3, ReapEffect, GenerationsFrom
      <3>3. ThreadsOK'
        BY <2>3, ReapEffect, Numbers DEF ThreadsOK
      <3>4. LatchesOK'
        BY <2>3, ReapEffect, Numbers DEF LatchesOK
      <3> QED
        BY <3>1, <3>2, <3>3, <3>4 DEF TypeOK, DataOK
    <2> QED
      BY <1>4, <2>1, <2>2, <2>3
  <1>5. CASE Lifecycle
    <2>1. CASE StartWarmUp
      <3>1. OperationOK'
        BY <2>1 DEF StartWarmUp, childVars, OperationOK
      <3>2. GenerationsOK'
        BY <2>1, Numbers DEF StartWarmUp, childVars, GenerationsOK, Generations
      <3>3. ThreadsOK'
        BY <2>1, Ranges DEF StartWarmUp, latchVars, childVars, ThreadsOK
      <3>4. LatchesOK'
        BY <2>1, Numbers DEF StartWarmUp, childVars, LatchesOK, States
      <3> QED
        BY <3>1, <3>2, <3>3, <3>4 DEF TypeOK, DataOK
    <2>2. CASE ExplicitRetry
      <3>1. OperationOK'
        BY <2>2 DEF ExplicitRetry, childVars, OpenGeneration, OperationOK
      <3>2. GenerationsOK'
        BY <2>2, Numbers DEF ExplicitRetry, OpenGeneration, childVars, GenerationsOK,
           Generations
      <3>3. ThreadsOK'
        BY <2>2, Numbers DEF ExplicitRetry, OpenGeneration, childVars, ThreadsOK
      <3>4. LatchesOK'
        BY <2>2, Numbers DEF ExplicitRetry, OpenGeneration, childVars, LatchesOK, States
      <3> QED
        BY <3>1, <3>2, <3>3, <3>4 DEF TypeOK, DataOK
    <2>3. CASE ModelOrRuntimeChanged
      <3>1. OperationOK'
        BY <2>3 DEF ModelOrRuntimeChanged, childVars, OpenGeneration, OperationOK
      <3>2. GenerationsOK'
        BY <2>3, Numbers DEF ModelOrRuntimeChanged, OpenGeneration, childVars,
           GenerationsOK, Generations
      <3>3. ThreadsOK'
        BY <2>3, Numbers, Reaping DEF ModelOrRuntimeChanged, OpenGeneration, childVars,
           ThreadsOK
      <3>4. LatchesOK'
        BY <2>3, Numbers DEF ModelOrRuntimeChanged, OpenGeneration, childVars,
           LatchesOK, States
      <3> QED
        BY <3>1, <3>2, <3>3, <3>4 DEF TypeOK, DataOK
    <2>4. CASE Disable
      <3>1. OperationOK'
        BY <2>4 DEF Disable, childVars, OpenGeneration, OperationOK
      <3>2. GenerationsOK'
        BY <2>4, Numbers DEF Disable, OpenGeneration, childVars, GenerationsOK,
           Generations
      <3>3. ThreadsOK'
        BY <2>4, Numbers, Reaping DEF Disable, OpenGeneration, childVars, ThreadsOK
      <3>4. LatchesOK'
        BY <2>4, Numbers DEF Disable, OpenGeneration, childVars, LatchesOK, States
      <3> QED
        BY <3>1, <3>2, <3>3, <3>4 DEF TypeOK, DataOK
    <2> QED
      BY <1>5, <2>1, <2>2, <2>3, <2>4 DEF Lifecycle
  <1> QED
    BY <1>1, <1>2, <1>3, <1>4, <1>5 DEF Next, Calls, Threads

(* The holder's and the reapers' generations are of the past.              *)
LEMMA HolderKept ==
  ASSUME TypeOK, Holder, Next
  PROVE  Holder'
  <1>1. ASSUME NEW c \in Callers, Rerank(c) \/ GiveUp(c) \/ EnsureReady(c) PROVE Holder'
    <2>1. CASE EnsureReady(c)
      <3>1. /\ generation' = generation /\ reapers' = reapers
            /\ \/ op' = op
               \/ Becomes("serving", Nil, FALSE, FALSE)
               \/ Becomes("spawning", generation, FALSE, FALSE)
        BY <2>1, EnsureReadyEffect
      <3> QED
        BY <3>1, Numbers DEF Holder, Current, Becomes
    <2> QED
      BY <1>1, <2>1 DEF Rerank, GiveUp, Holder, Current, latchVars, childVars
  <1>2. CASE ArmStrongCallerProbe
    BY <1>2, Numbers, NotYetReaped DEF ArmStrongCallerProbe, childVars, Holder, Current
  <1>3. CASE Operation
    <2>1. CASE StartSucceeds
      <3>1. /\ generation' = generation /\ reapers' = reapers /\ op.phase = "spawning"
            /\ \/ Becomes("terminate", op.gen, op.reap, op.retry)
               \/ Becomes("idle", Nil, FALSE, FALSE)
               \/ Becomes("serving", Nil, FALSE, FALSE)
        BY <2>1, StartSucceedsEffect
      <3> QED
        BY <3>1, Numbers DEF Holder, Current, Becomes
    <2>2. CASE StartFails
      BY <2>2, StartFailsEffect, Numbers DEF Holder, Current, Becomes
    <2>3. CASE Send
      <3>1. /\ generation' = generation /\ reapers' = reapers
            /\ \/ Becomes("idle", Nil, FALSE, FALSE)
               \/ Becomes("sent", generation, FALSE, FALSE)
        BY <2>3, SendEffect DEF latchVars, childVars
      <3> QED
        BY <3>1, Numbers DEF Holder, Current, Becomes
    <2>4. CASE RankSucceeds
      BY <2>4, Numbers, UnlockedFields DEF RankSucceeds, Current, childVars, Holder
    <2>5. CASE LateAnswerDiscarded
      BY <2>5, Numbers, UnlockedFields DEF LateAnswerDiscarded, latchVars, childVars,
         Holder, Current
    <2>6. CASE RankFails
      BY <2>6, RankFailsEffect, Numbers DEF Holder, Current, Becomes, RankFails,
         latchVars, childVars
    <2>7. CASE TimeoutIsStale
      BY <2>7, Numbers, UnlockedFields DEF TimeoutIsStale, RankTimesOut, Current,
         Requestable, latchVars, Holder
    <2>8. CASE FirstTimeout
      <3>1. /\ generation' = generation + 1 /\ reapers' = reapers
            /\ Current /\ op.phase = "sent"
            /\ \/ Becomes("terminate", op.gen, op.reap, TRUE)
               \/ Becomes("idle", Nil, FALSE, FALSE)
        BY <2>8, FirstTimeoutEffect
      <3> QED
        BY <3>1, Numbers, NotYetReaped DEF Holder, Current, Becomes
    <2>9. CASE TimeoutSuppressesLive
      <3>1. /\ generation' = generation /\ reapers' = reapers /\ op.phase = "sent"
            /\ \/ Becomes("terminate", op.gen, op.reap, FALSE)
               \/ Becomes("idle", Nil, FALSE, FALSE)
        BY <2>9, TimeoutSuppressesLiveEffect
      <3> QED
        BY <3>1, Numbers DEF Holder, Current, Becomes
    <2>10. CASE TimeoutEscalates
      BY <2>10, TimeoutEscalatesEffect, Numbers DEF Holder, Current, Becomes,
         MustTerminate
    <2>11. CASE Quarantine
      <3>1. /\ generation' = generation /\ reapers' = reapers /\ op.phase = "failed"
            /\ \/ Becomes("terminate", op.gen, op.reap, op.retry)
               \/ Becomes("idle", Nil, FALSE, FALSE)
        BY <2>11, QuarantineEffect
      <3> QED
        BY <3>1, Numbers DEF Holder, Current, Becomes
    <2>12. CASE Terminate
      BY <2>12, Numbers, UnlockedFields DEF Terminate, latchVars, Holder, Current
    <2> QED
      BY <1>3, <2>1, <2>2, <2>3, <2>4, <2>5, <2>6, <2>7, <2>8, <2>9, <2>10, <2>11, <2>12
         DEF Operation, Answer
  <1>4. ASSUME NEW g \in Generations, PerformStart(g) \/ AutoRetry(g) \/ Reap(g) PROVE Holder'
    <2>1. CASE PerformStart(g)
      <3>1. /\ generation' = generation /\ reapers' = reapers
            /\ op' = op \/ Becomes("spawning", generation, FALSE, FALSE)
        BY <2>1, PerformStartEffect
      <3> QED
        BY <3>1, Numbers DEF Holder, Current, Becomes
    <2>2. CASE Reap(g)
      <3>1. /\ generation' = generation /\ reapers' \subseteq reapers /\ g \in Generations
            /\ g \in reapers
            /\ op' = op \/ Becomes("terminate", g, FALSE, FALSE)
        BY <2>2, ReapEffect
      <3> QED
        BY <3>1, Numbers, ReaperGenerations DEF Holder, Current, Becomes
    <2> QED
      BY <1>4, <2>1, <2>2 DEF AutoRetry, Holder, Current, childVars
  <1>5. CASE Lifecycle
    <2>1. CASE ExplicitRetry
      BY <2>1, Numbers, NotYetReaped DEF ExplicitRetry, OpenGeneration, childVars,
         Holder, Current
    <2>2. CASE ModelOrRuntimeChanged
      BY <2>2, Numbers, NotYetReaped DEF ModelOrRuntimeChanged, OpenGeneration,
         childVars, Holder, Current
    <2>3. CASE Disable
      BY <2>3, Numbers, NotYetReaped DEF Disable, OpenGeneration, childVars, Holder,
         Current
    <2> QED
      BY <1>5, <2>1, <2>2, <2>3 DEF Lifecycle, StartWarmUp, Holder, Current, childVars
  <1> QED
    BY <1>1, <1>2, <1>3, <1>4, <1>5 DEF Next, Calls, Threads

(* The state agrees with the timeouts and with what was given up on.       *)
LEMMA EscalationKept ==
  ASSUME TypeOK, Holder, Escalation, Books, Next
  PROVE  Escalation'
  <1>1. ASSUME NEW c \in Callers, Rerank(c) \/ GiveUp(c) \/ EnsureReady(c) PROVE Escalation'
    <2>1. CASE EnsureReady(c)
      <3>1. /\ op = Unlocked
            /\ UNCHANGED <<generation, terminatedGeneration, autoRetryGeneration,
                           consecutiveTimeouts>>
            /\ state' = state \/ (state = "stopped" /\ state' = "starting")
        BY <2>1, EnsureReadyEffect
      <3> QED
        BY <3>1, Numbers, UnlockedFields DEF Escalation, Books, Holder, Current,
           Requestable, Becomes
    <2> QED
      BY <1>1, <2>1 DEF Rerank, GiveUp, Escalation, Books, Holder, Current, Requestable,
         latchVars, childVars
  <1>2. CASE ArmStrongCallerProbe
    BY <1>2, Numbers, UnlockedFields DEF ArmStrongCallerProbe, childVars, Escalation,
       Books, Holder, Current, Requestable
  <1>3. CASE Operation
    <2>1. CASE StartSucceeds
      <3>1. /\ op.phase = "spawning"
            /\ UNCHANGED <<generation, terminatedGeneration, consecutiveTimeouts>>
            /\ \/ UNCHANGED <<state, autoRetryGeneration>>
               \/ /\ state = "starting" /\ autoRetryGeneration' = Nil
                  /\ state' = IF autoRetryGeneration = generation THEN "probation" ELSE "ready"
        BY <2>1, StartSucceedsEffect
      <3> QED
        BY <3>1, Numbers DEF Escalation, Books, Holder, Current, Requestable, Becomes
    <2>2. CASE StartFails
      BY <2>2, StartFailsEffect, Numbers DEF Escalation, Books, Holder, Current,
         Requestable, Becomes
    <2>3. CASE Send
      BY <2>3, SendEffect, Numbers DEF Escalation, Books, Holder, Current, Requestable,
         Becomes, latchVars, childVars
    <2>4. CASE RankSucceeds
      BY <2>4, Numbers, UnlockedFields DEF RankSucceeds, Current, childVars, Escalation,
         Books, Holder, Requestable
    <2>5. CASE LateAnswerDiscarded
      BY <2>5, Numbers, UnlockedFields DEF LateAnswerDiscarded, latchVars, childVars,
         Escalation, Books, Holder, Current, Requestable
    <2>6. CASE RankFails
      BY <2>6, RankFailsEffect, Numbers DEF Escalation, Books, Holder, Current,
         Requestable, Becomes, RankFails, latchVars, childVars
    <2>7. CASE TimeoutIsStale
      BY <2>7, Numbers, UnlockedFields DEF TimeoutIsStale, RankTimesOut, Current,
         Requestable, latchVars, Escalation, Books, Holder
    <2>8. CASE FirstTimeout
      BY <2>8, FirstTimeoutEffect, Numbers DEF Escalation, Books, Holder, Current,
         Requestable, Becomes, MustTerminate
    <2>9. CASE TimeoutSuppressesLive
      BY <2>9, TimeoutSuppressesLiveEffect, Numbers DEF Escalation, Books, Holder,
         Current, Requestable, Becomes, MustTerminate
    <2>10. CASE TimeoutEscalates
      BY <2>10, TimeoutEscalatesEffect, Numbers DEF Escalation, Books, Holder, Current,
         Requestable, Becomes, MustTerminate
    <2>11. CASE Quarantine
      BY <2>11, QuarantineEffect, Numbers DEF Escalation, Books, Holder, Current,
         Requestable, Becomes, MustTerminate
    <2>12. CASE Terminate
      BY <2>12, Numbers, UnlockedFields DEF Terminate, latchVars, Escalation, Books,
         Holder, Current, Requestable
    <2> QED
      BY <1>3, <2>1, <2>2, <2>3, <2>4, <2>5, <2>6, <2>7, <2>8, <2>9, <2>10, <2>11, <2>12
         DEF Operation, Answer
  <1>4. ASSUME NEW g \in Generations, PerformStart(g) \/ AutoRetry(g) \/ Reap(g) PROVE Escalation'
    <2>1. CASE PerformStart(g)
      BY <2>1, PerformStartEffect, Numbers, UnlockedFields DEF Escalation, Books,
         Holder, Current, Requestable, Becomes
    <2>2. CASE AutoRetry(g)
      BY <2>2, Numbers, UnlockedFields DEF AutoRetry, childVars, Escalation, Books,
         Holder, Current, Requestable
    <2>3. CASE Reap(g)
      BY <2>3, ReapEffect, Numbers, UnlockedFields DEF Escalation, Books, Holder,
         Current, Requestable, Becomes
    <2> QED
      BY <1>4, <2>1, <2>2, <2>3
  <1>5. CASE Lifecycle
    <2>1. CASE StartWarmUp
      BY <2>1, Numbers, UnlockedFields DEF StartWarmUp, childVars, Escalation, Books,
         Holder, Current, Requestable
    <2>2. CASE ExplicitRetry
      BY <2>2, Numbers, UnlockedFields DEF ExplicitRetry, OpenGeneration, childVars,
         Escalation, Books, Holder, Current, Requestable
    <2>3. CASE ModelOrRuntimeChanged
      BY <2>3, Numbers, UnlockedFields DEF ModelOrRuntimeChanged, OpenGeneration,
         childVars, Escalation, Books, Holder, Current, Requestable
    <2>4. CASE Disable
      BY <2>4, Numbers, UnlockedFields DEF Disable, OpenGeneration, childVars,
         Escalation, Books, Holder, Current, Requestable
    <2> QED
      BY <1>5, <2>1, <2>2, <2>3, <2>4 DEF Lifecycle
  <1> QED
    BY <1>1, <1>2, <1>3, <1>4, <1>5 DEF Next, Calls, Threads

(* The books agree with the child at every place of the operation.         *)
LEMMA BooksKept ==
  ASSUME TypeOK, Holder, Escalation, Books, Next
  PROVE  Books'
  <1>1. ASSUME NEW c \in Callers, Rerank(c) \/ GiveUp(c) \/ EnsureReady(c) PROVE Books'
    <2>1. CASE EnsureReady(c)
      <3>1. /\ op = Unlocked /\ UNCHANGED <<generation, child, owes>>
            /\ \/ UNCHANGED <<op, state, transportGeneration>>
               \/ Becomes("serving", Nil, FALSE, FALSE) /\ UNCHANGED <<state, transportGeneration>>
               \/ state' = "starting" /\ transportGeneration' = generation
                  /\ Becomes("spawning", generation, FALSE, FALSE)
        BY <2>1, EnsureReadyEffect
      <3> QED
        BY <3>1, Numbers, UnlockedFields DEF Books, Holder, Escalation, Current,
           Requestable, Becomes
    <2> QED
      BY <1>1, <2>1 DEF Rerank, GiveUp, Books, Holder, Escalation, Current, Requestable,
         latchVars, childVars
  <1>2. CASE ArmStrongCallerProbe
    BY <1>2, Numbers, UnlockedFields DEF ArmStrongCallerProbe, childVars, Books, Holder,
       Escalation, Current, Requestable
  <1>3. CASE Operation
    <2>1. CASE StartSucceeds
      BY <2>1, StartSucceedsEffect, Numbers DEF Books, Holder, Escalation, Current,
         Requestable, Becomes
    <2>2. CASE StartFails
      BY <2>2, StartFailsEffect, Numbers DEF Books, Holder, Escalation, Current,
         Requestable, Becomes
    <2>3. CASE Send
      <3>1. /\ op.phase = "serving"
            /\ UNCHANGED <<state, generation, transportGeneration, child, owes>>
            /\ \/ Becomes("idle", Nil, FALSE, FALSE)
               \/ state \in Requestable /\ transportGeneration = generation
                  /\ Becomes("sent", generation, FALSE, FALSE)
        BY <2>3, SendEffect DEF latchVars, childVars
      <3> QED
        BY <3>1, Numbers DEF Books, Holder, Escalation, Current, Requestable, Becomes
    <2>4. CASE RankSucceeds
      BY <2>4, Numbers, UnlockedFields DEF RankSucceeds, Current, childVars, Books,
         Holder, Escalation, Requestable
    <2>5. CASE LateAnswerDiscarded
      BY <2>5, Numbers, UnlockedFields DEF LateAnswerDiscarded, latchVars, childVars,
         Books, Holder, Escalation, Current, Requestable
    <2>6. CASE RankFails
      BY <2>6, RankFailsEffect, Numbers DEF Books, Holder, Escalation, Current,
         Requestable, Becomes, RankFails, latchVars, childVars
    <2>7. CASE TimeoutIsStale
      BY <2>7, Numbers, UnlockedFields DEF TimeoutIsStale, RankTimesOut, Current,
         Requestable, latchVars, Books, Holder, Escalation
    <2>8. CASE FirstTimeout
      BY <2>8, FirstTimeoutEffect, Numbers DEF Books, Holder, Escalation, Current,
         Requestable, Becomes, MustTerminate
    <2>9. CASE TimeoutSuppressesLive
      BY <2>9, TimeoutSuppressesLiveEffect, Numbers DEF Books, Holder, Escalation,
         Current, Requestable, Becomes, MustTerminate
    <2>10. CASE TimeoutEscalates
      BY <2>10, TimeoutEscalatesEffect, Numbers DEF Books, Holder, Escalation, Current,
         Requestable, Becomes, MustTerminate
    <2>11. CASE Quarantine
      BY <2>11, QuarantineEffect, Numbers DEF Books, Holder, Escalation, Current,
         Requestable, Becomes, MustTerminate
    <2>12. CASE Terminate
      BY <2>12, Numbers, UnlockedFields DEF Terminate, latchVars, Books, Holder,
         Escalation, Current, Requestable
    <2> QED
      BY <1>3, <2>1, <2>2, <2>3, <2>4, <2>5, <2>6, <2>7, <2>8, <2>9, <2>10, <2>11, <2>12
         DEF Operation, Answer
  <1>4. ASSUME NEW g \in Generations, PerformStart(g) \/ AutoRetry(g) \/ Reap(g) PROVE Books'
    <2>1. CASE PerformStart(g)
      <3>1. /\ op = Unlocked /\ UNCHANGED <<state, generation, child, owes>>
            /\ \/ UNCHANGED <<op, transportGeneration>>
               \/ state = "starting" /\ transportGeneration' = generation
                  /\ Becomes("spawning", generation, FALSE, FALSE)
        BY <2>1, PerformStartEffect
      <3> QED
        BY <3>1, Numbers, UnlockedFields DEF Books, Holder, Escalation, Current,
           Requestable, Becomes
    <2>2. CASE AutoRetry(g)
      BY <2>2, Numbers, UnlockedFields DEF AutoRetry, childVars, Books, Holder,
         Escalation, Current, Requestable
    <2>3. CASE Reap(g)
      BY <2>3, ReapEffect, Numbers, UnlockedFields DEF Books, Holder, Escalation,
         Current, Requestable, Becomes
    <2> QED
      BY <1>4, <2>1, <2>2, <2>3
  <1>5. CASE Lifecycle
    <2>1. CASE StartWarmUp
      BY <2>1, Numbers, UnlockedFields DEF StartWarmUp, childVars, Books, Holder,
         Escalation, Current, Requestable
    <2>2. CASE ExplicitRetry
      BY <2>2, Numbers, UnlockedFields DEF ExplicitRetry, OpenGeneration, childVars,
         Books, Holder, Escalation, Current, Requestable
    <2>3. CASE ModelOrRuntimeChanged
      BY <2>3, Numbers, UnlockedFields DEF ModelOrRuntimeChanged, OpenGeneration,
         childVars, Books, Holder, Escalation, Current, Requestable
    <2>4. CASE Disable
      BY <2>4, Numbers, UnlockedFields DEF Disable, OpenGeneration, childVars, Books,
         Holder, Escalation, Current, Requestable
    <2> QED
      BY <1>5, <2>1, <2>2, <2>3, <2>4 DEF Lifecycle
  <1> QED
    BY <1>1, <1>2, <1>3, <1>4, <1>5 DEF Next, Calls, Threads

-----------------------------------------------------------------------------
LEMMA InitIInv == Init => IInv
  <1> SUFFICES ASSUME Init PROVE IInv
    OBVIOUS
  <1>1. /\ generation = 1 /\ Nil = 0 /\ MaxGeneration \in Nat \ {0} /\ state = "stopped"
        /\ transportGeneration = 0 /\ terminatedGeneration = 0 /\ autoRetryGeneration = 0
        /\ retryArmed = FALSE /\ consecutiveTimeouts = 0 /\ op = Unlocked
        /\ waiting = {} /\ starters = {} /\ sleepers = {} /\ reapers = {}
        /\ child = 0 /\ owes = FALSE
    BY SupervisorAssumption DEF Init, Nil
  <1>2. OperationOK
    BY <1>1, UnlockedFields DEF OperationOK
  <1>3. DataOK
    <2>1. GenerationsOK
      BY <1>1 DEF GenerationsOK, Generations
    <2>2. ThreadsOK /\ LatchesOK
      BY <1>1 DEF ThreadsOK, LatchesOK, States
    <2> QED
      BY <2>1, <2>2 DEF DataOK
  <1>4. Holder
    BY <1>1, UnlockedFields DEF Holder
  <1>5. Escalation
    BY <1>1 DEF Escalation
  <1>6. Books
    BY <1>1, UnlockedFields DEF Books, Requestable
  <1> QED
    BY <1>2, <1>3, <1>4, <1>5, <1>6 DEF IInv, TypeOK

LEMMA IInvKept == IInv /\ [Next]_vars => IInv'
  <1>1. IInv /\ Next => IInv'
    <2> SUFFICES ASSUME IInv, Next PROVE IInv'
      OBVIOUS
    <2> USE DEF IInv
    <2>1. TypeOK'
      BY TypeKept
    <2>2. Holder'
      BY HolderKept
    <2>3. Escalation'
      BY EscalationKept
    <2>4. Books'
      BY BooksKept
    <2> QED
      BY <2>1, <2>2, <2>3, <2>4
  <1>2. IInv /\ UNCHANGED vars => IInv'
    BY DEF IInv, vars, latchVars, threadVars, childVars, TypeOK, OperationOK, DataOK,
           GenerationsOK, ThreadsOK, LatchesOK, Holder, Escalation, Books, Current
  <1> QED
    BY <1>1, <1>2

(* Every reachable state satisfies the inductive invariant.                *)
THEOREM IInvAlways == Spec => []IInv
  BY InitIInv, IInvKept, PTL DEF Spec

(* A request that gets the lock in a requestable state meets the worker of *)
(* this generation, which owes no earlier answer; no child is forgotten;   *)
(* the latch is the timeouts'.                                             *)
THEOREM SupervisorSafe == Spec => []SupervisorInv
  <1>1. IInv => SupervisorInv
    <2> SUFFICES ASSUME IInv PROVE SupervisorInv
      OBVIOUS
    <2> USE DEF IInv
    <2>1. SupervisorTypeOK
      BY DEF SupervisorTypeOK, TypeOK, OperationOK, DataOK, GenerationsOK, ThreadsOK,
             LatchesOK, OperationType
    <2>2. op = Unlocked => op.phase = "idle"
      BY UnlockedFields
    <2>3. RequestableIsClean
      BY <2>2 DEF RequestableIsClean, Books
    <2>4. NoOrphan
      BY <2>2 DEF NoOrphan, Books
    <2>5. LatchIsEarned
      BY DEF LatchIsEarned, Escalation
    <2> QED
      BY <2>1, <2>3, <2>4, <2>5 DEF SupervisorInv
  <1> QED
    BY <1>1, IInvAlways, PTL

(* What opens a quarantined or disabled supervisor opens a generation.     *)
LEMMA ReopeningStep ==
  ASSUME TypeOK, Books, Next, state' # state, state \in {"quarantined", "disabled"}
  PROVE  generation' = generation + 1 /\ state' \in {"stopped", "disabled"}
  <1>1. ASSUME NEW c \in Callers, Rerank(c) \/ GiveUp(c) \/ EnsureReady(c) PROVE FALSE
    <2>1. state' = state
      BY <1>1, EnsureReadyEffect DEF Rerank, GiveUp
    <2> QED
      BY <2>1
  <1>2. CASE Operation
    <2>1. ~StartSucceeds
      BY StartSucceedsEffect
    <2>2. ~StartFails
      BY StartFailsEffect
    <2>3. ~Quarantine
      BY QuarantineEffect DEF Books, Requestable
    <2>4. ~RankSucceeds
      BY DEF RankSucceeds
    <2>5. ~FirstTimeout /\ ~TimeoutSuppressesLive /\ ~TimeoutEscalates
      BY FirstTimeoutEffect, TimeoutSuppressesLiveEffect, TimeoutEscalatesEffect
    <2> QED
      BY <1>2, <2>1, <2>2, <2>3, <2>4, <2>5
         DEF Operation, Answer, Send, LateAnswerDiscarded, RankFails, TimeoutIsStale, Terminate
  <1>3. ASSUME NEW g \in Generations, PerformStart(g) \/ AutoRetry(g) \/ Reap(g) PROVE FALSE
    BY <1>3 DEF PerformStart, AutoRetry, Reap
  <1>4. CASE Lifecycle
    BY <1>4 DEF Lifecycle, StartWarmUp, ExplicitRetry, ModelOrRuntimeChanged, Disable,
                OpenGeneration
  <1> QED
    BY <1>1, <1>2, <1>3, <1>4 DEF Next, Calls, Threads, ArmStrongCallerProbe

(* A quarantined or disabled supervisor is opened again only by a          *)
(* lifecycle operation (explicitRetry, a changed model or directory),      *)
(* whatever threads of the past still come along.                          *)
THEOREM OnlyLifecycle == Spec => OnlyLifecycleReopens
  <1>1. IInv /\ [Next]_vars =>
          [(state' # state /\ state \in {"quarantined", "disabled"})
             => generation' = generation + 1 /\ state' \in {"stopped", "disabled"}]_vars
    BY ReopeningStep DEF IInv
  <1> QED
    BY <1>1, IInvAlways, PTL DEF Spec, OnlyLifecycleReopens
=============================================================================
