-------------------------- MODULE EngineLink_proofs --------------------------
(***************************************************************************)
(* That the answers the STA takes from the synchronous connection are the  *)
(* answers to the requests it just sent, and speak of the text that is     *)
(* being converted, proved for any number of operations, late answers and  *)
(* faults and for readings of any length.                                  *)
(*                                                                         *)
(* The invariant says how the pipe alternates (Alternation), what a call   *)
(* still has to do and how much of the text the engine's session has by    *)
(* then (Planned), and what an idle session holds while candidates of it   *)
(* are shown (Anchored).                                                   *)
(***************************************************************************)
EXTENDS EngineLink, FiniteSetTheorems, SequenceTheorems, TLAPS

TipType ==
  [reading : Seq(Nat), recon : {<<>>, <<"captured">>},
   cands : {"none", "typo", "snapshot", "recon"}, nav : BOOLEAN]
LinkType ==
  [open : BOOLEAN, owed : BOOLEAN, spawned : BOOLEAN, cool : BOOLEAN, mute : BOOLEAN,
   retries : Nat, timer : BOOLEAN]

(* Records, whatever texts and kinds they carry.                           *)
IsCall(s) == s = [pc |-> s.pc, plan |-> s.plan, goal |-> s.goal, stage |-> s.stage,
                  once |-> s.once] /\ s.once \in BOOLEAN
IsWire(x) == x = [req |-> x.req, rep |-> x.rep, broken |-> x.broken] /\ x.broken \in BOOLEAN
IsServer(s) == s = [up |-> s.up, text |-> s.text, cached |-> s.cached, nav |-> s.nav]

Shapes ==
  /\ tip \in TipType /\ link \in LinkType
  /\ IsCall(sta) /\ sta.pc \in {"idle", "run", "course", "await", "gave_up"}
  /\ IsWire(wire) /\ IsServer(srv)

(* What the user is converting.                                            *)
Subject == IF tip.recon # <<>> THEN tip.recon ELSE tip.reading

(* A reconversion has only candidates of its own, and clauses are moved    *)
(* only over candidates of a reading.                                      *)
TipFits(x) ==
  /\ x.nav => x.cands \in {"typo", "snapshot"}
  /\ x.cands \in {"typo", "snapshot"} => x.recon = <<>> /\ x.reading # <<>>
  /\ x.cands = "recon" => x.recon # <<>>

(* The last request of an operation; those that build their session anew,  *)
(* and those that use the one there is.                                    *)
Anchoring == {"typo", "settle", "restore", "reconvert"}
Using == {"commit", "move", "select", "clauses"}
Finals(goal) ==
  CASE goal = "typo" -> {"typo"}
    [] goal \in {"settle", "restore"} -> {"live"}
    [] goal = "reconvert" -> {"convert", "surface"}
    [] goal = "commit" -> {"commit", "prefix"}
    [] goal \in {"move", "select", "clauses", "reload"} -> {goal}
    [] goal = "recommit" -> {"correct"}
    [] OTHER -> {}

GoalFits ==
  /\ sta.goal \in Anchoring => tip.cands = "none"
  /\ sta.goal \in {"typo", "settle", "restore"} => tip.recon = <<>> /\ tip.reading # <<>>
  /\ sta.goal = "reconvert" => tip.recon # <<>>
  /\ sta.goal \in Using => tip.cands \in {"typo", "snapshot"}

(* k inserts and then the request f.                                       *)
Inserts(k, f) == [i \in 1..(k + 1) |-> IF i <= k THEN "insert" ELSE f]

(* The piece of the text that goes with the k-th insert from the end.      *)
Piece(k) == IF tip.recon # <<>> THEN tip.recon ELSE <<tip.reading[Len(tip.reading) - k + 1]>>

(* The call makes its requests.  While it builds a session anew, all that  *)
(* is left out of the session is what the inserts to come carry.           *)
Requesting(k, f) ==
  /\ sta.plan = Inserts(k, f)
  /\ k > 0 => sta.goal \in Anchoring /\ f # "surface"
  /\ sta.pc \in {"run", "await", "gave_up"}
  /\ sta.pc = "await" => link.open
  /\ sta.goal \in Anchoring /\ sta.pc # "gave_up" => ~link.owed
  /\ sta.goal \in Anchoring /\ f # "surface" /\ link.open /\ ~wire.broken
       /\ sta.pc # "gave_up" =>
         srv.text = SubSeq(Subject, 1, Len(Subject) - k
                      + (IF k > 0 /\ sta.pc = "await" /\ wire.rep # <<>> THEN 1 ELSE 0))
  /\ sta.pc = "await" /\ wire.req # <<>> =>
       /\ Head(wire.req).op = IF k > 0 THEN "insert" ELSE f
       /\ k > 0 => Head(wire.req).text = Piece(k)
       /\ f = "surface" => Head(wire.req).text = tip.recon

(* The call has a connection to make before.                               *)
Opening(k, f) ==
  /\ sta.goal \in Anchoring /\ k = IF f = "surface" THEN 0 ELSE Len(Subject)
  /\ \/ /\ sta.plan = <<"ensure">> \o Inserts(k, f)
        /\ sta.pc \in {"run", "course"} /\ ~link.open
     \/ /\ \E x \in {"drop", "end"} : sta.plan = <<x>> \o (<<"ensure">> \o Inserts(k, f))
        /\ sta.pc = "run"
     \/ /\ sta.plan = <<"start">> \o (<<"ensure">> \o Inserts(k, f))
        /\ sta.pc = "await" /\ ~link.open /\ (~wire.broken => srv.text = <<>>)
        /\ wire.req # <<>> => Head(wire.req).op = "start"
     \/ /\ sta.plan = <<"reload">> \o (<<"ensure">> \o Inserts(k, f))
        /\ sta.pc = "await" /\ link.open /\ ~link.owed /\ (~wire.broken => srv.text = <<>>)
        /\ wire.req # <<>> => Head(wire.req).op = "reload"

Planned ==
  \/ sta.pc = "idle" /\ sta.plan = <<>> /\ sta.goal = "none"
  \/ sta.pc = "run" /\ sta.plan = <<>> /\ sta.goal = "recommit"
  \/ \E k \in 0..Len(Subject) : \E f \in Finals(sta.goal) : Requesting(k, f) \/ Opening(k, f)

(* At most one request or answer is on the pipe, and while the STA waits   *)
(* it is its own.                                                          *)
Quiet == wire.req = <<>> /\ wire.rep = <<>>
Alternation ==
  /\ wire.req # <<>> => Tail(wire.req) = <<>> /\ wire.rep = <<>>
  /\ wire.rep # <<>> => Tail(wire.rep) = <<>>
  /\ link.owed => link.open /\ sta.pc # "await" /\ tip.cands # "typo"
  /\ sta.pc # "await" /\ ~link.owed => Quiet
  /\ sta.pc = "await" => (wire.req # <<>> => Head(wire.req).own)
                         /\ (wire.rep # <<>> => Head(wire.rep).own)

(* The session of the candidates that are shown holds the reading, until a *)
(* commit has consumed it.                                                 *)
Consumed == sta.pc = "await" /\ wire.rep # <<>> /\ sta.goal \in {"commit", "clauses"}
Anchored ==
  tip.cands = "typo" /\ link.open /\ ~wire.broken /\ ~Consumed => srv.text = tip.reading

IInv ==
  /\ Shapes /\ TipFits(tip) /\ GoalFits /\ Planned /\ Alternation /\ Anchored
  /\ AnswersMatchTheReading

-----------------------------------------------------------------------------
(* Plans.                                                                  *)

(* The first of a longer plan, and what is left after it.                  *)
LEMMA IsSequence ==
  ASSUME NEW S, NEW n \in Nat, NEW s \in [1..n -> S]
  PROVE  s \in Seq(S) /\ Len(s) = n
  <1>1. s \in Seq(S)
    OBVIOUS
  <1>2. DOMAIN s = 1..n
    OBVIOUS
  <1> QED
    BY <1>1, <1>2, LenProperties

LEMMA PreFirst ==
  ASSUME NEW S, NEW s \in Seq(S), NEW a \in S
  PROVE  /\ <<a>> \o s \in Seq(S)
         /\ <<a>> \o s # <<>>
         /\ Head(<<a>> \o s) = a
         /\ Tail(<<a>> \o s) = s
  <1>1. PICK t : t = <<a>> \o s
    OBVIOUS
  <1>2. t \in Seq(S) /\ Len(t) = 1 + Len(s)
        /\ \A i \in 1..(1 + Len(s)) : t[i] = IF i <= 1 THEN a ELSE s[i - 1]
    BY <1>1
  <1>3. t # <<>> /\ Head(t) = a
    BY <1>2
  <1>4. Tail(t) = s
    <2>1. /\ Tail(t) \in Seq(S) /\ Len(Tail(t)) = Len(s)
          /\ \A i \in 1..Len(Tail(t)) : Tail(t)[i] = t[i + 1]
      BY <1>2, <1>3, HeadTailProperties
    <2>2. \A i \in 1..Len(s) : Tail(t)[i] = s[i]
      BY <1>2, <2>1
    <2> QED
      BY <2>1, <2>2, SeqEqual
  <1> QED
    BY <1>1, <1>2, <1>3, <1>4

(* k inserts and one more request: a plan like any other.                  *)
LEMMA InsertsFacts ==
  ASSUME NEW k \in Nat, NEW S, "insert" \in S, NEW f \in S
  PROVE  /\ Inserts(k, f) \in Seq(S)
         /\ Inserts(k, f) # <<>>
         /\ Head(Inserts(k, f)) = IF k > 0 THEN "insert" ELSE f
         /\ k = 0 => Tail(Inserts(k, f)) = <<>>
         /\ k > 0 => k - 1 \in Nat /\ Tail(Inserts(k, f)) = Inserts(k - 1, f)
  <1>1. PICK t : t = Inserts(k, f)
    OBVIOUS
  <1>a. t \in [1..(k + 1) -> S] /\ k + 1 \in Nat
        /\ \A i \in 1..(k + 1) : t[i] = IF i <= k THEN "insert" ELSE f
    BY <1>1 DEF Inserts
  <1>2. t \in Seq(S) /\ Len(t) = k + 1
        /\ \A i \in 1..(k + 1) : t[i] = IF i <= k THEN "insert" ELSE f
    BY <1>a, IsSequence
  <1>3. t # <<>> /\ Head(t) = IF k > 0 THEN "insert" ELSE f
    BY <1>2
  <1>4. /\ Tail(t) \in Seq(S) /\ Len(Tail(t)) = k
        /\ \A i \in 1..k : Tail(t)[i] = t[i + 1]
    BY <1>2, <1>3, HeadTailProperties
  <1>5. k = 0 => Tail(t) = <<>>
    BY <1>4, EmptySeq
  <1>6. ASSUME k > 0
        PROVE  k - 1 \in Nat /\ Tail(t) = Inserts(k - 1, f)
    <2>1. PICK u : u = Inserts(k - 1, f)
      OBVIOUS
    <2>a. /\ k - 1 \in Nat /\ (k - 1) + 1 = k
          /\ u = [i \in 1..k |-> IF i <= k - 1 THEN "insert" ELSE f]
      BY <1>6, <2>1 DEF Inserts
    <2>b. /\ u \in [1..k -> S]
          /\ \A i \in 1..k : u[i] = IF i <= k - 1 THEN "insert" ELSE f
      BY <2>a
    <2>2. u \in Seq(S) /\ Len(u) = k
          /\ \A i \in 1..k : u[i] = IF i <= k - 1 THEN "insert" ELSE f
      BY <2>b, IsSequence
    <2>3. \A i \in 1..k : Tail(t)[i] = u[i]
      BY <1>2, <1>4, <1>6, <2>2
    <2>4. Tail(t) = u
      BY <1>4, <2>2, <2>3, SeqEqual
    <2> QED
      BY <2>a, <2>1, <2>4
  <1> QED
    BY <1>1, <1>2, <1>3, <1>5, <1>6

(* The plan of a new session, as reanchor_engine_from_local makes it.      *)
LEMMA InsertsBuilt ==
  ASSUME NEW n \in Nat, NEW S, "insert" \in S, NEW f \in S
  PROVE  [i \in 1..n |-> "insert"] \o <<f>> = Inserts(n, f)
  <1>1. PICK s : s = [i \in 1..n |-> "insert"]
    OBVIOUS
  <1>a. s \in [1..n -> S] /\ \A i \in 1..n : s[i] = "insert"
    BY <1>1
  <1>2. s \in Seq(S) /\ Len(s) = n /\ \A i \in 1..n : s[i] = "insert"
    BY <1>a, IsSequence
  <1>3. <<f>> \in Seq(S) /\ Len(<<f>>) = 1 /\ <<f>>[1] = f
    BY IsSequence
  <1>4. /\ s \o <<f>> \in Seq(S) /\ Len(s \o <<f>>) = n + 1
        /\ \A i \in 1..(n + 1) : (s \o <<f>>)[i] = IF i <= n THEN s[i] ELSE <<f>>[i - n]
    BY <1>2, <1>3, ConcatProperties
  <1>5. PICK u : u = Inserts(n, f)
    OBVIOUS
  <1>b. u \in [1..(n + 1) -> S] /\ n + 1 \in Nat
        /\ \A i \in 1..(n + 1) : u[i] = IF i <= n THEN "insert" ELSE f
    BY <1>5 DEF Inserts
  <1>6. u \in Seq(S) /\ Len(u) = n + 1
        /\ \A i \in 1..(n + 1) : u[i] = IF i <= n THEN "insert" ELSE f
    BY <1>b, IsSequence
  <1>7. \A i \in 1..(n + 1) : (s \o <<f>>)[i] = u[i]
    BY <1>2, <1>3, <1>4, <1>6
  <1> QED
    BY <1>1, <1>4, <1>5, <1>6, <1>7, SeqEqual

(* How many inserts are left, as Segment counts them.                      *)
LEMMA InsertsLeft ==
  ASSUME NEW k \in Nat, NEW S, "insert" \in S, NEW f \in S, f # "insert"
  PROVE  Cardinality({i \in DOMAIN Inserts(k, f) : Inserts(k, f)[i] = "insert"}) = k
  <1>1. {i \in DOMAIN Inserts(k, f) : Inserts(k, f)[i] = "insert"} = 1..k
    BY DEF Inserts
  <1>2. Cardinality(1..k) = k
    BY FS_Interval
  <1> QED
    BY <1>1, <1>2

(* A piece more of the text.                                               *)
LEMMA OnePieceMore ==
  ASSUME NEW s \in Seq(Nat), NEW k \in 1..Len(s)
  PROVE  SubSeq(s, 1, Len(s) - k) \o <<s[Len(s) - k + 1]>> = SubSeq(s, 1, Len(s) - k + 1)
  <1>1. PICK n : n = Len(s) - k + 1
    OBVIOUS
  <1>2. n \in 1..Len(s) /\ n - 1 = Len(s) - k /\ 1 \in 1..Len(s)
    BY <1>1
  <1>3. SubSeq(s, 1, n) = SubSeq(s, 1, n - 1) \o <<s[n]>>
    BY <1>2, SubSeqRecursiveSecond
  <1> QED
    BY <1>1, <1>2, <1>3

-----------------------------------------------------------------------------
(* What the invariant says of a plan.                                      *)

Steps == Requests \cup {"reload", "drop", "end", "ensure", "start"}
Lead(k, f) == IF k > 0 THEN "insert" ELSE f
Opened(k, f) == <<"ensure">> \o Inserts(k, f)

LEMMA FinalsAre ==
  ASSUME NEW g, NEW f \in Finals(g)
  PROVE  /\ f \in Steps /\ "insert" \in Steps /\ f # "insert"
         /\ f \in Requests \cup {"reload"}
         /\ f = "reload" <=> g = "reload"
         /\ g \in Anchoring => f \in {"typo", "live", "convert", "surface"}
  BY DEF Finals, Steps, Requests, Anchoring

LEMMA SubjectIs ==
  ASSUME tip \in TipType
  PROVE  /\ Len(Subject) \in Nat
         /\ tip.recon = <<>> => Subject = tip.reading /\ Subject \in Seq(Nat)
         /\ tip.recon # <<>> => Subject = <<"captured">> /\ Subject = tip.recon /\ Len(Subject) = 1
  BY DEF TipType, Subject

LEMMA PlanParts ==
  ASSUME NEW k \in Nat, NEW g, NEW f \in Finals(g)
  PROVE  /\ Inserts(k, f) # <<>> /\ Head(Inserts(k, f)) = Lead(k, f)
         /\ k = 0 => Tail(Inserts(k, f)) = <<>>
         /\ k > 0 => k - 1 \in Nat /\ Tail(Inserts(k, f)) = Inserts(k - 1, f)
         /\ Opened(k, f) # <<>> /\ Head(Opened(k, f)) = "ensure"
         /\ Tail(Opened(k, f)) = Inserts(k, f)
         /\ \A x \in Steps : /\ <<x>> \o Opened(k, f) # <<>>
                             /\ Head(<<x>> \o Opened(k, f)) = x
                             /\ Tail(<<x>> \o Opened(k, f)) = Opened(k, f)
  <1>1. f \in Steps /\ "insert" \in Steps /\ "ensure" \in Steps
    BY FinalsAre DEF Steps
  <1>2. Inserts(k, f) \in Seq(Steps)
    BY <1>1, InsertsFacts
  <1>3. /\ Inserts(k, f) # <<>> /\ Head(Inserts(k, f)) = Lead(k, f)
        /\ k = 0 => Tail(Inserts(k, f)) = <<>>
        /\ k > 0 => k - 1 \in Nat /\ Tail(Inserts(k, f)) = Inserts(k - 1, f)
    BY <1>1, InsertsFacts DEF Lead
  <1>4. /\ Opened(k, f) \in Seq(Steps)
        /\ Opened(k, f) # <<>> /\ Head(Opened(k, f)) = "ensure"
        /\ Tail(Opened(k, f)) = Inserts(k, f)
    BY <1>1, <1>2, PreFirst DEF Opened
  <1>5. ASSUME NEW x \in Steps
        PROVE  /\ <<x>> \o Opened(k, f) # <<>>
               /\ Head(<<x>> \o Opened(k, f)) = x
               /\ Tail(<<x>> \o Opened(k, f)) = Opened(k, f)
    BY <1>4, PreFirst
  <1> QED
    BY <1>3, <1>4, <1>5

(* A request is next: the call is past its opening.                        *)
LEMMA WhichRequest ==
  ASSUME tip \in TipType, Planned, sta.plan # <<>>, Head(sta.plan) \in Requests
  PROVE  \E k \in 0..Len(Subject) : \E f \in Finals(sta.goal) :
           /\ Requesting(k, f) /\ sta.plan = Inserts(k, f)
           /\ Head(sta.plan) = Lead(k, f)
           /\ k = 0 => Tail(sta.plan) = <<>>
           /\ k > 0 => k - 1 \in 0..Len(Subject) /\ Tail(sta.plan) = Inserts(k - 1, f)
                       /\ Tail(sta.plan) # <<>>
  <1>1. PICK k \in 0..Len(Subject), f \in Finals(sta.goal) : Requesting(k, f) \/ Opening(k, f)
    BY DEF Planned
  <1>2. k \in Nat /\ Len(Subject) \in Nat
    BY SubjectIs
  <1>3. ASSUME Opening(k, f)
        PROVE  FALSE
    <2>1. /\ Head(Opened(k, f)) = "ensure"
          /\ \A x \in Steps : Head(<<x>> \o Opened(k, f)) = x
      BY <1>2, PlanParts
    <2>2. \/ sta.plan = Opened(k, f)
          \/ \E x \in {"drop", "end", "start", "reload"} : sta.plan = <<x>> \o Opened(k, f)
      BY <1>3 DEF Opening, Opened
    <2>3. \E x \in {"ensure", "drop", "end", "start", "reload"} : Head(sta.plan) = x
      BY <2>1, <2>2 DEF Steps
    <2> QED
      BY <2>3 DEF Requests
  <1>4. Requesting(k, f)
    BY <1>1, <1>3
  <1>5. sta.plan = Inserts(k, f)
    BY <1>4 DEF Requesting
  <1>a. /\ Head(Inserts(k, f)) = Lead(k, f)
        /\ k = 0 => Tail(Inserts(k, f)) = <<>>
        /\ k > 0 => k - 1 \in Nat /\ Tail(Inserts(k, f)) = Inserts(k - 1, f)
    BY <1>2, PlanParts
  <1>6. /\ Head(sta.plan) = Lead(k, f)
        /\ k = 0 => Tail(sta.plan) = <<>>
        /\ k > 0 => k - 1 \in Nat /\ Tail(sta.plan) = Inserts(k - 1, f)
    BY <1>a, <1>5
  <1>7. k > 0 => Inserts(k - 1, f) # <<>> /\ k - 1 \in 0..Len(Subject)
    BY <1>2, <1>6, PlanParts
  <1> QED
    BY <1>4, <1>5, <1>6, <1>7

(* The connection comes first.                                             *)
LEMMA WhichOpening ==
  ASSUME tip \in TipType, Planned,
         \/ sta.pc = "course"
         \/ /\ sta.plan # <<>>
            /\ \/ Head(sta.plan) \in {"drop", "end", "ensure", "start"}
               \/ Head(sta.plan) = "reload" /\ sta.goal # "reload"
  PROVE  \E k \in 0..Len(Subject) : \E f \in Finals(sta.goal) :
           /\ Opening(k, f) /\ sta.goal \in Anchoring
           /\ k = (IF f = "surface" THEN 0 ELSE Len(Subject))
           /\ sta.pc = "course" \/ Head(sta.plan) = "ensure" =>
                /\ sta.plan = Opened(k, f) /\ Tail(sta.plan) = Inserts(k, f) /\ ~link.open
                /\ Head(sta.plan) = "ensure"
           /\ Head(sta.plan) \in {"drop", "end", "start", "reload"} => Tail(sta.plan) = Opened(k, f)
           /\ Head(sta.plan) \in {"drop", "end"} => sta.pc = "run"
           /\ Head(sta.plan) = "start" =>
                /\ sta.pc = "await" /\ ~link.open /\ (~wire.broken => srv.text = <<>>)
                /\ wire.req # <<>> => Head(wire.req).op = "start"
           /\ Head(sta.plan) = "reload" =>
                /\ sta.pc = "await" /\ link.open /\ ~link.owed /\ (~wire.broken => srv.text = <<>>)
                /\ wire.req # <<>> => Head(wire.req).op = "reload"
  <1>1. PICK k \in 0..Len(Subject), f \in Finals(sta.goal) : Requesting(k, f) \/ Opening(k, f)
    BY DEF Planned
  <1>2. k \in Nat
    BY SubjectIs
  <1>3. ASSUME Requesting(k, f)
        PROVE  FALSE
    <2>1. sta.plan = Inserts(k, f) /\ sta.pc # "course"
      BY <1>3 DEF Requesting
    <2>2. Head(sta.plan) = Lead(k, f)
      BY <1>2, <2>1, PlanParts
    <2>3. Lead(k, f) \in Requests \cup {"reload"} /\ (Lead(k, f) = "reload" => sta.goal = "reload")
      BY FinalsAre DEF Lead, Requests
    <2> QED
      BY <2>1, <2>2, <2>3 DEF Requests
  <1>4. Opening(k, f)
    BY <1>1, <1>3
  <1>5. sta.goal \in Anchoring /\ k = IF f = "surface" THEN 0 ELSE Len(Subject)
    BY <1>4 DEF Opening
  <1>6. \/ /\ sta.plan = Opened(k, f)
           /\ sta.pc \in {"run", "course"} /\ ~link.open
        \/ /\ \E x \in {"drop", "end"} : sta.plan = <<x>> \o Opened(k, f)
           /\ sta.pc = "run"
        \/ /\ sta.plan = <<"start">> \o Opened(k, f)
           /\ sta.pc = "await" /\ ~link.open /\ (~wire.broken => srv.text = <<>>)
           /\ wire.req # <<>> => Head(wire.req).op = "start"
        \/ /\ sta.plan = <<"reload">> \o Opened(k, f)
           /\ sta.pc = "await" /\ link.open /\ ~link.owed /\ (~wire.broken => srv.text = <<>>)
           /\ wire.req # <<>> => Head(wire.req).op = "reload"
    BY <1>4 DEF Opening, Opened
  <1>a. /\ Head(Opened(k, f)) = "ensure" /\ Tail(Opened(k, f)) = Inserts(k, f)
        /\ \A x \in Steps : /\ Head(<<x>> \o Opened(k, f)) = x
                            /\ Tail(<<x>> \o Opened(k, f)) = Opened(k, f)
    BY <1>2, PlanParts, ZenonT(60)
  <1>7. /\ Head(Opened(k, f)) = "ensure" /\ Tail(Opened(k, f)) = Inserts(k, f)
        /\ \A x \in {"drop", "end", "start", "reload"} :
              Head(<<x>> \o Opened(k, f)) = x /\ Tail(<<x>> \o Opened(k, f)) = Opened(k, f)
    BY <1>a DEF Steps
  <1>8. CASE sta.plan = Opened(k, f) /\ sta.pc \in {"run", "course"} /\ ~link.open
    BY <1>4, <1>5, <1>7, <1>8
  <1>9. CASE sta.pc = "run" /\ \E x \in {"drop", "end"} : sta.plan = <<x>> \o Opened(k, f)
    BY <1>4, <1>5, <1>7, <1>9
  <1>10. CASE /\ sta.plan = <<"start">> \o Opened(k, f)
              /\ sta.pc = "await" /\ ~link.open /\ (~wire.broken => srv.text = <<>>)
              /\ wire.req # <<>> => Head(wire.req).op = "start"
    BY <1>4, <1>5, <1>7, <1>10
  <1>11. CASE /\ sta.plan = <<"reload">> \o Opened(k, f)
              /\ sta.pc = "await" /\ link.open /\ ~link.owed /\ (~wire.broken => srv.text = <<>>)
              /\ wire.req # <<>> => Head(wire.req).op = "reload"
    BY <1>4, <1>5, <1>7, <1>11
  <1> QED
    BY <1>6, <1>8, <1>9, <1>10, <1>11

(* The reload timer's call is a single request.                            *)
LEMMA WhichReload ==
  ASSUME tip \in TipType, Planned, sta.plan # <<>>, sta.goal = "reload"
  PROVE  sta.plan = Inserts(0, "reload") /\ Requesting(0, "reload") /\ Head(sta.plan) = "reload"
  <1>1. PICK k \in 0..Len(Subject), f \in Finals(sta.goal) : Requesting(k, f) \/ Opening(k, f)
    BY DEF Planned
  <1>2. k \in Nat /\ f = "reload"
    BY SubjectIs DEF Finals
  <1>3. Requesting(k, f) /\ k = 0
    BY <1>1, <1>2 DEF Opening, Requesting, Anchoring
  <1>4. sta.plan = Inserts(0, "reload")
    BY <1>2, <1>3 DEF Requesting
  <1>5. Head(Inserts(0, f)) = Lead(0, f)
    BY PlanParts
  <1> QED
    BY <1>2, <1>3, <1>4, <1>5 DEF Lead

(* Nothing the plan depends on has changed.                                *)
LEMMA PlanStays ==
  ASSUME Planned, tip' = tip, sta'.plan = sta.plan, sta'.pc = sta.pc, sta'.goal = sta.goal,
         link'.open = link.open, link'.owed = link.owed, wire' = wire, srv'.text = srv.text
  PROVE  Planned'
  <1>1. Subject' = Subject
    BY DEF Subject
  <1>2. CASE sta.pc = "idle" /\ sta.plan = <<>> /\ sta.goal = "none"
    BY <1>2 DEF Planned
  <1>3. CASE sta.pc = "run" /\ sta.plan = <<>> /\ sta.goal = "recommit"
    BY <1>3 DEF Planned
  <1>4. ASSUME NEW k \in 0..Len(Subject), NEW f \in Finals(sta.goal),
               Requesting(k, f) \/ Opening(k, f)
        PROVE  Planned'
    <2>1. Piece(k)' = Piece(k)
      BY DEF Piece
    <2>2. Requesting(k, f) => Requesting(k, f)'
      BY <1>1, <2>1 DEF Requesting
    <2>3. Opening(k, f) => Opening(k, f)'
      BY <1>1 DEF Opening
    <2>4. k \in (0..Len(Subject))' /\ f \in Finals(sta.goal)'
      BY <1>1 DEF Finals
    <2>5. (\E j \in 0..Len(Subject) : \E g \in Finals(sta.goal) : Requesting(j, g) \/ Opening(j, g))'
      BY <1>4, <2>2, <2>3, <2>4
    <2> QED
      BY <2>5 DEF Planned
  <1> QED
    BY <1>2, <1>3, <1>4 DEF Planned

-----------------------------------------------------------------------------
(* The connection, the end of an operation, and the begin of one.          *)

LEMMA LinksFit ==
  ASSUME NEW l \in LinkType
  PROVE  /\ Dropped(l) \in LinkType /\ ~Dropped(l).open /\ ~Dropped(l).owed
         /\ Ended(l) \in LinkType /\ ~Ended(l).open
         /\ ~Ended(l).owed \/ (~l.open /\ l.owed)
  BY DEF LinkType, Dropped, Ended

LEMMA SetLinkGives ==
  ASSUME Shapes, NEW l \in LinkType, SetLink(l)
  PROVE  /\ link' = l /\ link' \in LinkType /\ IsWire(wire') /\ IsServer(srv')
         /\ l.open => /\ srv' = srv /\ wire'.broken = wire.broken /\ wire'.req = wire.req
                      /\ wire'.rep = IF Reading THEN Tail(wire.rep) ELSE wire.rep
                      /\ ~Reading => wire' = wire
         /\ ~l.open => wire'.req = <<>> /\ wire'.rep = <<>> /\ ~wire'.broken /\ srv'.text = <<>>
  <1>1. IsWire(wire) /\ IsServer(srv)
    BY DEF Shapes
  <1>2. CASE l.open
    <2>1. link' = l /\ srv' = srv /\ wire' = IF Reading THEN Rest ELSE wire
      BY <1>2 DEF SetLink
    <2>2. CASE Reading
      <3>1. wire' = [req |-> wire.req, rep |-> Tail(wire.rep), broken |-> wire.broken]
        BY <1>1, <2>1, <2>2 DEF Rest, IsWire
      <3> QED
        BY <1>1, <1>2, <2>1, <2>2, <3>1 DEF IsWire
    <2>3. CASE ~Reading
      BY <1>1, <1>2, <2>1, <2>3
    <2> QED
      BY <2>2, <2>3
  <1>3. CASE ~l.open
    <2>1. link' = l /\ wire' = NoPipe /\ srv' = Cleared(srv)
      BY <1>3 DEF SetLink
    <2>2. srv' = [up |-> srv.up, text |-> <<>>, cached |-> FALSE, nav |-> FALSE]
      BY <1>1, <2>1 DEF Cleared, IsServer
    <2>3. IsServer(srv') /\ srv'.text = <<>>
      BY <2>2 DEF IsServer
    <2>4. IsWire(wire') /\ wire'.req = <<>> /\ wire'.rep = <<>> /\ ~wire'.broken
      BY <2>1 DEF NoPipe, IsWire
    <2> QED
      BY <1>3, <2>1, <2>3, <2>4
  <1> QED
    BY <1>2, <1>3

LEMMA NothingFits ==
  /\ Nothing \in TipType /\ TipFits(Nothing) /\ Nothing.cands = "none"
  /\ Nothing.recon = <<>> /\ Nothing.reading = <<>>
  BY DEF Nothing, TipType, TipFits

(* The STA is at rest again, with a connection that holds what t shows.    *)
LEMMA RestFits ==
  ASSUME IInv, NEW t \in TipType, TipFits(t), NEW l \in LinkType,
         (~l.open /\ ~l.owed) \/ (l.open = link.open /\ l.owed = link.owed),
         sta.pc = "await" /\ l.open => Reading,
         t.cands = "typo" => \/ ~l.open /\ ~l.owed
                             \/ ~l.owed /\ (wire.broken \/ srv.text = t.reading),
         tip' = t, SetLink(l), sta' = Idle
  PROVE  IInv'
  <1>1. Shapes /\ Alternation
    BY DEF IInv
  <1>2. /\ tip' = t /\ SetLink(l) /\ sta' = Idle
    OBVIOUS
  <1>3. /\ link' = l /\ link' \in LinkType /\ IsWire(wire') /\ IsServer(srv')
        /\ l.open => /\ srv' = srv /\ wire'.broken = wire.broken /\ wire'.req = wire.req
                     /\ wire'.rep = IF Reading THEN Tail(wire.rep) ELSE wire.rep
                     /\ ~Reading => wire' = wire
        /\ ~l.open => wire'.req = <<>> /\ wire'.rep = <<>> /\ ~wire'.broken /\ srv'.text = <<>>
    BY <1>1, <1>2, SetLinkGives
  <1>4. /\ IsCall(sta') /\ sta'.pc = "idle" /\ sta'.plan = <<>> /\ sta'.goal = "none"
    <2>1. IsCall(sta)
      BY <1>1 DEF Shapes
    <2>2. sta' = [pc |-> "idle", plan |-> <<>>, goal |-> "none", stage |-> sta.stage,
                  once |-> sta.once]
      BY <1>2, <2>1 DEF Idle, IsCall
    <2> QED
      BY <2>1, <2>2 DEF IsCall
  <1>5. Shapes'
    BY <1>2, <1>3, <1>4 DEF Shapes
  <1>6. TipFits(tip)'
    BY <1>2 DEF TipFits
  <1>7. GoalFits'
    BY <1>4 DEF GoalFits, Anchoring, Using
  <1>8. Planned'
    BY <1>4 DEF Planned
  <1>9. l.owed => link.owed /\ l.open
    BY <1>1 DEF Alternation
  <1>11. wire'.req # <<>> => Tail(wire'.req) = <<>> /\ wire'.rep = <<>>
    <2>1. CASE l.open /\ Reading
      BY <1>1, <1>3, <2>1 DEF Alternation, Reading
    <2>2. CASE l.open /\ ~Reading
      BY <1>1, <1>3, <2>2 DEF Alternation
    <2>3. CASE ~l.open
      BY <1>3, <2>3
    <2> QED
      BY <2>1, <2>2, <2>3
  <1>12. (wire'.rep # <<>> => Tail(wire'.rep) = <<>>) /\ (~l.owed => wire'.req = <<>> /\ wire'.rep = <<>>)
    <2>1. CASE l.open /\ Reading
      BY <1>1, <1>3, <2>1 DEF Alternation, Reading
    <2>2. CASE l.open /\ ~Reading
      <3>1. sta.pc # "await" /\ wire' = wire /\ l.owed = link.owed
        BY <1>3, <2>2
      <3> QED
        BY <1>1, <3>1 DEF Alternation, Quiet
    <2>3. CASE ~l.open
      BY <1>3, <2>3
    <2> QED
      BY <2>1, <2>2, <2>3
  <1>13. Alternation'
    <2>1. (wire.req # <<>> => Tail(wire.req) = <<>> /\ wire.rep = <<>>)'
      BY <1>11
    <2>2. (wire.rep # <<>> => Tail(wire.rep) = <<>>)'
      BY <1>12
    <2>3. (link.owed => link.open /\ sta.pc # "await" /\ tip.cands # "typo")'
      BY <1>2, <1>3, <1>4, <1>9
    <2>4. (sta.pc # "await" /\ ~link.owed => Quiet)'
      BY <1>3, <1>12 DEF Quiet
    <2> QED
      BY <1>4, <2>1, <2>2, <2>3, <2>4 DEF Alternation
  <1>14. Anchored'
    BY <1>2, <1>3 DEF Anchored
  <1>15. AnswersMatchTheReading'
    BY <1>4 DEF AnswersMatchTheReading, Reading
  <1> QED
    BY <1>5, <1>6, <1>7, <1>8, <1>13, <1>14, <1>15 DEF IInv

LEMMA FinishFits ==
  ASSUME IInv, NEW t \in TipType, TipFits(t), NEW l \in LinkType,
         (~l.open /\ ~l.owed) \/ l = link,
         sta.pc = "await" /\ l.open => Reading,
         t.cands = "typo" => \/ ~l.open /\ ~l.owed
                             \/ ~l.owed /\ (wire.broken \/ srv.text = t.reading),
         Finish(t, l)
  PROVE  IInv'
  <1>1. tip' = t /\ SetLink(l) /\ sta' = Idle
    BY DEF Finish
  <1> QED
    BY <1>1, RestFits

(* With the connection gone, anything may be shown.                        *)
LEMMA FinishClosed ==
  ASSUME IInv, NEW t \in TipType, TipFits(t), NEW l \in LinkType, ~l.open, ~l.owed, Finish(t, l)
  PROVE  IInv'
  BY FinishFits

(* The operation failed: whatever it was for, the STA is at rest again.    *)
LEMMA GiveUpFits ==
  ASSUME IInv, NEW l, l = link \/ l = Dropped(link),
         sta.pc = "await" /\ l.open => Reading,
         GiveUp(l)
  PROVE  IInv'
  <1>1. Shapes /\ TipFits(tip) /\ Alternation /\ Anchored
    BY DEF IInv
  <1>2. tip \in TipType /\ link \in LinkType
    BY <1>1 DEF Shapes
  <1>3. l \in LinkType /\ (l # link => ~l.open /\ ~l.owed) /\ (l.owed => l.open)
    BY <1>1, <1>2, LinksFit DEF Alternation
  <1>4. Ended(l) \in LinkType /\ ~Ended(l).open /\ ~Ended(l).owed
    BY <1>3, LinksFit
  <1>5. Dropped(l) \in LinkType /\ ~Dropped(l).open /\ ~Dropped(l).owed
    BY <1>3, LinksFit
  <1>6. ASSUME sta.goal \notin {"commit", "clauses"}, Finish(tip, l)
        PROVE  IInv'
    <2>1. ~l.open \/ l = link
      BY <1>3
    <2>2. ASSUME tip.cands = "typo"
          PROVE  \/ ~l.open /\ ~l.owed
                 \/ ~l.owed /\ (wire.broken \/ srv.text = tip.reading)
      BY <1>1, <1>3, <1>6, <2>2 DEF Anchored, Consumed, Alternation
    <2>3. (~l.open /\ ~l.owed) \/ l = link
      BY <1>3
    <2> QED
      BY <1>1, <1>2, <1>3, <1>6, <2>2, <2>3, FinishFits
  <1>7. ASSUME Finish(Nothing, Ended(l))
        PROVE  IInv'
    BY <1>4, <1>7, NothingFits, FinishClosed
  <1>8. ASSUME Finish(tip, Dropped(l))
        PROVE  IInv'
    BY <1>1, <1>2, <1>5, <1>8, FinishClosed
  <1>9. \/ sta.goal \notin {"commit", "clauses"} /\ Finish(tip, l)
        \/ Finish(Nothing, Ended(l))
        \/ Finish(tip, Dropped(l))
    BY DEF GiveUp, Goal, FullCommit
  <1> QED
    BY <1>6, <1>7, <1>8, <1>9

(* What the user does without a request.                                   *)
LEMMA LocalFits ==
  ASSUME IInv, NEW t \in TipType, TipFits(t), NEW l \in LinkType,
         (~l.open /\ ~l.owed) \/ (l.open = link.open /\ l.owed = link.owed),
         t.cands = "typo" => ~l.open \/ (tip.cands = "typo" /\ tip.reading = t.reading),
         tip' = t, Local(l)
  PROVE  IInv'
  <1>1. Shapes /\ Alternation /\ Anchored /\ GoalFits /\ Planned
    BY DEF IInv
  <1>2. sta.pc = "idle" /\ sta' = sta /\ SetLink(l) /\ tip' = t
    BY DEF Local, Ready
  <1>3. ~Reading /\ sta.plan = <<>> /\ sta.goal = "none"
    <2>1. \A k \in 0..Len(Subject) : \A f \in Finals(sta.goal) : ~Requesting(k, f) /\ ~Opening(k, f)
      BY <1>2 DEF Requesting, Opening
    <2>2. sta.plan = <<>> /\ sta.goal = "none"
      BY <1>1, <1>2, <2>1 DEF Planned
    <2> QED
      BY <1>2, <2>2 DEF Reading
  <1>4. /\ link' = l /\ link' \in LinkType /\ IsWire(wire') /\ IsServer(srv')
        /\ l.open => srv' = srv /\ wire' = wire
        /\ ~l.open => wire'.req = <<>> /\ wire'.rep = <<>> /\ ~wire'.broken /\ srv'.text = <<>>
    BY <1>1, <1>2, <1>3, SetLinkGives
  <1>5. Shapes'
    BY <1>1, <1>2, <1>4 DEF Shapes
  <1>6. TipFits(tip)'
    BY <1>2 DEF TipFits
  <1>7. Planned'
    BY <1>2, <1>3 DEF Planned
  <1>8. Alternation'
    BY <1>1, <1>2, <1>4 DEF Alternation, Quiet
  <1>9. Anchored'
    BY <1>1, <1>2, <1>3, <1>4 DEF Anchored, Consumed
  <1>10. AnswersMatchTheReading'
    BY <1>2 DEF AnswersMatchTheReading, Reading
  <1>11. GoalFits'
    BY <1>2, <1>3 DEF GoalFits, Anchoring, Using
  <1> QED
    BY <1>5, <1>6, <1>7, <1>8, <1>9, <1>10, <1>11 DEF IInv

LEMMA BeginFits ==
  ASSUME IInv, NEW goal, NEW plan, Begin(goal, plan),
         tip' \in TipType, TipFits(tip'), GoalFits', Planned',
         tip'.cands = "typo" => tip.cands = "typo" /\ tip'.reading = tip.reading
  PROVE  IInv'
  <1>1. Shapes /\ Alternation /\ Anchored
    BY DEF IInv
  <1>2. /\ sta.pc = "idle" /\ sta' = [sta EXCEPT !.pc = "run", !.goal = goal, !.plan = plan]
        /\ UNCHANGED <<link, wire, srv>>
    BY DEF Begin, Ready
  <1>3. IsCall(sta') /\ sta'.pc = "run"
    <2>1. IsCall(sta)
      BY <1>1 DEF Shapes
    <2>2. sta' = [pc |-> "run", plan |-> plan, goal |-> goal, stage |-> sta.stage, once |-> sta.once]
      BY <1>2, <2>1 DEF IsCall
    <2> QED
      BY <2>1, <2>2 DEF IsCall
  <1>4. Shapes'
    BY <1>1, <1>2, <1>3 DEF Shapes
  <1>5. TipFits(tip)'
    BY DEF TipFits
  <1>6. Alternation'
    BY <1>1, <1>2, <1>3 DEF Alternation, Quiet
  <1>7. Anchored'
    BY <1>1, <1>2, <1>3 DEF Anchored, Consumed
  <1>8. AnswersMatchTheReading'
    BY <1>3 DEF AnswersMatchTheReading, Reading
  <1> QED
    BY <1>4, <1>5, <1>6, <1>7, <1>8 DEF IInv

LEMMA BegunIs ==
  ASSUME Shapes, NEW goal, NEW plan, Begin(goal, plan)
  PROVE  sta'.pc = "run" /\ sta'.goal = goal /\ sta'.plan = plan /\ sta.pc = "idle"
  BY DEF Shapes, IsCall, Begin, Ready

(* Plans are joined in any order.                                          *)
LEMMA PlansJoin ==
  ASSUME NEW a \in Seq(Steps), NEW b \in Seq(Steps), NEW c \in Seq(Steps)
  PROVE  a \o b \in Seq(Steps) /\ (a \o b) \o c = a \o (b \o c)
  BY ConcatProperties, ConcatAssociative

(* The plan of a new session is the one that the invariant speaks of.      *)
LEMMA ReanchorIs ==
  ASSUME tip \in TipType, NEW f \in Steps
  PROVE  Reanchor \o <<f>> = <<"drop">> \o Opened(Len(tip.reading), f)
  <1>1. PICK n : n = Len(tip.reading)
    OBVIOUS
  <1>2. n \in Nat /\ DOMAIN tip.reading = 1..n
    BY <1>1 DEF TipType
  <1>3. "insert" \in Steps /\ "drop" \in Steps /\ "ensure" \in Steps
    BY DEF Steps, Requests
  <1>4. PICK s : s = [i \in 1..n |-> "insert"]
    OBVIOUS
  <1>5. s \in Seq(Steps)
    BY <1>2, <1>3, <1>4, IsSequence
  <1>6. PICK a, b, c : a = <<"drop">> /\ b = <<"ensure">> /\ c = <<f>>
    OBVIOUS
  <1>7. a \in Seq(Steps) /\ b \in Seq(Steps) /\ c \in Seq(Steps)
    BY <1>3, <1>6, IsSequence
  <1>8. <<"drop", "ensure">> = a \o b
    BY <1>6
  <1>9. b \o s \in Seq(Steps) /\ (b \o s) \o c = b \o (s \o c)
    BY <1>5, <1>7, PlansJoin
  <1>10. (a \o b) \o s = a \o (b \o s)
    BY <1>5, <1>7, PlansJoin, SMTT(30)
  <1>11. (a \o (b \o s)) \o c = a \o ((b \o s) \o c)
    <2>1. PICK u : u = b \o s
      OBVIOUS
    <2>a. u \in Seq(Steps)
      BY <1>9, <2>1
    <2>2. (a \o u) \o c = a \o (u \o c)
      BY <1>7, <2>a, PlansJoin, SMTT(30)
    <2> QED
      BY <2>1, <2>2
  <1>12. s \o c = Inserts(n, f)
    BY <1>2, <1>3, <1>4, <1>6, InsertsBuilt
  <1>13. Reanchor = (a \o b) \o s
    BY <1>2, <1>4, <1>8 DEF Reanchor
  <1>14. Reanchor \o <<f>> = a \o (b \o Inserts(n, f))
    BY <1>6, <1>9, <1>10, <1>11, <1>12, <1>13
  <1> QED
    BY <1>1, <1>6, <1>14 DEF Opened

(* A call that begins with its connection.                                 *)
LEMMA OpeningPlanned ==
  ASSUME tip' \in TipType, NEW f \in Finals(sta'.goal), sta'.goal \in Anchoring,
         NEW x \in {"drop", "end"}, sta'.pc = "run",
         sta'.plan = <<x>> \o Opened(IF f = "surface" THEN 0 ELSE Len(Subject'), f)
  PROVE  Planned'
  <1>1. PICK k : k = IF f = "surface" THEN 0 ELSE Len(Subject')
    OBVIOUS
  <1>2. Len(Subject') \in Nat
    BY DEF TipType, Subject
  <1>3. k \in (0..Len(Subject))' /\ f \in Finals(sta.goal)'
    BY <1>1, <1>2 DEF Finals
  <1>4. Opening(k, f)'
    BY <1>1 DEF Opening, Opened
  <1>5. (\E j \in 0..Len(Subject) : \E g \in Finals(sta.goal) : Requesting(j, g) \/ Opening(j, g))'
    BY <1>3, <1>4
  <1> QED
    BY <1>5 DEF Planned

(* A call of a single request, on the connection there is.                 *)
LEMMA SinglePlanned ==
  ASSUME tip' \in TipType, NEW f \in Finals(sta'.goal), sta'.goal \notin Anchoring,
         sta'.pc = "run", sta'.plan = <<f>>
  PROVE  Planned'
  <1>1. Len(Subject') \in Nat
    BY DEF TipType, Subject
  <1>2. 0 \in (0..Len(Subject))' /\ f \in Finals(sta.goal)'
    BY <1>1 DEF Finals
  <1>3. Inserts(0, f) = <<f>>
    BY DEF Inserts
  <1>4. Requesting(0, f)'
    BY <1>3 DEF Requesting
  <1>5. (\E j \in 0..Len(Subject) : \E g \in Finals(sta.goal) : Requesting(j, g) \/ Opening(j, g))'
    BY <1>2, <1>4
  <1> QED
    BY <1>5 DEF Planned

(* A reading is converted, settled or restored in a session of its own.    *)
LEMMA ReanchorBegins ==
  ASSUME IInv, NEW goal \in {"typo", "settle", "restore"}, NEW f \in Finals(goal),
         Begin(goal, Reanchor \o <<f>>), tip' \in TipType, TipFits(tip'),
         tip'.cands = "none", tip'.recon = <<>>, tip'.reading = tip.reading, tip.reading # <<>>
  PROVE  IInv'
  <1>1. Shapes /\ tip \in TipType
    BY DEF IInv, Shapes
  <1>2. sta'.pc = "run" /\ sta'.goal = goal /\ sta'.plan = Reanchor \o <<f>> /\ sta.pc = "idle"
    BY <1>1, BegunIs
  <1>3. f \in Steps /\ f # "surface" /\ goal \in Anchoring
    BY FinalsAre DEF Anchoring, Finals
  <1>4. sta'.plan = <<"drop">> \o Opened(Len(tip.reading), f)
    BY <1>1, <1>2, <1>3, ReanchorIs
  <1>5. Subject' = tip.reading
    BY DEF Subject
  <1>6. Planned'
    BY <1>2, <1>3, <1>4, <1>5, OpeningPlanned
  <1>7. GoalFits'
    BY <1>2, <1>3 DEF GoalFits, Using
  <1> QED
    BY <1>6, <1>7, BeginFits

(* A request to the session the candidates came from.                      *)
LEMMA UseBegins ==
  ASSUME IInv, NEW goal \in Using \cup {"recommit"}, NEW f \in Finals(goal), Begin(goal, <<f>>),
         tip' = tip, goal \in Using => tip.cands \in {"typo", "snapshot"}
  PROVE  IInv'
  <1>1. Shapes /\ tip \in TipType /\ TipFits(tip)
    BY DEF IInv, Shapes
  <1>2. sta'.pc = "run" /\ sta'.goal = goal /\ sta'.plan = <<f>> /\ sta.pc = "idle"
    BY <1>1, BegunIs
  <1>3. goal \notin Anchoring
    BY DEF Using, Anchoring
  <1>4. Planned'
    BY <1>1, <1>2, <1>3, SinglePlanned
  <1>5. GoalFits'
    BY <1>2, <1>3 DEF GoalFits, Anchoring
  <1> QED
    BY <1>1, <1>4, <1>5, BeginFits

-----------------------------------------------------------------------------
(* The user.                                                               *)

LEMMA KeyFits ==
  ASSUME IInv, Key
  PROVE  IInv'
  <1>1. PICK t : t = [tip EXCEPT !.reading = Append(@, Len(@) + 1), !.cands = "none", !.nav = FALSE]
    OBVIOUS
  <1>2. tip' = t /\ Local(link)
    BY <1>1 DEF Key
  <1>3. Shapes /\ tip \in TipType /\ link \in LinkType
    BY DEF IInv, Shapes
  <1>4. Append(tip.reading, Len(tip.reading) + 1) \in Seq(Nat)
    BY <1>3 DEF TipType
  <1>5. t \in TipType /\ t.cands = "none" /\ t.nav = FALSE
    BY <1>1, <1>3, <1>4 DEF TipType
  <1>6. TipFits(t)
    BY <1>5 DEF TipFits
  <1> QED
    BY <1>2, <1>3, <1>5, <1>6, LocalFits

LEMMA TabFits ==
  ASSUME IInv, Tab
  PROVE  IInv'
  <1>1. /\ tip \in TipType /\ TipFits(tip) /\ tip' = tip /\ Begin("typo", Reanchor \o <<"typo">>)
        /\ tip.cands = "none" /\ tip.recon = <<>> /\ tip.reading # <<>>
    BY DEF Tab, Composing, IInv, Shapes
  <1>2. "typo" \in Finals("typo")
    BY DEF Finals
  <1> QED
    BY <1>1, <1>2, ReanchorBegins

LEMMA SettleFits ==
  ASSUME IInv, Settle
  PROVE  IInv'
  <1>1. /\ tip \in TipType /\ TipFits(tip) /\ tip' = tip /\ Begin("settle", Reanchor \o <<"live">>)
        /\ tip.cands = "none" /\ tip.recon = <<>> /\ tip.reading # <<>>
    BY DEF Settle, Composing, IInv, Shapes
  <1>2. "live" \in Finals("settle")
    BY DEF Finals
  <1> QED
    BY <1>1, <1>2, ReanchorBegins

LEMMA EscapeFits ==
  ASSUME IInv, Escape
  PROVE  IInv'
  <1>1. /\ tip \in TipType /\ Begin("restore", Reanchor \o <<"live">>)
        /\ tip.recon = <<>> /\ tip.reading # <<>>
        /\ tip' = [tip EXCEPT !.cands = "none", !.nav = FALSE]
    BY DEF Escape, Composing, IInv, Shapes
  <1>2. /\ tip' \in TipType /\ tip'.cands = "none" /\ tip'.nav = FALSE
        /\ tip'.recon = tip.recon /\ tip'.reading = tip.reading
    BY <1>1 DEF TipType
  <1>3. TipFits(tip')
    BY <1>2 DEF TipFits
  <1>4. "live" \in Finals("restore")
    BY DEF Finals
  <1> QED
    BY <1>1, <1>2, <1>3, <1>4, ReanchorBegins

LEMMA SnapshotCandidatesFits ==
  ASSUME IInv, SnapshotCandidates
  PROVE  IInv'
  <1>1. PICK t : t = [tip EXCEPT !.cands = "snapshot"]
    OBVIOUS
  <1>2. /\ tip' = t /\ Local(link) /\ tip.recon = <<>> /\ tip.reading # <<>>
        /\ tip \in TipType /\ link \in LinkType
    BY <1>1 DEF SnapshotCandidates, Composing, IInv, Shapes
  <1>3. t \in TipType /\ t.cands = "snapshot" /\ t.recon = <<>> /\ t.reading # <<>>
    BY <1>1, <1>2 DEF TipType
  <1>4. TipFits(t)
    BY <1>3 DEF TipFits
  <1> QED
    BY <1>2, <1>3, <1>4, LocalFits

LEMMA CommitCandidateFits ==
  ASSUME IInv, CommitCandidate
  PROVE  IInv'
  <1>1. PICK n \in 1..Len(tip.reading) :
           Begin("commit", <<IF n = Len(tip.reading) THEN "commit" ELSE "prefix">>)
    BY DEF CommitCandidate
  <1>2. PICK f : f = IF n = Len(tip.reading) THEN "commit" ELSE "prefix"
    OBVIOUS
  <1>3. f \in Finals("commit") /\ Begin("commit", <<f>>) /\ "commit" \in Using
    BY <1>1, <1>2 DEF Finals, Using
  <1>4. tip' = tip /\ tip.cands = "typo"
    BY DEF CommitCandidate
  <1> QED
    BY <1>3, <1>4, UseBegins

LEMMA DroppedFits ==
  ASSUME IInv, NEW t \in TipType, TipFits(t), tip' = t, Local(Dropped(link))
  PROVE  IInv'
  <1>1. Dropped(link) \in LinkType /\ ~Dropped(link).open /\ ~Dropped(link).owed
    BY LinksFit DEF IInv, Shapes
  <1> QED
    BY <1>1, LocalFits

LEMMA CommitSnapshotCandidateFits ==
  ASSUME IInv, CommitSnapshotCandidate
  PROVE  IInv'
  <1>1. /\ tip \in TipType /\ TipFits(tip) /\ tip.reading # <<>> /\ Local(Dropped(link))
    BY DEF CommitSnapshotCandidate, Composing, IInv, Shapes
  <1>2. PICK rest \in {<<>>, Tail(tip.reading)}, applied \in BOOLEAN :
           tip' = IF applied THEN [Nothing EXCEPT !.reading = rest] ELSE tip
    BY DEF CommitSnapshotCandidate
  <1>3. rest \in Seq(Nat)
    <2>1. tip.reading \in Seq(Nat)
      BY <1>1 DEF TipType
    <2> QED
      BY <1>1, <1>2, <2>1, HeadTailProperties, EmptySeq
  <1>4. PICK t : t = [Nothing EXCEPT !.reading = rest]
    OBVIOUS
  <1>5. t \in TipType /\ t.cands = "none" /\ t.nav = FALSE
    BY <1>3, <1>4 DEF Nothing, TipType
  <1>6. TipFits(t)
    BY <1>5 DEF TipFits
  <1> QED
    BY <1>1, <1>2, <1>4, <1>5, <1>6, DroppedFits

LEMMA ArrowFits ==
  ASSUME IInv, Arrow
  PROVE  IInv'
  <1>1. TipFits(tip) /\ tip \in TipType /\ tip' = tip /\ Begin("move", <<"move">>)
        /\ tip.cands # "none" /\ tip.recon = <<>>
    BY DEF Arrow, Composing, IInv, Shapes
  <1>2. tip.cands \in {"typo", "snapshot"}
    BY <1>1 DEF TipFits, TipType
  <1>3. "move" \in Finals("move") /\ "move" \in Using
    BY DEF Finals, Using
  <1> QED
    BY <1>1, <1>2, <1>3, UseBegins

LEMMA PickFits ==
  ASSUME IInv, Pick
  PROVE  IInv'
  <1>1. tip' = tip /\ Begin("select", <<"select">>) /\ tip.cands \in {"typo", "snapshot"}
    BY DEF Pick, IInv, TipFits
  <1>2. "select" \in Finals("select") /\ "select" \in Using
    BY DEF Finals, Using
  <1> QED
    BY <1>1, <1>2, UseBegins

LEMMA CommitClausesFits ==
  ASSUME IInv, CommitClauses
  PROVE  IInv'
  <1>1. tip' = tip /\ Begin("clauses", <<"clauses">>) /\ tip.cands \in {"typo", "snapshot"}
    BY DEF CommitClauses, IInv, TipFits
  <1>2. "clauses" \in Finals("clauses") /\ "clauses" \in Using
    BY DEF Finals, Using
  <1> QED
    BY <1>1, <1>2, UseBegins

LEMMA EnterFits ==
  ASSUME IInv, Enter
  PROVE  IInv'
  <1>1. tip' = Nothing /\ Local(Dropped(link))
    BY DEF Enter
  <1> QED
    BY <1>1, NothingFits, DroppedFits

LEMMA CaptureFits ==
  ASSUME IInv, NEW k \in {0, 1}, NEW f \in {"convert", "surface"}, (k = 0) <=> (f = "surface"),
         NEW plan, plan = <<"end">> \o Opened(k, f), Capture(plan)
  PROVE  IInv'
  <1>1. /\ tip = Nothing /\ tip' = [tip EXCEPT !.recon = <<"captured">>]
        /\ Begin("reconvert", plan) /\ Shapes
    BY DEF Capture, IInv
  <1>2. /\ tip' \in TipType /\ tip'.cands = "none" /\ tip'.nav = FALSE
        /\ tip'.recon = <<"captured">> /\ tip'.recon # <<>>
    <2>1. tip' = [reading |-> <<>>, recon |-> <<"captured">>, cands |-> "none", nav |-> FALSE]
      BY <1>1 DEF Nothing
    <2>2. <<>> \in Seq(Nat) /\ <<"captured">> # <<>>
      BY EmptySeq
    <2> QED
      BY <2>1, <2>2 DEF TipType
  <1>3. TipFits(tip')
    BY <1>2 DEF TipFits
  <1>4. sta'.pc = "run" /\ sta'.goal = "reconvert" /\ sta'.plan = plan
    BY <1>1, BegunIs
  <1>5. Len(Subject') = 1
    BY <1>2 DEF Subject
  <1>6. f \in Finals("reconvert") /\ "reconvert" \in Anchoring
    BY DEF Finals, Anchoring
  <1>7. k = IF f = "surface" THEN 0 ELSE Len(Subject')
    BY <1>5
  <1>8. Planned'
    BY <1>2, <1>4, <1>6, <1>7, OpeningPlanned
  <1>9. GoalFits'
    BY <1>2, <1>4 DEF GoalFits, Using
  <1> QED
    BY <1>1, <1>2, <1>3, <1>8, <1>9, BeginFits

LEMMA Pair ==
  ASSUME NEW a, NEW b
  PROVE  <<a>> \o <<b>> = <<a, b>>
  <1>1. PICK S : S = {a, b}
    OBVIOUS
  <1>2. PICK s, v, y : s = <<a>> /\ v = <<b>> /\ y = <<a, b>>
    OBVIOUS
  <1>3. /\ s \in Seq(S) /\ Len(s) = 1 /\ v \in Seq(S) /\ Len(v) = 1
        /\ y \in Seq(S) /\ Len(y) = 2
    BY <1>1, <1>2
  <1>4. s \o v = y
    <2>1. /\ s \o v \in Seq(S) /\ Len(s \o v) = 2
          /\ \A i \in 1..2 : (s \o v)[i] = IF i <= 1 THEN s[i] ELSE v[i - 1]
      <3>1. /\ s \o v \in Seq(S) /\ Len(s \o v) = Len(s) + Len(v)
            /\ \A i \in 1..Len(s) + Len(v) :
                  (s \o v)[i] = IF i <= Len(s) THEN s[i] ELSE v[i - Len(s)]
        BY <1>3, ConcatProperties, Zenon
      <3>2. Len(s) = 1 /\ Len(s) + Len(v) = 2
        BY <1>3
      <3> QED
        BY <3>1, <3>2, Zenon
    <2>2. \A i \in 1..2 : (s \o v)[i] = y[i]
      BY <1>2, <2>1
    <2> QED
      BY <1>3, <2>1, <2>2, SeqEqual
  <1> QED
    BY <1>2, <1>4

LEMMA Tuples ==
  ASSUME NEW a, NEW b, NEW c
  PROVE  <<a>> \o <<b, c>> = <<a, b, c>>
  <1>1. PICK S : S = {a, b, c}
    OBVIOUS
  <1>2. PICK s, v, y : s = <<a>> /\ v = <<b, c>> /\ y = <<a, b, c>>
    OBVIOUS
  <1>3. /\ s \in Seq(S) /\ Len(s) = 1 /\ v \in Seq(S) /\ Len(v) = 2
        /\ y \in Seq(S) /\ Len(y) = 3
    BY <1>1, <1>2
  <1>4. s \o v = y
    <2>1. /\ s \o v \in Seq(S) /\ Len(s \o v) = 3
          /\ \A i \in 1..3 : (s \o v)[i] = IF i <= 1 THEN s[i] ELSE v[i - 1]
      <3>1. /\ s \o v \in Seq(S) /\ Len(s \o v) = Len(s) + Len(v)
            /\ \A i \in 1..Len(s) + Len(v) :
                  (s \o v)[i] = IF i <= Len(s) THEN s[i] ELSE v[i - Len(s)]
        BY <1>3, ConcatProperties, Zenon
      <3>2. Len(s) = 1 /\ Len(s) + Len(v) = 3
        BY <1>3
      <3> QED
        BY <3>1, <3>2, Zenon
    <2>2. \A i \in 1..3 : (s \o v)[i] = y[i]
      BY <1>2, <2>1
    <2> QED
      BY <1>3, <2>1, <2>2, SeqEqual
  <1> QED
    BY <1>2, <1>4

LEMMA LongTuple ==
  ASSUME NEW a, NEW b, NEW c, NEW d
  PROVE  <<a>> \o <<b, c, d>> = <<a, b, c, d>>
  <1>1. PICK S : S = {a, b, c, d}
    OBVIOUS
  <1>2. PICK s, v, y : s = <<a>> /\ v = <<b, c, d>> /\ y = <<a, b, c, d>>
    OBVIOUS
  <1>3. /\ s \in Seq(S) /\ Len(s) = 1 /\ v \in Seq(S) /\ Len(v) = 3
        /\ y \in Seq(S) /\ Len(y) = 4
    BY <1>1, <1>2
  <1>4. s \o v = y
    <2>1. /\ s \o v \in Seq(S) /\ Len(s \o v) = 4
          /\ \A i \in 1..4 : (s \o v)[i] = IF i <= 1 THEN s[i] ELSE v[i - 1]
      <3>1. /\ s \o v \in Seq(S) /\ Len(s \o v) = Len(s) + Len(v)
            /\ \A i \in 1..Len(s) + Len(v) :
                  (s \o v)[i] = IF i <= Len(s) THEN s[i] ELSE v[i - Len(s)]
        BY <1>3, ConcatProperties, Zenon
      <3>2. Len(s) = 1 /\ Len(s) + Len(v) = 4
        BY <1>3
      <3> QED
        BY <3>1, <3>2, Zenon
    <2>2. \A i \in 1..4 : (s \o v)[i] = y[i]
      BY <1>2, <2>1
    <2> QED
      BY <1>3, <2>1, <2>2, SeqEqual
  <1> QED
    BY <1>2, <1>4

LEMMA CapturePlans ==
  /\ <<"end", "ensure", "insert", "convert">> = <<"end">> \o Opened(1, "convert")
  /\ <<"end", "ensure", "surface">> = <<"end">> \o Opened(0, "surface")
  <1>1. Inserts(1, "convert") = <<"insert", "convert">> /\ Inserts(0, "surface") = <<"surface">>
    BY DEF Inserts
  <1>2. /\ Opened(1, "convert") = <<"ensure", "insert", "convert">>
        /\ Opened(0, "surface") = <<"ensure", "surface">>
    <2>1. /\ Opened(1, "convert") = <<"ensure">> \o <<"insert", "convert">>
          /\ Opened(0, "surface") = <<"ensure">> \o <<"surface">>
      BY <1>1, Zenon DEF Opened
    <2>2. <<"ensure">> \o <<"insert", "convert">> = <<"ensure", "insert", "convert">>
      BY Tuples, Zenon
    <2>3. <<"ensure">> \o <<"surface">> = <<"ensure", "surface">>
      BY Pair, Zenon
    <2> QED
      BY <2>1, <2>2, <2>3, Zenon
  <1>3. <<"end">> \o <<"ensure", "insert", "convert">> = <<"end", "ensure", "insert", "convert">>
    BY LongTuple, Zenon
  <1>4. <<"end">> \o <<"ensure", "surface">> = <<"end", "ensure", "surface">>
    BY Tuples, Zenon
  <1> QED
    BY <1>2, <1>3, <1>4, Zenon

LEMMA UndoFits ==
  ASSUME IInv, Undo
  PROVE  IInv'
  <1>1. PICK plan : plan = <<"end", "ensure", "insert", "convert">>
    OBVIOUS
  <1>2. Capture(plan) /\ plan = <<"end">> \o Opened(1, "convert")
    BY <1>1, CapturePlans DEF Undo
  <1>3. 1 \in {0, 1} /\ "convert" \in {"convert", "surface"} /\ (1 = 0 <=> "convert" = "surface")
    OBVIOUS
  <1> QED
    BY <1>2, <1>3, CaptureFits, Zenon

LEMMA ReconvertFits ==
  ASSUME IInv, Reconvert
  PROVE  IInv'
  <1>1. CASE Capture(<<"end", "ensure", "insert", "convert">>)
    BY <1>1, UndoFits DEF Undo
  <1>2. CASE Capture(<<"end", "ensure", "surface">>)
    <2>1. PICK plan : plan = <<"end", "ensure", "surface">>
      OBVIOUS
    <2>2. Capture(plan) /\ plan = <<"end">> \o Opened(0, "surface")
      BY <1>2, <2>1, CapturePlans
    <2>3. 0 \in {0, 1} /\ "surface" \in {"convert", "surface"} /\ (0 = 0 <=> "surface" = "surface")
      OBVIOUS
    <2> QED
      BY <2>2, <2>3, CaptureFits, Zenon
  <1> QED
    BY <1>1, <1>2 DEF Reconvert

LEMMA CommitReconversionFits ==
  ASSUME IInv, CommitReconversion
  PROVE  IInv'
  <1>1. PICK record \in BOOLEAN : Begin("recommit", IF record THEN <<"correct">> ELSE <<>>)
    BY DEF CommitReconversion
  <1>2. tip' = tip /\ Shapes /\ tip \in TipType /\ TipFits(tip)
    BY DEF CommitReconversion, IInv, Shapes
  <1>3. CASE record
    <2>1. "correct" \in Finals("recommit") /\ Begin("recommit", <<"correct">>)
      BY <1>1, <1>3 DEF Finals
    <2> QED
      BY <1>2, <2>1, UseBegins DEF Using
  <1>4. CASE ~record
    <2>1. Begin("recommit", <<>>)
      BY <1>1, <1>4
    <2>2. sta'.pc = "run" /\ sta'.goal = "recommit" /\ sta'.plan = <<>>
      BY <1>2, <2>1, BegunIs
    <2>3. Planned'
      BY <2>2 DEF Planned
    <2>4. GoalFits'
      BY <2>2 DEF GoalFits, Anchoring, Using
    <2> QED
      BY <1>2, <2>1, <2>3, <2>4, BeginFits
  <1> QED
    BY <1>3, <1>4

LEMMA CancelReconversionFits ==
  ASSUME IInv, CancelReconversion
  PROVE  IInv'
  <1>1. tip' = Nothing /\ Local(Ended(link))
    BY DEF CancelReconversion
  <1>2. link \in LinkType /\ (link.owed => link.open)
    BY DEF IInv, Shapes, Alternation
  <1>3. Ended(link) \in LinkType /\ ~Ended(link).open /\ ~Ended(link).owed
    BY <1>2, LinksFit
  <1> QED
    BY <1>1, <1>3, NothingFits, LocalFits

LEMMA ResumeFits ==
  ASSUME IInv, Resume
  PROVE  IInv'
  <1>1. PICK l : l = [link EXCEPT !.cool = FALSE, !.mute = FALSE]
    OBVIOUS
  <1>2. tip' = tip /\ Local(IF tip = Nothing THEN Dropped(l) ELSE l)
    BY <1>1 DEF Resume
  <1>3. tip \in TipType /\ TipFits(tip) /\ link \in LinkType
    BY DEF IInv, Shapes
  <1>4. l \in LinkType /\ l.open = link.open /\ l.owed = link.owed
    BY <1>1, <1>3 DEF LinkType
  <1>5. Dropped(l) \in LinkType /\ ~Dropped(l).open /\ ~Dropped(l).owed
    BY <1>4, LinksFit
  <1>6. CASE tip = Nothing
    <2>1. Local(Dropped(l))
      BY <1>2, <1>6
    <2> QED
      BY <1>2, <1>3, <1>5, <2>1, LocalFits
  <1>7. CASE tip # Nothing
    <2>1. Local(l)
      BY <1>2, <1>7
    <2> QED
      BY <1>2, <1>3, <1>4, <2>1, LocalFits
  <1> QED
    BY <1>6, <1>7

LEMMA ReloadRetryFits ==
  ASSUME IInv, ReloadRetry
  PROVE  IInv'
  <1>1. /\ sta.pc = "idle" /\ link' = [link EXCEPT !.timer = FALSE]
        /\ sta' = [sta EXCEPT !.pc = "run", !.goal = "reload", !.plan = <<"reload">>]
        /\ UNCHANGED <<tip, wire, srv, env>>
        /\ Shapes /\ TipFits(tip) /\ Alternation /\ Anchored
    BY DEF ReloadRetry, IInv
  <1>2. /\ sta' = [pc |-> "run", plan |-> <<"reload">>, goal |-> "reload", stage |-> sta.stage,
                   once |-> sta.once]
        /\ sta.once \in BOOLEAN
    BY <1>1 DEF Shapes, IsCall
  <1>3. link' \in LinkType /\ link'.open = link.open /\ link'.owed = link.owed
    BY <1>1 DEF Shapes, LinkType
  <1>4. IsCall(sta') /\ sta'.pc = "run" /\ sta'.goal = "reload" /\ sta'.plan = <<"reload">>
    BY <1>2 DEF IsCall
  <1>5. Shapes'
    BY <1>1, <1>3, <1>4 DEF Shapes
  <1>6. TipFits(tip)'
    BY <1>1 DEF TipFits
  <1>7. GoalFits'
    BY <1>4 DEF GoalFits, Anchoring, Using
  <1>8. Planned'
    BY <1>4, <1>5, SinglePlanned DEF Shapes, Finals, Anchoring
  <1>9. Alternation'
    BY <1>1, <1>3, <1>4 DEF Alternation, Quiet
  <1>10. Anchored'
    BY <1>1, <1>3, <1>4 DEF Anchored, Consumed
  <1>11. AnswersMatchTheReading'
    BY <1>4 DEF AnswersMatchTheReading, Reading
  <1> QED
    BY <1>5, <1>6, <1>7, <1>8, <1>9, <1>10, <1>11 DEF IInv

LEMMA CooledFits ==
  ASSUME IInv, Cooled
  PROVE  IInv'
  <1>1. /\ link' = [link EXCEPT !.cool = FALSE] /\ UNCHANGED <<tip, sta, wire, srv, env>>
        /\ Shapes /\ TipFits(tip) /\ Planned /\ Alternation /\ Anchored /\ GoalFits
        /\ AnswersMatchTheReading
    BY DEF Cooled, IInv
  <1>2. link' \in LinkType /\ link'.open = link.open /\ link'.owed = link.owed
    BY <1>1 DEF Shapes, LinkType
  <1>3. Shapes'
    BY <1>1, <1>2 DEF Shapes
  <1>4. Planned'
    BY <1>1, <1>2, PlanStays
  <1>5. Alternation' /\ Anchored'
    BY <1>1, <1>2 DEF Alternation, Quiet, Anchored, Consumed
  <1>6. TipFits(tip)' /\ GoalFits' /\ AnswersMatchTheReading'
    BY <1>1 DEF TipFits, GoalFits, AnswersMatchTheReading, Reading, Answer
  <1> QED
    BY <1>3, <1>4, <1>5, <1>6 DEF IInv

-----------------------------------------------------------------------------
(* The call.                                                               *)

(* Between two requests the pipe is quiet and nothing is owed.             *)
LEMMA QuietFits ==
  ASSUME IInv, Shapes', Planned', tip' = tip, sta'.goal = sta.goal, sta'.pc # "await",
         ~link'.owed, Quiet',
         tip.cands = "typo" /\ link'.open /\ ~wire'.broken => srv'.text = tip.reading
  PROVE  IInv'
  <1>1. TipFits(tip) /\ GoalFits
    BY DEF IInv
  <1>2. TipFits(tip)' /\ GoalFits'
    BY <1>1 DEF TipFits, GoalFits
  <1>3. Alternation'
    BY DEF Alternation, Quiet
  <1>4. Anchored' /\ AnswersMatchTheReading'
    BY DEF Anchored, Consumed, AnswersMatchTheReading, Reading
  <1> QED
    BY <1>2, <1>3, <1>4 DEF IInv

(* A request has gone out.                                                 *)
LEMMA AwaitFits ==
  ASSUME IInv, Shapes', Planned', tip' = tip, sta'.goal = sta.goal, sta'.pc = "await",
         ~link'.owed, NEW r, r.own = TRUE, wire'.req = <<r>>, wire'.rep = <<>>,
         tip.cands = "typo" /\ link'.open /\ ~wire'.broken => srv'.text = tip.reading
  PROVE  IInv'
  <1>1. TipFits(tip) /\ GoalFits
    BY DEF IInv
  <1>2. TipFits(tip)' /\ GoalFits'
    BY <1>1 DEF TipFits, GoalFits
  <1>3. Head(<<r>>) = r /\ Tail(<<r>>) = <<>>
    OBVIOUS
  <1>4. Alternation'
    BY <1>3 DEF Alternation
  <1>5. Anchored' /\ AnswersMatchTheReading'
    BY DEF Anchored, Consumed, AnswersMatchTheReading, Reading
  <1> QED
    BY <1>2, <1>4, <1>5 DEF IInv

LEMMA SentIs ==
  ASSUME NEW x, IsWire(x), x.req = <<>>, x.rep = <<>>, NEW op, NEW text
  PROVE  LET r == [op |-> op, text |-> text, own |-> TRUE]
         IN /\ Sent(x, op, text) = [req |-> <<r>>, rep |-> <<>>, broken |-> x.broken]
            /\ IsWire(Sent(x, op, text)) /\ r.own = TRUE /\ Head(<<r>>) = r /\ <<r>> # <<>>
  <1>1. PICK r : r = [op |-> op, text |-> text, own |-> TRUE]
    OBVIOUS
  <1>2. [i \in DOMAIN <<>> |-> [<<>>[i] EXCEPT !.own = FALSE]] = <<>>
    OBVIOUS
  <1>3. Append(<<>>, r) = <<r>>
    OBVIOUS
  <1>4. x = [req |-> <<>>, rep |-> <<>>, broken |-> x.broken] /\ x.broken \in BOOLEAN
    BY DEF IsWire
  <1>5. Sent(x, op, text) = [req |-> <<r>>, rep |-> <<>>, broken |-> x.broken]
    <2>1. Sent(x, op, text) =
            [x EXCEPT !.req = Append([i \in DOMAIN x.req |-> [x.req[i] EXCEPT !.own = FALSE]], r),
                      !.rep = [i \in DOMAIN x.rep |-> [x.rep[i] EXCEPT !.own = FALSE]]]
      BY <1>1, <1>4 DEF Sent
    <2>2. Sent(x, op, text) = [x EXCEPT !.req = <<r>>, !.rep = <<>>]
      BY <1>2, <1>3, <2>1
    <2> QED
      BY <1>4, <2>2
  <1>6. IsWire(Sent(x, op, text))
    BY <1>4, <1>5 DEF IsWire
  <1> QED
    BY <1>1, <1>5, <1>6

(* What a planned call is made of: the plan in the new state.              *)
LEMMA RequestingPlanned ==
  ASSUME tip' = tip, sta'.goal = sta.goal,
         NEW k \in 0..Len(Subject), NEW f \in Finals(sta.goal), Requesting(k, f)'
  PROVE  Planned'
  <1>1. k \in (0..Len(Subject))' /\ f \in Finals(sta.goal)'
    BY DEF Subject, Finals
  <1>2. (\E j \in 0..Len(Subject) : \E g \in Finals(sta.goal) : Requesting(j, g) \/ Opening(j, g))'
    BY <1>1
  <1> QED
    BY <1>2 DEF Planned

LEMMA StillOpening ==
  ASSUME tip' = tip, sta'.goal = sta.goal,
         NEW k \in 0..Len(Subject), NEW f \in Finals(sta.goal), Opening(k, f)'
  PROVE  Planned'
  <1>1. k \in (0..Len(Subject))' /\ f \in Finals(sta.goal)'
    BY DEF Subject, Finals
  <1>2. (\E j \in 0..Len(Subject) : \E g \in Finals(sta.goal) : Requesting(j, g) \/ Opening(j, g))'
    BY <1>1
  <1> QED
    BY <1>2 DEF Planned

(* The connection is to be made next.                                      *)
LEMMA CourseFits ==
  ASSUME IInv, NEW k \in 0..Len(Subject), NEW f \in Finals(sta.goal), Opening(k, f),
         NEW l \in LinkType, ~l.open, ~l.owed, SetLink(l), tip' = tip,
         IsCall(sta'), sta'.pc \in {"run", "course"}, sta'.plan = Opened(k, f), sta'.goal = sta.goal
  PROVE  IInv'
  <1>1. Shapes /\ GoalFits
    BY DEF IInv
  <1>2. /\ link' = l /\ link' \in LinkType /\ IsWire(wire') /\ IsServer(srv')
        /\ wire'.req = <<>> /\ wire'.rep = <<>> /\ ~wire'.broken /\ srv'.text = <<>>
    BY <1>1, SetLinkGives
  <1>3. Shapes'
    BY <1>1, <1>2 DEF Shapes
  <1>4. sta.goal \in Anchoring /\ k = IF f = "surface" THEN 0 ELSE Len(Subject)
    BY DEF Opening
  <1>5. Opening(k, f)'
    BY <1>2, <1>4 DEF Opening, Opened, Subject
  <1>6. Planned'
    BY <1>5, StillOpening
  <1>7. tip.cands = "none"
    BY <1>1, <1>4 DEF GoalFits
  <1> QED
    BY <1>2, <1>3, <1>6, <1>7, QuietFits DEF Quiet

(* No connection could be made: the requests will find none.               *)
LEMMA UnconnectedFits ==
  ASSUME IInv, NEW k \in 0..Len(Subject), NEW f \in Finals(sta.goal), Opening(k, f),
         sta.pc \in {"run", "course"}, ~link.open,
         link' \in LinkType, ~link'.open, link'.owed = link.owed,
         tip' = tip, wire' = wire, srv' = srv,
         IsCall(sta'), sta'.pc = "run", sta'.plan = Inserts(k, f), sta'.goal = sta.goal
  PROVE  IInv'
  <1>1. Shapes /\ GoalFits /\ Alternation
    BY DEF IInv
  <1>2. sta.goal \in Anchoring /\ k = IF f = "surface" THEN 0 ELSE Len(Subject)
    BY DEF Opening
  <1>3. ~link.owed /\ Quiet
    BY <1>1 DEF Alternation
  <1>4. Shapes'
    BY <1>1 DEF Shapes
  <1>5. Requesting(k, f)'
    BY <1>2, <1>3 DEF Requesting
  <1>6. Planned'
    BY <1>5, RequestingPlanned
  <1>7. tip.cands = "none"
    BY <1>1, <1>2 DEF GoalFits
  <1> QED
    BY <1>3, <1>4, <1>6, <1>7, QuietFits DEF Quiet

LEMMA DoneIs ==
  ASSUME IsCall(sta)
  PROVE  /\ IsCall(Done) /\ Done.pc = "run" /\ Done.plan = Tail(sta.plan) /\ Done.goal = sta.goal
         /\ Done.stage = sta.stage
  <1>1. PICK p, q, g, s, o : sta = [pc |-> p, plan |-> q, goal |-> g, stage |-> s, once |-> o]
    BY DEF IsCall
  <1>2. Done = [pc |-> "run", plan |-> Tail(q), goal |-> g, stage |-> s, once |-> o]
    <2>1. Done = [sta EXCEPT !.pc = "run", !.plan = Tail(sta.plan)] /\ sta.plan = q
      BY <1>1 DEF Done
    <2>2. PICK z : z = Tail(q)
      OBVIOUS
    <2>3. Done = [sta EXCEPT !.pc = "run", !.plan = z]
      BY <2>1, <2>2
    <2> QED
      BY <1>1, <2>2, <2>3
  <1> QED
    BY <1>1, <1>2 DEF IsCall

LEMMA NoRequestFits ==
  ASSUME IInv, NoRequest
  PROVE  IInv'
  <1>1. sta.pc = "run" /\ GiveUp(link)
    BY DEF NoRequest
  <1> QED
    BY <1>1, GiveUpFits

LEMMA DropStepFits ==
  ASSUME IInv, DropStep
  PROVE  IInv'
  <1>1. /\ Shapes /\ tip \in TipType /\ link \in LinkType /\ IsCall(sta) /\ Planned
    BY DEF IInv, Shapes
  <1>2. /\ sta.plan # <<>> /\ Head(sta.plan) = "drop" /\ SetLink(Dropped(link)) /\ sta' = Done
        /\ tip' = tip
    BY DEF DropStep, At
  <1>3. PICK k \in 0..Len(Subject), f \in Finals(sta.goal) :
           Opening(k, f) /\ Tail(sta.plan) = Opened(k, f)
    BY <1>1, <1>2, WhichOpening
  <1>4. Dropped(link) \in LinkType /\ ~Dropped(link).open /\ ~Dropped(link).owed
    BY <1>1, LinksFit
  <1> QED
    BY <1>1, <1>2, <1>3, <1>4, DoneIs, CourseFits

LEMMA EndStepFits ==
  ASSUME IInv, EndStep
  PROVE  IInv'
  <1>1. /\ Shapes /\ tip \in TipType /\ link \in LinkType /\ IsCall(sta) /\ Planned
        /\ (link.owed => link.open)
    BY DEF IInv, Shapes, Alternation
  <1>2. /\ sta.plan # <<>> /\ Head(sta.plan) = "end" /\ SetLink(Ended(link)) /\ sta' = Done
        /\ tip' = tip
    BY DEF EndStep, At
  <1>3. PICK k \in 0..Len(Subject), f \in Finals(sta.goal) :
           Opening(k, f) /\ Tail(sta.plan) = Opened(k, f)
    BY <1>1, <1>2, WhichOpening
  <1>4. Ended(link) \in LinkType /\ ~Ended(link).open /\ ~Ended(link).owed
    BY <1>1, LinksFit
  <1> QED
    BY <1>1, <1>2, <1>3, <1>4, DoneIs, CourseFits

LEMMA EnsureStepFits ==
  ASSUME IInv, EnsureStep
  PROVE  IInv'
  <1>1. /\ Shapes /\ tip \in TipType /\ link \in LinkType /\ IsCall(sta) /\ Planned /\ GoalFits
        /\ IsWire(wire) /\ IsServer(srv) /\ Alternation
    BY DEF IInv, Shapes
  <1>2. /\ sta.pc = "run" /\ sta.plan # <<>> /\ Head(sta.plan) = "ensure"
        /\ UNCHANGED <<tip, link, wire, srv, env>>
        /\ sta' = IF link.open \/ (link.cool /\ link.mute) THEN Done
                  ELSE [sta EXCEPT !.pc = "course", !.once = FALSE,
                                   !.stage = IF link.cool THEN "probe" ELSE "first"]
    BY DEF EnsureStep, At
  <1>3. PICK k \in 0..Len(Subject), f \in Finals(sta.goal) :
           /\ Opening(k, f) /\ sta.goal \in Anchoring
           /\ sta.plan = Opened(k, f) /\ Tail(sta.plan) = Inserts(k, f) /\ ~link.open
    BY <1>1, <1>2, WhichOpening
  <1>4. CASE sta' = Done
    BY <1>1, <1>2, <1>3, <1>4, DoneIs, UnconnectedFits
  <1>5. CASE sta' = [sta EXCEPT !.pc = "course", !.once = FALSE,
                                !.stage = IF link.cool THEN "probe" ELSE "first"]
    <2>1. IsCall(sta') /\ sta'.pc = "course" /\ sta'.plan = sta.plan /\ sta'.goal = sta.goal
      <3>1. PICK p, q, g, s, o : sta = [pc |-> p, plan |-> q, goal |-> g, stage |-> s, once |-> o]
        BY <1>1 DEF IsCall
      <3>2. sta' = [pc |-> "course", plan |-> q, goal |-> g,
                    stage |-> IF link.cool THEN "probe" ELSE "first", once |-> FALSE]
        BY <1>5, <3>1
      <3> QED
        BY <3>1, <3>2 DEF IsCall
    <2>2. Shapes'
      BY <1>1, <1>2, <2>1 DEF Shapes
    <2>3. Opening(k, f)'
      BY <1>2, <1>3, <2>1 DEF Opening, Opened, Subject
    <2>4. Planned'
      BY <1>2, <2>1, <2>3, StillOpening
    <2>5. ~link.owed /\ Quiet /\ tip.cands = "none"
      BY <1>1, <1>2, <1>3 DEF Alternation, GoalFits
    <2>6. ~link'.owed /\ Quiet'
      BY <1>2, <2>5 DEF Quiet
    <2> QED
      BY <1>2, <2>1, <2>2, <2>4, <2>5, <2>6, QuietFits
  <1> QED
    BY <1>2, <1>4, <1>5

LEMMA ConnectFits ==
  ASSUME IInv, Connect
  PROVE  IInv'
  <1>1. /\ Shapes /\ tip \in TipType /\ link \in LinkType /\ IsCall(sta) /\ Planned /\ GoalFits
        /\ IsWire(wire) /\ IsServer(srv) /\ Alternation
    BY DEF IInv, Shapes
  <1>2. /\ sta.pc = "course"
        /\ sta' = [sta EXCEPT !.pc = "await", !.plan = <<"start">> \o @, !.once = TRUE]
        /\ wire' = Sent(NoPipe, "start", <<>>)
        /\ srv' = Cleared(srv)
        /\ UNCHANGED <<tip, link, env>>
    BY DEF Connect
  <1>3. PICK k \in 0..Len(Subject), f \in Finals(sta.goal) :
           Opening(k, f) /\ sta.goal \in Anchoring /\ sta.plan = Opened(k, f) /\ ~link.open
    BY <1>1, <1>2, WhichOpening
  <1>4. /\ IsCall(sta') /\ sta'.pc = "await" /\ sta'.goal = sta.goal
        /\ sta'.plan = <<"start">> \o Opened(k, f)
    <2>1. PICK p, q, g, s, o : /\ sta = [pc |-> p, plan |-> q, goal |-> g, stage |-> s, once |-> o]
                                 /\ o \in BOOLEAN
      BY <1>1 DEF IsCall
    <2>2. sta' = [pc |-> "await", plan |-> <<"start">> \o q, goal |-> g, stage |-> s, once |-> TRUE]
      BY <1>2, <2>1
    <2>3. q = Opened(k, f)
      BY <1>3, <2>1
    <2> QED
      BY <2>1, <2>2, <2>3 DEF IsCall
  <1>5. IsWire(NoPipe) /\ NoPipe.req = <<>> /\ NoPipe.rep = <<>>
    BY DEF NoPipe, IsWire
  <1>6. PICK r : r = [op |-> "start", text |-> <<>>, own |-> TRUE]
    OBVIOUS
  <1>7. /\ wire' = [req |-> <<r>>, rep |-> <<>>, broken |-> NoPipe.broken]
        /\ IsWire(wire') /\ r.own = TRUE /\ Head(<<r>>) = r
    BY <1>2, <1>5, <1>6, SentIs
  <1>a. r.op = "start" /\ wire'.req = <<r>> /\ wire'.rep = <<>>
    BY <1>6, <1>7
  <1>8. wire'.req = <<r>> /\ wire'.rep = <<>> /\ Head(wire'.req).op = "start"
    BY <1>7, <1>a, Zenon
  <1>9. IsServer(srv') /\ srv'.text = <<>>
    <2>1. srv' = [up |-> srv.up, text |-> <<>>, cached |-> FALSE, nav |-> FALSE]
      BY <1>1, <1>2 DEF Cleared, IsServer
    <2> QED
      BY <2>1 DEF IsServer
  <1>10. Shapes'
    BY <1>1, <1>2, <1>4, <1>7, <1>9 DEF Shapes
  <1>11. k = (IF f = "surface" THEN 0 ELSE Len(Subject)) /\ Subject' = Subject
    BY <1>2, <1>3 DEF Opening, Subject
  <1>12. Opening(k, f)'
    BY <1>2, <1>3, <1>4, <1>8, <1>9, <1>11 DEF Opening, Opened
  <1>13. Planned'
    BY <1>2, <1>4, <1>12, StillOpening
  <1>14. ~link.owed /\ tip.cands = "none"
    BY <1>1, <1>3 DEF Alternation, GoalFits
  <1> QED
    BY <1>2, <1>4, <1>7, <1>8, <1>10, <1>13, <1>14, AwaitFits

(* Steps of the course that leave plan, pipe and session alone.            *)
LEMMA WaitingFits ==
  ASSUME IInv, sta.pc # "await", tip' = tip, wire' = wire, IsServer(srv'), srv'.text = srv.text,
         link' \in LinkType, link'.open = link.open, link'.owed = link.owed,
         IsCall(sta'), sta'.plan = sta.plan, sta'.pc = sta.pc, sta'.goal = sta.goal
  PROVE  IInv'
  <1>1. Shapes /\ TipFits(tip) /\ Planned /\ GoalFits /\ Alternation /\ Anchored
    BY DEF IInv
  <1>2. Shapes'
    BY <1>1 DEF Shapes
  <1>3. Planned'
    BY <1>1, PlanStays
  <1>4. TipFits(tip)' /\ GoalFits'
    BY <1>1 DEF TipFits, GoalFits
  <1>5. Alternation' /\ Anchored'
    BY <1>1 DEF Alternation, Quiet, Anchored, Consumed
  <1>6. AnswersMatchTheReading'
    BY DEF AnswersMatchTheReading, Reading
  <1> QED
    BY <1>2, <1>3, <1>4, <1>5, <1>6 DEF IInv

LEMMA NotListeningFits ==
  ASSUME IInv, NotListening
  PROVE  IInv'
  <1>1. /\ tip \in TipType /\ link \in LinkType /\ IsCall(sta) /\ IsServer(srv)
    BY DEF IInv, Shapes
  <1>2. /\ sta.pc = "course" /\ sta' = [sta EXCEPT !.stage = After(@, link)]
        /\ link' = [link EXCEPT !.spawned = @ \/ sta'.stage = "second"]
        /\ UNCHANGED <<tip, wire, srv, env>>
    BY DEF NotListening
  <1>3. IsCall(sta') /\ sta'.plan = sta.plan /\ sta'.pc = sta.pc /\ sta'.goal = sta.goal
    <2>1. PICK p, q, g, s, o : /\ sta = [pc |-> p, plan |-> q, goal |-> g, stage |-> s, once |-> o]
                                 /\ o \in BOOLEAN
      BY <1>1 DEF IsCall
    <2>2. PICK a : a = After(s, link)
      OBVIOUS
    <2>3. sta' = [pc |-> p, plan |-> q, goal |-> g, stage |-> a, once |-> o]
      BY <1>2, <2>1, <2>2
    <2> QED
      BY <2>1, <2>3 DEF IsCall
  <1>4. PICK b \in BOOLEAN : link' = [link EXCEPT !.spawned = b]
    <2>1. (link.spawned \/ sta'.stage = "second") \in BOOLEAN
      OBVIOUS
    <2> QED
      BY <1>2, <2>1
  <1>5. link' \in LinkType /\ link'.open = link.open /\ link'.owed = link.owed
    BY <1>1, <1>4 DEF LinkType
  <1> QED
    BY <1>1, <1>2, <1>3, <1>5, WaitingFits

LEMMA SpawnFits ==
  ASSUME IInv, Spawn
  PROVE  IInv'
  <1>1. /\ tip \in TipType /\ link \in LinkType /\ IsCall(sta) /\ IsServer(srv)
    BY DEF IInv, Shapes
  <1>2. PICK a, u : /\ sta.pc = "course" /\ sta' = [sta EXCEPT !.stage = a]
                    /\ srv' = [srv EXCEPT !.up = u] /\ UNCHANGED <<tip, link, wire, env>>
    BY DEF Spawn
  <1>3. IsCall(sta') /\ sta'.plan = sta.plan /\ sta'.pc = sta.pc /\ sta'.goal = sta.goal
    <2>1. PICK p, q, g, s, o : /\ sta = [pc |-> p, plan |-> q, goal |-> g, stage |-> s, once |-> o]
                                 /\ o \in BOOLEAN
      BY <1>1 DEF IsCall
    <2>2. sta' = [pc |-> p, plan |-> q, goal |-> g, stage |-> a, once |-> o]
      BY <1>2, <2>1
    <2> QED
      BY <2>1, <2>2 DEF IsCall
  <1>4. IsServer(srv') /\ srv'.text = srv.text
    <2>1. PICK p, q, c, n : srv = [up |-> p, text |-> q, cached |-> c, nav |-> n]
      BY <1>1 DEF IsServer
    <2>2. srv' = [up |-> u, text |-> q, cached |-> c, nav |-> n]
      BY <1>2, <2>1
    <2> QED
      BY <2>1, <2>2 DEF IsServer
  <1> QED
    BY <1>1, <1>2, <1>3, <1>4, WaitingFits

LEMMA CourseFailsFits ==
  ASSUME IInv, CourseFails
  PROVE  IInv'
  <1>1. /\ tip \in TipType /\ link \in LinkType /\ IsCall(sta) /\ Planned
    BY DEF IInv, Shapes
  <1>2. /\ sta.pc = "course" /\ sta' = Done /\ UNCHANGED <<tip, wire, srv, env>>
        /\ link' = IF sta.stage = "failed" THEN [link EXCEPT !.cool = TRUE, !.mute = sta.once] ELSE link
    BY DEF CourseFails
  <1>3. PICK k \in 0..Len(Subject), f \in Finals(sta.goal) :
           Opening(k, f) /\ Tail(sta.plan) = Inserts(k, f) /\ ~link.open
    BY <1>1, <1>2, WhichOpening
  <1>4. link' \in LinkType /\ link'.open = link.open /\ link'.owed = link.owed
    <2>1. sta.once \in BOOLEAN
      BY <1>1 DEF IsCall
    <2> QED
      BY <1>1, <1>2, <2>1 DEF LinkType
  <1> QED
    BY <1>1, <1>2, <1>3, <1>4, DoneIs, UnconnectedFits

(* A connection that came to nothing: the course goes on without it.       *)
LEMMA SessionFailsFits ==
  ASSUME IInv, sta.plan # <<>>, Head(sta.plan) = "start", tip' = tip,
         NEW l \in LinkType, ~l.open, ~l.owed, NEW a, NEW b \in BOOLEAN, NEW c \in BOOLEAN, NEW d \in BOOLEAN,
         SetLink([l EXCEPT !.cool = b, !.mute = c, !.spawned = d]),
         sta' = [sta EXCEPT !.pc = "course", !.plan = Tail(sta.plan), !.stage = a]
  PROVE  IInv'
  <1>1. /\ tip \in TipType /\ IsCall(sta) /\ Planned
    BY DEF IInv, Shapes
  <1>2. PICK k \in 0..Len(Subject), f \in Finals(sta.goal) :
           Opening(k, f) /\ Tail(sta.plan) = Opened(k, f)
    BY <1>1, WhichOpening
  <1>3. PICK m : m = [l EXCEPT !.cool = b, !.mute = c, !.spawned = d]
    OBVIOUS
  <1>4. m \in LinkType /\ ~m.open /\ ~m.owed /\ SetLink(m)
    BY <1>3 DEF LinkType
  <1>5. IsCall(sta') /\ sta'.pc = "course" /\ sta'.plan = Opened(k, f) /\ sta'.goal = sta.goal
    <2>1. PICK p, q, g, s, o : /\ sta = [pc |-> p, plan |-> q, goal |-> g, stage |-> s, once |-> o]
                               /\ o \in BOOLEAN
      BY <1>1 DEF IsCall
    <2>2. PICK z : z = Tail(sta.plan)
      OBVIOUS
    <2>3. sta' = [pc |-> "course", plan |-> z, goal |-> g, stage |-> a, once |-> o]
      BY <2>1, <2>2
    <2> QED
      BY <1>2, <2>1, <2>2, <2>3 DEF IsCall
  <1> QED
    BY <1>2, <1>4, <1>5, CourseFits

LEMMA RejectedFits ==
  ASSUME IInv, Rejected
  PROVE  IInv'
  <1>1. link \in LinkType
    BY DEF IInv, Shapes
  <1>2. /\ sta.plan # <<>> /\ Head(sta.plan) = "start" /\ SessionFails(Dropped(link)) /\ tip' = tip
    BY DEF Rejected, Awaiting, SessionFails
  <1>3. PICK l : l = Dropped(link)
    OBVIOUS
  <1>4. l \in LinkType /\ ~l.open /\ ~l.owed
    BY <1>1, <1>3, LinksFit
  <1>5. PICK b, c, d, a : /\ b = (l.cool \/ sta.stage = "probe") /\ c = (l.mute \/ sta.stage = "probe")
                          /\ d = (l.spawned \/ After(sta.stage, l) = "second")
                          /\ a = After(sta.stage, l)
    OBVIOUS
  <1>6. b \in BOOLEAN /\ c \in BOOLEAN /\ d \in BOOLEAN
    BY <1>5
  <1>7. SessionFails(l)
    BY <1>2, <1>3
  <1>8. /\ SetLink([l EXCEPT !.cool = b, !.mute = c, !.spawned = d])
        /\ sta' = [sta EXCEPT !.pc = "course", !.plan = Tail(sta.plan), !.stage = a]
    BY <1>5, <1>7 DEF SessionFails
  <1> QED
    BY <1>2, <1>4, <1>6, <1>8, SessionFailsFits

LEMMA TimeoutInCourseFits ==
  ASSUME IInv, TimeoutInCourse
  PROVE  IInv'
  <1>1. /\ tip \in TipType /\ TipFits(tip) /\ link \in LinkType /\ Planned /\ Shapes
        /\ (link.owed => link.open)
    BY DEF IInv, Shapes, Alternation
  <1>2. PICK op \in {"start", "reload"} : Awaiting(op) /\ wire.rep = <<>>
    BY DEF TimeoutInCourse, Late
  <1>3. sta.pc = "await" /\ sta.plan # <<>> /\ Head(sta.plan) = op
    BY <1>2 DEF Awaiting
  <1>4. PICK l : l = IF Awaiting("start") THEN [link EXCEPT !.open = FALSE] ELSE Dropped(link)
    OBVIOUS
  <1>5. /\ tip' = tip
        /\ IF Goal("reload") THEN SetLink(l) /\ sta' = Idle
           ELSE /\ SetLink([l EXCEPT !.cool = @ \/ sta.stage = "probe", !.mute = @ \/ sta.stage = "probe",
                                     !.spawned = @ \/ After(sta.stage, l) = "second"])
                /\ sta' = [sta EXCEPT !.pc = "course", !.stage = After(@, l), !.plan = Tail(@)]
    BY <1>4 DEF TimeoutInCourse
  <1>6. CASE Goal("reload")
    <2>1. Head(sta.plan) = "reload"
      BY <1>1, <1>3, <1>6, WhichReload DEF Goal
    <2>2. l = Dropped(link)
      BY <1>4, <2>1 DEF Awaiting
    <2>3. l \in LinkType /\ ~l.open /\ ~l.owed
      BY <1>1, <2>2, LinksFit
    <2> QED
      BY <1>1, <1>5, <1>6, <2>3, RestFits
  <1>7. CASE ~Goal("reload")
    <2>1. PICK b, c, d, a : /\ b = (l.cool \/ sta.stage = "probe") /\ c = (l.mute \/ sta.stage = "probe")
                            /\ d = (l.spawned \/ After(sta.stage, l) = "second")
                            /\ a = After(sta.stage, l)
      OBVIOUS
    <2>2. b \in BOOLEAN /\ c \in BOOLEAN /\ d \in BOOLEAN
      BY <2>1
    <2>3. /\ SetLink([l EXCEPT !.cool = b, !.mute = c, !.spawned = d])
          /\ sta' = [sta EXCEPT !.pc = "course", !.plan = Tail(sta.plan), !.stage = a]
      BY <1>5, <1>7, <2>1
    <2>4. CASE op = "start"
      <3>1. Awaiting("start")
        BY <1>2, <2>4
      <3>2. l = [link EXCEPT !.open = FALSE]
        BY <1>4, <3>1
      <3>3. ~link.open
        BY <1>1, <1>3, <2>4, WhichOpening
      <3>4. l \in LinkType /\ ~l.open /\ ~l.owed
        BY <1>1, <3>2, <3>3 DEF LinkType
      <3> QED
        BY <1>3, <1>5, <2>2, <2>3, <2>4, <3>4, SessionFailsFits
    <2>5. CASE op = "reload"
      <3>1. l = Dropped(link)
        BY <1>3, <1>4, <2>5 DEF Awaiting
      <3>2. l \in LinkType /\ ~l.open /\ ~l.owed
        BY <1>1, <3>1, LinksFit
      <3>3. PICK k \in 0..Len(Subject), f \in Finals(sta.goal) :
               Opening(k, f) /\ Tail(sta.plan) = Opened(k, f)
        BY <1>1, <1>3, <1>7, <2>5, WhichOpening DEF Goal
      <3>4. PICK m : m = [l EXCEPT !.cool = b, !.mute = c, !.spawned = d]
        OBVIOUS
      <3>5. m \in LinkType /\ ~m.open /\ ~m.owed /\ SetLink(m)
        BY <2>2, <2>3, <3>2, <3>4 DEF LinkType
      <3>6. IsCall(sta') /\ sta'.pc = "course" /\ sta'.plan = Opened(k, f) /\ sta'.goal = sta.goal
        <4>1. PICK p, q, g, s, o : /\ sta = [pc |-> p, plan |-> q, goal |-> g, stage |-> s, once |-> o]
                                   /\ o \in BOOLEAN
          BY <1>1 DEF Shapes, IsCall
        <4>2. PICK z : z = Tail(sta.plan)
          OBVIOUS
        <4>3. sta' = [pc |-> "course", plan |-> z, goal |-> g, stage |-> a, once |-> o]
          BY <2>3, <4>1, <4>2
        <4> QED
          BY <3>3, <4>1, <4>2, <4>3 DEF IsCall
      <3> QED
        BY <1>5, <3>3, <3>5, <3>6, CourseFits
    <2> QED
      BY <2>4, <2>5
  <1> QED
    BY <1>6, <1>7

LEMMA AcceptedFits ==
  ASSUME IInv, Accepted
  PROVE  IInv'
  <1>1. /\ Shapes /\ tip \in TipType /\ link \in LinkType /\ IsCall(sta) /\ Planned /\ GoalFits
        /\ IsWire(wire) /\ IsServer(srv) /\ Alternation
    BY DEF IInv, Shapes
  <1>2. /\ sta.pc = "await" /\ sta.plan # <<>> /\ Head(sta.plan) = "start" /\ wire.rep # <<>>
        /\ link' = [link EXCEPT !.open = TRUE, !.retries = 0]
        /\ wire' = Sent(Rest, "reload", <<>>)
        /\ sta' = [sta EXCEPT !.plan = <<"reload">> \o Tail(sta.plan)]
        /\ UNCHANGED <<tip, srv, env>>
    BY DEF Accepted, Awaiting
  <1>3. PICK k \in 0..Len(Subject), f \in Finals(sta.goal) :
           /\ Opening(k, f) /\ sta.goal \in Anchoring /\ Tail(sta.plan) = Opened(k, f)
           /\ ~link.open /\ (~wire.broken => srv.text = <<>>)
    BY <1>1, <1>2, WhichOpening
  <1>4. IsWire(Rest) /\ Rest.req = <<>> /\ Rest.rep = <<>> /\ Rest.broken = wire.broken
    <2>1. wire.req = <<>> /\ Tail(wire.rep) = <<>>
      BY <1>1, <1>2 DEF Alternation
    <2>2. Rest = [req |-> <<>>, rep |-> <<>>, broken |-> wire.broken] /\ wire.broken \in BOOLEAN
      <3>1. PICK a, b, c : wire = [req |-> a, rep |-> b, broken |-> c] /\ c \in BOOLEAN
        BY <1>1 DEF IsWire
      <3>2. PICK z : z = Tail(wire.rep)
        OBVIOUS
      <3>3. Rest = [req |-> a, rep |-> z, broken |-> c]
        <4>1. Rest = [wire EXCEPT !.rep = z]
          BY <3>2 DEF Rest
        <4> QED
          BY <3>1, <4>1
      <3> QED
        BY <2>1, <3>1, <3>2, <3>3
    <2> QED
      BY <2>2 DEF IsWire
  <1>5. PICK r : r = [op |-> "reload", text |-> <<>>, own |-> TRUE]
    OBVIOUS
  <1>6. /\ wire' = [req |-> <<r>>, rep |-> <<>>, broken |-> wire.broken]
        /\ IsWire(wire') /\ r.own = TRUE /\ Head(<<r>>) = r /\ r.op = "reload"
    BY <1>2, <1>4, <1>5, SentIs
  <1>7. wire'.req = <<r>> /\ wire'.rep = <<>> /\ wire'.broken = wire.broken
    BY <1>6
  <1>8. Head(wire'.req).op = "reload"
    BY <1>6, <1>7, Zenon
  <1>9. /\ IsCall(sta') /\ sta'.pc = "await" /\ sta'.goal = sta.goal
        /\ sta'.plan = <<"reload">> \o Opened(k, f)
    <2>1. PICK p, q, g, s, o : /\ sta = [pc |-> p, plan |-> q, goal |-> g, stage |-> s, once |-> o]
                               /\ o \in BOOLEAN
      BY <1>1 DEF IsCall
    <2>2. PICK z : z = <<"reload">> \o Opened(k, f)
      OBVIOUS
    <2>3. sta' = [pc |-> p, plan |-> z, goal |-> g, stage |-> s, once |-> o]
      BY <1>2, <1>3, <2>1, <2>2
    <2>a. p = "await" /\ g = sta.goal
      BY <1>2, <2>1
    <2>4. IsCall(sta') /\ sta'.pc = "await" /\ sta'.goal = sta.goal /\ sta'.plan = z
      BY <2>a, <2>1, <2>3 DEF IsCall
    <2> QED
      BY <2>2, <2>4
  <1>10. link' \in LinkType /\ link'.open /\ link'.owed = link.owed /\ ~link.owed
    BY <1>1, <1>2, <1>3 DEF LinkType, Alternation
  <1>11. Shapes'
    BY <1>1, <1>2, <1>6, <1>9, <1>10 DEF Shapes
  <1>12. k = (IF f = "surface" THEN 0 ELSE Len(Subject)) /\ Subject' = Subject
    BY <1>2, <1>3 DEF Opening, Subject
  <1>13. Opening(k, f)'
    BY <1>2, <1>3, <1>7, <1>8, <1>9, <1>10, <1>12 DEF Opening, Opened
  <1>14. Planned'
    BY <1>2, <1>9, <1>13, StillOpening
  <1>15. tip.cands = "none"
    BY <1>1, <1>3 DEF GoalFits
  <1> QED
    BY <1>2, <1>6, <1>7, <1>9, <1>10, <1>11, <1>14, <1>15, AwaitFits

LEMMA ReloadedFits ==
  ASSUME IInv, Reloaded
  PROVE  IInv'
  <1>1. /\ Shapes /\ tip \in TipType /\ TipFits(tip) /\ link \in LinkType /\ IsCall(sta) /\ Planned
        /\ GoalFits /\ IsWire(wire) /\ IsServer(srv) /\ Alternation /\ Anchored
    BY DEF IInv, Shapes
  <1>2. PICK l : l = IF Answer.kind = "ok" THEN [link EXCEPT !.retries = 0] ELSE Rescheduled(link)
    OBVIOUS
  <1>3. /\ sta.pc = "await" /\ sta.plan # <<>> /\ Head(sta.plan) = "reload" /\ wire.rep # <<>>
        /\ tip' = tip /\ wire' = Rest /\ srv' = srv
        /\ IF Goal("reload") THEN link' = l /\ sta' = Idle
           ELSE /\ link' = [l EXCEPT !.cool = FALSE, !.mute = FALSE]
                /\ sta' = [Done EXCEPT !.plan = Tail(Tail(sta.plan))]
    BY <1>2 DEF Reloaded, Awaiting
  <1>4. l \in LinkType /\ l.open = link.open /\ l.owed = link.owed
    <2>1. [link EXCEPT !.retries = 0] \in LinkType
      BY <1>1 DEF LinkType
    <2>2. Rescheduled(link) \in LinkType
      <3>1. link.retries \in Nat /\ RetryMax \in Nat
        BY <1>1, LinkAssumption DEF LinkType
      <3>2. PICK n \in Nat, b \in BOOLEAN :
               /\ n = (IF link.retries <= RetryMax THEN link.retries + 1 ELSE link.retries)
               /\ b = (link.retries < RetryMax)
        <4>1. (IF link.retries <= RetryMax THEN link.retries + 1 ELSE link.retries) \in Nat
          BY <3>1
        <4>2. (link.retries < RetryMax) \in BOOLEAN
          BY <3>1
        <4> QED
          BY <4>1, <4>2, Zenon
      <3>3. Rescheduled(link) = [link EXCEPT !.retries = n, !.timer = b]
        BY <3>2 DEF Rescheduled
      <3> QED
        BY <1>1, <3>3 DEF LinkType
    <2>3. Rescheduled(link).open = link.open /\ Rescheduled(link).owed = link.owed
      BY <1>1 DEF Rescheduled, LinkType
    <2>4. [link EXCEPT !.retries = 0].open = link.open /\ [link EXCEPT !.retries = 0].owed = link.owed
      BY <1>1 DEF LinkType
    <2> QED
      BY <1>2, <2>1, <2>2, <2>3, <2>4
  <1>5. Reading /\ ~link.owed /\ wire.req = <<>> /\ Tail(wire.rep) = <<>>
    BY <1>1, <1>3 DEF Reading, Alternation
  <1>6. CASE Goal("reload")
    <2>1. link.open
      BY <1>1, <1>3, <1>6, WhichReload DEF Goal, Requesting
    <2>2. SetLink(l)
      BY <1>3, <1>4, <1>5, <1>6, <2>1 DEF SetLink
    <2>3. tip.cands = "typo" => wire.broken \/ srv.text = tip.reading
      BY <1>1, <1>6, <2>1 DEF Anchored, Consumed, Goal
    <2> QED
      BY <1>1, <1>3, <1>4, <1>5, <1>6, <2>2, <2>3, RestFits
  <1>7. CASE ~Goal("reload")
    <2>1. PICK k \in 0..Len(Subject), f \in Finals(sta.goal) :
             /\ Opening(k, f) /\ sta.goal \in Anchoring /\ Tail(sta.plan) = Opened(k, f)
             /\ link.open /\ (~wire.broken => srv.text = <<>>)
             /\ k = (IF f = "surface" THEN 0 ELSE Len(Subject))
      BY <1>1, <1>3, <1>7, WhichOpening DEF Goal
    <2>2. k \in Nat /\ Len(Subject) \in Nat
      BY <1>1, SubjectIs
    <2>3. Tail(Tail(sta.plan)) = Inserts(k, f)
      <3>1. Tail(Opened(k, f)) = Inserts(k, f)
        BY <2>2, PlanParts
      <3> QED
        BY <2>1, <3>1
    <2>4. IsCall(sta') /\ sta'.pc = "run" /\ sta'.plan = Inserts(k, f) /\ sta'.goal = sta.goal
      <3>1. IsCall(Done) /\ Done.pc = "run" /\ Done.goal = sta.goal
        BY <1>1, DoneIs
      <3>2. PICK p, q, g, s, o : /\ Done = [pc |-> p, plan |-> q, goal |-> g, stage |-> s, once |-> o]
                                 /\ o \in BOOLEAN
        BY <3>1 DEF IsCall
      <3>3. PICK z : z = Inserts(k, f)
        OBVIOUS
      <3>4. sta' = [pc |-> p, plan |-> z, goal |-> g, stage |-> s, once |-> o]
        BY <1>3, <1>7, <2>3, <3>2, <3>3
      <3> QED
        BY <3>1, <3>2, <3>3, <3>4 DEF IsCall
    <2>5. link' \in LinkType /\ link'.open = link.open /\ ~link'.owed
      BY <1>3, <1>4, <1>5, <1>7 DEF LinkType
    <2>6. IsWire(wire') /\ wire'.req = <<>> /\ wire'.rep = <<>> /\ wire'.broken = wire.broken
      <3>1. wire' = [req |-> <<>>, rep |-> <<>>, broken |-> wire.broken] /\ wire.broken \in BOOLEAN
        BY <1>1, <1>3, <1>5 DEF Rest, IsWire
      <3> QED
        BY <3>1 DEF IsWire
    <2>7. Shapes'
      BY <1>1, <1>3, <2>4, <2>5, <2>6 DEF Shapes
    <2>8. ~wire.broken /\ f # "surface" => srv.text = SubSeq(Subject, 1, Len(Subject) - k + 0)
      <3>1. SubSeq(Subject, 1, 0) = <<>>
        BY SubSeqEmpty
      <3>2. f # "surface" => Len(Subject) - k + 0 = 0
        BY <2>1, <2>2
      <3> QED
        BY <2>1, <3>1, <3>2
    <2>9. (srv.text = SubSeq(Subject, 1, Len(Subject) - k
                      + (IF k > 0 /\ sta.pc = "await" /\ wire.rep # <<>> THEN 1 ELSE 0)))'
            <=> srv.text = SubSeq(Subject, 1, Len(Subject) - k + 0)
      BY <1>3, <2>4 DEF Subject
    <2>10. Requesting(k, f)'
      BY <2>1, <2>2, <2>4, <2>5, <2>6, <2>8, <2>9 DEF Requesting
    <2>11. Planned'
      BY <1>3, <2>4, <2>10, RequestingPlanned
    <2>12. tip.cands = "none"
      BY <1>1, <2>1 DEF GoalFits
    <2> QED
      BY <1>3, <2>4, <2>5, <2>6, <2>7, <2>11, <2>12, QuietFits DEF Quiet
  <1> QED
    BY <1>6, <1>7

(* What an insert carries is the piece that is due.                        *)
LEMMA SegmentIsPiece ==
  ASSUME NEW k \in Nat, NEW g, NEW f \in Finals(g), sta.plan = Inserts(k, f)
  PROVE  Segment = Piece(k)
  <1>1. f \in Steps /\ "insert" \in Steps /\ f # "insert"
    BY FinalsAre
  <1>2. Cardinality({i \in DOMAIN sta.plan : sta.plan[i] = "insert"}) = k
    BY <1>1, InsertsLeft
  <1> QED
    BY <1>2 DEF Segment, Piece

LEMMA RestIs ==
  ASSUME IsWire(wire), Alternation, wire.rep # <<>>
  PROVE  IsWire(Rest) /\ Rest.req = <<>> /\ Rest.rep = <<>> /\ Rest.broken = wire.broken
  <1>1. wire.req = <<>> /\ Tail(wire.rep) = <<>>
    BY DEF Alternation
  <1>2. PICK a, b, c : wire = [req |-> a, rep |-> b, broken |-> c] /\ c \in BOOLEAN
    BY DEF IsWire
  <1>3. PICK z : z = Tail(wire.rep)
    OBVIOUS
  <1>4. Rest = [wire EXCEPT !.rep = z]
    BY <1>3 DEF Rest
  <1>5. Rest = [req |-> a, rep |-> z, broken |-> c]
    BY <1>2, <1>4
  <1> QED
    BY <1>1, <1>2, <1>3, <1>5 DEF IsWire

(* A request goes out on a connection that owes nothing.                   *)
LEMMA RequestFits ==
  ASSUME IInv, sta.pc = "run", link.open, ~link.owed,
         NEW k \in 0..Len(Subject), NEW f \in Finals(sta.goal), Requesting(k, f),
         NEW op, op = Lead(k, f), NEW text,
         k > 0 => text = Piece(k), f = "surface" => text = tip.recon,
         wire' = Sent(wire, op, text), sta' = [sta EXCEPT !.pc = "await"],
         tip' = tip, link' = link, srv' = srv
  PROVE  IInv'
  <1>1. /\ Shapes /\ IsCall(sta) /\ IsWire(wire) /\ IsServer(srv) /\ Alternation /\ Anchored
    BY DEF IInv, Shapes
  <1>2. wire.req = <<>> /\ wire.rep = <<>>
    BY <1>1 DEF Alternation, Quiet
  <1>3. PICK r : r = [op |-> op, text |-> text, own |-> TRUE]
    OBVIOUS
  <1>4. /\ wire' = [req |-> <<r>>, rep |-> <<>>, broken |-> wire.broken]
        /\ IsWire(wire') /\ r.own = TRUE /\ Head(<<r>>) = r
    BY <1>1, <1>2, <1>3, SentIs
  <1>5. wire'.req = <<r>> /\ wire'.rep = <<>> /\ wire'.broken = wire.broken
        /\ r.op = op /\ r.text = text
    <2>1. r.op = op /\ r.text = text
      BY <1>3
    <2>2. wire'.req = <<r>> /\ wire'.rep = <<>> /\ wire'.broken = wire.broken
      BY <1>4
    <2> QED
      BY <2>1, <2>2, Zenon
  <1>6. Head(wire'.req).op = op /\ Head(wire'.req).text = text
    BY <1>4, <1>5, Zenon
  <1>7. IsCall(sta') /\ sta'.pc = "await" /\ sta'.plan = sta.plan /\ sta'.goal = sta.goal
    <2>1. PICK p, q, g, s, o : /\ sta = [pc |-> p, plan |-> q, goal |-> g, stage |-> s, once |-> o]
                               /\ o \in BOOLEAN
      BY <1>1 DEF IsCall
    <2>2. sta' = [pc |-> "await", plan |-> q, goal |-> g, stage |-> s, once |-> o]
      BY <2>1
    <2> QED
      BY <2>1, <2>2 DEF IsCall
  <1>8. Shapes'
    BY <1>1, <1>4, <1>7 DEF Shapes
  <1>9. Subject' = Subject /\ Piece(k)' = Piece(k)
    BY DEF Subject, Piece
  <1>10. Requesting(k, f)'
    <2>1. sta'.goal \in Anchoring /\ f # "surface" /\ link'.open /\ ~wire'.broken =>
            srv.text = SubSeq(Subject, 1, Len(Subject) - k + 0)
      BY <1>5, <1>7 DEF Requesting
    <2>2. (srv.text = SubSeq(Subject, 1, Len(Subject) - k
                      + (IF k > 0 /\ sta.pc = "await" /\ wire.rep # <<>> THEN 1 ELSE 0)))'
            <=> srv.text = SubSeq(Subject, 1, Len(Subject) - k + 0)
      BY <1>5, <1>9
    <2>3. /\ (sta.plan = Inserts(k, f))'
          /\ (k > 0 => sta.goal \in Anchoring /\ f # "surface")'
      BY <1>7 DEF Requesting
    <2>4. (wire.req # <<>> => /\ Head(wire.req).op = IF k > 0 THEN "insert" ELSE f
                              /\ k > 0 => Head(wire.req).text = Piece(k)
                              /\ f = "surface" => Head(wire.req).text = tip.recon)'
      BY <1>6, <1>9 DEF Lead
    <2> QED
      BY <1>7, <2>1, <2>2, <2>3, <2>4 DEF Requesting
  <1>11. Planned'
    BY <1>7, <1>10, RequestingPlanned
  <1>12. tip.cands = "typo" /\ link'.open /\ ~wire'.broken => srv'.text = tip.reading
    BY <1>1, <1>5 DEF Anchored, Consumed
  <1> QED
    BY <1>4, <1>5, <1>7, <1>8, <1>11, <1>12, AwaitFits

LEMMA WriteFits ==
  ASSUME IInv, Write
  PROVE  IInv'
  <1>1. tip \in TipType /\ Planned
    BY DEF IInv, Shapes
  <1>2. PICK op \in Requests :
          /\ At(op) /\ ~link.owed
          /\ \/ /\ link.open
                /\ wire' = Sent(wire, op, Payload(op))
                /\ sta' = [sta EXCEPT !.pc = "await"]
                /\ UNCHANGED <<tip, link, srv, env>>
             \/ ~link.open /\ GiveUp(link)
    BY DEF Write
  <1>3. sta.pc = "run" /\ sta.plan # <<>> /\ Head(sta.plan) = op
    BY <1>2 DEF At
  <1>4. CASE ~link.open
    BY <1>2, <1>3, <1>4, GiveUpFits
  <1>5. CASE link.open
    <2>1. PICK k \in 0..Len(Subject), f \in Finals(sta.goal) :
             Requesting(k, f) /\ sta.plan = Inserts(k, f) /\ op = Lead(k, f)
      BY <1>1, <1>2, <1>3, WhichRequest
    <2>2. k \in Nat /\ f # "insert" /\ (k > 0 => f # "surface")
      BY <1>1, <2>1, SubjectIs, FinalsAre DEF Requesting
    <2>3. Segment = Piece(k)
      BY <2>1, <2>2, SegmentIsPiece
    <2>4. k > 0 => Payload(op) = Piece(k)
      BY <2>1, <2>3 DEF Payload, Lead
    <2>5. f = "surface" => Payload(op) = tip.recon
      BY <2>1, <2>2 DEF Payload, Lead
    <2> QED
      BY <1>2, <1>3, <1>5, <2>1, <2>4, <2>5, RequestFits
  <1> QED
    BY <1>4, <1>5

LEMMA ReloadFits ==
  ASSUME IInv, Reload
  PROVE  IInv'
  <1>1. tip \in TipType /\ Planned
    BY DEF IInv, Shapes
  <1>2. sta.pc = "run" /\ sta.plan # <<>> /\ Head(sta.plan) = "reload"
    BY DEF Reload, At
  <1>3. CASE link.open /\ ~link.owed /\ wire' = Sent(wire, "reload", <<>>)
             /\ sta' = [sta EXCEPT !.pc = "await"] /\ UNCHANGED <<tip, link, srv, env>>
    <2>1. sta.goal = "reload"
      BY <1>1, <1>2, WhichOpening
    <2>2. Requesting(0, "reload") /\ "reload" \in Finals(sta.goal) /\ 0 \in 0..Len(Subject)
      BY <1>1, <1>2, <2>1, WhichReload, SubjectIs DEF Finals
    <2>3. "reload" = Lead(0, "reload")
      BY DEF Lead
    <2> QED
      BY <1>2, <1>3, <2>2, <2>3, RequestFits
  <1>4. CASE GiveUp(Dropped(link)) \/ GiveUp(link)
    BY <1>2, <1>4, GiveUpFits
  <1> QED
    BY <1>3, <1>4 DEF Reload

LEMMA DrainFits ==
  ASSUME IInv, Drain
  PROVE  IInv'
  <1>1. /\ Shapes /\ tip \in TipType /\ link \in LinkType /\ Planned /\ GoalFits
        /\ IsWire(wire) /\ IsServer(srv) /\ Alternation
    BY DEF IInv, Shapes
  <1>2. PICK op \in Requests : At(op)
    BY DEF Drain
  <1>3. /\ sta.pc = "run" /\ sta.plan # <<>> /\ Head(sta.plan) = op /\ wire.rep # <<>> /\ link.owed
        /\ wire' = Rest /\ link' = [link EXCEPT !.owed = FALSE] /\ UNCHANGED <<tip, sta, srv, env>>
    BY <1>2 DEF Drain, At, Rest
  <1>4. PICK k \in 0..Len(Subject), f \in Finals(sta.goal) : Requesting(k, f)
    BY <1>1, <1>2, <1>3, WhichRequest
  <1>5. IsWire(wire') /\ wire'.req = <<>> /\ wire'.rep = <<>> /\ wire'.broken = wire.broken
    BY <1>1, <1>3, RestIs
  <1>6. link' \in LinkType /\ link'.open = link.open /\ ~link'.owed
    BY <1>1, <1>3 DEF LinkType
  <1>7. Shapes'
    BY <1>1, <1>3, <1>5, <1>6 DEF Shapes
  <1>8. sta.goal \notin Anchoring
    BY <1>3, <1>4 DEF Requesting
  <1>9. Requesting(k, f)'
    BY <1>3, <1>4, <1>6, <1>8 DEF Requesting
  <1>10. Planned'
    BY <1>3, <1>9, RequestingPlanned
  <1>11. tip.cands # "typo"
    BY <1>1, <1>3 DEF Alternation
  <1> QED
    BY <1>3, <1>5, <1>6, <1>7, <1>10, <1>11, QuietFits DEF Quiet

LEMMA DrainFailsFits ==
  ASSUME IInv, DrainFails
  PROVE  IInv'
  <1>1. sta.pc = "run" /\ (GiveUp(link) \/ GiveUp(Dropped(link)))
    BY DEF DrainFails, At
  <1> QED
    BY <1>1, GiveUpFits

LEMMA UnexpectedFits ==
  ASSUME IInv, Unexpected
  PROVE  IInv'
  <1>1. Reading /\ (GiveUp(link) \/ GiveUp(Dropped(link)))
    BY DEF Unexpected, Awaiting, Reading
  <1> QED
    BY <1>1, GiveUpFits

LEMMA GaveUpFits ==
  ASSUME IInv, GaveUp
  PROVE  IInv'
  <1>1. sta.pc = "gave_up" /\ GiveUp(link)
    BY DEF GaveUp
  <1> QED
    BY <1>1, GiveUpFits

LEMMA BrokenFits ==
  ASSUME IInv, Broken
  PROVE  IInv'
  <1>1. GiveUp(Dropped(link)) /\ ~Dropped(link).open
    BY LinksFit DEF Broken, IInv, Shapes
  <1> QED
    BY <1>1, GiveUpFits

LEMMA TimeoutKeepsFits ==
  ASSUME IInv, TimeoutKeeps
  PROVE  IInv'
  <1>1. /\ Shapes /\ tip \in TipType /\ TipFits(tip) /\ link \in LinkType /\ IsCall(sta) /\ Planned
        /\ GoalFits /\ IsWire(wire) /\ IsServer(srv) /\ Alternation
    BY DEF IInv, Shapes
  <1>2. PICK op \in {"insert", "live"} : Late(op)
    BY DEF TimeoutKeeps
  <1>3. /\ sta.pc = "await" /\ sta.plan # <<>> /\ Head(sta.plan) = op
        /\ link' = [link EXCEPT !.owed = TRUE] /\ sta' = [sta EXCEPT !.pc = "gave_up"]
        /\ UNCHANGED <<tip, wire, srv>>
    BY <1>2 DEF TimeoutKeeps, Late, Awaiting
  <1>4. PICK k \in 0..Len(Subject), f \in Finals(sta.goal) : Requesting(k, f) /\ op = Lead(k, f)
    BY <1>1, <1>2, <1>3, WhichRequest DEF Requests
  <1>5. sta.goal \in Anchoring
    BY <1>2, <1>4 DEF Requesting, Lead, Finals, Anchoring
  <1>6. link.open /\ tip.cands = "none"
    BY <1>1, <1>3, <1>4, <1>5 DEF Requesting, GoalFits
  <1>7. link' \in LinkType /\ link'.open /\ link'.owed
    BY <1>1, <1>3, <1>6 DEF LinkType
  <1>8. IsCall(sta') /\ sta'.pc = "gave_up" /\ sta'.plan = sta.plan /\ sta'.goal = sta.goal
    <2>1. PICK p, q, g, s, o : /\ sta = [pc |-> p, plan |-> q, goal |-> g, stage |-> s, once |-> o]
                               /\ o \in BOOLEAN
      BY <1>1 DEF IsCall
    <2>2. sta' = [pc |-> "gave_up", plan |-> q, goal |-> g, stage |-> s, once |-> o]
      BY <1>3, <2>1
    <2> QED
      BY <2>1, <2>2 DEF IsCall
  <1>9. Shapes'
    BY <1>1, <1>3, <1>7, <1>8 DEF Shapes
  <1>10. Requesting(k, f)'
    BY <1>4, <1>8 DEF Requesting
  <1>11. Planned'
    BY <1>3, <1>8, <1>10, RequestingPlanned
  <1>12. TipFits(tip)' /\ GoalFits'
    BY <1>1, <1>3, <1>8 DEF TipFits, GoalFits
  <1>13. Alternation'
    BY <1>1, <1>3, <1>6, <1>7, <1>8 DEF Alternation
  <1>14. Anchored' /\ AnswersMatchTheReading'
    BY <1>3, <1>6, <1>8 DEF Anchored, AnswersMatchTheReading, Reading
  <1> QED
    BY <1>9, <1>11, <1>12, <1>13, <1>14 DEF IInv

LEMMA TimeoutDropsFits ==
  ASSUME IInv, TimeoutDrops
  PROVE  IInv'
  <1>1. /\ Shapes /\ tip \in TipType /\ link \in LinkType /\ IsCall(sta) /\ Planned
    BY DEF IInv, Shapes
  <1>2. PICK op \in Requests \ {"insert", "live"} : Late(op) /\ SetLink(Dropped(link))
    BY DEF TimeoutDrops, DropsWhenLate
  <1>3. /\ sta.pc = "await" /\ sta.plan # <<>> /\ Head(sta.plan) = op
        /\ sta' = [sta EXCEPT !.pc = "gave_up"] /\ tip' = tip
    BY <1>2 DEF TimeoutDrops, Late, Awaiting
  <1>4. PICK k \in 0..Len(Subject), f \in Finals(sta.goal) : Requesting(k, f)
    BY <1>1, <1>2, <1>3, WhichRequest
  <1>5. PICK l : l = Dropped(link)
    OBVIOUS
  <1>6. l \in LinkType /\ ~l.open /\ ~l.owed
    BY <1>1, <1>5, LinksFit
  <1>7. /\ link' = l /\ IsWire(wire') /\ IsServer(srv') /\ wire'.req = <<>> /\ wire'.rep = <<>>
    BY <1>1, <1>2, <1>5, <1>6, SetLinkGives
  <1>8. IsCall(sta') /\ sta'.pc = "gave_up" /\ sta'.plan = sta.plan /\ sta'.goal = sta.goal
    <2>1. PICK p, q, g, s, o : /\ sta = [pc |-> p, plan |-> q, goal |-> g, stage |-> s, once |-> o]
                               /\ o \in BOOLEAN
      BY <1>1 DEF IsCall
    <2>2. sta' = [pc |-> "gave_up", plan |-> q, goal |-> g, stage |-> s, once |-> o]
      BY <1>3, <2>1
    <2> QED
      BY <2>1, <2>2 DEF IsCall
  <1>9. Shapes'
    BY <1>1, <1>3, <1>6, <1>7, <1>8 DEF Shapes
  <1>10. Requesting(k, f)'
    BY <1>4, <1>8 DEF Requesting
  <1>11. Planned'
    BY <1>3, <1>8, <1>10, RequestingPlanned
  <1> QED
    BY <1>3, <1>6, <1>7, <1>8, <1>9, <1>11, QuietFits DEF Quiet

(* The session holds the whole text when the last request is answered.     *)
LEMMA SessionIsWhole ==
  ASSUME tip \in TipType, NEW f, Requesting(0, f), sta.pc = "await", ~wire.broken,
         sta.goal \in Anchoring, f # "surface"
  PROVE  srv.text = Subject
  <1>1. srv.text = SubSeq(Subject, 1, Len(Subject) - 0 + 0)
    BY DEF Requesting
  <1>2. Len(Subject) \in Nat /\ Len(Subject) - 0 + 0 = Len(Subject)
    BY SubjectIs
  <1>3. SubSeq(Subject, 1, Len(Subject)) = Subject
    <2>1. CASE tip.recon = <<>>
      BY <2>1, SubjectIs, SubSeqFull
    <2>2. CASE tip.recon # <<>>
      <3>1. PICK S : S = {"captured"}
        OBVIOUS
      <3>2. Subject \in Seq(S)
        <4>1. Subject = <<"captured">> /\ "captured" \in S
          BY <2>2, <3>1, SubjectIs
        <4> QED
          BY <4>1, IsSequence
      <3> QED
        BY <3>2, SubSeqFull
    <2> QED
      BY <2>1, <2>2
  <1> QED
    BY <1>1, <1>2, <1>3

LEMMA AchieveFits ==
  ASSUME IInv, Reading, NEW f \in Finals(sta.goal), Requesting(0, f), f \in Requests, Achieve(f, link)
  PROVE  IInv'
  <1>1. /\ Shapes /\ tip \in TipType /\ TipFits(tip) /\ link \in LinkType /\ Planned
        /\ GoalFits /\ Alternation /\ Anchored
    BY DEF IInv, Shapes
  <1>2. sta.pc = "await" /\ ~link.owed /\ link.open
    BY <1>1 DEF Reading, Alternation, Requesting
  <1>3. Ended(link) \in LinkType /\ ~Ended(link).open /\ ~Ended(link).owed
    BY <1>1, <1>2, LinksFit
  <1>4. Dropped(link) \in LinkType /\ ~Dropped(link).open /\ ~Dropped(link).owed
    BY <1>1, LinksFit
  <1>5. ASSUME Finish(Nothing, Ended(link))
        PROVE  IInv'
    BY <1>3, <1>5, NothingFits, FinishClosed
  <1>6. ASSUME Finish(tip, Dropped(link))
        PROVE  IInv'
    BY <1>1, <1>4, <1>6, FinishClosed
  <1>7. ASSUME Finish(tip, link), sta.goal \notin {"commit", "clauses"}
        PROVE  IInv'
    <2>1. tip.cands = "typo" => wire.broken \/ srv.text = tip.reading
      BY <1>1, <1>2, <1>7 DEF Anchored, Consumed
    <2> QED
      BY <1>1, <1>2, <1>7, <2>1, FinishFits
  <1>8. ASSUME f = "typo", Finish([tip EXCEPT !.cands = "typo"], link)
        PROVE  IInv'
    <2>1. sta.goal = "typo"
      BY <1>8 DEF Finals
    <2>2. tip.cands = "none" /\ tip.recon = <<>> /\ tip.reading # <<>> /\ sta.goal \in Anchoring
      BY <1>1, <2>1 DEF GoalFits, Anchoring
    <2>3. PICK t : t = [tip EXCEPT !.cands = "typo"]
      OBVIOUS
    <2>4. /\ t \in TipType /\ t.reading = tip.reading /\ t.recon = tip.recon /\ t.nav = tip.nav
          /\ t.cands = "typo"
      BY <1>1, <2>3 DEF TipType
    <2>5. TipFits(t)
      BY <1>1, <2>2, <2>4 DEF TipFits
    <2>6. ~wire.broken => srv.text = tip.reading
      BY <1>1, <1>2, <1>8, <2>2, SessionIsWhole, SubjectIs
    <2> QED
      BY <1>2, <1>1, <1>8, <2>3, <2>4, <2>5, <2>6, FinishFits
  <1>9. ASSUME f \in {"convert", "surface"}, Finish([tip EXCEPT !.cands = "recon"], link)
        PROVE  IInv'
    <2>1. sta.goal = "reconvert"
      BY <1>9 DEF Finals
    <2>2. tip.cands = "none" /\ tip.recon # <<>>
      BY <1>1, <2>1 DEF GoalFits, Anchoring
    <2>3. PICK t : t = [tip EXCEPT !.cands = "recon"]
      OBVIOUS
    <2>4. /\ t \in TipType /\ t.recon = tip.recon /\ t.nav = tip.nav /\ t.cands = "recon"
      BY <1>1, <2>3 DEF TipType
    <2>5. TipFits(t)
      BY <1>1, <2>2, <2>4 DEF TipFits
    <2> QED
      BY <1>2, <1>1, <1>9, <2>3, <2>4, <2>5, FinishFits
  <1>10. ASSUME f = "prefix", Finish([Nothing EXCEPT !.reading = Tail(tip.reading)], link)
         PROVE  IInv'
    <2>1. sta.goal = "commit"
      BY <1>10 DEF Finals
    <2>2. tip.reading # <<>> /\ tip.reading \in Seq(Nat)
      BY <1>1, <2>1 DEF GoalFits, Using, TipFits, TipType
    <2>3. PICK rest \in Seq(Nat) : rest = Tail(tip.reading)
      BY <2>2, HeadTailProperties
    <2>4. PICK t : t = [Nothing EXCEPT !.reading = rest]
      OBVIOUS
    <2>5. t \in TipType /\ t.cands = "none" /\ t.nav = FALSE
      BY <2>3, <2>4 DEF Nothing, TipType
    <2>6. TipFits(t)
      BY <2>5 DEF TipFits
    <2> QED
      BY <1>1, <1>2, <1>10, <2>3, <2>4, <2>5, <2>6, FinishFits
  <1>11. ASSUME f = "move", Finish([tip EXCEPT !.nav = TRUE], link)
         PROVE  IInv'
    <2>1. sta.goal = "move"
      BY <1>11 DEF Finals
    <2>2. tip.cands \in {"typo", "snapshot"}
      BY <1>1, <2>1 DEF GoalFits, Using
    <2>3. PICK t : t = [tip EXCEPT !.nav = TRUE]
      OBVIOUS
    <2>4. /\ t \in TipType /\ t.reading = tip.reading /\ t.recon = tip.recon
          /\ t.cands = tip.cands
      BY <1>1, <2>3 DEF TipType
    <2>5. TipFits(t)
      BY <1>1, <2>2, <2>4 DEF TipFits
    <2>6. tip.cands = "typo" => wire.broken \/ srv.text = tip.reading
      BY <1>1, <1>2, <2>1 DEF Anchored, Consumed
    <2> QED
      BY <1>2, <1>1, <1>11, <2>3, <2>4, <2>5, <2>6, FinishFits
  <1>12. f \in {"live", "select"} => sta.goal \notin {"commit", "clauses"}
    BY DEF Finals
  <1>13. \/ f = "typo" /\ Finish([tip EXCEPT !.cands = "typo"], link)
         \/ f \in {"convert", "surface"} /\ Finish([tip EXCEPT !.cands = "recon"], link)
         \/ f \in {"live", "select"} /\ Finish(tip, link)
         \/ f = "prefix" /\ Finish([Nothing EXCEPT !.reading = Tail(tip.reading)], link)
         \/ f = "move" /\ Finish([tip EXCEPT !.nav = TRUE], link)
         \/ Finish(Nothing, Ended(link))
         \/ Finish(tip, Dropped(link))
    BY DEF Achieve, FullCommit, PrefixCommit, Requests
  <1> QED
    BY <1>5, <1>6, <1>7, <1>8, <1>9, <1>10, <1>11, <1>12, <1>13

LEMMA AnsweredFits ==
  ASSUME IInv, Answered
  PROVE  IInv'
  <1>1. /\ Shapes /\ tip \in TipType /\ link \in LinkType /\ IsCall(sta) /\ Planned /\ GoalFits
        /\ IsWire(wire) /\ IsServer(srv) /\ Alternation /\ Anchored
    BY DEF IInv, Shapes
  <1>2. PICK op \in Requests :
          /\ Awaiting(op) /\ wire.rep # <<>>
          /\ IF Tail(sta.plan) # <<>>
             THEN wire' = Rest /\ sta' = Done /\ UNCHANGED <<tip, link, srv, env>>
             ELSE Achieve(op, link)
    BY DEF Answered
  <1>3. sta.pc = "await" /\ sta.plan # <<>> /\ Head(sta.plan) = op
    BY <1>2 DEF Awaiting
  <1>4. PICK k \in 0..Len(Subject), f \in Finals(sta.goal) :
           /\ Requesting(k, f) /\ op = Lead(k, f)
           /\ k = 0 => Tail(sta.plan) = <<>>
           /\ k > 0 => k - 1 \in 0..Len(Subject) /\ Tail(sta.plan) = Inserts(k - 1, f)
                       /\ Tail(sta.plan) # <<>>
    BY <1>1, <1>2, <1>3, WhichRequest
  <1>5. k \in Nat
    BY <1>1, SubjectIs
  <1>6. CASE k = 0
    <2>1. Requesting(0, f) /\ f = op /\ Achieve(f, link)
      BY <1>2, <1>4, <1>6 DEF Lead
    <2>2. Reading
      BY <1>2, <1>3 DEF Reading
    <2> QED
      BY <1>2, <2>1, <2>2, AchieveFits
  <1>7. CASE k > 0
    <2>1. PICK j \in 0..Len(Subject) : j = k - 1
      BY <1>4, <1>7
    <2>2. wire' = Rest /\ sta' = Done /\ UNCHANGED <<tip, link, srv, env>> /\ Tail(sta.plan) = Inserts(j, f)
      BY <1>2, <1>4, <1>7, <2>1
    <2>3. IsCall(sta') /\ sta'.pc = "run" /\ sta'.plan = Inserts(j, f) /\ sta'.goal = sta.goal
      BY <1>1, <2>2, DoneIs
    <2>4. IsWire(wire') /\ wire'.req = <<>> /\ wire'.rep = <<>> /\ wire'.broken = wire.broken
      BY <1>1, <1>2, <2>2, RestIs
    <2>5. Shapes'
      BY <1>1, <2>2, <2>3, <2>4 DEF Shapes
    <2>6. sta.goal \in Anchoring /\ f # "surface" /\ link.open /\ ~link.owed
      BY <1>3, <1>4, <1>7 DEF Requesting
    <2>7. tip.cands = "none"
      BY <1>1, <2>6 DEF GoalFits
    <2>8. ~wire.broken => srv.text = SubSeq(Subject, 1, Len(Subject) - k + 1)
      BY <1>2, <1>3, <1>4, <1>7, <2>6 DEF Requesting
    <2>9. Len(Subject) - k + 1 = Len(Subject) - j + 0
      BY <1>1, <1>5, <2>1, SubjectIs
    <2>10. ~wire.broken => srv.text = SubSeq(Subject, 1, Len(Subject) - j + 0)
      BY <2>8, <2>9
    <2>11. (srv.text = SubSeq(Subject, 1, Len(Subject) - j
                      + (IF j > 0 /\ sta.pc = "await" /\ wire.rep # <<>> THEN 1 ELSE 0)))'
            <=> srv.text = SubSeq(Subject, 1, Len(Subject) - j + 0)
      BY <2>2, <2>3 DEF Subject
    <2>12. Requesting(j, f)'
      BY <2>2, <2>3, <2>4, <2>6, <2>10, <2>11 DEF Requesting
    <2>13. Planned'
      BY <2>2, <2>3, <2>12, RequestingPlanned
    <2> QED
      BY <2>2, <2>3, <2>4, <2>5, <2>6, <2>7, <2>13, QuietFits DEF Quiet
  <1> QED
    BY <1>5, <1>6, <1>7

-----------------------------------------------------------------------------
(* The engine.                                                             *)

LEMMA ReplyIs ==
  ASSUME IsWire(wire), Alternation, wire.req # <<>>, NEW kind, NEW text, Reply(kind, text)
  PROVE  LET a == [kind |-> kind, text |-> text, own |-> Head(wire.req).own]
         IN /\ IsWire(wire') /\ wire'.req = <<>> /\ wire'.rep = <<a>> /\ wire'.broken = wire.broken
            /\ Head(wire'.rep) = a /\ Tail(wire'.rep) = <<>> /\ wire'.rep # <<>>
            /\ a.kind = kind /\ a.text = text /\ a.own = Head(wire.req).own
            /\ tip' = tip /\ link' = link /\ sta' = sta
  <1>1. PICK a : a = [kind |-> kind, text |-> text, own |-> Head(wire.req).own]
    OBVIOUS
  <1>2. Tail(wire.req) = <<>> /\ wire.rep = <<>>
    BY DEF Alternation
  <1>3. PICK p, q, c : wire = [req |-> p, rep |-> q, broken |-> c] /\ c \in BOOLEAN
    BY DEF IsWire
  <1>4. /\ wire' = [wire EXCEPT !.req = Tail(wire.req), !.rep = Append(wire.rep, a)]
        /\ tip' = tip /\ link' = link /\ sta' = sta
    BY <1>1 DEF Reply
  <1>5. Append(<<>>, a) = <<a>> /\ Head(<<a>>) = a /\ Tail(<<a>>) = <<>> /\ <<a>> # <<>>
    OBVIOUS
  <1>6. PICK z : z = <<a>>
    OBVIOUS
  <1>7. wire' = [wire EXCEPT !.req = <<>>, !.rep = z]
    BY <1>2, <1>4, <1>5, <1>6
  <1>8. wire' = [req |-> <<>>, rep |-> z, broken |-> c]
    BY <1>3, <1>7
  <1>9. IsWire(wire') /\ wire'.req = <<>> /\ wire'.rep = z /\ wire'.broken = wire.broken
    BY <1>3, <1>8 DEF IsWire
  <1>10. Head(wire'.rep) = a /\ Tail(wire'.rep) = <<>> /\ wire'.rep # <<>>
    BY <1>5, <1>6, <1>9, Zenon
  <1>11. a.kind = kind /\ a.text = text /\ a.own = Head(wire.req).own
    BY <1>1
  <1> QED
    BY <1>1, <1>4, <1>6, <1>9, <1>10, <1>11, Zenon

(* What the engine does with a request, as far as texts go.                *)
LEMMA ServeGives ==
  ASSUME IsServer(srv), Serve
  PROVE  /\ wire.req # <<>> /\ ~wire.broken /\ IsServer(srv')
         /\ \E kind, text :
              /\ Reply(kind, text)
              /\ LET r == Head(wire.req)
                 IN \/ r.op = "insert" /\ kind = "reading" /\ srv'.text = srv.text \o r.text
                    \/ r.op \in {"typo", "live", "convert"} /\ text = srv.text /\ srv'.text = srv.text
                    \/ r.op = "surface" /\ text = r.text
                    \/ r.op \in {"commit", "prefix", "clauses"} /\ (kind = "error" \/ text = srv.text)
                    \/ r.op \in {"move", "select"} /\ (kind = "error" \/ text = srv.text)
                       /\ srv'.text = srv.text
                    \/ r.op \in {"start", "correct", "reload"} /\ srv'.text = srv.text
                       /\ kind \in {"session", "foreign", "ok", "error"}
  <1>1. PICK u, t, c, n : srv = [up |-> u, text |-> t, cached |-> c, nav |-> n]
    BY DEF IsServer
  <1>2. wire.req # <<>> /\ ~wire.broken
    BY DEF Serve
  <1>3. PICK r : r = Head(wire.req)
    OBVIOUS
  <1>4. CASE r.op = "start" /\ UNCHANGED srv /\ (Reply("session", <<>>) \/ Reply("foreign", <<>>))
    BY <1>2, <1>3, <1>4
  <1>5. CASE /\ r.op = "insert" /\ Reply("reading", srv.text \o r.text)
             /\ srv' = [srv EXCEPT !.text = srv.text \o r.text, !.cached = FALSE, !.nav = FALSE]
    <2>1. PICK x : x = srv.text \o r.text
      OBVIOUS
    <2>2. srv' = [up |-> u, text |-> x, cached |-> FALSE, nav |-> FALSE]
      BY <1>1, <1>5, <2>1
    <2>3. IsServer(srv') /\ srv'.text = x
      BY <2>2 DEF IsServer
    <2> QED
      BY <1>2, <1>3, <1>5, <2>1, <2>3
  <1>6. CASE /\ r.op \in {"typo", "live", "convert"} /\ Reply(Expected(r.op), srv.text)
             /\ srv' = [srv EXCEPT !.cached = TRUE, !.nav = FALSE]
    <2>1. srv' = [up |-> u, text |-> t, cached |-> TRUE, nav |-> FALSE]
      BY <1>1, <1>6
    <2>2. IsServer(srv') /\ srv'.text = srv.text
      BY <1>1, <2>1 DEF IsServer
    <2> QED
      BY <1>2, <1>3, <1>6, <2>2
  <1>7. CASE /\ r.op = "surface" /\ Reply("candidates", r.text)
             /\ srv' = [srv EXCEPT !.text = r.text, !.cached = TRUE]
    <2>1. PICK x : x = r.text
      OBVIOUS
    <2>2. srv' = [up |-> u, text |-> x, cached |-> TRUE, nav |-> n]
      BY <1>1, <1>7, <2>1
    <2>3. IsServer(srv')
      BY <2>2 DEF IsServer
    <2> QED
      BY <1>2, <1>3, <1>7, <2>3
  <1>8. CASE /\ r.op \in {"commit", "prefix"}
             /\ \/ /\ Reply("committed", srv.text)
                   /\ \E x : srv' = [srv EXCEPT !.text = x, !.cached = FALSE, !.nav = FALSE]
                \/ Reply("error", <<>>) /\ UNCHANGED srv
    <2>1. CASE Reply("error", <<>>) /\ UNCHANGED srv
      BY <1>2, <1>3, <1>8, <2>1
    <2>2. CASE Reply("committed", srv.text) /\ \E x : srv' = [srv EXCEPT !.text = x, !.cached = FALSE, !.nav = FALSE]
      <3>1. PICK x : srv' = [srv EXCEPT !.text = x, !.cached = FALSE, !.nav = FALSE]
        BY <2>2
      <3>2. srv' = [up |-> u, text |-> x, cached |-> FALSE, nav |-> FALSE]
        BY <1>1, <3>1
      <3>3. IsServer(srv')
        BY <3>2 DEF IsServer
      <3> QED
        BY <1>2, <1>3, <1>8, <2>2, <3>3
    <2> QED
      BY <1>8, <2>1, <2>2
  <1>9. CASE /\ r.op \in {"move", "select"}
             /\ \/ Reply("view", srv.text) /\ srv' = [srv EXCEPT !.nav = TRUE]
                \/ Reply("error", <<>>) /\ UNCHANGED srv
    <2>1. CASE Reply("error", <<>>) /\ UNCHANGED srv
      BY <1>2, <1>3, <1>9, <2>1
    <2>2. CASE Reply("view", srv.text) /\ srv' = [srv EXCEPT !.nav = TRUE]
      <3>1. srv' = [up |-> u, text |-> t, cached |-> c, nav |-> TRUE]
        BY <1>1, <2>2
      <3>2. IsServer(srv') /\ srv'.text = srv.text
        BY <1>1, <3>1 DEF IsServer
      <3> QED
        BY <1>2, <1>3, <1>9, <2>2, <3>2
    <2> QED
      BY <1>9, <2>1, <2>2
  <1>10. CASE /\ r.op = "clauses"
              /\ \/ Reply("committed", srv.text) /\ srv' = Cleared(srv)
                 \/ Reply("error", <<>>) /\ UNCHANGED srv
    <2>1. CASE Reply("error", <<>>) /\ UNCHANGED srv
      BY <1>2, <1>3, <1>10, <2>1
    <2>2. CASE Reply("committed", srv.text) /\ srv' = Cleared(srv)
      <3>1. srv' = [up |-> u, text |-> <<>>, cached |-> FALSE, nav |-> FALSE]
        BY <1>1, <2>2 DEF Cleared
      <3>2. IsServer(srv')
        BY <3>1 DEF IsServer
      <3> QED
        BY <1>2, <1>3, <1>10, <2>2, <3>2
    <2> QED
      BY <1>10, <2>1, <2>2
  <1>11. CASE r.op \in {"correct", "reload"} /\ UNCHANGED srv /\ (Reply("ok", <<>>) \/ Reply("error", <<>>))
    BY <1>2, <1>3, <1>11
  <1> QED
    BY <1>3, <1>4, <1>5, <1>6, <1>7, <1>8, <1>9, <1>10, <1>11 DEF Serve

(* A request is answered: the pipe, and what the answer may speak of.      *)
LEMMA ServedFits ==
  ASSUME IInv, wire.req # <<>>, NEW kind, NEW text, Reply(kind, text), IsServer(srv'), Planned',
         sta.pc = "await" /\ tip.cands = "typo" /\ sta.goal \notin {"commit", "clauses"} =>
           srv'.text = srv.text,
         sta.pc = "await" /\ kind \in {"candidates", "live", "committed", "view"}
           /\ tip.cands # "snapshot" => text = Subject
  PROVE  IInv'
  <1>1. Shapes /\ TipFits(tip) /\ GoalFits /\ Alternation /\ Anchored /\ IsWire(wire)
    BY DEF IInv, Shapes
  <1>2. PICK a : a = [kind |-> kind, text |-> text, own |-> Head(wire.req).own]
    OBVIOUS
  <1>3. /\ IsWire(wire') /\ wire'.req = <<>> /\ wire'.rep = <<a>> /\ wire'.broken = wire.broken
        /\ Head(wire'.rep) = a /\ Tail(wire'.rep) = <<>> /\ wire'.rep # <<>>
        /\ a.kind = kind /\ a.text = text /\ a.own = Head(wire.req).own
        /\ tip' = tip /\ link' = link /\ sta' = sta
    BY <1>1, <1>2, ReplyIs
  <1>4. Shapes'
    BY <1>1, <1>3 DEF Shapes
  <1>5. TipFits(tip)' /\ GoalFits'
    BY <1>1, <1>3 DEF TipFits, GoalFits
  <1>6. sta.pc # "await" => link.owed /\ tip.cands # "typo"
    BY <1>1 DEF Alternation, Quiet
  <1>7. Alternation'
    BY <1>1, <1>3, <1>6 DEF Alternation, Quiet
  <1>8. Anchored'
    <2>1. wire.rep = <<>>
      BY <1>1 DEF Alternation
    <2> QED
      BY <1>1, <1>3, <1>6, <2>1 DEF Anchored, Consumed
  <1>9. AnswersMatchTheReading'
    BY <1>3 DEF AnswersMatchTheReading, Reading, Answer, Subject
  <1> QED
    BY <1>4, <1>5, <1>7, <1>8, <1>9 DEF IInv

LEMMA ServeFits ==
  ASSUME IInv, Serve
  PROVE  IInv'
  <1>1. /\ Shapes /\ TipFits(tip) /\ tip \in TipType /\ GoalFits /\ Alternation /\ Anchored /\ Planned
        /\ IsWire(wire) /\ IsServer(srv)
    BY DEF IInv, Shapes
  <1>2. PICK r : r = Head(wire.req)
    OBVIOUS
  <1>3. wire.req # <<>> /\ ~wire.broken /\ IsServer(srv')
    BY <1>1, ServeGives
  <1>4. PICK kind, text :
          /\ Reply(kind, text)
          /\ \/ r.op = "insert" /\ kind = "reading" /\ srv'.text = srv.text \o r.text
             \/ r.op \in {"typo", "live", "convert"} /\ text = srv.text /\ srv'.text = srv.text
             \/ r.op = "surface" /\ text = r.text
             \/ r.op \in {"commit", "prefix", "clauses"} /\ (kind = "error" \/ text = srv.text)
             \/ r.op \in {"move", "select"} /\ (kind = "error" \/ text = srv.text)
                /\ srv'.text = srv.text
             \/ r.op \in {"start", "correct", "reload"} /\ srv'.text = srv.text
                /\ kind \in {"session", "foreign", "ok", "error"}
    BY <1>1, <1>2, ServeGives
  <1>5. /\ wire'.req = <<>> /\ wire'.rep # <<>> /\ wire'.broken = wire.broken
        /\ tip' = tip /\ link' = link /\ sta' = sta
    BY <1>1, <1>3, <1>4, ReplyIs
  <1>6. wire.rep = <<>>
    BY <1>1, <1>3 DEF Alternation
  <1>7. CASE sta.pc # "await"
    <2>1. link.owed /\ link.open
      BY <1>1, <1>3, <1>7 DEF Alternation, Quiet
    <2>2. CASE sta.pc = "idle" \/ (sta.pc = "run" /\ sta.plan = <<>> /\ sta.goal = "recommit")
      <3>1. Planned'
        <4>1. \A k \in 0..Len(Subject) : \A f \in Finals(sta.goal) :
                 sta.pc = "idle" => ~Requesting(k, f) /\ ~Opening(k, f)
          BY DEF Requesting, Opening
        <4> QED
          BY <1>1, <1>5, <2>2, <4>1 DEF Planned
      <3> QED
        BY <1>3, <1>4, <1>7, <3>1, ServedFits
    <2>3. ASSUME NEW k \in 0..Len(Subject), NEW f \in Finals(sta.goal), Requesting(k, f) \/ Opening(k, f)
          PROVE  IInv'
      <3>1. CASE Requesting(k, f)
        <4>1. Requesting(k, f)'
          BY <1>5, <1>7, <2>1, <3>1 DEF Requesting
        <4>2. Planned'
          BY <1>5, <4>1, RequestingPlanned
        <4> QED
          BY <1>3, <1>4, <1>7, <4>2, ServedFits
      <3>2. CASE Opening(k, f)
        <4>1. Opening(k, f)'
          BY <1>5, <1>7, <3>2 DEF Opening, Subject
        <4>2. Planned'
          BY <1>5, <4>1, StillOpening
        <4> QED
          BY <1>3, <1>4, <1>7, <4>2, ServedFits
      <3> QED
        BY <2>3, <3>1, <3>2
    <2> QED
      BY <1>1, <2>2, <2>3 DEF Planned
  <1>8. CASE sta.pc = "await"
    <2>1. PICK k \in 0..Len(Subject), f \in Finals(sta.goal) : Requesting(k, f) \/ Opening(k, f)
      BY <1>1, <1>8 DEF Planned
    <2>2. k \in Nat /\ Len(Subject) \in Nat
      BY <1>1, SubjectIs
    <2>3. CASE Opening(k, f)
      <3>1. r.op \in {"start", "reload"}
        BY <1>2, <1>3, <1>8, <2>3 DEF Opening
      <3>2. srv'.text = srv.text /\ kind \in {"session", "foreign", "ok", "error"}
        BY <1>4, <3>1
      <3>3. Opening(k, f)'
        BY <1>5, <1>8, <2>3, <3>2 DEF Opening, Subject
      <3>4. Planned'
        BY <1>5, <3>3, StillOpening
      <3> QED
        BY <1>3, <1>4, <3>2, <3>4, ServedFits
    <2>4. ASSUME Requesting(k, f),
                 sta.goal \in Anchoring /\ f # "surface" =>
                   srv'.text = SubSeq(Subject, 1, Len(Subject) - k + (IF k > 0 THEN 1 ELSE 0))
          PROVE  Planned'
      <3>1. (srv.text = SubSeq(Subject, 1, Len(Subject) - k
                      + (IF k > 0 /\ sta.pc = "await" /\ wire.rep # <<>> THEN 1 ELSE 0)))'
            <=> srv'.text = SubSeq(Subject, 1, Len(Subject) - k + (IF k > 0 THEN 1 ELSE 0))
        BY <1>5, <1>8 DEF Subject
      <3>2. Requesting(k, f)'
        BY <1>5, <1>8, <2>4, <3>1 DEF Requesting
      <3> QED
        BY <1>5, <3>2, RequestingPlanned
    <2>5. CASE Requesting(k, f) /\ k > 0
      <3>1. r.op = "insert" /\ r.text = Piece(k) /\ sta.goal \in Anchoring /\ f # "surface" /\ link.open
        BY <1>2, <1>3, <1>8, <2>5 DEF Requesting
      <3>2. kind = "reading" /\ srv'.text = srv.text \o Piece(k)
        BY <1>4, <3>1
      <3>3. srv.text = SubSeq(Subject, 1, Len(Subject) - k + 0)
        BY <1>3, <1>6, <1>8, <2>5, <3>1 DEF Requesting
      <3>4. Len(Subject) - k + 0 = Len(Subject) - k /\ k \in 1..Len(Subject)
        BY <2>2, <2>5
      <3>5. SubSeq(Subject, 1, Len(Subject) - k) \o Piece(k) = SubSeq(Subject, 1, Len(Subject) - k + 1)
        <4>1. CASE tip.recon = <<>>
          <5>1. Subject \in Seq(Nat) /\ Subject = tip.reading
            BY <1>1, <4>1, SubjectIs
          <5>2. Piece(k) = <<Subject[Len(Subject) - k + 1]>>
            BY <4>1, <5>1 DEF Piece
          <5> QED
            BY <3>4, <5>1, <5>2, OnePieceMore
        <4>2. CASE tip.recon # <<>>
          <5>1. Subject = <<"captured">> /\ Len(Subject) = 1 /\ Piece(k) = Subject
            BY <1>1, <4>2, SubjectIs DEF Piece
          <5>2. Len(Subject) - k = 0 /\ Len(Subject) - k + 1 = Len(Subject)
            BY <3>4, <5>1
          <5>3. PICK S : S = {"captured"}
            OBVIOUS
          <5>4. "captured" \in S
            BY <5>3
          <5>5. Subject \in Seq(S)
            BY <5>1, <5>4, IsSequence
          <5>6. SubSeq(Subject, 1, Len(Subject)) = Subject
            BY <5>5, SubSeqFull
          <5>7. SubSeq(Subject, 1, 0) = <<>>
            BY SubSeqEmpty
          <5>8. <<>> \o Subject = Subject
            BY <5>5, ConcatEmptySeq
          <5>9. /\ SubSeq(Subject, 1, Len(Subject) - k) = <<>>
                /\ SubSeq(Subject, 1, Len(Subject) - k + 1) = Subject
            BY <5>2, <5>6, <5>7
          <5> QED
            BY <5>1, <5>8, <5>9, Zenon
        <4> QED
          BY <4>1, <4>2
      <3>6. srv'.text = SubSeq(Subject, 1, Len(Subject) - k + 1)
        BY <3>2, <3>3, <3>4, <3>5
      <3>7. Planned'
        BY <2>4, <2>5, <3>6
      <3>8. tip.cands = "none"
        BY <1>1, <3>1 DEF GoalFits
      <3> QED
        BY <1>3, <1>4, <3>2, <3>7, <3>8, ServedFits
    <2>6. CASE Requesting(k, f) /\ k = 0
      <3>1. r.op = f /\ (f = "surface" => r.text = tip.recon) /\ Requesting(0, f)
        BY <1>2, <1>3, <1>8, <2>6 DEF Requesting
      <3>2. sta.goal \in Anchoring /\ f # "surface" => srv.text = Subject
        BY <1>1, <1>3, <1>8, <3>1, SessionIsWhole
      <3>3. sta.goal \in Anchoring => f \in {"typo", "live", "convert", "surface"}
        BY FinalsAre
      <3>4. sta.goal \in Anchoring /\ f # "surface" =>
              srv.text = SubSeq(Subject, 1, Len(Subject) - k + (IF k > 0 THEN 1 ELSE 0))
        BY <1>3, <1>6, <1>8, <2>6 DEF Requesting
      <3>5. sta.goal \in Anchoring /\ f # "surface" => srv'.text = srv.text
        BY <1>4, <3>1, <3>3
      <3>6. Planned'
        BY <2>4, <2>6, <3>4, <3>5
      <3>7. ASSUME tip.cands = "typo", sta.goal \notin {"commit", "clauses"}
            PROVE  srv'.text = srv.text
        <4>1. sta.goal \notin Anchoring
          BY <1>1, <3>7 DEF GoalFits
        <4>2. f \in {"move", "select", "correct", "reload"}
          BY <3>7, <4>1 DEF Finals, Anchoring
        <4> QED
          BY <1>4, <3>1, <4>2
      <3>8. ASSUME kind \in {"candidates", "live", "committed", "view"}, tip.cands # "snapshot"
            PROVE  text = Subject
        <4>1. CASE f \in {"typo", "live", "convert"}
          <5>1. sta.goal \in Anchoring
            BY <4>1 DEF Finals, Anchoring
          <5> QED
            BY <1>4, <3>1, <3>2, <4>1, <5>1
        <4>2. CASE f = "surface"
          <5>1. sta.goal = "reconvert"
            BY <4>2 DEF Finals
          <5>2. tip.recon # <<>>
            BY <1>1, <5>1 DEF GoalFits
          <5> QED
            BY <1>1, <1>4, <3>1, <4>2, <5>2, SubjectIs
        <4>3. CASE f \in {"commit", "prefix", "clauses", "move", "select"}
          <5>1. sta.goal \in Using
            BY <4>3 DEF Finals, Using
          <5>2. tip.cands = "typo" /\ tip.recon = <<>>
            BY <1>1, <3>8, <5>1 DEF GoalFits, TipFits
          <5>3. srv.text = tip.reading
            BY <1>1, <1>3, <1>6, <1>8, <2>6, <5>2 DEF Anchored, Consumed, Requesting
          <5>4. text = srv.text
            BY <1>4, <3>1, <3>8, <4>3
          <5> QED
            BY <5>2, <5>3, <5>4 DEF Subject
        <4>4. CASE f \in {"correct", "reload"}
          BY <1>4, <3>1, <3>8, <4>4
        <4> QED
          BY <4>1, <4>2, <4>3, <4>4, FinalsAre DEF Requests
      <3> QED
        BY <1>3, <1>4, <3>6, <3>7, <3>8, ServedFits
    <2> QED
      BY <2>1, <2>2, <2>3, <2>5, <2>6
  <1> QED
    BY <1>7, <1>8

LEMMA DieFits ==
  ASSUME IInv, Die
  PROVE  IInv'
  <1>1. /\ Shapes /\ TipFits(tip) /\ tip \in TipType /\ GoalFits /\ Alternation /\ Anchored /\ Planned
        /\ IsWire(wire) /\ IsServer(srv) /\ AnswersMatchTheReading /\ link \in LinkType
    BY DEF IInv, Shapes
  <1>2. PICK b : b = (link.open \/ Awaiting("start"))
    OBVIOUS
  <1>3. /\ srv' = [Cleared(srv) EXCEPT !.up = FALSE]
        /\ wire' = [wire EXCEPT !.req = <<>>, !.broken = b]
        /\ tip' = tip /\ link' = link /\ sta' = sta
    BY <1>2 DEF Die
  <1>4. b \in BOOLEAN
    BY <1>1, <1>2 DEF LinkType
  <1>5. IsWire(wire') /\ wire'.req = <<>> /\ wire'.rep = wire.rep /\ wire'.broken = b
    <2>1. PICK p, q, c : wire = [req |-> p, rep |-> q, broken |-> c]
      BY <1>1 DEF IsWire
    <2>2. wire' = [req |-> <<>>, rep |-> q, broken |-> b]
      BY <1>3, <2>1
    <2> QED
      BY <1>4, <2>1, <2>2 DEF IsWire
  <1>6. IsServer(srv')
    <2>1. PICK u, t, c, n : srv = [up |-> u, text |-> t, cached |-> c, nav |-> n]
      BY <1>1 DEF IsServer
    <2>2. srv' = [up |-> FALSE, text |-> <<>>, cached |-> FALSE, nav |-> FALSE]
      BY <1>3, <2>1 DEF Cleared
    <2> QED
      BY <2>2 DEF IsServer
  <1>7. Shapes'
    BY <1>1, <1>3, <1>5, <1>6 DEF Shapes
  <1>8. TipFits(tip)' /\ GoalFits'
    BY <1>1, <1>3 DEF TipFits, GoalFits
  <1>9. Alternation'
    BY <1>1, <1>3, <1>5 DEF Alternation, Quiet
  <1>10. Anchored'
    BY <1>2, <1>3, <1>5 DEF Anchored
  <1>11. AnswersMatchTheReading'
    BY <1>1, <1>3, <1>5 DEF AnswersMatchTheReading, Reading, Answer
  <1>12. Planned'
    <2>1. CASE sta.pc = "idle" \/ (sta.pc = "run" /\ sta.plan = <<>> /\ sta.goal = "recommit")
      <3>1. \A k \in 0..Len(Subject) : \A f \in Finals(sta.goal) :
               sta.pc = "idle" => ~Requesting(k, f) /\ ~Opening(k, f)
        BY DEF Requesting, Opening
      <3> QED
        BY <1>1, <1>3, <2>1, <3>1 DEF Planned
    <2>2. ASSUME NEW k \in 0..Len(Subject), NEW f \in Finals(sta.goal), Requesting(k, f)
          PROVE  Planned'
      <3>1. Requesting(k, f)'
        BY <1>2, <1>3, <1>5, <2>2 DEF Requesting
      <3> QED
        BY <1>3, <3>1, RequestingPlanned
    <2>3. ASSUME NEW k \in 0..Len(Subject), NEW f \in Finals(sta.goal), Opening(k, f)
          PROVE  Planned'
      <3>1. sta.plan = <<"start">> \o Opened(k, f) /\ sta.pc = "await" => b = TRUE
        <4>1. k \in Nat
          BY <1>1, SubjectIs
        <4>2. /\ <<"start">> \o Opened(k, f) # <<>>
              /\ Head(<<"start">> \o Opened(k, f)) = "start"
          BY <4>1, PlanParts DEF Steps
        <4> QED
          BY <1>2, <4>2 DEF Awaiting
      <3>2. link.open => b = TRUE
        BY <1>2
      <3>3. Opening(k, f)'
        BY <1>3, <1>5, <2>3, <3>1, <3>2 DEF Opening, Opened, Subject
      <3> QED
        BY <1>3, <3>3, StillOpening
    <2> QED
      BY <1>1, <2>1, <2>2, <2>3 DEF Planned
  <1> QED
    BY <1>7, <1>8, <1>9, <1>10, <1>11, <1>12 DEF IInv

LEMMA ListenFits ==
  ASSUME IInv, Listen
  PROVE  IInv'
  <1>1. /\ Shapes /\ TipFits(tip) /\ GoalFits /\ Alternation /\ Anchored /\ Planned /\ IsServer(srv)
        /\ AnswersMatchTheReading
    BY DEF IInv, Shapes
  <1>2. srv' = [srv EXCEPT !.up = TRUE] /\ UNCHANGED <<tip, link, sta, wire, env>>
    BY DEF Listen
  <1>3. IsServer(srv') /\ srv'.text = srv.text
    <2>1. PICK u, t, c, n : srv = [up |-> u, text |-> t, cached |-> c, nav |-> n]
      BY <1>1 DEF IsServer
    <2>2. srv' = [up |-> TRUE, text |-> t, cached |-> c, nav |-> n]
      BY <1>2, <2>1
    <2> QED
      BY <2>1, <2>2 DEF IsServer
  <1>4. Shapes'
    BY <1>1, <1>2, <1>3 DEF Shapes
  <1>5. Planned'
    BY <1>1, <1>2, <1>3, PlanStays
  <1>6. TipFits(tip)' /\ GoalFits' /\ AnswersMatchTheReading'
    BY <1>1, <1>2 DEF TipFits, GoalFits, AnswersMatchTheReading, Reading, Answer
  <1>7. Alternation' /\ Anchored'
    BY <1>1, <1>2, <1>3 DEF Alternation, Quiet, Anchored, Consumed
  <1> QED
    BY <1>4, <1>5, <1>6, <1>7 DEF IInv

-----------------------------------------------------------------------------
(* The theorems.                                                           *)

LEMMA InitFits ==
  ASSUME Init
  PROVE  IInv
  <1>1. /\ tip = Nothing /\ sta.pc = "idle" /\ sta.plan = <<>> /\ sta.goal = "none"
        /\ wire = NoPipe
    BY DEF Init
  <1>2. IsCall(sta) /\ link \in LinkType /\ ~link.open /\ ~link.owed
    BY DEF Init, IsCall, LinkType
  <1>3. IsServer(srv)
    BY DEF Init, IsServer
  <1>4. IsWire(wire) /\ wire.req = <<>> /\ wire.rep = <<>>
    BY <1>1 DEF NoPipe, IsWire
  <1>5. Shapes /\ TipFits(tip)
    BY <1>1, <1>2, <1>3, <1>4, NothingFits DEF Shapes
  <1>6. GoalFits
    BY <1>1 DEF GoalFits, Anchoring, Using
  <1>7. Planned /\ Alternation /\ Anchored /\ AnswersMatchTheReading
    BY <1>1, <1>2, <1>4, NothingFits
       DEF Planned, Alternation, Quiet, Anchored, AnswersMatchTheReading, Reading
  <1> QED
    BY <1>5, <1>6, <1>7 DEF IInv

LEMMA StutterFits ==
  ASSUME IInv, UNCHANGED vars
  PROVE  IInv'
  <1>1. tip' = tip /\ link' = link /\ sta' = sta /\ wire' = wire /\ srv' = srv
    BY DEF vars
  <1>2. /\ Shapes /\ TipFits(tip) /\ GoalFits /\ Alternation /\ Anchored /\ Planned
        /\ AnswersMatchTheReading
    BY DEF IInv
  <1>3. Shapes' /\ TipFits(tip)' /\ GoalFits'
    BY <1>1, <1>2 DEF Shapes, TipFits, GoalFits
  <1>4. Planned'
    BY <1>1, <1>2, PlanStays
  <1>5. Alternation' /\ Anchored' /\ AnswersMatchTheReading'
    BY <1>1, <1>2 DEF Alternation, Quiet, Anchored, Consumed, AnswersMatchTheReading, Reading, Answer
  <1> QED
    BY <1>3, <1>4, <1>5 DEF IInv

(* The invariant of the synchronous connection holds in every state, over  *)
(* any number of operations, late answers and faults (text_service.rs      *)
(* engine_*, ensure_engine; engine_link.rs; ipc client).                   *)
THEOREM IInvAlways == Spec => []IInv
  <1>1. ASSUME IInv, [Next]_vars
        PROVE  IInv'
    <2>1. ASSUME User
          PROVE  IInv'
      BY <1>1, <2>1, KeyFits, TabFits, SettleFits, EscapeFits, SnapshotCandidatesFits,
         CommitCandidateFits, CommitSnapshotCandidateFits, ArrowFits, PickFits, CommitClausesFits,
         EnterFits, UndoFits, ReconvertFits, CommitReconversionFits, CancelReconversionFits,
         ResumeFits DEF User
    <2>2. ASSUME Call
          PROVE  IInv'
      BY <1>1, <2>2, NoRequestFits, DropStepFits, EndStepFits, EnsureStepFits, ConnectFits,
         NotListeningFits, SpawnFits, CourseFailsFits, WriteFits, DrainFits, DrainFailsFits,
         ReloadFits, AcceptedFits, RejectedFits, ReloadedFits, AnsweredFits, UnexpectedFits,
         TimeoutKeepsFits, TimeoutDropsFits, GaveUpFits, TimeoutInCourseFits, BrokenFits DEF Call
    <2>3. ASSUME Engine
          PROVE  IInv'
      BY <1>1, <2>3, ServeFits, DieFits, ListenFits DEF Engine
    <2> QED
      BY <1>1, <2>1, <2>2, <2>3, ReloadRetryFits, CooledFits, StutterFits DEF Next
  <1> QED
    BY <1>1, InitFits, PTL DEF Spec

(* An answer the STA takes is the answer to the request it just sent,      *)
(* although the protocol has no request ids (engine_link.rs, INV1-INV3).   *)
THEOREM OwnAnswers == Spec => []AnswersAreOwn
  <1>1. IInv => AnswersAreOwn
    BY DEF IInv, Alternation, AnswersAreOwn, Reading, Answer
  <1> QED
    BY <1>1, IInvAlways, PTL

(* What it speaks of is the text that is being converted                   *)
(* (reanchor_engine_from_local, text_service.rs).                          *)
THEOREM MatchingAnswers == Spec => []AnswersMatchTheReading
  <1>1. IInv => AnswersMatchTheReading
    BY DEF IInv
  <1> QED
    BY <1>1, IInvAlways, PTL
=============================================================================
