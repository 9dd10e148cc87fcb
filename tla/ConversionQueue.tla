-------------------------- MODULE ConversionQueue --------------------------
(***************************************************************************)
(* The operations of crates/tip/src/conversion_queue.rs as operators on a  *)
(* queue record.  The queue holds the operations the user was promised     *)
(* while the engine or the host document made the TIP wait; its first      *)
(* Commit separates the composition on screen from the input behind it.    *)
(*                                                                         *)
(* An action is [op, ch]: "Insert" puts the character ch into the reading, *)
(* "Direct" is an Insert with direct_commit, "Move" stands for every       *)
(* operation that moves the selection, a boundary or the notation          *)
(* (MoveClause, ResizeClause, Transform, RotateNotation, Home, End and the *)
(* three reading moves).  One key gives one character, so the units of     *)
(* text are bounded with the actions and have no counter of their own.     *)
(***************************************************************************)
EXTENDS Naturals, Sequences, SequencesExt, FiniteSets

CONSTANT Capacity          \* 64 in the code

ASSUME CapacityAssumption == Capacity \in Nat /\ Capacity >= 2

TextOps == {"Insert", "Direct"}
EditOps == TextOps \cup {"Backspace"}
ExhaustibleOps == {"Move", "Backspace", "Cancel", "Candidate"}
Ops == EditOps \cup ExhaustibleOps \cup {"Commit"}

Act(op, ch) == [op |-> op, ch |-> ch]
CommitAct == Act("Commit", 0)

(* A deadline is unset, running or past: 1200 ms are a tick of the clock.  *)
Clock == {"none", "running", "past"}

EmptyQueue == [acts |-> <<>>, due |-> "none", waiting |-> FALSE, failed |-> FALSE,
               initial |-> {}, lost |-> FALSE, unwritten |-> {}]

Has(q, ops) == \E i \in 1..Len(q.acts) : q.acts[i].op \in ops
HasCommit(q) == Has(q, {"Commit"})
FrontIs(q, ops) == q.acts # <<>> /\ Head(q.acts).op \in ops
QueuedChars(q) == {a.ch : a \in {b \in ToSet(q.acts) : b.op \in TextOps}}
HasWork(q) == q.acts # <<>> \/ q.waiting \/ q.failed \/ q.lost

CanPush(q) == ~q.lost /\ Len(q.acts) < Capacity
PushBack(q, a) == [q EXCEPT !.acts = Append(@, a)]

CanPushCommitThenInsert_One(q) == ~q.lost /\ Len(q.acts) + 1 <= Capacity   \* mutant

(* The barrier and the text that needs it are accepted together or not at  *)
(* all.                                                                    *)
CanPushCommitThenInsert(q) == ~q.lost /\ Len(q.acts) + 2 <= Capacity
PushCommitThenInsert(q, a) == [q EXCEPT !.acts = @ \o <<CommitAct, a>>]

BeginWait_Undated(q, initial) == [q EXCEPT !.waiting = TRUE]   \* mutant

(* Only the first wait of a run of waits sets the deadline and the reading *)
(* to fall back to.                                                        *)
BeginWait(q, initial) ==
    IF q.lost THEN q
    ELSE [q EXCEPT !.due = IF @ = "none" THEN "running" ELSE @,
                   !.initial = IF @ = {} THEN initial ELSE @,
                   !.waiting = TRUE]

CanPrependCommit(q) == Len(q.acts) < Capacity /\ FrontIs(q, TextOps)
PrependCommit(q) == [q EXCEPT !.acts = <<CommitAct>> \o @]

(* A full queue gives up a navigation for the Commit, never a text.        *)
CapacityCommit(q) ==
    IF FrontIs(q, {"Commit"}) THEN {q}
    ELSE IF Len(q.acts) < Capacity THEN {PrependCommit(q)}
    ELSE IF FrontIs(q, TextOps) THEN {} ELSE {[q EXCEPT !.acts[1] = CommitAct]}

ExhaustedCommit(q) == [q EXCEPT !.acts[1] = CommitAct]

CompleteFront(q) ==
    IF q.lost THEN q
    ELSE LET rest == IF q.acts = <<>> THEN <<>> ELSE Tail(q.acts)
             idle == rest = <<>> /\ ~q.waiting
         IN  [q EXCEPT !.acts = rest,
                       !.due = IF idle THEN "none" ELSE @,
                       !.initial = IF idle \/ FrontIs(q, {"Commit"}) THEN {} ELSE @]

Resolved(q) ==
    IF q.lost THEN q
    ELSE [q EXCEPT !.waiting = FALSE, !.initial = {},
                   !.due = IF q.acts = <<>> THEN "none" ELSE @]

Expired(q) == q.waiting /\ q.due = "past"

KeptAfterFailure_Barrier(acts) ==   \* mutant: only what follows the Commit
    LET commits == {i \in 1..Len(acts) : acts[i].op = "Commit"}
    IN  IF commits = {} THEN <<>>
        ELSE SubSeq(acts, CHOOSE i \in commits : \A j \in commits : i <= j, Len(acts))

(* What a failed calculation keeps: in front of the first Commit only what *)
(* edits the text, and everything from the Commit on.                      *)
KeptAfterFailure(acts) ==
    LET keeps == {i \in 1..Len(acts) : \/ acts[i].op \in EditOps \cup {"Cancel"}
                                       \/ \E j \in 1..i : acts[j].op = "Commit"}
        kept[i \in 0..Len(acts)] ==
            IF i = 0 THEN <<>>
            ELSE IF i \in keeps THEN Append(kept[i - 1], acts[i]) ELSE kept[i - 1]
    IN  kept[Len(acts)]

FailWait(q) ==
    IF q.lost THEN q
    ELSE LET kept == KeptAfterFailure(q.acts)
         IN  [q EXCEPT !.waiting = FALSE, !.acts = kept,
                       !.due = IF kept = <<>> THEN "none" ELSE @,
                       !.initial = IF kept = <<>> THEN {} ELSE @]

(* The document that owned the queue is gone: what was accepted is shown   *)
(* to the user as unprocessed and never replayed elsewhere.  body is the   *)
(* text of the Commit (a set of at most one), applied says it was written. *)
Detach(q, body, applied) ==
    IF q.lost THEN q
    ELSE LET kept  == IF Has(q, EditOps \cup {"Commit"}) THEN q.acts ELSE <<>>
             q1    == [q EXCEPT !.waiting = FALSE, !.acts = kept]
             q2    == IF applied /\ FrontIs(q1, {"Commit"}) THEN CompleteFront(q1) ELSE q1
             owed  == IF applied THEN {} ELSE body
         IN  IF q2.acts = <<>> /\ owed = {} THEN EmptyQueue
             ELSE [q2 EXCEPT !.unwritten = owed, !.lost = TRUE, !.waiting = FALSE,
                             !.due = "none", !.failed = TRUE]

(* What a key does to candidates that are still loading.                   *)
Disposition(op, barrier) ==
    IF barrier \/ op = "Candidate" THEN "Defer"
    ELSE IF op = "Commit" THEN "Commit"
    ELSE IF op \in TextOps THEN "CommitThenInsert"
    ELSE IF op = "Cancel" THEN "Close" ELSE "Immediate"

QueueTypeOK(q, Chars) ==
    /\ \A i \in 1..Len(q.acts) : q.acts[i] \in [op : Ops, ch : Chars \cup {0}]
    /\ Len(q.acts) <= Capacity
    /\ q.due \in Clock
    /\ \A f \in {"waiting", "failed", "lost"} : q[f] \in BOOLEAN
=============================================================================
