----------------------- MODULE BackgroundMaintenance -----------------------
(***************************************************************************)
(* The engine's maintenance lane (BackgroundMaintenance.swift): one serial *)
(* dispatch queue on which session ends, dictionary reloads and learning   *)
(* are persisted away from the key path.  Any thread submits: plain jobs   *)
(* in order (submit), the latest job of a label at once (submitLatest) or  *)
(* after a delay (submitLatestAfter); a fence (barrier) is a block of its  *)
(* own on the same serial queue.                                           *)
(*                                                                         *)
(* Each action is one critical section of `lock`, or one step of the       *)
(* queue.  A deadline is kept as the time left until it.  The counters     *)
(* `dropped` and `failed`, which only feed the snapshot, are left out.     *)
(***************************************************************************)
EXTENDS Integers, Sequences, FiniteSets, SequencesExt, FiniteSetsExt, Functions

CONSTANTS
  Jobs,       \* plain jobs
  Labels,     \* labels of replaceable jobs
  Works,      \* the closures submitted under a label
  Fences,     \* threads that call barrier
  Delays,     \* delays of submitLatestAfter
  Capacity    \* capacity (64)

ASSUME LaneAssumption ==
  /\ Capacity \in Nat \ {0} /\ Delays \subseteq Nat \ {0}
  /\ IsFiniteSet(Labels) /\ Labels # {}
  /\ Fences \cap {"drain", "timer"} = {}

VARIABLES
  pending,    \* plain jobs, in order
  coalesced,  \* label -> work that is runnable
  order,      \* coalescedOrder
  delayed,    \* label -> [left, work]: work that waits for its deadline
  timer,      \* delayedTimer: time left until it fires, or Unarmed
  prefer,     \* preferCoalesced
  running,    \* a drain is queued or active
  queue,      \* blocks of the serial dispatch queue
  active,     \* what the queue executes: "none", "drain" or "job"
  accepted,   \* history: label -> work accepted and not yet started, in a sequence
  awaited,    \* history: fence -> what was runnable when it entered the queue
  overdue     \* history: fence -> labels that were due, their timer event queued before it

laneVars == <<pending, coalesced, order, delayed, timer, prefer, running, queue, active>>
historyVars == <<accepted, awaited, overdue>>
laneAndHistory == <<laneVars, historyVars>>

Unarmed == -1
Drain == "drain"
TimerEvent == "timer"

Without(f, l) == Restrict(f, DOMAIN f \ {l})
With(f, l, v) == [k \in DOMAIN f \cup {l} |-> IF k = l THEN v ELSE f[k]]

(* scheduleNextDelayedLocked: the earliest deadline, if there is one.      *)
NextDeadline(d) == IF d = <<>> THEN Unarmed ELSE Min({d[l].left : l \in DOMAIN d})

(* The first submission on an idle lane enqueues the drain.                *)
Wake ==
  /\ running' = TRUE
  /\ queue' = IF running THEN queue ELSE Append(queue, Drain)

Full == Cardinality(DOMAIN coalesced) + Cardinality(DOMAIN delayed) >= Capacity

Forget(l) == overdue' = [b \in Fences |-> overdue[b] \ {l}]
-----------------------------------------------------------------------------
(* submit: refused on a full backlog.                                      *)
Submit(j) ==
  /\ Len(pending) < Capacity
  /\ pending' = Append(pending, j)
  /\ Wake
  /\ UNCHANGED <<coalesced, order, delayed, timer, prefer, active, historyVars>>

SubmitLatest_KeepsDelayed(l, w) ==   \* mutant: the waiting retry stays scheduled
  /\ IF l \in DOMAIN coalesced
     THEN coalesced' = [coalesced EXCEPT ![l] = w] /\ UNCHANGED <<order, running, queue>>
     ELSE /\ ~Full
          /\ coalesced' = With(coalesced, l, w)
          /\ order' = Append(order, l)
          /\ Wake
  /\ accepted' = [accepted EXCEPT ![l] = <<w>>]
  /\ Forget(l)
  /\ UNCHANGED <<pending, delayed, timer, prefer, active, awaited>>

(* submitLatest: supersedes whatever its label waits for.                  *)
SubmitLatest(l, w) ==
  /\ delayed' = Without(delayed, l)
  /\ timer' = IF l \in DOMAIN delayed THEN NextDeadline(delayed') ELSE timer
  /\ IF l \in DOMAIN coalesced
     THEN coalesced' = [coalesced EXCEPT ![l] = w] /\ UNCHANGED <<order, running, queue>>
     ELSE /\ Cardinality(DOMAIN coalesced) + Cardinality(DOMAIN delayed') < Capacity
          /\ coalesced' = With(coalesced, l, w)
          /\ order' = Append(order, l)
          /\ Wake
  /\ accepted' = [accepted EXCEPT ![l] = <<w>>]
  /\ Forget(l)
  /\ UNCHANGED <<pending, prefer, active, awaited>>

(* submitLatestAfter: loses to a runnable job of its label, replaces a     *)
(* waiting one and its deadline.                                           *)
SubmitLatestAfter(l, w, d) ==
  /\ l \notin DOMAIN coalesced
  /\ l \in DOMAIN delayed \/ ~Full
  /\ delayed' = With(delayed, l, [left |-> d, work |-> w])
  /\ timer' = NextDeadline(delayed')
  /\ accepted' = [accepted EXCEPT ![l] = <<w>>]
  /\ Forget(l)
  /\ UNCHANGED <<pending, coalesced, order, prefer, running, queue, active, awaited>>

(* barrier: the caller blocks until its block has run.                     *)
Fence(b) ==
  /\ b \notin ToSet(queue)
  /\ queue' = Append(queue, b)
  /\ awaited' = [awaited EXCEPT ![b] = ToSet(pending) \cup DOMAIN coalesced]
  /\ overdue' = [overdue EXCEPT ![b] =
                   IF TimerEvent \in ToSet(queue)
                   THEN {l \in DOMAIN delayed : delayed[l].left = 0} ELSE {}]
  /\ UNCHANGED <<pending, coalesced, order, delayed, timer, prefer, running, active, accepted>>
-----------------------------------------------------------------------------
(* The timer is one-shot; an event that is already queued absorbs another. *)
TimerFires ==
  /\ timer = 0
  /\ timer' = Unarmed
  /\ queue' = IF TimerEvent \in ToSet(queue) THEN queue ELSE Append(queue, TimerEvent)
  /\ UNCHANGED <<pending, coalesced, order, delayed, prefer, running, active, historyVars>>

AtHead(block) == active = "none" /\ queue # <<>> /\ Head(queue) = block

StartDrain ==
  /\ AtHead(Drain)
  /\ queue' = Tail(queue) /\ active' = "drain"
  /\ UNCHANGED <<pending, coalesced, order, delayed, timer, prefer, running, historyVars>>

(* promoteDueDelayed, the timer's handler: what is due becomes runnable, in*)
(* the dictionary's order, and is drained inline unless a drain exists.    *)
PromoteDueDelayed ==
  /\ AtHead(TimerEvent)
  /\ queue' = Tail(queue)
  /\ LET due == {l \in DOMAIN delayed : delayed[l].left = 0}
     IN  /\ delayed' = Restrict(delayed, DOMAIN delayed \ due)
         /\ coalesced' = [l \in DOMAIN coalesced \cup due |->
                            IF l \in DOMAIN coalesced THEN coalesced[l] ELSE delayed[l].work]
         /\ \E s \in SetToSeqs(due \ DOMAIN coalesced) : order' = order \o s
         /\ timer' = NextDeadline(delayed')
         /\ IF due # {} /\ ~running /\ coalesced' # <<>>
            THEN running' = TRUE /\ active' = "drain"
            ELSE UNCHANGED <<running, active>>
  /\ UNCHANGED <<pending, prefer, historyVars>>

(* drain: one job at a time, the two lanes alternating.                    *)
TakeCoalesced ==
  /\ active = "drain" /\ order # <<>> /\ (prefer \/ pending = <<>>)
  /\ LET l == Head(order)
     IN  /\ coalesced' = Without(coalesced, l)
         /\ accepted' = [accepted EXCEPT ![l] = <<>>]
         /\ awaited' = [b \in Fences |-> awaited[b] \ {l}]
         /\ Forget(l)
  /\ order' = Tail(order)
  /\ prefer' = FALSE /\ active' = "job"
  /\ UNCHANGED <<pending, delayed, timer, running, queue>>

TakePending_NoTurn ==   \* mutant: the lanes do not alternate
  /\ active = "drain" /\ pending # <<>> /\ order = <<>>
  /\ pending' = Tail(pending)
  /\ awaited' = [b \in Fences |-> awaited[b] \ {Head(pending)}]
  /\ prefer' = TRUE /\ active' = "job"
  /\ UNCHANGED <<coalesced, order, delayed, timer, running, queue, accepted, overdue>>

TakePending ==
  /\ active = "drain" /\ pending # <<>> /\ (order = <<>> \/ ~prefer)
  /\ pending' = Tail(pending)
  /\ awaited' = [b \in Fences |-> awaited[b] \ {Head(pending)}]
  /\ prefer' = TRUE /\ active' = "job"
  /\ UNCHANGED <<coalesced, order, delayed, timer, running, queue, accepted, overdue>>

JobEnds_Yields ==   \* mutant: the drain goes back to the end of the queue
  /\ active = "job"
  /\ active' = "none" /\ queue' = Append(queue, Drain)
  /\ UNCHANGED <<pending, coalesced, order, delayed, timer, prefer, running, historyVars>>

(* The job returned or threw: a failure does not stop the lane.            *)
JobEnds ==
  /\ active = "job"
  /\ active' = "drain"
  /\ UNCHANGED <<pending, coalesced, order, delayed, timer, prefer, running, queue, historyVars>>

DrainEnds ==
  /\ active = "drain" /\ order = <<>> /\ pending = <<>>
  /\ running' = FALSE /\ active' = "none"
  /\ UNCHANGED <<pending, coalesced, order, delayed, timer, prefer, queue, historyVars>>

FencePasses(b) ==
  /\ AtHead(b)
  /\ queue' = Tail(queue)
  /\ awaited' = [awaited EXCEPT ![b] = {}]
  /\ overdue' = [overdue EXCEPT ![b] = {}]
  /\ UNCHANGED <<pending, coalesced, order, delayed, timer, prefer, running, active, accepted>>

Before(left) == IF left > 0 THEN left - 1 ELSE left

Tick ==
  /\ delayed' = [l \in DOMAIN delayed |-> [delayed[l] EXCEPT !.left = Before(@)]]
  /\ timer' = Before(timer)
  /\ UNCHANGED <<pending, coalesced, order, prefer, running, queue, active, historyVars>>
-----------------------------------------------------------------------------
LaneInit ==
  /\ pending = <<>> /\ coalesced = <<>> /\ order = <<>> /\ delayed = <<>>
  /\ timer = Unarmed /\ prefer = TRUE /\ running = FALSE
  /\ queue = <<>> /\ active = "none"
  /\ accepted = [l \in Labels |-> <<>>]
  /\ awaited = [b \in Fences |-> {}] /\ overdue = [b \in Fences |-> {}]

(* The serial queue's own steps, and the timer's.                          *)
Lane ==
  \/ StartDrain \/ PromoteDueDelayed \/ TakeCoalesced \/ TakePending
  \/ JobEnds \/ DrainEnds \/ \E b \in Fences : FencePasses(b)

LaneNext ==
  \/ \E j \in Jobs : j \notin ToSet(pending) /\ Submit(j)
  \/ \E l \in Labels, w \in Works : SubmitLatest(l, w)
  \/ \E l \in Labels, w \in Works, d \in Delays : SubmitLatestAfter(l, w, d)
  \/ \E b \in Fences : Fence(b)
  \/ Lane \/ TimerFires \/ Tick

(* The queue runs what is on it and jobs return; nothing obliges a thread  *)
(* to submit, or time to pass while nothing waits for it.                  *)
LaneSpec == LaneInit /\ [][LaneNext]_laneAndHistory
FairLaneSpec == LaneSpec /\ WF_laneAndHistory(Lane) /\ WF_laneAndHistory(TimerFires)
-----------------------------------------------------------------------------
(* Type invariant, with the bounds of both backlogs.                       *)
LaneTypeOK ==
  /\ Len(pending) <= Capacity /\ ToSet(pending) \subseteq Jobs
  /\ Cardinality(DOMAIN coalesced) + Cardinality(DOMAIN delayed) <= Capacity
  /\ ToSet(queue) \subseteq {Drain, TimerEvent} \cup Fences
  /\ active \in {"none", "drain", "job"} /\ prefer \in BOOLEAN

(* Runnable work always has exactly one drain coming for it: a submission  *)
(* that finds `running` set is not forgotten when the drain ends, and the  *)
(* timer's inline drain never leaves a second one behind.                  *)
OneDrain ==
  /\ pending # <<>> \/ order # <<>> => running
  /\ running <=> Drain \in ToSet(queue) \/ active # "none"
  /\ active # "none" => Drain \notin ToSet(queue)
  /\ IsInjective(queue)

(* "Keep at most one pending job per label.  Repeated requests replace the *)
(* pending work": the last accepted work of a label waits in exactly one   *)
(* place, with its place in the order or a timer set no later than due.    *)
LatestIsKept ==
  /\ ToSet(order) = DOMAIN coalesced /\ IsInjective(order)
  /\ \A l \in Labels :
       accepted[l] = IF l \in DOMAIN coalesced THEN <<coalesced[l]>>
                     ELSE IF l \in DOMAIN delayed THEN <<delayed[l].work>> ELSE <<>>
  /\ DOMAIN coalesced \cap DOMAIN delayed = {}

(* Whatever submitters, timer and drain do to each other, accepted work    *)
(* waits in exactly one place, the latest of its label only, and exactly   *)
(* one drain is on its way to it (submit, submitLatest,                    *)
(* submitLatestAfter, promoteDueDelayed, drain).                           *)
LaneInv == LaneTypeOK /\ OneDrain /\ LatestIsKept

(* "Waits for work already runnable when the fence enters the serial       *)
(* queue": a clear that fences the lane finds no older write behind it.    *)
FenceIsAFence ==
  \A b \in Fences : AtHead(b) => awaited[b] = {}

(* "Draining inline keeps a due job ahead of a barrier that was enqueued   *)
(* after the timer event" (promoteDueDelayed).                             *)
DueJobsPrecedeFence ==
  \A b \in Fences : AtHead(b) => overdue[b] = {}

(* Every job that becomes runnable is started although both lanes may be   *)
(* fed for ever; a due retry, which depends on the one-shot timer and waits*)
(* behind an active drain, once the lane keeps coming to rest.             *)
RunnableIsStarted ==
  LET due(l) == l \in DOMAIN delayed /\ delayed[l].left = 0
  IN  /\ \A j \in Jobs : j \in ToSet(pending) ~> j \notin ToSet(pending)
      /\ \A l \in Labels : l \in DOMAIN coalesced ~> l \notin DOMAIN coalesced
      /\ \A l \in Labels : []<>(active = "none") => (due(l) ~> ~due(l))
=============================================================================
