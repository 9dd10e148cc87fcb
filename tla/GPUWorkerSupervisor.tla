------------------------- MODULE GPUWorkerSupervisor ------------------------
(***************************************************************************)
(* GPUWorkerSupervisor: the life of the one child process that reranks     *)
(* conversions on the GPU.                                                 *)
(*                                                                         *)
(* An action is one critical section of stateLock.  operationLock is held  *)
(* over several of them, and over the native calls between them; since one *)
(* thread holds it at a time, op says which one and how far it is.  A      *)
(* native call returns in the step that takes stateLock after it.          *)
(***************************************************************************)
EXTENDS Integers

CONSTANTS
  Callers,        \* the GPUWorkerCallers; a call of each may be under way
  LiveTier,       \* isLiveTier
  Background,     \* isBackgroundSnapshot
  LazyStart,      \* allowsLazyStart (false in production)
  Grace,          \* graceEnabled (the diagnostic mode)
  MaxGeneration   \* bound: lifecycle changes and timeouts

ASSUME SupervisorAssumption ==
  /\ LiveTier \subseteq Callers /\ Background \subseteq Callers
  /\ {"none", "start", "reap"} \cap Callers = {}
  /\ LazyStart \in BOOLEAN /\ Grace \in BOOLEAN
  /\ MaxGeneration \in Nat \ {0}

VARIABLES
  state, generation, transportGeneration, terminatedGeneration,
  autoRetryGeneration, retryArmed, consecutiveTimeouts,
  op,        \* the holder of operationLock
  waiting,   \* calls that passed rerank's first look and wait for the lock
  starters,  \* performStart threads that wait for the lock, by generation
  sleepers,  \* retry threads in their cooldown
  reapers,   \* threads of scheduleTermination, by the generation to reap
  child,     \* generation the transport's process was started for, or Nil
  owes       \* history: the child was given up on with an answer pending

latchVars  == <<transportGeneration, terminatedGeneration, autoRetryGeneration,
                retryArmed, consecutiveTimeouts>>
threadVars == <<op, waiting, starters, sleepers, reapers>>
childVars  == <<child, owes>>
vars == <<state, generation, latchVars, threadVars, childVars>>
-----------------------------------------------------------------------------
Nil == 0

States == {"stopped", "starting", "ready", "retryPending", "probation",
           "liveSuppressed", "quarantined", "disabled"}
Live == {"starting", "ready", "probation", "liveSuppressed"}   \* isLive
Requestable == {"ready", "probation"}                          \* isRequestable

(* In phase "failed" a quarantine comes next.  reap: a terminate follows   *)
(* in any case; retry: scheduleAutoRetry follows the terminate.            *)
Phases == {"idle", "spawning", "serving", "sent", "failed", "terminate"}
Holding(thread, phase, g) ==
  [thread |-> thread, phase |-> phase, gen |-> g, reap |-> FALSE, retry |-> FALSE]
Unlocked == Holding("none", "idle", Nil)

Current == generation = op.gen
-----------------------------------------------------------------------------
(* rerank, up to operationLock.  What it saw of the state may be over when *)
(* it gets the lock.                                                       *)
Rerank(c) ==
  /\ c \notin waiting /\ op.thread # c
  /\ \/ state \in Requestable \cup {"disabled"}
     \/ state = "stopped" /\ LazyStart
  /\ waiting' = waiting \cup {c}
  /\ UNCHANGED <<state, generation, latchVars, op, starters, sleepers, reapers, childVars>>

(* A foreground call waits 50 ms for a busy operation, not longer.         *)
GiveUp(c) ==
  /\ c \in waiting \ Background /\ op # Unlocked
  /\ waiting' = waiting \ {c}
  /\ UNCHANGED <<state, generation, latchVars, op, starters, sleepers, reapers, childVars>>

(* A call of the strong tier under live suppression arms the recovery.     *)
ArmStrongCallerProbe ==
  /\ state = "liveSuppressed" /\ Callers \ LiveTier # {}
  /\ generation < MaxGeneration
  /\ generation' = generation + 1
  /\ state' = "retryPending"
  /\ autoRetryGeneration' = generation'
  /\ sleepers' = sleepers \cup {generation'}
  /\ UNCHANGED <<transportGeneration, terminatedGeneration, retryArmed, consecutiveTimeouts,
                 op, waiting, starters, reapers, childVars>>
-----------------------------------------------------------------------------
(* Starting the child: by a call that finds the supervisor stopped         *)
(* (ensureReady), or by a thread of its own (performStart).                *)
ClaimTransport(thread) ==
  /\ transportGeneration' = generation
  /\ op' = Holding(thread, "spawning", generation)

EnsureReady(c) ==
  /\ c \in waiting /\ op = Unlocked
  /\ waiting' = waiting \ {c}
  /\ CASE state \in Requestable ->
            op' = Holding(c, "serving", Nil)
            /\ UNCHANGED <<state, transportGeneration, retryArmed>>
       [] state = "stopped" ->
            state' = "starting" /\ retryArmed' = FALSE /\ ClaimTransport(c)
       [] OTHER -> UNCHANGED <<state, transportGeneration, retryArmed, op>>
  /\ UNCHANGED <<generation, terminatedGeneration, autoRetryGeneration, consecutiveTimeouts,
                 starters, sleepers, reapers, childVars>>

PerformStart_GivesUp(g) ==   \* mutant: waits for the lock as briefly as a call does
  /\ g \in starters
  /\ starters' = starters \ {g}
  /\ IF generation = g /\ state = "starting" /\ op = Unlocked THEN ClaimTransport("start")
     ELSE UNCHANGED <<transportGeneration, op>>
  /\ UNCHANGED <<state, generation, terminatedGeneration, autoRetryGeneration, retryArmed,
                 consecutiveTimeouts, waiting, sleepers, reapers, childVars>>

PerformStart(g) ==
  /\ g \in starters /\ op = Unlocked
  /\ starters' = starters \ {g}
  /\ IF generation = g /\ state = "starting" THEN ClaimTransport("start")
     ELSE UNCHANGED <<transportGeneration, op>>
  /\ UNCHANGED <<state, generation, terminatedGeneration, autoRetryGeneration, retryArmed,
                 consecutiveTimeouts, waiting, sleepers, reapers, childVars>>

(* transport.start returned, but the start is no longer wanted.            *)
Superseded ==
  /\ ~(Current /\ state = "starting")
  /\ transportGeneration' = IF transportGeneration = op.gen THEN Nil ELSE transportGeneration
  /\ op' = [op EXCEPT !.phase = "terminate"]
  /\ UNCHANGED <<state, autoRetryGeneration>>

StartSucceeds ==
  /\ op.phase = "spawning"
  /\ child' = op.gen /\ owes' = FALSE
  /\ \/ Superseded
     \/ /\ Current /\ state = "starting"
        /\ state' = IF autoRetryGeneration = generation THEN "probation" ELSE "ready"
        /\ autoRetryGeneration' = Nil
        /\ op' = IF op.thread = "start" THEN Unlocked ELSE Holding(op.thread, "serving", Nil)
        /\ UNCHANGED transportGeneration
  /\ UNCHANGED <<generation, terminatedGeneration, retryArmed, consecutiveTimeouts,
                 waiting, starters, sleepers, reapers>>

(* A failed start may leave the new process, none, or (without a           *)
(* configuration) the old one.                                             *)
StartFails ==
  /\ op.phase = "spawning"
  /\ \/ child' \in {Nil, op.gen} /\ owes' = FALSE
     \/ UNCHANGED childVars
  /\ \/ Superseded
     \/ /\ Current /\ state = "starting"
        /\ op' = [op EXCEPT !.phase = "failed"]
        /\ UNCHANGED <<state, transportGeneration, autoRetryGeneration>>
  /\ UNCHANGED <<generation, terminatedGeneration, retryArmed, consecutiveTimeouts,
                 waiting, starters, sleepers, reapers>>
-----------------------------------------------------------------------------
(* The request itself.                                                     *)
Send ==
  /\ op.phase = "serving"
  /\ op' = IF state \in Requestable /\ transportGeneration = generation
           THEN Holding(op.thread, "sent", generation) ELSE Unlocked
  /\ UNCHANGED <<state, generation, latchVars, waiting, starters, sleepers, reapers, childVars>>

(* noteRankSuccess: only a valid answer ends the probation.                *)
RankSucceeds ==
  /\ op.phase = "sent"
  /\ IF Current
     THEN /\ state' = IF state = "probation" THEN "ready" ELSE state
          /\ consecutiveTimeouts' = 0
     ELSE UNCHANGED <<state, consecutiveTimeouts>>
  /\ op' = Unlocked
  /\ UNCHANGED <<generation, transportGeneration, terminatedGeneration, autoRetryGeneration,
                 retryArmed, waiting, starters, sleepers, reapers, childVars>>

(* Under grace an answer after the soft deadline is read and thrown away,  *)
(* even one that is not valid.                                             *)
LateAnswerDiscarded ==
  /\ op.phase = "sent" /\ Grace /\ op.thread \in Background
  /\ op' = Unlocked
  /\ UNCHANGED <<state, generation, latchVars, waiting, starters, sleepers, reapers, childVars>>

(* An invalid answer, an exit, a crash or a native failure.                *)
RankFails ==
  /\ op.phase = "sent"
  /\ op' = [op EXCEPT !.phase = "failed"]
  /\ UNCHANGED <<state, generation, latchVars, waiting, starters, sleepers, reapers, childVars>>

(* handleRankTimeout.  The child is given up on whatever comes of it.      *)
RankTimesOut == op.phase = "sent" /\ owes' = TRUE /\ UNCHANGED child

TimeoutCounts ==
  /\ RankTimesOut /\ Current
  /\ consecutiveTimeouts' = consecutiveTimeouts + 1
  /\ terminatedGeneration' = generation
  /\ transportGeneration' = Nil
  /\ UNCHANGED <<retryArmed, waiting, starters, sleepers, reapers>>

MustTerminate == terminatedGeneration # generation
AfterTimeout(retry) ==
  IF MustTerminate THEN [op EXCEPT !.phase = "terminate", !.retry = retry] ELSE Unlocked

TimeoutIsStale ==
  /\ RankTimesOut /\ ~(Current /\ state \in Requestable)
  /\ op' = Unlocked
  /\ UNCHANGED <<state, generation, latchVars, waiting, starters, sleepers, reapers>>

FirstTimeout ==
  /\ TimeoutCounts /\ state = "ready" /\ generation < MaxGeneration
  /\ generation' = generation + 1
  /\ state' = "retryPending"
  /\ autoRetryGeneration' = generation'
  /\ op' = AfterTimeout(TRUE)

TimeoutSuppressesLive ==
  /\ TimeoutCounts /\ state = "probation" /\ op.thread \in LiveTier
  /\ state' = "liveSuppressed"
  /\ op' = AfterTimeout(FALSE)
  /\ UNCHANGED <<generation, autoRetryGeneration>>

TimeoutEscalates ==
  /\ TimeoutCounts /\ state = "probation" /\ op.thread \notin LiveTier
  /\ op' = [op EXCEPT !.phase = "failed", !.reap = MustTerminate]
  /\ UNCHANGED <<state, generation, autoRetryGeneration>>

Quarantine ==
  /\ op.phase = "failed"
  /\ LET latches == Current /\ state # "quarantined"
     IN  /\ IF latches
            THEN /\ state' = "quarantined" /\ autoRetryGeneration' = Nil
                 /\ terminatedGeneration' = generation /\ transportGeneration' = Nil
            ELSE UNCHANGED <<state, autoRetryGeneration, terminatedGeneration, transportGeneration>>
         /\ op' = IF op.reap \/ (latches /\ MustTerminate)
                  THEN [op EXCEPT !.phase = "terminate"] ELSE Unlocked
  /\ UNCHANGED <<generation, retryArmed, consecutiveTimeouts, waiting, starters, sleepers,
                 reapers, childVars>>

(* transport.terminate; a first timeout then schedules its retry.          *)
Terminate ==
  /\ op.phase = "terminate"
  /\ child' = Nil /\ owes' = FALSE
  /\ sleepers' = IF op.retry THEN sleepers \cup {op.gen + 1} ELSE sleepers
  /\ op' = Unlocked
  /\ UNCHANGED <<state, generation, latchVars, waiting, starters, reapers>>
-----------------------------------------------------------------------------
(* The threads without a call.                                             *)
AutoRetry_Unchecked(g) ==   \* mutant: the cooldown ends, whatever happened in it
  /\ g \in sleepers
  /\ sleepers' = sleepers \ {g}
  /\ state' = "starting" /\ retryArmed' = FALSE /\ starters' = starters \cup {generation}
  /\ UNCHANGED <<generation, transportGeneration, terminatedGeneration, autoRetryGeneration,
                 consecutiveTimeouts, op, waiting, reapers, childVars>>

AutoRetry(g) ==
  /\ g \in sleepers
  /\ sleepers' = sleepers \ {g}
  /\ IF state = "retryPending" /\ generation = g /\ autoRetryGeneration = g
     THEN state' = "starting" /\ retryArmed' = FALSE /\ starters' = starters \cup {g}
     ELSE UNCHANGED <<state, retryArmed, starters>>
  /\ UNCHANGED <<generation, transportGeneration, terminatedGeneration, autoRetryGeneration,
                 consecutiveTimeouts, op, waiting, reapers, childVars>>

Reap_Unchecked(g) ==   \* mutant: the reaper does not ask whose transport it is
  /\ g \in reapers /\ op = Unlocked
  /\ reapers' = reapers \ {g}
  /\ transportGeneration' = Nil /\ op' = Holding("reap", "terminate", g)
  /\ UNCHANGED <<state, generation, terminatedGeneration, autoRetryGeneration, retryArmed,
                 consecutiveTimeouts, waiting, starters, sleepers, childVars>>

(* scheduleTermination: with the lock at once or on a detached thread.     *)
Reap(g) ==
  /\ g \in reapers /\ op = Unlocked
  /\ reapers' = reapers \ {g}
  /\ IF transportGeneration = g
     THEN transportGeneration' = Nil /\ op' = Holding("reap", "terminate", g)
     ELSE UNCHANGED <<transportGeneration, op>>
  /\ UNCHANGED <<state, generation, terminatedGeneration, autoRetryGeneration, retryArmed,
                 consecutiveTimeouts, waiting, starters, sleepers, childVars>>
-----------------------------------------------------------------------------
(* What the conversion service asks for.                                   *)
StartWarmUp ==
  /\ state = "stopped"
  /\ state' = "starting" /\ retryArmed' = FALSE
  /\ starters' = starters \cup {generation}
  /\ UNCHANGED <<generation, transportGeneration, terminatedGeneration, autoRetryGeneration,
                 consecutiveTimeouts, op, waiting, sleepers, reapers, childVars>>

(* Every lifecycle operation opens a generation and forgets the latch.     *)
OpenGeneration(newState, armed) ==
  /\ generation < MaxGeneration
  /\ generation' = generation + 1
  /\ state' = newState /\ retryArmed' = armed
  /\ terminatedGeneration' = Nil /\ autoRetryGeneration' = Nil /\ consecutiveTimeouts' = 0
  /\ UNCHANGED <<transportGeneration, op, waiting, starters, sleepers, childVars>>

ExplicitRetry ==
  /\ state \in {"quarantined", "retryPending", "probation", "liveSuppressed"}
  /\ ~retryArmed
  /\ OpenGeneration("stopped", TRUE)
  /\ UNCHANGED reapers

ScheduleTermination ==
  reapers' = IF state \in Live \/ transportGeneration = generation
             THEN reapers \cup {generation} ELSE reapers

ModelOrRuntimeChanged == OpenGeneration("stopped", TRUE) /\ ScheduleTermination
Disable == OpenGeneration("disabled", FALSE) /\ ScheduleTermination
-----------------------------------------------------------------------------
Init ==
  /\ state = "stopped" /\ generation = 1
  /\ transportGeneration = Nil /\ terminatedGeneration = Nil /\ autoRetryGeneration = Nil
  /\ retryArmed = FALSE /\ consecutiveTimeouts = 0
  /\ op = Unlocked
  /\ waiting = {} /\ starters = {} /\ sleepers = {} /\ reapers = {}
  /\ child = Nil /\ owes = FALSE

Answer ==
  \/ RankSucceeds \/ LateAnswerDiscarded \/ RankFails
  \/ TimeoutIsStale \/ FirstTimeout \/ TimeoutSuppressesLive \/ TimeoutEscalates

(* The holder of operationLock: every native call has its own deadline.    *)
Operation ==
  StartSucceeds \/ StartFails \/ Send \/ Answer \/ Quarantine \/ Terminate

Generations == 1..MaxGeneration
Threads == \E g \in Generations : PerformStart(g) \/ AutoRetry(g) \/ Reap(g)

Lifecycle == StartWarmUp \/ ExplicitRetry \/ ModelOrRuntimeChanged \/ Disable

Calls == \E c \in Callers : Rerank(c) \/ GiveUp(c) \/ EnsureReady(c)

Next == Calls \/ ArmStrongCallerProbe \/ Operation \/ Threads \/ Lifecycle

Spec == Init /\ [][Next]_vars

(* Detached threads and native calls go on; users and settings need not.   *)
FairSpec == Spec /\ WF_vars(Operation)
                 /\ \A g \in Generations : WF_vars(PerformStart(g)) /\ WF_vars(AutoRetry(g))
                                           /\ WF_vars(Reap(g))
-----------------------------------------------------------------------------
(* Type invariant.  The generations remembered are past or current ones,   *)
(* and an automatic retry belongs to the current one.                      *)
SupervisorTypeOK ==
  /\ state \in States /\ generation \in Generations
  /\ transportGeneration \in 0..generation /\ terminatedGeneration \in 0..generation
  /\ autoRetryGeneration \in {Nil, generation}
  /\ retryArmed \in BOOLEAN /\ consecutiveTimeouts \in Nat
  /\ op.thread \in Callers \cup {"none", "start", "reap"} /\ op.phase \in Phases
  /\ op.thread = "none" <=> op = Unlocked
  /\ waiting \subseteq Callers
  /\ starters \cup sleepers \cup reapers \subseteq 1..generation
  /\ child \in 0..generation /\ owes \in BOOLEAN

(* A call that finds a requestable state and gets the lock finds the       *)
(* worker started for this generation, which owes no earlier answer ("a    *)
(* late reply would desync the single-pipe framing", handleRankTimeout),   *)
(* however late the reapers of replaced children get their turn.           *)
RequestableIsClean ==
  state \in Requestable /\ op = Unlocked
    => transportGeneration = generation /\ child = generation /\ ~owes

(* No process is forgotten: once nobody holds the operation, a child that  *)
(* is still there is on the supervisor's books.                            *)
NoOrphan == op = Unlocked /\ child # Nil => transportGeneration # Nil

(* "Only a valid rank response may clear the failure escalation"           *)
(* (noteRankSuccess), and "a stale retry cannot downgrade a user-initiated *)
(* start" (autoRetryGeneration).                                           *)
LatchIsEarned ==
  /\ state = "ready" => consecutiveTimeouts = 0
  /\ state = "probation" => consecutiveTimeouts > 0

(* The supervisor's books agree with its child whenever a request can get  *)
(* in: the child is the one of this generation and owes nothing, no other  *)
(* is left behind, and a child that came after timeouts is on probation    *)
(* (rerank, performStart, handleRankTimeout).                              *)
SupervisorInv == SupervisorTypeOK /\ RequestableIsClean /\ NoOrphan /\ LatchIsEarned

(* "Only explicit retry, model change, or runtime-directory change opens a *)
(* quarantined or degraded generation" (explicitRetry): no thread that was *)
(* sleeping, starting or waiting for an answer leaves one by itself.       *)
OnlyLifecycleReopens ==
  [][(state' # state /\ state \in {"quarantined", "disabled"})
       => generation' = generation + 1 /\ state' \in {"stopped", "disabled"}]_vars

(* A respawn that is promised happens or is overtaken: "preparing" is      *)
(* never shown for ever.                                                   *)
PreparingEnds == state \in {"retryPending", "starting"} ~> state \notin {"retryPending", "starting"}

(* "Stop an active worker when Zenzai is disabled" (disable): once the     *)
(* threads it may wait for are gone, so is the child.                      *)
DisabledMeansStopped ==
  state = "disabled" /\ op = Unlocked /\ reapers = {} => child = Nil
=============================================================================
