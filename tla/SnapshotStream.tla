--------------------------- MODULE SnapshotStream ---------------------------
(***************************************************************************)
(* The snapshot stream between the STA thread of the TIP and EngineHost:   *)
(* live and explicit conversion ask for a result by publishing a snapshot  *)
(* of the composition, a worker thread with its own connection converts    *)
(* it, and a timer of the STA picks the answers up.  Sources:              *)
(* background_input.rs (snapshot and enhancement workers), input_module.rs *)
(* (the snapshot the STA expects) and the polling part of text_service.rs. *)
(*                                                                         *)
(* STA and workers share lock-free slots only: one for the wanted          *)
(* configuration, one for the newest snapshot, one for the newest result,  *)
(* one for the newest enhancement, a bounded queue of statuses that drops  *)
(* the oldest, a bounded control lane and an unbounded lane of receipts.   *)
(* A step touches one of them, except where the other thread cannot tell.  *)
(***************************************************************************)
EXTENDS Integers, Sequences

CONSTANTS MaxRev,       \* how often the reading changes
          MaxCfg,       \* how many configurations are wanted
          MaxReq,       \* how many snapshots are made before Space is pressed no more
          MaxFaults,    \* how many requests to the engine fail
          LaneCap,      \* capacity of the control lane
          StatusCap     \* SNAPSHOT_STATUS_CAPACITY, 8 in the code

ASSUME StreamAssumption ==
    /\ MaxRev \in Nat \ {0} /\ MaxCfg \in Nat \ {0} /\ MaxFaults \in Nat /\ MaxReq \in Nat
    /\ LaneCap \in Nat \ {0} /\ StatusCap \in Nat \ {0}

VARIABLES
    t,      \* the STA: fields of TextService and InputModule, and where it is
    sh,     \* what the threads share
    w,      \* the snapshot worker's local variables
    enh,    \* the newest enhancement request
    eng,    \* the engine process, the worker's connection to it, failures still to come
    gh      \* receipts sent and applied; a snapshot was published on a lost connection

vars == <<t, sh, w, enh, eng, gh>>

None == [req |-> 0]
Live == "live"
Explicit == "explicit"

\* SnapshotIdentity with its purpose; after counts the receipts published before it.
Snapshot(purpose) ==
    [req |-> t.req + 1, rev |-> t.rev, cfg |-> t.cfg, conn |-> sh.epoch, purpose |-> purpose,
     after |-> Len(gh.sent)]

\* The rebind of a replay, on either side: same configuration, new connection.
Rebound(s, c, n) == IF s # None /\ s.cfg = c THEN [s EXCEPT !.conn = n] ELSE None

\* ArrayQueue::force_push: the oldest entry makes room.
ForcePush(q, x) == IF Len(q) < StatusCap THEN Append(q, x) ELSE Append(Tail(q), x)

\* SyncSender::try_send: a full lane drops the command.
TrySend(command) == IF Len(sh.lane) < LaneCap THEN Append(sh.lane, command) ELSE sh.lane

\* Activate has begun the first configuration and queued it; the thread may fail to start.
Init ==
    /\ t = [pc |-> "idle", composing |-> FALSE, rev |-> 0, cfg |-> 1, ack |-> <<0, 0>>,
            cfgPending |-> TRUE, mismatch |-> FALSE, expected |-> None, heard |-> FALSE,
            req |-> 0, expl |-> FALSE, deadline |-> FALSE, debounce |-> FALSE,
            timer |-> TRUE, shown |-> None]
    /\ sh = [desired |-> 1, gen |-> 1, lane |-> <<"config">>, pending |-> None,
             notified |-> FALSE, epoch |-> 1, statuses |-> <<>>, result |-> None,
             enhanced |-> None, receipts |-> <<>>, shutdown |-> FALSE]
    /\ \E pc \in {"top", "exit"} :
          w = [pc |-> pc, latest |-> 0, cfg |-> 0, retry |-> FALSE, probe |-> FALSE,
               snap |-> None, replay |-> FALSE, selected |-> None,
               cur |-> None]
    /\ enh = None
    /\ eng = [conn |-> "none", cfg |-> 0, faults |-> MaxFaults]
    /\ gh = [sent |-> <<>>, applied |-> {}, straddled |-> FALSE]

-----------------------------------------------------------------------------
(* The STA thread.                                                         *)

Represented(c, d) == c # 0 /\ c = d

Acknowledged(x) == x.ack = <<x.cfg, sh.epoch>> /\ x.cfg # 0 /\ sh.epoch # 0

\* Mutant: the expected snapshot survives the change that made it stale.
Forget_Keeps(x) == x
\* invalidate_live_snapshot
Forget(x) == [x EXCEPT !.expected = None, !.heard = FALSE]

\* disarm_live_result_poll: every wait ends with the timer.
Disarmed(x) ==
    [x EXCEPT !.timer = FALSE, !.deadline = FALSE, !.cfgPending = FALSE, !.expl = FALSE]

\* disarm_snapshot_poll_if_idle
DisarmedIfIdle(x) == IF x.cfgPending \/ x.deadline THEN x ELSE Disarmed(x)

\* arm_snapshot_poll_timer with snapshot_poll_interval: armed while something is waited for.
Armed(x, gen) ==
    IF \/ x.expl \/ x.deadline \/ x.cfgPending
       \/ x.composing /\ ~x.mismatch /\ Represented(x.cfg, gen)
    THEN [x EXCEPT !.timer = TRUE]
    ELSE Disarmed(x)

\* arm_snapshot_status_poll
ArmedForStatus(x, gen) ==
    LET y == [x EXCEPT !.cfgPending = Represented(x.cfg, gen) /\ ~x.mismatch] IN
    IF y.cfgPending THEN Armed(y, gen) ELSE DisarmedIfIdle(y)

Idle == t.pc = "idle" /\ ~sh.shutdown

\* A key changes the reading: the expected snapshot is stale (handle_key).
Key ==
    /\ Idle /\ ~t.expl /\ t.rev < MaxRev
    /\ t' = [Forget(t) EXCEPT !.composing = TRUE, !.rev = @ + 1, !.debounce = TRUE,
                              !.shown = None]
    /\ UNCHANGED <<sh, w, enh, eng, gh>>

\* The composition is committed or cancelled (InputModule::reset).
Finish ==
    /\ Idle /\ ~t.expl /\ t.composing /\ t.rev < MaxRev
    /\ t' = [Forget(t) EXCEPT !.composing = FALSE, !.rev = @ + 1, !.shown = None]
    /\ UNCHANGED <<sh, w, enh, eng, gh>>

\* begin_configuration_change, then try_configure_snapshot of the new configuration.
ChangeConfiguration ==
    /\ Idle /\ t.cfg < MaxCfg
    /\ t' = ArmedForStatus([Forget(t) EXCEPT !.cfg = @ + 1, !.ack = <<0, 0>>,
                              !.deadline = FALSE, !.mismatch = FALSE, !.shown = None],
                           t.cfg + 1)
    /\ sh' = [sh EXCEPT !.desired = t.cfg + 1, !.gen = t.cfg + 1, !.lane = TrySend("config")]
    /\ UNCHANGED <<w, enh, eng, gh>>

\* live_snapshot, explicit_snapshot: made for the current connection, published next.
Made(x, purpose, pc) ==
    [x EXCEPT !.expected = Snapshot(purpose), !.heard = FALSE, !.req = @ + 1, !.pc = pc]

\* on_debounce_convert (live conversion is enabled, no clauses are being edited).
Debounce ==
    /\ Idle /\ t.debounce
    /\ LET x == [t EXCEPT !.debounce = FALSE] IN
       t' = CASE ~t.composing -> x
              [] t.composing /\ Acknowledged(t) -> Made(x, Live, "push")
              [] t.composing /\ ~Acknowledged(t) ->
                    IF t.cfgPending THEN x ELSE ArmedForStatus(x, sh.gen)
    /\ UNCHANGED <<sh, w, enh, eng, gh>>

\* submit_explicit_snapshot
Submitted(x, pc) ==
    IF Acknowledged(x) THEN Made(x, Explicit, pc) ELSE ArmedForStatus(x, sh.gen)

\* begin_explicit_snapshot_wait: what is shown already is promoted without a request.
Space ==
    /\ Idle /\ t.composing /\ ~t.expl /\ t.req < MaxReq
    /\ LET promoted == t.shown # None /\ t.shown.conn = sh.epoch /\ t.shown.cfg = t.cfg IN
       t' = Armed(IF promoted THEN [Forget(t) EXCEPT !.deadline = FALSE]
                  ELSE Submitted([t EXCEPT !.expl = TRUE], "push"), sh.gen)
    /\ UNCHANGED <<sh, w, enh, eng, gh>>

\* cancel_explicit_snapshot_wait: Escape, or the conversion queue gave the wait up.
CancelExplicit ==
    /\ Idle /\ t.expl
    /\ t' = DisarmedIfIdle([Forget(t) EXCEPT !.expl = FALSE])
    /\ UNCHANGED <<sh, w, enh, eng, gh>>

\* try_live_snapshot: the newest snapshot replaces an older one; one wakeup is enough.
\* (It is refused once the worker has ended: never after an acknowledgement, before Deactivate.)
Push ==
    /\ t.pc \in {"push", "pollpush"} /\ w.pc # "exit"
    /\ t' = Armed([t EXCEPT !.pc = IF @ = "push" THEN "idle" ELSE "poll", !.deadline = TRUE],
                  sh.gen)
    /\ sh' = [sh EXCEPT !.pending = t.expected,
                        !.notified = @ \/ Len(sh.lane) < LaneCap,
                        !.lane = IF sh.notified THEN @ ELSE TrySend("work")]
    /\ gh' = [gh EXCEPT !.straddled = @ \/ t.expected.conn # sh.epoch]
    /\ UNCHANGED <<w, enh, eng>>

\* The poll timer fires, or poll_live_result goes on: statuses first, then results.
Polling == t.pc = "poll" \/ (Idle /\ t.timer)

\* snapshot_status_action: a status of another configuration or connection is dropped.
StatusIsCurrent(s) == s.cfg = t.cfg /\ s.conn = sh.epoch

\* The configuration is acknowledged.  What is expected will be replayed by the worker
\* (rebind_expected_snapshot_connection); otherwise the STA asks again.
OnConfigured(x) ==
    IF x.expected # None /\ x.expected.cfg = x.cfg
    THEN [x EXCEPT !.expected = Rebound(@, x.cfg, sh.epoch)]
    ELSE IF x.expl THEN Submitted(x, "pollpush")
    ELSE [x EXCEPT !.debounce = @ \/ x.composing]

OnInvalidated(x) ==
    [x EXCEPT !.ack = <<0, 0>>, !.deadline = FALSE, !.cfgPending = Represented(x.cfg, sh.gen)]

\* snapshot_ui_version_mismatch: nothing is waited for any more.
OnMismatch(x) ==
    Disarmed([Forget(x) EXCEPT !.ack = <<0, 0>>, !.mismatch = TRUE])

PollStatus ==
    /\ Polling /\ sh.statuses # <<>>
    /\ sh' = [sh EXCEPT !.statuses = Tail(@)]
    /\ LET s == Head(sh.statuses)
           x == [t EXCEPT !.pc = "poll"] IN
       t' = CASE ~StatusIsCurrent(s) -> x
              [] StatusIsCurrent(s) /\ s.kind = "configured" ->
                    OnConfigured([x EXCEPT !.ack = <<t.cfg, sh.epoch>>, !.cfgPending = FALSE,
                                           !.mismatch = FALSE])
              [] StatusIsCurrent(s) /\ s.kind = "invalidated" -> OnInvalidated(x)
              [] StatusIsCurrent(s) /\ s.kind = "mismatch" -> OnMismatch(x)
    /\ UNCHANGED <<w, enh, eng, gh>>

\* snapshot_result_is_current
ResultIsCurrent(r) == t.ack = <<r.cfg, r.conn>> /\ r.conn = sh.epoch

\* handle_engine: the result answers the very snapshot that is expected.
Answers(r) ==
    /\ t.expected # None /\ t.composing
    /\ [f \in DOMAIN t.expected |-> r[f]] = t.expected

\* The display takes the result; an enhancement also ends the wait and the poll.
Accept(r, x) ==
    /\ LET y == [x EXCEPT !.shown = [rev |-> r.rev, cfg |-> r.cfg, conn |-> r.conn,
                                     under |-> r.under]] IN
       t' = IF r.enh THEN Armed([y EXCEPT !.deadline = FALSE, !.pc = "idle"], sh.gen)
            ELSE [y EXCEPT !.expl = FALSE]
    /\ UNCHANGED gh

\* apply_auto_commit_proposal: the prefix is written into the document, or refused; once
\* written, its receipt is owed to the engine and the rest of the reading is a new one.
AutoCommit(r, x) ==
    LET y == [x EXCEPT !.deadline = FALSE, !.pc = "idle"] IN
    \/ /\ t.rev < MaxRev
       /\ t' = Armed([Forget(y) EXCEPT !.rev = @ + 1, !.debounce = TRUE, !.shown = None], sh.gen)
       /\ gh' = [gh EXCEPT !.sent = Append(@, r.conn)]
    \/ t' = Armed(y, sh.gen) /\ UNCHANGED gh

\* try_result: a result before an enhancement; each one is accepted or dropped.
PollResult ==
    /\ Polling /\ sh.statuses = <<>> /\ (sh.result # None \/ sh.enhanced # None)
    /\ LET r == IF sh.result # None THEN sh.result ELSE sh.enhanced
           x == [t EXCEPT !.heard = TRUE, !.pc = "poll"] IN
       /\ \/ /\ ~(ResultIsCurrent(r) /\ Answers(r))
             /\ t' = [t EXCEPT !.pc = "poll"] /\ UNCHANGED gh
          \/ ResultIsCurrent(r) /\ Answers(r) /\ ~r.auto /\ Accept(r, x)
          \/ ResultIsCurrent(r) /\ Answers(r) /\ r.auto /\ AutoCommit(r, x)
       /\ sh' = [sh EXCEPT
                   !.result = None,
                   !.enhanced = IF sh.result # None THEN @ ELSE None,
                   !.receipts = IF gh' = gh THEN @
                                ELSE Append(@, [n |-> Len(gh'.sent), conn |-> r.conn]),
                   !.lane = IF gh' = gh THEN @ ELSE TrySend("work")]
    /\ UNCHANGED <<w, enh, eng>>

\* The end of a poll: the timer is armed for what is left.  passed: live_result_deadline.
EndPoll(passed) ==
    /\ Polling /\ sh.statuses = <<>> /\ sh.result = None /\ sh.enhanced = None
    /\ passed => t.deadline
    /\ LET x == [t EXCEPT !.pc = "idle", !.cfgPending = @ /\ Represented(t.cfg, sh.gen)] IN
       t' = Armed(IF passed THEN [Forget(x) EXCEPT !.deadline = FALSE, !.expl = FALSE] ELSE x,
                  sh.gen)
    /\ UNCHANGED <<sh, w, enh, eng, gh>>

\* Drop for BackgroundInputWorker: the slots are emptied, the worker is told to close.
Deactivate ==
    /\ Idle
    /\ sh' = [sh EXCEPT !.shutdown = TRUE, !.desired = 0, !.gen = 0, !.pending = None,
                        !.notified = FALSE, !.result = None, !.enhanced = None, !.lane = TrySend("close")]
    /\ t' = Disarmed([Forget(t) EXCEPT !.composing = FALSE, !.debounce = FALSE, !.shown = None])
    /\ enh' = None
    /\ UNCHANGED <<w, eng, gh>>

-----------------------------------------------------------------------------
(* The worker thread (run_snapshot_worker_with_retry) and its transport.   *)

\* adopt_desired_snapshot_configuration
Adopted ==
    IF sh.desired = 0 THEN w
    ELSE [w EXCEPT !.latest = sh.desired, !.cfg = 0, !.retry = TRUE, !.probe = FALSE]
SlotTaken ==
    [sh EXCEPT !.desired = 0, !.gen = IF sh.desired > @ THEN sh.desired ELSE @]

\* EngineSnapshotTransport::invalidate and the status that reports it.
Invalidate(x, kind, c) ==
    [x EXCEPT !.epoch = @ + 1,
              !.statuses = ForcePush(@, [kind |-> kind, cfg |-> c, conn |-> sh.epoch + 1])]

\* invalidate_and_recover_snapshot_stream, with what the loop forgets and what it keeps.
Broken(replay) ==
    [w EXCEPT !.pc = "top", !.cfg = 0, !.retry = TRUE, !.probe = FALSE, !.cur = None,
              !.replay = replay]

\* Shutdown, Close or a closed lane: the thread ends and SnapshotWorkerAlive is dropped.
Exit ==
    /\ w' = [w EXCEPT !.pc = "exit", !.snap = None, !.selected = None, !.cur = None]
    /\ sh' = [sh EXCEPT !.epoch = @ + 1, !.pending = None, !.notified = FALSE]
    /\ eng' = [eng EXCEPT !.conn = "none"]
    /\ UNCHANGED gh

\* A request reaches the process of its connection, or opens a connection; it may fail.
Reachable == eng.conn # "lost"
Reached == eng' = [eng EXCEPT !.conn = "up"]
Failed == /\ eng.faults > 0 \/ ~Reachable
          /\ eng' = [eng EXCEPT !.conn = "none", !.faults = IF Reachable THEN @ - 1 ELSE @]

\* Mutant: only a replayed snapshot counts as work, a published one waits for its wakeup.
Runnable_Selected == w.cfg # 0 /\ w.selected # None
\* There is a snapshot to convert and a configured connection to convert it on.
Runnable == w.cfg # 0 /\ (w.selected # None \/ sh.pending # None)

\* The top of the loop: the wanted configuration is adopted, a command is received, and
\* what is due is done first (retry or probe), then work, then the wait for a command.
Top ==
    /\ w.pc = "top"
    /\ \/ sh.shutdown /\ Exit
       \/ /\ ~sh.shutdown
          /\ LET x == Adopted
                 work == sh.lane # <<>> /\ Head(sh.lane) = "work"
                 next == IF work \/ (x.cfg # 0 /\ Runnable) THEN "work" ELSE "wait" IN
             /\ \E pc \in {next} \union (IF x.retry \/ x.probe THEN {"due"} ELSE {}) :
                   w' = [x EXCEPT !.pc = pc]
             /\ sh' = [SlotTaken EXCEPT !.lane = IF @ = <<>> THEN @ ELSE Tail(@),
                                        !.notified = @ /\ ~work]
          /\ UNCHANGED <<eng, gh>>

\* Mutant: the snapshot whose conversion failed is not among those chosen from.
Replay_Published ==
    IF Rebound(sh.pending, w.latest, sh.epoch) # None
    THEN Rebound(sh.pending, w.latest, sh.epoch) ELSE Rebound(w.selected, w.latest, sh.epoch)
\* The configuration was accepted: one snapshot is chosen for replay, the newest first.
Replay ==
    LET bind(s) == Rebound(s, w.latest, sh.epoch)
        again == IF w.replay THEN bind(w.snap) ELSE None
        older == IF bind(w.selected) # None THEN bind(w.selected) ELSE again
    IN  IF bind(sh.pending) # None THEN bind(sh.pending) ELSE older

\* configure_snapshot_protocol: StartSession, version check, configuration, new identity.
ConfigureAccepted ==
    Reachable /\ eng' = [eng EXCEPT !.conn = "up", !.cfg = w.latest]

\* The retry is due; a newer wish is adopted first.
Configure ==
    /\ w.pc = "due" /\ w.retry /\ ~sh.shutdown
    /\ \/ /\ sh.gen # w.latest
          /\ w' = [w EXCEPT !.retry = FALSE, !.pc = "top"]
          /\ UNCHANGED <<sh, eng>>
       \/ /\ sh.gen = w.latest /\ ConfigureAccepted
          /\ w' = [w EXCEPT !.pc = "top", !.cfg = w.latest, !.retry = FALSE, !.probe = TRUE,
                            !.replay = FALSE, !.selected = Replay]
          /\ sh' = [sh EXCEPT !.pending = None,
                              !.statuses = ForcePush(@, [kind |-> "configured",
                                                         cfg |-> w.latest, conn |-> sh.epoch])]
       \/ /\ sh.gen = w.latest /\ Failed
          /\ \/ /\ sh' = Invalidate(sh, "invalidated", w.latest)
                /\ w' = Broken(w.replay)
             \/ /\ sh' = Invalidate(sh, "mismatch", w.latest)
                /\ w' = [Broken(w.replay) EXCEPT !.retry = FALSE]
    /\ UNCHANGED gh

\* health_probe of a configured connection
Probe ==
    /\ w.pc = "due" /\ w.probe /\ ~w.retry /\ ~sh.shutdown
    /\ \/ /\ Reachable
          /\ w' = [w EXCEPT !.pc = "top"]
          /\ UNCHANGED <<sh, eng>>
       \/ /\ Failed
          /\ sh' = Invalidate(sh, "invalidated", w.cfg)
          /\ w' = Broken(w.snap # None)
    /\ UNCHANGED gh

\* wait_for_snapshot_command: a command, a deadline, or the end of the sender.
Wait ==
    /\ w.pc = "wait"
    /\ \/ sh.shutdown /\ Exit
       \/ /\ sh.lane # <<>> /\ ~sh.shutdown
          /\ LET work == Head(sh.lane) = "work" IN
             /\ w' = [w EXCEPT !.pc = IF work THEN "work" ELSE "top"]
             /\ sh' = [sh EXCEPT !.lane = Tail(@), !.notified = @ /\ ~work]
          /\ UNCHANGED <<eng, gh>>
       \/ /\ sh.lane = <<>> /\ (w.retry \/ w.probe) /\ ~sh.shutdown
          /\ w' = [w EXCEPT !.pc = "due"]
          /\ UNCHANGED <<sh, eng, gh>>

\* Awake: with a configured connection, the receipts go first.
Work ==
    /\ w.pc = "work"
    /\ \/ sh.shutdown /\ Exit
       \/ /\ ~sh.shutdown
          /\ w' = [Adopted EXCEPT !.pc = CASE Adopted.cfg = 0 -> "top"
                                           [] Adopted.cfg # 0 /\ sh.receipts # <<>> -> "drain"
                                           [] Adopted.cfg # 0 /\ sh.receipts = <<>> -> "take"]
          /\ sh' = SlotTaken
          /\ UNCHANGED <<eng, gh>>

\* drain_auto_commit_receipts, before a snapshot is taken and again after it.
\* A receipt of an earlier connection is skipped; a failed one gives up the stream.
Drain ==
    /\ w.pc \in {"drain", "drained"} /\ sh.receipts # <<>> /\ ~sh.shutdown
    /\ LET r == Head(sh.receipts) IN
       \/ /\ r.conn # sh.epoch
          /\ sh' = [sh EXCEPT !.receipts = Tail(@)] /\ UNCHANGED <<w, eng, gh>>
       \/ /\ r.conn = sh.epoch /\ Reachable /\ Reached
          /\ sh' = [sh EXCEPT !.receipts = Tail(@)]
          /\ gh' = [gh EXCEPT !.applied = @ \union {r.n}]
          /\ UNCHANGED w
       \/ /\ r.conn = sh.epoch /\ Failed
          /\ sh' = [Invalidate(sh, "invalidated", w.cfg) EXCEPT !.receipts = <<>>]
          /\ w' = Broken(w.snap # None)
          /\ UNCHANGED gh

DrainEnds ==
    /\ w.pc = "drain" /\ sh.receipts = <<>>
    /\ w' = [w EXCEPT !.pc = "take"]
    /\ UNCHANGED <<sh, eng, gh>>

\* The replayed snapshot, or the newest one; one of another connection is dropped.
TakeSnapshot ==
    /\ w.pc = "take"
    /\ LET s == IF w.selected # None THEN w.selected ELSE sh.pending
           good == s # None /\ s.cfg = w.cfg /\ s.conn = sh.epoch IN
       /\ w' = [w EXCEPT !.selected = None, !.cur = IF good THEN s ELSE None,
                         !.snap = IF good THEN s ELSE @,
                         !.pc = IF good THEN "drained" ELSE "top"]
       /\ sh' = [sh EXCEPT !.pending = IF w.selected # None THEN @ ELSE None]
    /\ UNCHANGED <<eng, gh>>

\* The result of EngineSnapshotTransport::convert, checked against its snapshot.
Converted(auto) ==
    [req |-> w.cur.req, rev |-> w.cur.rev, cfg |-> w.cur.cfg, conn |-> w.cur.conn,
     purpose |-> w.cur.purpose, after |-> w.cur.after,
     under |-> eng.cfg, auto |-> auto, enh |-> FALSE]

\* Mutant: receipts that came while the snapshot was taken are left for later.
Convert_Undrained ==
    /\ w.pc = "drained" /\ ~sh.shutdown
    /\ Reachable /\ Reached
    /\ \E auto \in {FALSE} \union {w.cur.purpose = Live} : enh' = Converted(auto)
    /\ sh' = [sh EXCEPT !.result = enh']
    /\ w' = [w EXCEPT !.pc = "top", !.cur = None]
    /\ UNCHANGED gh
\* transport.convert: the engine answers under the configuration it has, or not at all.
\* The newest result replaces one nobody picked up, and an enhancement is asked for.
Convert ==
    /\ w.pc = "drained" /\ sh.receipts = <<>>
    /\ \/ /\ Reachable /\ Reached
          /\ \E auto \in {FALSE} \union {w.cur.purpose = Live} :
                enh' = Converted(auto)
          /\ sh' = [sh EXCEPT !.result = enh']
          /\ w' = [w EXCEPT !.pc = "top", !.cur = None]
       \/ /\ Failed
          /\ sh' = Invalidate(sh, "invalidated", w.cfg)
          /\ w' = Broken(TRUE)
          /\ UNCHANGED enh
    /\ ~sh.shutdown
    /\ UNCHANGED gh

\* The shutdown is also seen after each request.
Stop == w.pc \in {"due", "drain", "take", "drained"} /\ sh.shutdown /\ Exit

Worker ==
    /\ \/ Convert
       \/ /\ \/ Top \/ Configure \/ Probe \/ Wait \/ Work \/ Drain \/ DrainEnds
             \/ TakeSnapshot \/ Stop
          /\ UNCHANGED enh
    /\ UNCHANGED t

-----------------------------------------------------------------------------
(* The enhancement worker and the engine process.                          *)

\* poll_enhancement: the answer carries the identity of the request and proposes no commit.
Enhancement(r) == [r EXCEPT !.enh = TRUE, !.auto = FALSE]

\* run_snapshot_enhancement_worker: a better conversion of the newest request is ready in
\* time (the serial number drops one overtaken while it was polled), or never is.
Enhance ==
    /\ enh # None /\ ~sh.shutdown
    /\ enh' = None
    /\ sh' = [sh EXCEPT !.enhanced = Enhancement(enh)]
    /\ UNCHANGED <<t, w, eng, gh>>

\* The process ends and another is spawned: its connections, its configuration and the
\* conversions it was asked to enhance are gone.
EngineRestart ==
    /\ eng.faults > 0 /\ eng.conn = "up" /\ ~sh.shutdown
    /\ eng' = [eng EXCEPT !.faults = @ - 1, !.conn = "lost", !.cfg = 0]
    /\ enh' = None
    /\ UNCHANGED <<t, sh, w, gh>>

Next == \/ Key \/ Finish \/ ChangeConfiguration \/ Debounce \/ Space \/ CancelExplicit
        \/ Push \/ PollStatus \/ PollResult \/ (\E p \in BOOLEAN : EndPoll(p))
        \/ Deactivate \/ Worker \/ Enhance \/ EngineRestart

\* The STA runs its message loop, the worker thread runs, the clock reaches deadlines,
\* and a health probe that is due every five seconds does not keep the worker from work.
Spec == /\ Init /\ [][Next]_vars
        /\ WF_vars(Worker) /\ SF_vars(Top /\ w'.pc = "work" /\ UNCHANGED <<t, enh>>)
        /\ WF_vars(Push) /\ WF_vars(PollStatus)
        /\ WF_vars(PollResult) /\ WF_vars(EndPoll(FALSE)) /\ SF_vars(EndPoll(TRUE))

-----------------------------------------------------------------------------
\* What goes on display is the engine's answer to the reading, the configuration and the
\* connection of this moment, and that engine process had this very configuration:
\* nothing computed before a key, a settings change or an engine restart is ever shown.
ShownIsCurrent ==
    [][t'.shown \notin {None, t.shown} =>
          /\ t'.shown.rev = t.rev /\ t'.shown.cfg = t.cfg /\ t'.shown.conn = sh.epoch
          /\ t'.shown.under = t.cfg]_vars

\* The engine has applied the receipt of every prefix written into the document before a
\* snapshot was published, on the same connection, when it converts that snapshot: it is
\* never asked to convert text it could propose to commit a second time.
ReceiptsFirst ==
    [][sh'.result \notin {None, sh.result} =>
          \A n \in 1..sh'.result.after : gh.sent[n] = sh.epoch => n \in gh.applied]_vars

\* A worker that sleeps has nothing to do: no wanted configuration and no convertible
\* snapshot is left behind by a full control lane or a coalesced wakeup.
NoLostWakeup ==
    w.pc = "wait" /\ sh.lane = <<>> =>
        /\ sh.desired = 0
        /\ w.cfg # 0 => w.selected = None /\ sh.pending = None

\* A snapshot the STA waits for is answered, given up or overtaken, also when the
\* connection breaks and the STA relies on the worker to replay it; except a snapshot
\* published on a connection that was given up while it was being made.
Waiting == t.expected # None /\ ~t.heard /\ ~sh.shutdown /\ ~gh.straddled
WaitIsAnswered == Waiting ~> ~Waiting
=============================================================================
