# A verification project for nospacekey

nospacekey is a Japanese input method for Windows: a TSF text service (the
*TIP*, Rust, `crates/tip`) living in every application process, one conversion
engine per user (Swift, `engine-host`) that the TIPs reach over named pipes, a
GPU worker process the engine supervises, a settings application (*Config*,
`crates/config`) and an update checker (`crates/update`). This directory holds
TLA+ specifications of its core protocols, TLC instances that check them, and
TLAPS proofs.

The specifications are translated from the source at the lines `PROJECT.json`
lists under `map`; where a comment or doc says something else, the code wins
and the difference is listed under *Observations*.

## 1. Inventory

| component | state | operations | interacts with | hard behaviour | what makes it correct |
|---|---|---|---|---|---|
| **Commit ledger** `CommitReceiptLedger.swift`, `ConversionService.swift` 2906-3038 | learning generation, clearing flag, clause tokens (60 s), ledger of 4096 answers (60 s), overlay | retain candidate, commit receipt, clear, reload, restart | outbox (receipts), clause worker (tokens), learning store | repeated and reordered receipts, expiry, clears between prepare and delivery | a commit is learned at most once; nothing learned before a clear is visible after it; verdicts are final |
| **Receipt outbox** `receipt_outbox.rs` | bounded channel and count, deliveries with an expiry and a retry step, watermark per engine epoch, one coalesced notice, invalidation flag | prepare, text_applied, poll, detach; thread: take, deliver, settle | STA timer, verified connection, clause model | STA and thread race on count, notice and flag; stale cached handshakes; retry against expiry | exact count; a failure is visible before the outbox is idle; every delivery settles; only dead engines are condemned |
| **Maintenance lane** `BackgroundMaintenance.swift` | plain queue, coalesced labels, delayed labels with deadlines, `running`, turn | submit, submitLatest, submitLatestAfter, barrier, timer, drain | learning store, prediction, service | lock released between decisions; timer event against its handler; fences | one drain; latest work of a label; a fence is a fence; no starvation |
| **Learning store** `ConversionService.swift` 3216-3284, 3669-3990, `CorrectionStore.swift` | pending candidates, correction table (version, dirty), files | record, un-learn, receipt, persistence jobs, clear, reload, shutdown, crash | lane, ledger | snapshot written outside the lock; clear racing with jobs; reload moving the directory; stop | erased stays erased; at rest everything is saved; shutdown saves; clears and reloads end |
| **GPU worker supervisor** `GPUWorkerSupervisor.swift` | lifecycle state, generations, retry latch, count of timeouts, transport | rerank, warm-up, automatic and explicit retry, model change, disable | child process, conversion service | timeout against a newer child; auto retry against explicit retry; crash loop | no request to a dead child; quarantine left only on purpose; a promised respawn comes |
| **Conversion queue and input path** `conversion_queue.rs`, `key_event_sink.rs`, `local_clause_ui.rs` | at most 64 actions, head deadline 1200 ms, reading, clause mode, composition | key, enqueue, wait, resume, fail, drain, direct commit, focus change, termination | edit sessions, snapshot stream | input accepted behind a wait that fails; the focus moves | characters written once and in order, none lost after acceptance, none in another document, every wait ends |
| **Edit sessions** `apply_state.rs`, `pending_commit.rs`, `commit_session.rs`, `preedit_apply.rs` | apply state, pending commit with an immutable body, composition to be ended later | request, execute, report, retry, retire | TSF host, queue | the host refuses, runs at once, or keeps the session; result and session in either order | text applied at most once |
| **Snapshot stream** `background_input.rs` 839-1790, `input_module.rs` | slots for configuration, snapshot, result and enhancement, lanes for controls and receipts, connection epoch | publish, configure, convert, receipt, health probe, replay; STA: debounce, poll, give up | engine, input path | lock-free slots; a sleeping worker; a connection lost under a request | no lost wakeup; receipts first; only current answers shown; a wait is answered |
| **Input mirror** `background_input.rs` 1-838 | generation and phase in one atomic word, close bound, bounded channel, engine session | delta, reseed, commit, cancel, close | engine | channel full, worker failing in a request, STA overtaking it | session text = reading; a queued reseed settles; stale sessions are closed |
| **Engine link** `engine_link.rs`, `ipc/src/client.rs`, `text_service.rs` (`engine_*`) | client, owed answers, backoff, reload retry, clause views | ensure, spawn, handshake, reload, request, drain, drop | engine | no request ids; answers after their deadline; engine restarts | an answer belongs to the request just sent and speaks of the text being converted |
| **Update check** `config/src/commands.rs`, `update/src/*` | setting, scheduled task, checker's lock (lease), settings lock, state file, repair warning | startup reconciliation, switch, other patches, installer's repair, checker run | Task Scheduler, release server | three processes and two locks taken in opposite orders; every call may fail | OFF is quiet; task and setting agree or a warning is up; no patch is lost; a release is announced once |
| **Long operations of Config** `download.rs`, `prediction_download.rs`, `update.rs`, `operation_state.rs` | operation record, cancel flag, activation generation, model and backup, engine lease | begin, receive, verify, wait, place, save, cancel, patch | engine, settings | cancellation at any point; the user changes the setting meanwhile; engine comes back | all or nothing; accepted cancellation stands; latest choice wins; files replaced only without an engine |
| Clause worker and boundary editing `clause_worker.rs`, `clause_conversion.rs` | pending request, windows, learning identity | send, answer, refresh, invalidate | engine, outbox | late answers, coalesced refreshes | an answer is used for the request and identity it was made for |
| Prediction `prediction_*.rs`, `PredictionService.swift` | latest request, cancellation | request, cancel, answer | engine | overtaken requests | only the latest answer is shown |
| Pipe server and framing `NamedPipeServer.swift`, `ipc/src/framing.rs` | connections, pending reads, stop event | accept, read, write, stop | all | overlapped I/O, shutdown drain | one answer per request, drain ends |
| Lifetime lease `crates/lifetime` | version lease | acquire, release | installer | an installation removed under a running process | lease counted once |
| Conversion service, settings and key maps | files, vendor converter | convert, parse | - | sequential | not a subject of this project |
| TIP user interface, test bench, installer | windows | draw | - | pure I/O | not a subject of this project |

The `hazards` of `PROJECT.json` list, at its line, each place where an
interleaving, a crash, a lost answer or a boundary could break one of these.

## 2. Plan

Done, in this order: `CommitLedger` → `ReceiptOutbox` → `CommitLearning`
(abstract) → `ReceiptDelivery` (composition, refinement) →
`BackgroundMaintenance` → `LearningStore` → `GPUWorkerSupervisor` →
`ConversionQueue` → `InputPath` → `SnapshotStream` → `InputMirror` →
`EngineLink` → `AutomaticCheck` → `ModelInstall`, and proofs about each of them:
every invariant and action property a run checks is a theorem (section 6).

Next are models: prediction slots (the shape of `SnapshotStream` with a
cancellation), clause windows and boundary editing, the pipe server's stop, the
lifetime lease.

## 3. Modules

| module | models |
|---|---|
| `CommitLedger` | `commitReceipt`, the ledger, tokens, clear, reload, restart. Each action is one critical section of `learningStateLock` (inside `converterLock`). A time stamp is kept as an age that saturates at the limit the code compares it with; `LedgerTick` advances all ages. The order in which a receipt's intervals are examined is a choice among the refusals they can give. |
| `ReceiptOutbox` | STA operations and the delivery thread at the granularity of its atomics and locks: `TakeDue`, `Handshake`, `DropStaleClient`, `SendReceipt`, `Answered`/`AnswerLost`, then `RaiseWatermark`, `FlagInvalidation`, `PublishNotice`, `Release` as four steps, because the STA may look in between. |
| `CommitLearning` | what the pair promises: a commit is learned at most once; the client settles each commit with one verdict; "learned" is told only of a commit that was learned, and a refused one is not learned afterwards |
| `ReceiptDelivery` | INSTANCEs of the two, the requests on the pipe, the clause model's learning identity, engine restarts; `KeepsThePromise` is the refinement of `CommitLearning` |
| `BackgroundMaintenance` | the serial dispatch queue as a sequence of events (drain, timer, fence), and each locked section of the lane as an action |
| `LearningStore` | requests under `serviceLock`/`converterLock`, the two persistence jobs, clear, reload, shutdown and crash. The lane appears through what `BackgroundMaintenance` establishes: one job at a time, the latest work of a label, a fence after the work before it. |
| `GPUWorkerSupervisor` | the supervisor's threads at the granularity of `stateLock`; `op` is the holder of `operationLock` and how far it is. A native call (start, rerank, terminate) returns in the step that takes `stateLock` after it, so everything else may happen before. `scheduleTermination` is one action, `Reap`, whether it finds the lock free or leaves a thread behind. At most one call of each kind is under way. A supervisor that starts lazily (`LazyStart`) does all the production one does, and more. |
| `ConversionQueue` | the operations of `conversion_queue.rs` on a queue record: admission and capacity, deadline of the head, failure, barrier, detach and the text shown as unwritten |
| `InputPath` | EXTENDS `ConversionQueue`. The STA as one actor: a key, timer or callback is a step; the drain it starts is one step per queued action. TSF is the other: it refuses a session, runs it at once, or keeps it for later. Typed characters are numbered, so order and loss can be stated. |
| `SnapshotStream` | the snapshot worker, the enhancement worker and the polling STA, one access of a shared slot per step |
| `InputMirror` | mailbox, input worker and engine session; each step is one atomic access or one operation on the channel |
| `EngineLink` | the STA's blocking call step by step (ensure, connect, handshake, reload, drain of owed answers, write, read or time out), the pipe, the engine's session, and the user operations that use the connection |
| `AutomaticCheck` | three processes: Config (startup worker, `set_automatic_check`, `settings_patch`), up to two checkers, the installer's repair; one step per locked section or system call. Config may end at any step. Two checkers can run only if the task was deleted and registered again (the task says `IgnoreNew`). |
| `ModelInstall` | one of the three operations, chosen by `Init`, step by step beside a cancellation, a change of its setting and the engine; they share their outline and differ in their critical sections |
| `X_proofs` | the inductive invariant of `X`, its lemmas and the theorems of section 6, for `X` one of `InputPath` (with the lemmas about the queue record of `ConversionQueue`), `LearningStore`, `EngineLink`, `AutomaticCheck`, `ModelInstall`. `EngineHost_proofs` has two components of the engine process, `BackgroundMaintenance` and `GPUWorkerSupervisor`, whose specifications share no name (the lane's are `LaneInit`, `LaneNext`, `LaneSpec`). `BackgroundInput_proofs` has the two components of `background_input.rs`, `SnapshotStream` and `InputMirror`, one after the other. `ReceiptDelivery_proofs` has the ledger, the outbox, their composition and the refinement in four parts, because each rests on the one before. |
| `MC…` | constants for TLC, nothing else, except `MCReceiptOutbox`, which closes the outbox with an engine that answers anything |

Mutated forms of a definition (`X_Something`) stand before the definition they
vary; they are used by no specification and show that a property can fail.

## 4. Runs

| run | checks | instance |
|---|---|---|
| `ledger` | `AppliedOnce`, `OverlayIsCurrent`, `VerdictsAreFinal` | two receipts that share an id, a two-token receipt, one of the next process; ledger capacity 1 so that it fills; life times 2 so that tokens and entries age and expire. The type invariant is the theorem `TypeCorrect`. |
| `outbox` | `OutboxInv` (`CountIsExact`, `BusyIsVisible`), `EveryDeliverySettles` | three receipts, one of a second engine, against a capacity of 2, one retry |
| `delivery` | `DeliveryInv` (`CondemnedModelIsCaught`, `CondemnationIsPast`), `KeepsThePromise` | one commit id over two engine processes and two generations, one retry, any number of lost answers. `recent` and `enabled` of the ledger are hidden by a VIEW: nothing reads them but themselves. |
| `lane` | `LaneInv` (`OneDrain`, `LatestIsKept`), `FenceIsAFence`, `RunnableIsStarted` | two plain jobs, three labels for a capacity of two, two versions of work, one fence |
| `store` | `StoreInv` (`LateLearningIsDropped`, `ErasedCandidatesStayErased`), `RestMeansSaved`, `ShutdownSaves`, `BoundariesEnd` | two directories (a move and a return), two changes, two boundaries, one attempt of the three a write has |
| `worker` | `SupervisorInv` (`RequestableIsClean`, `NoOrphan`, `LatchIsEarned`), `OnlyLifecycleReopens`, `PreparingEnds` | three kinds of calls (foreground, live, the snapshot thread with its late-answer grace) over five generations: a timeout, its automatic retry, a strong caller's probe and two operations of the user |
| `input` | `InputInv` (`NothingLost`), `WrittenOnceInOrder`, `OwnerLossIsHonest`, `WaitEnds` | two characters and three other keys, one session the host may keep, one focus change, a queue of 3, two retries of the end of a composition; 1,256,084 states |
| `snapshot` | `NoLostWakeup`, `ReceiptsFirst`, `ShownIsCurrent`, `WaitIsAnswered` | two readings, two configurations, an explicit request, one failure, a control lane of 1, a status queue of 2; 971,825 states |
| `mirror` | `MirrorIsFaithful`, `ReseedSettles`, `StaleSessionCloses` | five operations, a channel of 2, one crash or failed request; 917,885 states |
| `link` | `AnswersAreOwn`, `AnswersMatchTheReading` | eight operations, two timeouts, two faults (death, refused handshake, busy), readings of up to 3 segments, two reload retries; 791,044 states |
| `check` | `OffIsQuiet`, `AgreesAtRest`, `PatchesSurvive`, `NotToastedTwice`, `SwitchIsAnswered` | two checkers, one release, one start of Config, one patch, two failing calls; 747,335 states |
| `install` | `AllOrNothing`, `CancelIsFinal`, `LatestChoiceWins`, `ReplacedUnderAbsence`, `CancelEnds` | each of the three operations, two attempts, one cancellation, one change of the setting, one failing call; 464,161 states (the same with two cancellations: 1,417,599) |

A conjunction such as `OutboxInv` is the module's type invariant and the named
invariants in parentheses; each has its own comment in the module.

Why the bounds are enough: a hazard of these components needs one pair of
actors in conflict (two receipts with one id, a snapshot and a change, a clear
and a job, a key and a focus change, an OFF and a checker) plus, for the
limits, one more than fits; every instance has that. Bounds are named in the
modules' CONSTANTS; they cap user actions, restarts and failures, never what
the threads do about them. Where they are used up the system rests, so those
runs do not check deadlock; that nothing hangs before is what their liveness
properties say.

**Fairness** is weak unless said otherwise and only for threads that the code
keeps running: the outbox thread and its clock (`recv_timeout` always returns),
the STA finishing the call it is in, the serial dispatch queue, its timer and
the jobs on it (they end: they write files), requests once they hold their
turn, and in the supervisor the holder of `operationLock` (every native call
has its own deadline) and the detached start, retry and reaper threads.
`InputPath`: the message loop goes on draining, polling and admitting, and the
clock ticks. `SnapshotStream`: the worker runs and the STA polls; strong
fairness says that a health probe, due every five seconds only, does not take
every turn of the worker, and that a deadline the poll timer keeps looking at
is seen once it has passed. `InputMirror`: the worker's loop polls every 10 ms
and its requests have deadlines. `AutomaticCheck`, `ModelInstall`: a command or
process that was started goes on, system calls and streams have timeouts.
Nothing obliges the user to type or cancel, the engine to answer or to become
free, the host to run a session it keeps, or Config to stay alive.

## 5. Observations

Where the code does not do what a comment says, or a property had to be stated
with an exception, the exception is in the property and here.

Properties with a configuration of their own that TLC shows violated (each in
a few seconds, `tlc -config <cfg> <module>`):

* `MCReceiptDelivery_condemn.cfg`, `LiveIdentityNotCondemned` — while a clear
  runs, `learningGeneration` has already moved and is handed to clients, but
  receipts carrying it are refused as *stale* (`ConversionService.swift:2962`).
  The outbox takes this refusal as proof that the generation is gone and rejects
  the identity that stays live (`receipt_outbox.rs:423-436`), until the next
  clear or restart; `receipt_outbox.rs:366` says a delayed rejection cannot
  retire newer candidates.
* `MCBackgroundMaintenance_fence.cfg`, `DueJobsPrecedeFence` —
  `promoteDueDelayed` drains inline only if no drain is `running`; a submit
  between the timer event and its handler queues its drain behind a fence that
  is queued already, so the fence overtakes the due retry, which the comment at
  `BackgroundMaintenance.swift:166-167` excludes.
* `MCLearningStore_clear.cfg`, `ErasedCorrectionsStayErased` —
  `recordCorrection` does not observe `clearingLearning`; accepted after the
  clear's fence, its job can snapshot before the wipe and write after the
  verification. The clear reports success and the corrections are back at the
  next start (`ConversionService.swift:3696`, `3851-3852`).
* `MCLearningStore_move.cfg`, `MovedStoreIsFlushed` — `reload` enqueues the
  correction flush and then replaces the store the flush will read; the old
  directory's unsaved entries are lost (`ConversionService.swift:1209-1212`).
* `MCGPUWorkerSupervisor_disable.cfg`, `DisabledMeansStopped` — `explicitRetry`
  opens a generation without touching the child of the old one. A `disable`
  before the next start sees a state that is not live and a transport of another
  generation, terminates nothing, and the child outlives it;
  `GPUWorkerSupervisor.swift:494` says disable stops an active worker.
* `MCInputMirror_cursor.cfg`, `CursorEditReseeds` — a key typed away from the
  end of the reading asks for a reseed without `request_close`
  (`key_event_sink.rs:2851-2852`), which `try_reseed` refuses unless the phase
  is DIRTY (`background_input.rs:146`): the engine session misses the key, and
  later deltas build on the wrong reading. `input_module.rs:1209` says
  "cursor edit must reseed".
* `MCInputPath_overtaken.cfg`, `QueueFollowsReading` — a Cancel whose edit
  session the host refuses stops the drain and stays at the head of the queue
  (`key_event_sink.rs:2031`, `2094`), but the queue neither waits nor has failed,
  so `handle_conversion_wait_key` (`key_event_sink.rs:1797-1798`) passes the
  next key on and `input_char_with_original` puts it straight into the reading,
  ahead of the text queued behind the Cancel; the Cancel, when it is drained at
  last, erases the newer text and keeps the older. The test at
  `conversion_queue.rs:476` says later input stays in order behind a Cancel.
* `MCEngineLink_clause.cfg`, `ClauseMovesMatchTheReading` — a clause move over
  candidates of a snapshot asks a session nobody has anchored to the reading
  (`text_service.rs:5980-5983`); that comment says a failed move falls back to a
  commit, which `key_event_sink.rs:1718-1721` makes a no-op.

Exceptions written into the properties of the passing runs:

* `NothingLost` excuses `thrown`: `key_event_sink.rs:1871-1884` drops Inserts
  accepted behind a queued Candidate, and a queued Commit that falls back to
  `initial_reading` after Inserts ran behind a failed wait leaves them out,
  although `conversion_queue.rs:1` says "Accepted operations survive engine
  waits" (`AcceptedInputSurvives`).
* `WrittenOnceInOrder` excuses `overtaken`, a history variable: the characters
  that were queued while a later key went straight to the text, as above. They
  may stand behind that later character; nothing else may change its place.
  The bounds of run `input` do not reach this (it takes four characters and a
  queue of 4), the theorem covers it.
* `WrittenOnceInOrder` and `OwnerLossIsHonest` excuse `leaked`: a focus change
  with a reading but no open composition does not abandon the reading, and a
  late commit that wrote its body but whose close was given up leaves the
  reading to be committed again (`FocusLeavesNothing`). A refused Cancel stays
  at the head of the queue, so a later Commit can write a stale initial reading;
  a snapshot wait that is given up leaves `waiting` set until the next poll.
* `WaitIsAnswered` excuses `gh.straddled`: the STA reads the epoch and then
  pushes its snapshot; if the worker gives the connection up in between, the
  snapshot is dropped and nobody replays it until the next key. The test at
  `background_input.rs:3773` expects otherwise.
* `AgreesAtRest` excuses `gh.orphan`: a cleanup that fails after a failed save
  (`commands.rs:618`), an installer that registers from a setting it had read
  before, and a command overlapping the startup worker, whose
  `clear_after_successful_apply` erases the warning the worker has just raised.
* `CancelIsFinal` leaves the prediction model out: its installer looks at the
  flag once only, before the swap; and a cancellation that straddles the
  beginning of the next attempt may have its flag cleared or meet the wrong
  attempt (`can.clean`).
* `AllOrNothing` excuses `gh.damaged`: the backup is a temporary file that is
  deleted with the operation, so a restore that fails loses the old model.

Also seen while modelling: the switch takes the lease and then the settings
lock, the startup worker the other way round (`commands.rs:225-228` says
otherwise); only the 20 s deadline of the lease gets them apart, which is what
`SwitchIsAnswered` rests on. `schedule_reload_retry` speaks of two attempts and
makes `RELOAD_RETRY_MAX` = 5. The `StartSession` branch of `ensure_session` is
dead: session and client are always set and cleared together.
A due retry of the lane waits for the running drain to end
(`BackgroundMaintenance.swift:152`), for which the code promises no bound.

## 6. Proofs

Every theorem holds for all values of the constants that meet the named
assumption of its module. Each component has one inductive invariant (`IInv`,
or `LaneIInv`, `OutboxIInv`, `DeliveryIInv` and `MirrorInv`), a conjunction of named layers: there is a
lemma for each action (or group of actions that touch the same fields), under it
one step per layer the action can disturb, one lemma that combines them
(`Next` keeps the invariant) and temporal theorems that draw the properties from
it. An action property is proved of one step between states of the invariant.

| run | proved | by |
|---|---|---|
| `ledger` | `AppliedOnce`, `OverlayIsCurrent`, `VerdictsAreFinal` | `LearnedAtMostOnce`, `NothingResurfaces`, `FinalVerdicts` in `ReceiptDelivery_proofs`, and `TypeCorrect` |
| `outbox` | `OutboxInv` | `OutboxSafe` in `ReceiptDelivery_proofs` |
| `delivery` | `DeliveryInv`, `KeepsThePromise` | `DeliverySafe`, `PromiseKept` in `ReceiptDelivery_proofs` |
| `lane` | `LaneInv`, `FenceIsAFence` | `LaneSafe`, `FenceHolds` in `EngineHost_proofs` |
| `store` | `StoreInv`, `RestMeansSaved`, `ShutdownSaves` | `StoreSafe`, `RestIsSaved`, `StopSaves` |
| `worker` | `SupervisorInv`, `OnlyLifecycleReopens` | `SupervisorSafe`, `OnlyLifecycle` in `EngineHost_proofs` |
| `input` | `InputInv`, `WrittenOnceInOrder`, `OwnerLossIsHonest` | `InputSafe`, `WrittenOnceInOrderAlways`, `OwnerLossIsHonestAlways` |
| `snapshot` | `NoLostWakeup`, `ReceiptsFirst`, `ShownIsCurrent` | `WakesUp`, `ReceiptsComeFirst`, `OnlyCurrentShown` |
| `mirror` | `MirrorIsFaithful` | `MirrorIsFaithfulAlways`, from `MirrorInvariant` and `MirrorTypeCorrect` |
| `link` | `AnswersAreOwn`, `AnswersMatchTheReading` | `OwnAnswers`, `MatchingAnswers` |
| `check` | `OffIsQuiet`, `PatchesSurvive`, `AgreesAtRest`, `NotToastedTwice` | `QuietWhenOff`, `PatchesAlwaysSurvive`, `TaskAgreesAtRest`, `NeverToastedTwice` |
| `install` | `AllOrNothing`, `CancelIsFinal`, `LatestChoiceWins`, `ReplacedUnderAbsence` | `InstallsAllOrNothing`, `CancellationIsFinal`, `ChoiceWins`, `AbsenceHolds` |

**Ledger.** `LedgerAssumption`: natural numbers, and `TokenTTL <= LedgerTTL`: a
token does not outlive a ledger entry; both are 60 s in the code. `AppliedOnce`
is not inductive: one must know that a receipt already learned can only be
learned again if it passes the token check, hence that its tokens are still
alive, hence that they are younger than the ledger entry is allowed to be old,
hence that the entry is still there and the receipt is answered as a replay.
`TokensIssued` (a live token was issued by this process) keeps a restart from
reviving tokens, and `ReplayGuard` relates the age of a learned receipt's tokens
to the age of its entry. Receipts without tokens are applied without being
learned and are outside `AppliedOnce`; see the comment there.

**Outbox.** `OutboxAssumption`: a capacity, a life time and retry delays that are
positive. The engine enters only through the set `R` of receipts, so the lemmas
about single steps serve the outbox alone and inside the delivery.
`DeliveriesTyped` bounds the attempts by where a delivery is (an attempt is
counted when it is taken), `Places` says that an exited thread has nothing left;
with them the counter is exact through `Retry`, which moves a delivery, and
`Release`, which ends one.

**Delivery.** `DeliveryAssumption`: there is a first engine, a delivery expires
no later than a ledger entry (30 s against 60 s) and every receipt the client
can freeze is in `Receipts`. The joint invariant follows a commit: `Sessions`
and `Commits` (an identity, and a receipt frozen from it, are of an engine's
past), `Deliveries` and `Apart` (one delivery per commit, and while it may still
be answered the engine that applied it remembers so: entry age plus time left
stays within the life time), `Entries` (what the ledger remembers happened),
`Telltale` and `Refused` (what the client was told; a commit it was told is
refused cannot be learned any more), `Condemned` (a second handshake is never of
an older engine than the receipt it condemns).

**Refinement.** `PromiseKept` is `DeliverySpec => Learning!Spec`, the refinement
of `CommitLearning` in which a commit is written when its text is applied, is
learned as often as the ledger has applied it with material, and has the verdict
the client was told. Each of the joint actions is a step on one commit or leaves
every commit alone (`LearningSteps`, `OneCommit`, `LearningStutters`): writing
the text, applying a receipt, telling an answer, giving up. The hard step is the
answer: `AnswersTruthfully` shows that it is "learned" only of a learned commit
although requests are answered late, twice, or by the engine's successor.

**Lane.** `LaneAssumption`: positive capacity and delays, a finite set of
labels, and fences that are not the names of the queue's own events. Behind the
property that a fence is a fence is `Behind`: as long as work a fence waits for
is runnable, a drain is at work or stands in the queue ahead of that fence. A
drain keeps the queue until nothing is runnable, and work submitted while no
drain runs queues one, ahead of every fence that comes later.

**Store.** `StoreAssumption`: at least one directory and one attempt.
`Candidates` says which candidates may still be written (of the generation there
is, not erased, and of no boundary that has begun); `Corrections` says for a
store neither moved nor wiped that dirty means a job is coming or a write
failed, that clean means the file matches, and that a snapshot either still is
the store or is followed by another job; `Stop` that nothing becomes runnable
behind a graceful stop. `ShutdownSaves`, an action property of the step that
ends the stop, follows from `Job` and `Stop`.

**Supervisor.** `SupervisorAssumption`: the kinds of callers are disjoint from
the names of the supervisor's own threads. `Holder` says what generation the
holder of `operationLock` works for (never a later one), `Books` what the
bookkeeping is at each place of the operation: only the holder makes a state
requestable, and only for its own generation, so whoever finds a requestable
state with the lock free finds a child of that generation that owes nothing.
`Escalation` ties the state to the timeouts since the last good answer.

**Input path.** `InputAssumption` and `CapacityAssumption`: the focus moves
between documents there are, no session is called 0, the end of a composition is
tried at least twice (3 in the code) and the queue has room for a commit and the
character behind it (64 in the code); any number of documents, sessions, keys
and characters. The invariant has three parts, each of
which is kept under the ones before it. `Base` has the types with both limits
(every way into the queue leaves at most `Capacity` actions, also the Commit put
in front of a head whose counters are exhausted, because admission of such an
action reserves the slot) and the account of every character, which is
`NothingLost` itself. `Control` says what a commit in flight excludes: while a
pending commit is neither refused nor settled, the head of the queue is its
Commit and the reading is the one its body was taken from (`PendOK`), and what a
wait or an open candidate window implies for the mode of the input (`SnapOK`,
`WinOK`). `TextOK` has the order of everything: documents in order, each with
its own characters only (`DocsOK`), the reading behind them (`ReadingOK`), the
queue behind both, its actions rising (`QueueOK`), the body of a session the host may still run
(`BodyOK`), the readings a failed wait falls back to (`StartsOK`), and nothing
unwritten in a document (`LostOK`). The properties speak of concatenations; the
invariant compares sets of characters instead (`Bef(A, B, ...)`: every character
of A before every one of B), which needs no index arithmetic, and goes back to
positions once, at the end. What a failure keeps of the queue is a filtered
sequence, and that a filter keeps the order of what it keeps is an induction
over data; it is proved as for the mirror below, by the least counterexample.

**Snapshot stream.** `StreamAssumption`: natural bounds and lanes that hold at
least one command. `Wakeups` adds to `NoLostWakeup` that a coalesced wakeup
still has its command in the lane; `Connected` that the worker converts only
under the configuration that the engine process behind its connection has, or
that process is gone; `Receipts` that a receipt sent on this connection has been
applied or waits; `Expects` what the STA may accept as an answer.

**Mirror.** `MirrorAssumption`: natural bounds, a channel that holds at least
one intent. What the engine session will hold is a replay of the intents on
their way: a function defined by recursion over the line of intents. The prover
has no induction over data, but the library states as a theorem that a
well-founded set has a minimum, and that is enough: two replays that differ
have a least place at which they do (`LeastNumber`, `CoursesAgree`), so adding
an intent follows it (`ReplayedAppend`), applying the first one takes it away
(`ReplayedTail`), and after a reseed nothing older matters (`ReseedForgets`).
`Faithful` says between any two accesses of the STA what `MirrorIsFaithful` says
between two calls: the replay is the reading without the key the STA has not
sent yet (`Target`). It rests on `Lines`, what the line may carry in each phase
of the mailbox's word (no delta while DIRTY, no commit but in TERMINAL, a reseed
ahead of everything unless the worker has a session of this generation), on
`Calls`, what the STA has learned from the word and may still rely on, and on
`Works`, that the worker closes a session of the current generation only after
the commit. The five parts were checked by TLC on the `mirror` run first.

**Engine link.** `LinkAssumption`: natural bounds, a longest reading of at least
one segment. `Alternation` is why a protocol without request ids works: at most
one request or answer is on the pipe, and one the STA has stopped waiting for is
marked as owed and drained or dropped before the next request. `Planned` states
what a blocking call still has to do (k inserts and a last request, perhaps
behind a connection, handshake and reload) together with the text the engine's
session has by then: the reading without the last k segments. `Anchored` keeps
this for an idle session whose candidates are shown. A reading may have any
length.

**Update check.** `CheckAssumption`: natural bounds; the names of checkers, of
the lock holders and of releases do not collide. `Locks` says who holds which of
the two locks at each step; under them, `ViewIsCurrent` says that what the
startup worker read is still true, `SwitchKnows` what the switch may rely on
without a lock (only the startup worker changes the setting besides it, and only
to OFF), `AnnouncedIsNoted` ties the state file to the last announcement, and
`AgreesMeanwhile` is `AgreesAtRest` for commands that are on their way, with the
same exceptions.

**Long operations.** `InstallAssumption`: natural bounds. `CancelIsSeen` carries
an accepted cancellation to the last look at its flag and says that none is
accepted later; `Placement` says where old and new model are at each step;
`Absence` that from the check on the lease is held if there is a model to
replace; `Intent` that an intent is current as long as the user has not chosen
again.

Only model-checked:

* liveness under fairness, which is out of the prover's reach:
  `EveryDeliverySettles`, `RunnableIsStarted`, `BoundariesEnd`, `PreparingEnds`,
  `WaitEnds`, `WaitIsAnswered`, `ReseedSettles`, `StaleSessionCloses`,
  `SwitchIsAnswered`, `CancelEnds`;
* the configurations of section 5 that TLC shows violated.

## 7. Not modelled, and what the models leave out

Not modelled:

* the conversion itself (`ConversionService.swift` outside of learning, typo
  repair, user dictionary, the LLM client) and the vendor converter: sequential
  code whose result depends on a library outside the repository;
* romaji and kana tables, key maps, settings parsing, release selection and
  version comparison: pure functions of their input;
* drawing, windows, the language bar, the test bench, installer and scripts;
* prediction, clause windows and boundary editing, the pipe server's overlapped
  I/O, the lifetime lease: protocols that could be modelled and are not yet.
  Close to half of the Rust lines are the tests inside the source files.

Left out of the models:

* Learning data: a receipt is its id, epoch, generation and tokens; a
  correction table is its version and the serial of its last change; the
  vendor's temporary dictionary and the LRU order of the table are not modelled.
* The identity of threads inside the engine's pipe server: a request is an
  action guarded by the locks it takes.
* The GPU worker's latency statistics, status texts, wire format and the worker
  process itself: an answer is valid, late, missing or a failure.
* Diagnostics counters (`dropped`, `failed`) and log lines.
* `RestMeansSaved` does not speak of stores that were cleared or left behind by
  a move, nor of writes that failed all attempts.
* A fence may wait as long as callers keep submitting plain jobs, and a due
  retry as long as the lane stays busy: the code promises no bound.
* `InputPath`: text is a sequence of numbered characters and every operation
  that moves a selection or boundary is one `Move`; a queue's limit is counted
  in actions (one key gives one character); display attributes and ranges are
  left out.
* `AutomaticCheck`: times and the throttle are a free choice of the checker's
  last reading; the start of Config and its first reading are one step; the page
  runs one switch at a time and sees answers in the order the calls ended;
  quarantine of a corrupt settings file and the waits of the tests are left out.
* `ModelInstall`: one operation at a time, as the pages allow; a crash in the
  middle of the swap, after which no model is in place until it is downloaded
  again, is not a step of the model.
