---------------------------- MODULE ReceiptOutbox ---------------------------
(***************************************************************************)
(* The text service's side of commit learning (receipt_outbox.rs): the STA *)
(* hands a receipt over once its text is in the document, a worker thread  *)
(* delivers it to the engine, and the outcome comes back as a notice and a *)
(* watermark of condemned learning identities.                             *)
(*                                                                         *)
(* The STA and the worker interleave at every shared access: the counter,  *)
(* the channel, the notice, the invalidation flag and the watermarks.  A   *)
(* deadline is kept as the time left until it.  The engine's handshakes    *)
(* and answers are parameters, bound by ReceiptDelivery.                   *)
(***************************************************************************)
EXTENDS Integers, Sequences, SequencesExt

CONSTANTS
  Capacity,        \* CAPACITY (128)
  Lifetime,        \* LIFETIME (30 s)
  RetryDelays      \* RETRIES (250 ms, 1000 ms)

ASSUME OutboxAssumption ==
  /\ Capacity \in Nat \ {0} /\ Lifetime \in Nat \ {0}
  /\ RetryDelays \in Seq(Nat \ {0})

VARIABLES
  outstanding,     \* AtomicUsize: queued, in-flight and retrying deliveries
  channel,         \* sync_channel(CAPACITY)
  notice,          \* Mutex<Option<DeliveryNotice>>: whether there is one
  invalidated,     \* learning_invalidated
  watermark,       \* rejected_generations: engine epoch -> generation
  attached,        \* the STA still holds a ReceiptOutbox
  sta,             \* "idle", "writing", "sending" or "noticing"
  held,            \* the receipt the STA is writing or sending, in a sequence
  pending,         \* the worker's VecDeque<Delivery>
  current,         \* the delivery the worker has taken, in a sequence
  phase,           \* where the worker is
  outcome,         \* the verdict on current
  client           \* the cached connection: the epoch of its handshake, or NoClient

staVars == <<attached, sta, held>>
sharedVars == <<outstanding, channel, notice, invalidated, watermark>>
workerVars == <<pending, current, phase, outcome, client>>
outboxVars == <<staVars, sharedVars, workerVars>>

NoClient == 0
NoOutcome == "none"
Phases == {"idle", "cached", "fresh", "await", "failed", "condemn", "flag", "notify",
           "release", "exited"}

(* EpochChanged condemns every generation of an epoch (u64::MAX).          *)
EveryGeneration == -1

(* rejects_identity: at or below the watermark of its epoch.               *)
Rejects(identity) ==
  /\ identity.epoch \in DOMAIN watermark
  /\ \/ watermark[identity.epoch] = EveryGeneration
     \/ identity.generation <= watermark[identity.epoch]

(* ReceiptOutbox::pending: what keeps the STA polling.                     *)
Pending == outstanding # 0 \/ invalidated \/ notice
-----------------------------------------------------------------------------
(* STA: the frozen receipt waits in a closure for its text to be applied.  *)
PrepareCommit(r) ==
  /\ attached /\ sta = "idle"
  /\ sta' = "writing" /\ held' = <<r>>
  /\ UNCHANGED <<attached, sharedVars, workerVars>>

(* The document write failed: the closure is dropped.                      *)
WriteFails ==
  /\ sta = "writing"
  /\ sta' = "idle" /\ held' = <<>>
  /\ UNCHANGED <<attached, sharedVars, workerVars>>

(* text_applied, first half: the count is taken, or the receipt is lost    *)
(* with a Capacity notice.                                                 *)
TextApplied ==
  /\ sta = "writing"
  /\ IF outstanding < Capacity
     THEN /\ outstanding' = outstanding + 1 /\ sta' = "sending"
          /\ UNCHANGED <<held, notice>>
     ELSE /\ notice' = TRUE /\ sta' = "idle" /\ held' = <<>>
          /\ UNCHANGED outstanding
  /\ UNCHANGED <<attached, channel, invalidated, watermark, workerVars>>

(* text_applied, second half.  try_send fails only on a full channel, and  *)
(* CountIsExact shows that the count taken before reserves a place in it.  *)
TrySend ==
  /\ sta = "sending"
  /\ channel' = Append(channel, [receipt |-> held[1], left |-> Lifetime, wait |-> 0, attempts |-> 0])
  /\ sta' = "idle" /\ held' = <<>>
  /\ UNCHANGED <<attached, outstanding, notice, invalidated, watermark, workerVars>>

(* poll_receipt_notice, first half: take_learning_invalidation,            *)
SwapInvalidation ==
  /\ attached /\ sta = "idle" /\ Pending
  /\ invalidated' = FALSE /\ sta' = "noticing"
  /\ UNCHANGED <<attached, held, outstanding, channel, notice, watermark, workerVars>>

(* and second half: take_notice.                                           *)
TakeNotice ==
  /\ sta = "noticing"
  /\ notice' = FALSE /\ sta' = "idle"
  /\ UNCHANGED <<attached, held, outstanding, channel, invalidated, watermark, workerVars>>

(* The text service goes away; its senders are dropped.                    *)
Detach ==
  /\ attached /\ sta = "idle"
  /\ attached' = FALSE
  /\ UNCHANGED <<sta, held, sharedVars, workerVars>>
-----------------------------------------------------------------------------
(* run: everything that has arrived, then the first delivery whose attempt *)
(* or whose life time is due.                                              *)
Due(d) == d.wait = 0 \/ d.left = 0
Arrived == pending \o channel
FirstDue == CHOOSE i \in DOMAIN Arrived :
              Due(Arrived[i]) /\ \A j \in 1..(i-1) : ~Due(Arrived[j])

Settle(verdict) ==
  /\ outcome' = verdict
  /\ phase' = CASE verdict \in {"applied", "alreadyProcessed"} -> "release"
                [] verdict \in {"epochChanged", "stale"} -> "condemn"
                [] OTHER -> "notify"

TakeDue ==
  /\ phase = "idle"
  /\ \E i \in DOMAIN Arrived : Due(Arrived[i])
  /\ LET d == Arrived[FirstDue]
     IN  /\ pending' = RemoveAt(Arrived, FirstDue)
         /\ channel' = <<>>
         /\ IF d.left = 0
            THEN current' = <<d>> /\ Settle("expired")
            ELSE /\ current' = <<[d EXCEPT !.attempts = @ + 1]>>
                 /\ phase' = "cached" /\ UNCHANGED outcome
  /\ UNCHANGED <<staVars, outstanding, notice, invalidated, watermark, client>>

(* ensure_connected: a handshake with the engine of epoch e, or none.      *)
Handshake(e) ==
  /\ phase \in {"cached", "fresh"} /\ client = NoClient
  /\ client' = e
  /\ UNCHANGED <<staVars, sharedVars, pending, current, phase, outcome>>

HandshakeFails ==
  /\ phase \in {"cached", "fresh"} /\ client = NoClient
  /\ phase' = "failed"
  /\ UNCHANGED <<staVars, sharedVars, pending, current, outcome, client>>

(* The cached handshake names another epoch than the receipt: it may not   *)
(* condemn, only a second one may.                                         *)
Mismatch == client # NoClient /\ client # current[1].receipt.epoch

DropStaleClient ==
  /\ phase = "cached" /\ Mismatch
  /\ client' = NoClient /\ phase' = "fresh"
  /\ UNCHANGED <<staVars, sharedVars, pending, current, outcome>>

CondemnEpoch ==
  /\ phase = "fresh" /\ Mismatch
  /\ Settle("epochChanged")
  /\ UNCHANGED <<staVars, sharedVars, pending, current, client>>

SendReceipt ==
  /\ phase \in {"cached", "fresh"} /\ client = current[1].receipt.epoch
  /\ phase' = "await"
  /\ UNCHANGED <<staVars, sharedVars, pending, current, outcome, client>>

(* request_within returned the engine's answer before the deadline, which  *)
(* is never later than the delivery's expiry,                              *)
Answered(verdict) ==
  /\ phase = "await" /\ current[1].left > 0
  /\ Settle(verdict)
  /\ UNCHANGED <<staVars, sharedVars, pending, current, client>>

(* or a broken pipe, another reply, or nothing by the deadline.            *)
AnswerLost ==
  /\ phase = "await"
  /\ client' = NoClient /\ phase' = "failed"
  /\ UNCHANGED <<staVars, sharedVars, pending, current, outcome>>

Retry_Afresh ==   \* mutant: a retry is a new delivery
  /\ phase = "failed"
  /\ pending' = Append(pending, [current[1] EXCEPT !.wait = RetryDelays[1], !.left = Lifetime,
                                                   !.attempts = 0])
  /\ current' = <<>> /\ phase' = "idle"
  /\ UNCHANGED <<staVars, sharedVars, outcome, client>>

(* Delivery::retry: requeued while attempts and life time remain.          *)
Retry ==
  /\ phase = "failed"
  /\ LET d == current[1]
         again == d.attempts <= Len(RetryDelays) /\ RetryDelays[d.attempts] < d.left
     IN  IF again
         THEN /\ pending' = Append(pending, [d EXCEPT !.wait = RetryDelays[d.attempts]])
              /\ current' = <<>> /\ phase' = "idle" /\ UNCHANGED outcome
         ELSE /\ Settle(IF d.left = 0 THEN "expired" ELSE "failed")
              /\ UNCHANGED <<pending, current>>
  /\ UNCHANGED <<staVars, sharedVars, client>>

(* A condemning verdict raises the watermark of the receipt's epoch first, *)
Higher(old, new) ==
  IF EveryGeneration \in {old, new} THEN EveryGeneration
  ELSE IF old < new THEN new ELSE old

RaiseWatermark ==
  /\ phase = "condemn"
  /\ LET r == current[1].receipt
         g == IF outcome = "epochChanged" THEN EveryGeneration ELSE r.generation
     IN  watermark' = [e \in DOMAIN watermark \cup {r.epoch} |->
                         IF e # r.epoch THEN watermark[e]
                         ELSE IF e \in DOMAIN watermark THEN Higher(watermark[e], g) ELSE g]
  /\ phase' = "flag"
  /\ UNCHANGED <<staVars, outstanding, channel, notice, invalidated, pending, current, outcome, client>>

(* then sets the flag,                                                     *)
FlagInvalidation ==
  /\ phase = "flag"
  /\ invalidated' = TRUE /\ phase' = "notify"
  /\ UNCHANGED <<staVars, outstanding, channel, notice, watermark, pending, current, outcome, client>>

(* then publishes the notice, and only then gives the count back.          *)
PublishNotice ==
  /\ phase = "notify"
  /\ notice' = TRUE /\ phase' = "release"
  /\ UNCHANGED <<staVars, outstanding, channel, invalidated, watermark, pending, current, outcome, client>>

Release ==
  /\ phase = "release"
  /\ outstanding' = outstanding - 1
  /\ current' = <<>> /\ phase' = "idle" /\ outcome' = NoOutcome
  /\ UNCHANGED <<staVars, channel, notice, invalidated, watermark, pending, client>>

(* The thread ends once no sender is left and nothing is pending.          *)
WorkerExit_Early ==   \* mutant: disconnection alone ends the thread
  /\ phase = "idle" /\ ~attached
  /\ phase' = "exited"
  /\ UNCHANGED <<staVars, sharedVars, pending, current, outcome, client>>

WorkerExit ==
  /\ phase = "idle" /\ ~attached /\ Arrived = <<>>
  /\ phase' = "exited"
  /\ UNCHANGED <<staVars, sharedVars, pending, current, outcome, client>>

Elapse(d) == [d EXCEPT !.left = IF @ > 0 THEN @ - 1 ELSE 0,
                       !.wait = IF @ > 0 THEN @ - 1 ELSE 0]
ElapseAll(q) == [i \in DOMAIN q |-> Elapse(q[i])]

OutboxTick ==
  /\ channel' = ElapseAll(channel)
  /\ pending' = ElapseAll(pending)
  /\ current' = ElapseAll(current)
  /\ UNCHANGED <<staVars, outstanding, notice, invalidated, watermark, phase, outcome, client>>

(* The worker may start with the connection of an earlier receipt cached.  *)
OutboxInit ==
  /\ outstanding = 0 /\ channel = <<>> /\ notice = FALSE /\ invalidated = FALSE
  /\ watermark = [e \in {} |-> 0]
  /\ attached = TRUE /\ sta = "idle" /\ held = <<>>
  /\ pending = <<>> /\ current = <<>> /\ phase = "idle" /\ outcome = NoOutcome
  /\ client \in {NoClient, 1}
-----------------------------------------------------------------------------
(* The outbox by itself, for receipts R: the engine may present any epoch  *)
(* R knows and answer anything: the three answers stand for the three ways *)
(* Settle takes one.  A commit id is never used twice at once.             *)
Verdicts == {"applied", "alreadyProcessed", "conflict", "expired", "stale", "invalidToken",
             "capacity"}
Carried(q) == {q[i].receipt : i \in DOMAIN q}
InOutbox(r) == r \in Carried(channel) \cup Carried(pending) \cup Carried(current)

WorkerSteps(R) ==
  \/ TakeDue
  \/ \E r \in R : Handshake(r.epoch)
  \/ HandshakeFails \/ DropStaleClient \/ CondemnEpoch \/ SendReceipt
  \/ \E v \in {"applied", "stale", "conflict"} : Answered(v)
  \/ AnswerLost \/ Retry
  \/ RaiseWatermark \/ FlagInvalidation \/ PublishNotice \/ Release \/ WorkerExit

OutboxNext(R) ==
  \/ \E r \in R : ~InOutbox(r) /\ PrepareCommit(r)
  \/ WriteFails \/ TextApplied \/ TrySend \/ SwapInvalidation \/ TakeNotice \/ Detach
  \/ WorkerSteps(R)
  \/ OutboxTick

-----------------------------------------------------------------------------
(* Type invariant.                                                         *)
OutboxTypeOK ==
  /\ outstanding \in 0..Capacity /\ notice \in BOOLEAN
  /\ invalidated \in BOOLEAN /\ attached \in BOOLEAN
  /\ phase \in Phases
  /\ outcome \in Verdicts \cup {NoOutcome, "failed", "epochChanged"}
  /\ sta \in {"idle", "writing", "sending", "noticing"}
  /\ sta \in {"writing", "sending"} <=> held # <<>>
  /\ phase \in {"idle", "exited"} <=> current = <<>>

(* "Count includes queued, in-flight and retrying deliveries, so capacity  *)
(* is exactly 128": the counter never drifts from what it counts, so the   *)
(* try_send that follows a successful reservation cannot find the channel  *)
(* full, and the thread never ends with a delivery left in it.             *)
CountIsExact ==
  /\ outstanding = Len(channel) + Len(pending) + Len(current) + (IF sta = "sending" THEN 1 ELSE 0)
  /\ sta = "sending" => Len(channel) < Capacity
  /\ phase = "exited" => outstanding = 0

(* "Publish a failure before releasing the last outstanding count, so the  *)
(* STA cannot observe an idle outbox in between."                          *)
BusyIsVisible == phase \notin {"idle", "exited"} => Pending

(* What the STA sees of the outbox is right at every moment: the count     *)
(* text_applied reserves from is exact, and a thread that still has a      *)
(* notice to publish never looks idle to poll_receipt_notice.              *)
OutboxInv == OutboxTypeOK /\ CountIsExact /\ BusyIsVisible
=============================================================================
