--------------------------- MODULE MCReceiptOutbox --------------------------
(* Instance of ReceiptOutbox: three receipts, one of a second engine, as   *)
(* many commits as the text service cares to make, and one retry.          *)
EXTENDS ReceiptOutbox

MCRetryDelays == <<1>>
MCReceipts == {[id |-> 1, epoch |-> 1, generation |-> 0],
               [id |-> 2, epoch |-> 1, generation |-> 0],
               [id |-> 3, epoch |-> 2, generation |-> 0]}

(* The worker thread keeps running, time passes and the STA finishes the   *)
(* call it is in; nothing obliges the engine to answer or the STA to poll. *)
MCSpec ==
  /\ OutboxInit /\ [][OutboxNext(MCReceipts)]_outboxVars
  /\ WF_outboxVars(WorkerSteps(MCReceipts)) /\ WF_outboxVars(OutboxTick) /\ WF_outboxVars(TrySend)

(* Confirmed writes outlive their TSF owner, but not their life time: each *)
(* one leaves the outbox, whether or not the engine ever answers, the STA  *)
(* keeps committing, or the text service is gone.                          *)
EveryDeliverySettles == \A r \in MCReceipts : InOutbox(r) ~> ~InOutbox(r)
=============================================================================
