--------------------------- MODULE ReceiptDelivery --------------------------
(***************************************************************************)
(* Commit learning end to end: ReceiptOutbox in the text service and       *)
(* CommitLedger in the engine, joined by requests that may be lost, may    *)
(* outlive the connection the client gave up on, and are answered at most  *)
(* once each; by the conversions that give the text service its learning   *)
(* identity and candidate tokens; and by engine restarts.                  *)
(***************************************************************************)
EXTENDS ReceiptOutbox, CommitLedger

CONSTANT MaxCommits   \* bound: commits of one text service

(* The receipts STA may freeze are among those of the ledger: a commit id, *)
(* an identity the engine gave out, and the token of one conversion.  A    *)
(* receipt (LIFETIME, 30 s) never outlives a ledger entry (60 s).          *)
ASSUME DeliveryAssumption ==
  /\ MaxCommits \in Nat /\ MaxEpoch >= 1 /\ Lifetime <= LedgerTTL
  /\ [id : 1..MaxCommits, epoch : 1..MaxEpoch, generation : 0..MaxGeneration,
      tokens : {{}} \cup {{<<e, n>>} : e \in 1..MaxEpoch, n \in 1..MaxToken}] \subseteq Receipts

VARIABLES
  requests,   \* CommitReceipt requests the engine has not answered yet
  offer,      \* a session's identity and tokens on their way to the STA
  identity,   \* model.learning_identity, or none, in a sequence
  tokens,     \* candidate tokens of the model's clauses
  sequence,   \* next_commit_id's SEQUENCE
  sent,       \* history: id -> receipt whose text was applied
  told        \* history: id -> verdict the outbox gave, "none" before

tipVars == <<offer, identity, tokens>>
historyVars == <<sent, told>>
vars == <<outboxVars, ledgerVars, requests, tipVars, sequence, historyVars>>

CommitIds == 1..MaxCommits
-----------------------------------------------------------------------------
(* invalidate_learning.                                                    *)
InvalidateLearning == identity' = <<>> /\ tokens' = {}

(* A worker's session with the engine: its handshake,                      *)
OpenSession ==
  /\ offer = <<>>
  /\ offer' = <<[epoch |-> epoch, generation |-> generation, tokens |-> {}]>>
  /\ UNCHANGED <<outboxVars, ledgerVars, requests, identity, tokens, sequence, historyVars>>

(* a conversion in it, which issues a candidate token,                     *)
ConvertInSession ==
  /\ offer # <<>> /\ offer[1].epoch = epoch /\ offer[1].tokens = {}
  /\ IssueToken
  /\ offer' = <<[offer[1] EXCEPT !.tokens = DOMAIN clauseTokens' \ DOMAIN clauseTokens]>>
  /\ UNCHANGED <<outboxVars, requests, identity, tokens, sequence, historyVars>>

(* and its reply on the STA: configure_model, which refuses a condemned    *)
(* identity, and configured_learning_identity, which ignores an older one. *)
AcceptSession_Unchecked ==   \* mutant: the watermark is not consulted
  /\ offer # <<>> /\ attached /\ sta = "idle"
  /\ offer' = <<>>
  /\ identity' = <<[epoch |-> offer[1].epoch, generation |-> offer[1].generation]>>
  /\ tokens' = offer[1].tokens
  /\ UNCHANGED <<outboxVars, ledgerVars, requests, sequence, historyVars>>

AcceptSession ==
  /\ offer # <<>> /\ attached /\ sta = "idle"
  /\ offer' = <<>>
  /\ LET new == [epoch |-> offer[1].epoch, generation |-> offer[1].generation]
         older == /\ identity # <<>> /\ identity[1].epoch = new.epoch
                  /\ identity[1].generation > new.generation
     IN  CASE Rejects(new) ->
                IF identity # <<>> /\ Rejects(identity[1]) THEN InvalidateLearning
                ELSE UNCHANGED <<identity, tokens>>
           [] ~Rejects(new) /\ older -> UNCHANGED <<identity, tokens>>
           [] OTHER -> identity' = <<new>> /\ tokens' = offer[1].tokens
  /\ UNCHANGED <<outboxVars, ledgerVars, requests, sequence, historyVars>>

(* prepare_commit_receipt: freeze needs a learning identity.  The commit   *)
(* ends the composition, and with it the model's clauses.                  *)
Commit ==
  /\ identity # <<>> /\ sequence < MaxCommits
  /\ sequence' = sequence + 1
  /\ PrepareCommit([id |-> sequence + 1, epoch |-> identity[1].epoch,
                    generation |-> identity[1].generation, tokens |-> tokens])
  /\ tokens' = {}
  /\ UNCHANGED <<ledgerVars, requests, offer, identity, historyVars>>

(* The text is in the document: this is the promise's "written".           *)
Applied ==
  /\ TextApplied
  /\ LET r == held[1]
     IN  /\ sent' = [sent EXCEPT ![r.id] = <<r>>]
         /\ told' = IF sta' = "sending" THEN told ELSE [told EXCEPT ![r.id] = "capacity"]
  /\ UNCHANGED <<ledgerVars, requests, tipVars, sequence>>

StaOnly(A) == A /\ UNCHANGED <<ledgerVars, requests, tipVars, sequence, historyVars>>

(* poll_receipt_notice, first half: the flag is swapped, and if it was set *)
(* a condemned model loses its learning.                                   *)
TakeInvalidation ==
  /\ SwapInvalidation
  /\ IF invalidated /\ identity # <<>> /\ Rejects(identity[1])
     THEN InvalidateLearning ELSE UNCHANGED <<identity, tokens>>
  /\ UNCHANGED <<ledgerVars, requests, offer, sequence, historyVars>>
-----------------------------------------------------------------------------
WorkerOnly(A) == A /\ UNCHANGED <<ledgerVars, requests, tipVars, sequence, historyVars>>

(* A verdict is told when it settles the delivery.                         *)
Telling(A) ==
  /\ A
  /\ told' = IF phase' \in {"release", "condemn", "notify"}
             THEN [told EXCEPT ![current'[1].receipt.id] = outcome'] ELSE told
  /\ UNCHANGED <<ledgerVars, tipVars, sequence, sent>>

(* The request leaves; on a dead connection it goes nowhere.               *)
Send ==
  /\ SendReceipt
  /\ requests' = IF client = epoch
                 THEN requests \cup {[receipt |-> current[1].receipt, attempt |-> current[1].attempts]}
                 ELSE requests
  /\ UNCHANGED <<ledgerVars, tipVars, sequence, historyVars>>

(* The engine answers a request.  The client hears of it if it still waits *)
(* for that one; otherwise the answer is lost, and so it may be anyway.    *)
AwaitedRequest ==
  [receipt |-> current[1].receipt, attempt |-> current[1].attempts]

EngineAnswers(q, verdict) ==
  /\ q \in requests
  /\ requests' = requests \ {q}
  /\ CommitReceipt(q.receipt, verdict)
  /\ \/ /\ phase = "await" /\ q = AwaitedRequest
        /\ Answered(verdict)
        /\ told' = [told EXCEPT ![q.receipt.id] = verdict]
     \/ UNCHANGED <<outboxVars, told>>
  /\ UNCHANGED <<tipVars, sequence, sent>>

EngineOnly(A) == A /\ UNCHANGED <<outboxVars, requests, tipVars, sequence, historyVars>>

(* A restart breaks every pipe: what the old process had not read is lost. *)
EngineRestarts ==
  /\ Restart
  /\ requests' = {}
  /\ UNCHANGED <<outboxVars, tipVars, sequence, historyVars>>

Tick ==
  /\ OutboxTick /\ LedgerTick
  /\ UNCHANGED <<requests, tipVars, sequence, historyVars>>
-----------------------------------------------------------------------------
Init ==
  /\ OutboxInit /\ LedgerInit
  /\ requests = {} /\ offer = <<>> /\ identity = <<>> /\ tokens = {} /\ sequence = 0
  /\ sent = [i \in CommitIds |-> <<>>] /\ told = [i \in CommitIds |-> "none"]

STA ==
  \/ Commit \/ Applied \/ TakeInvalidation \/ AcceptSession
  \/ StaOnly(WriteFails) \/ StaOnly(TrySend) \/ StaOnly(TakeNotice) \/ StaOnly(Detach)

Worker ==
  \/ Telling(TakeDue) /\ UNCHANGED requests
  \/ WorkerOnly(Handshake(epoch)) \/ WorkerOnly(HandshakeFails) \/ WorkerOnly(DropStaleClient)
  \/ Telling(CondemnEpoch) /\ UNCHANGED requests
  \/ Send \/ WorkerOnly(AnswerLost)
  \/ Telling(Retry) /\ UNCHANGED requests
  \/ WorkerOnly(RaiseWatermark) \/ WorkerOnly(FlagInvalidation)
  \/ WorkerOnly(PublishNotice) \/ WorkerOnly(Release) \/ WorkerOnly(WorkerExit)

Engine ==
  \/ \E q \in requests, verdict \in Outcomes : EngineAnswers(q, verdict)
  \/ EngineOnly(BeginClear) \/ EngineOnly(WipeLearners) \/ EngineOnly(EndClear)
  \/ EngineOnly(ReloadLearning) \/ EngineRestarts

DeliveryNext == STA \/ Worker \/ Engine \/ OpenSession \/ ConvertInSession \/ Tick

DeliverySpec == Init /\ [][DeliveryNext]_vars
-----------------------------------------------------------------------------
(* Type invariant: both parts, and what joins them.                        *)
DeliveryTypeOK ==
  /\ TypeOK /\ OutboxTypeOK
  /\ client \in 0..epoch /\ DOMAIN watermark \subseteq 1..epoch
  /\ requests \subseteq [receipt : Receipts, attempt : 1..Len(RetryDelays) + 1]

(* A learning identity the engine has refused does not survive on the STA: *)
(* whenever the model holds one, the invalidation that will remove it is   *)
(* on its way, however the worker and the STA interleave.                  *)
CondemnedModelIsCaught ==
  (attached /\ identity # <<>> /\ Rejects(identity[1])) => invalidated \/ phase = "flag"

(* Only what is really over is condemned: every generation only of an      *)
(* epoch that has ended, and nothing beyond the live generation.           *)
CondemnationIsPast ==
  \A e \in DOMAIN watermark :
    /\ watermark[e] = EveryGeneration => e < epoch
    /\ e = epoch => watermark[e] <= generation

(* The watermark of refused identities says nothing of what is still live, *)
(* and a model it condemns is about to lose its identity (run,             *)
(* poll_receipt_notice, configure_model).                                  *)
DeliveryInv == DeliveryTypeOK /\ CondemnationIsPast /\ CondemnedModelIsCaught

(* The text service never refuses the identity under which the engine      *)
(* would accept its next commit.                                           *)
LiveIdentityNotCondemned ==
  clearing = "no" => ~Rejects([epoch |-> epoch, generation |-> generation])

-----------------------------------------------------------------------------
(* The refinement of CommitLearning, for commits that carry material.      *)
HasMaterial(i) == sent[i] # <<>> /\ sent[i][1].tokens # {}

TimesLearned(i) ==
  IF ~HasMaterial(i) THEN 0
  ELSE IF sent[i][1] \in reapplied THEN 2
  ELSE IF sent[i][1] \in applied THEN 1 ELSE 0

VerdictTold(i) ==
  CASE told[i] = "none" -> "none"
    [] told[i] \in {"applied", "alreadyProcessed"} /\ HasMaterial(i) -> "learned"
    [] told[i] \in {"stale", "conflict", "invalidToken"} /\ HasMaterial(i) -> "refused"
    [] OTHER -> "unknown"

Learning == INSTANCE CommitLearning WITH
  CommitIds <- 1..MaxCommits,
  written <- {i \in CommitIds : sent[i] # <<>>},
  times   <- [i \in CommitIds |-> TimesLearned(i)],
  verdict <- [i \in CommitIds |-> VerdictTold(i)]

(* Delivery keeps the promise: at most once, and told truthfully, over     *)
(* lost answers, retries, late requests, clears, reloads and restarts.     *)
KeepsThePromise == Learning!Spec
=============================================================================
