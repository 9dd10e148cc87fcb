---------------------------- MODULE CommitLedger ----------------------------
(***************************************************************************)
(* The engine's side of commit learning: ConversionService.commitReceipt   *)
(* and CommitReceiptLedger, with the candidate tokens a receipt must name, *)
(* the learning generation that a clear or a settings reload advances, and *)
(* the RAM overlay the next conversion reads.                              *)
(*                                                                         *)
(* Every action is one critical section of learningStateLock (and of       *)
(* converterLock around it), so each is atomic.  A time stamp is kept as   *)
(* the age it has, saturating at the limit the code compares it with.      *)
(***************************************************************************)
EXTENDS Integers, FiniteSets

CONSTANTS
  Receipts,        \* the receipts a client may send
  TokenTTL,        \* "now - material.issuedAt < 60"
  LedgerTTL,       \* "now - $0.value.receivedAt < 60"
  LedgerCapacity,  \* CommitReceiptLedger.capacity (4096)
  TokenCapacity,   \* "clauseTokens.count < 4096"
  MaxEpoch,        \* bound: engine processes
  MaxGeneration,   \* bound: clears and reloads of one process
  MaxToken         \* bound: tokens one process issues

(* A token is named by its engine epoch and a sequence number, and a       *)
(* receipt carries the tokens of the intervals it wants learned.           *)
Tokens == Nat \X Nat
ReceiptType == [id : Nat, epoch : Nat, generation : Nat, tokens : SUBSET Tokens]

ASSUME LedgerAssumption ==
  /\ TokenTTL \in Nat \ {0}
  /\ LedgerTTL \in Nat
  /\ TokenTTL <= LedgerTTL
  /\ LedgerCapacity \in Nat /\ TokenCapacity \in Nat
  /\ MaxEpoch \in Nat /\ MaxGeneration \in Nat /\ MaxToken \in Nat
  /\ Receipts \subseteq ReceiptType

VARIABLES
  epoch,         \* engineEpoch: a UUID in the code, here its ordinal
  generation,    \* learningGeneration
  clearing,      \* "no", "accepted" (boundary set) or "wiped" (RAM emptied)
  enabled,       \* learning.enabled
  nextToken,     \* nextClauseToken
  clauseTokens,  \* live token -> generation and age
  ledger,        \* commit id -> receipt, outcome and age
  recent,        \* receipts whose surfaces the RAM overlay holds
  applied,       \* history: receipts whose apply() answered .applied
  reapplied      \* history: those for which it did so more than once

ledgerVars == <<epoch, generation, clearing, enabled, nextToken, clauseTokens,
                ledger, recent, applied, reapplied>>
-----------------------------------------------------------------------------
Outcomes == {"applied", "alreadyProcessed", "conflict", "expired", "stale",
             "invalidToken", "capacity"}

Live == {t \in DOMAIN clauseTokens : clauseTokens[t].age < TokenTTL}

Remembered_Early ==   \* mutant: the ledger forgets before the tokens die
  {i \in DOMAIN ledger : ledger[i].age + 1 < LedgerTTL}

Remembered == {i \in DOMAIN ledger : ledger[i].age < LedgerTTL}
Issued(t) == t[1] = epoch /\ t[2] \in 1..nextToken

(* Why one token of a receipt is refused; {} when it is accepted.          *)
TokenRefusal(t, r) ==
  IF t \notin DOMAIN clauseTokens
  THEN IF Issued(t) THEN {"expired"} ELSE {"invalidToken"}
  ELSE IF clauseTokens[t].age >= TokenTTL THEN {"expired"}
  ELSE IF clauseTokens[t].generation # r.generation THEN {"stale"}
  ELSE {}

ApplyOutcomes_AnyGeneration(r) ==   \* mutant: only a running clear refuses
  LET refusals == UNION {TokenRefusal(t, r) : t \in r.tokens}
  IN  IF clearing # "no" THEN {"stale"}
      ELSE IF refusals # {} THEN refusals
      ELSE {"applied"}

(* The outcomes apply() may answer.  The intervals are examined in order   *)
(* and the first refusal wins; the order is abstracted to a choice.        *)
ApplyOutcomes(r) ==
  LET refusals == UNION {TokenRefusal(t, r) : t \in r.tokens}
  IN  IF clearing # "no" \/ r.generation # generation THEN {"stale"}
      ELSE IF refusals # {} THEN refusals
      ELSE {"applied"}

(* A receipt whose id the ledger remembers: never re-enters apply().       *)
Replay(r) ==
  LET prior == ledger[r.id]
  IN  IF prior.receipt # r THEN "conflict"
      ELSE IF prior.outcome = "applied" THEN "alreadyProcessed"
      ELSE prior.outcome

Record(r, outcome) ==
  [i \in Remembered \cup {r.id} |->
     IF i = r.id THEN [receipt |-> r, outcome |-> outcome, age |-> 0]
     ELSE ledger[i]]

(* The apply() closure: the ledger entry and, for an accepted receipt, the *)
(* learners.  With learning off a receipt is applied without being learned.*)
Apply(r, outcome) ==
  /\ outcome \in ApplyOutcomes(r)
  /\ ledger' = Record(r, outcome)
  /\ IF outcome = "applied"
     THEN /\ applied' = applied \cup {r}
          /\ reapplied' = IF r \in applied THEN reapplied \cup {r} ELSE reapplied
          /\ recent' = IF enabled /\ r.tokens # {} THEN recent \cup {r} ELSE recent
     ELSE UNCHANGED <<applied, reapplied, recent>>

(* A remembered id is answered from the ledger, without entering apply().  *)
AnswerReplay_Overwrites(r, outcome) ==   \* mutant: the latest payload is kept
  /\ outcome = Replay(r)
  /\ ledger' = Record(r, outcome)
  /\ UNCHANGED <<applied, reapplied, recent>>

AnswerReplay(r, outcome) ==
  /\ outcome = Replay(r)
  /\ ledger' = [i \in Remembered |-> ledger[i]]
  /\ UNCHANGED <<applied, reapplied, recent>>

(* A full ledger refuses, and records nothing.                             *)
AnswerFull(outcome) ==
  /\ outcome = "capacity"
  /\ ledger' = [i \in Remembered |-> ledger[i]]
  /\ UNCHANGED <<applied, reapplied, recent>>

LedgerFull == Cardinality(Remembered) >= LedgerCapacity

(* ConversionService.commitReceipt answering `outcome` to receipt r: the   *)
(* epoch is compared first, then the ledger is consulted, then apply().    *)
CommitReceipt(r, outcome) ==
  /\ IF r.epoch # epoch
     THEN outcome = "expired" /\ UNCHANGED <<ledger, applied, reapplied, recent>>
     ELSE IF r.id \in Remembered THEN AnswerReplay(r, outcome)
     ELSE IF LedgerFull THEN AnswerFull(outcome)
     ELSE Apply(r, outcome)
  /\ UNCHANGED <<epoch, generation, clearing, enabled, nextToken, clauseTokens>>

(* A conversion issues a candidate token: expired ones are dropped first,  *)
(* and a full table issues none.                                           *)
IssueToken ==
  LET t == <<epoch, nextToken + 1>>
  IN  /\ nextToken < MaxToken
      /\ IF Cardinality(Live) < TokenCapacity
         THEN /\ nextToken' = nextToken + 1
              /\ clauseTokens' =
                   [u \in Live \cup {t} |->
                      IF u = t THEN [generation |-> generation, age |-> 0]
                      ELSE clauseTokens[u]]
         ELSE /\ clauseTokens' = [u \in Live |-> clauseTokens[u]]
              /\ UNCHANGED nextToken
      /\ UNCHANGED <<epoch, generation, clearing, enabled, ledger, recent, applied, reapplied>>

(* clearLearningForIPC: the generation boundary, taken under               *)
(* learningStateLock alone.  A second clear is refused while one runs.     *)
BeginClear ==
  /\ clearing = "no"
  /\ generation < MaxGeneration
  /\ clearing' = "accepted"
  /\ generation' = generation + 1
  /\ UNCHANGED <<epoch, enabled, nextToken, clauseTokens, ledger, recent, applied, reapplied>>

(* clearLearningAccepted, once the maintenance barrier has passed and      *)
(* converterLock is held: the RAM learners are emptied.                    *)
WipeLearners ==
  /\ clearing = "accepted"
  /\ clearing' = "wiped"
  /\ recent' = {}
  /\ UNCHANGED <<epoch, generation, enabled, nextToken, clauseTokens, ledger, applied, reapplied>>

(* The defer block of clearLearningForIPC.                                 *)
EndClear ==
  /\ clearing = "wiped"
  /\ clearing' = "no"
  /\ UNCHANGED <<epoch, generation, enabled, nextToken, clauseTokens, ledger, recent, applied, reapplied>>

(* reload with learningChanged: on/off or another directory.               *)
ReloadLearning ==
  /\ generation < MaxGeneration
  /\ enabled' \in BOOLEAN
  /\ generation' = generation + 1
  /\ recent' = {}
  /\ UNCHANGED <<epoch, clearing, nextToken, clauseTokens, ledger, applied, reapplied>>

(* The engine process dies and another one starts.                         *)
Restart ==
  /\ epoch < MaxEpoch
  /\ epoch' = epoch + 1
  /\ generation' = 0 /\ clearing' = "no" /\ nextToken' = 0
  /\ clauseTokens' = [t \in {} |-> {}] /\ ledger' = [i \in {} |-> {}]
  /\ recent' = {}
  /\ UNCHANGED <<enabled, applied, reapplied>>

AgeBy1(age, limit) == IF age < limit THEN age + 1 ELSE age

LedgerTick ==
  /\ clauseTokens' = [t \in DOMAIN clauseTokens |->
                        [clauseTokens[t] EXCEPT !.age = AgeBy1(@, TokenTTL)]]
  /\ ledger' = [i \in DOMAIN ledger |-> [ledger[i] EXCEPT !.age = AgeBy1(@, LedgerTTL)]]
  /\ UNCHANGED <<epoch, generation, clearing, enabled, nextToken, recent, applied, reapplied>>

LedgerInit ==
  /\ epoch = 1 /\ generation = 0 /\ clearing = "no" /\ enabled \in BOOLEAN
  /\ nextToken = 0
  /\ clauseTokens = [t \in {} |-> {}] /\ ledger = [i \in {} |-> {}]
  /\ recent = {} /\ applied = {} /\ reapplied = {}

Next ==
  \/ \E r \in Receipts, outcome \in Outcomes : CommitReceipt(r, outcome)
  \/ IssueToken
  \/ BeginClear \/ WipeLearners \/ EndClear \/ ReloadLearning
  \/ Restart \/ LedgerTick

Spec == LedgerInit /\ [][Next]_ledgerVars
-----------------------------------------------------------------------------
(* Type invariant, with the two table bounds: clauseTokens and the ledger  *)
(* never outgrow the capacities their guards compare with.                 *)
TypeOK ==
  /\ epoch \in Nat /\ generation \in Nat /\ nextToken \in Nat
  /\ clearing \in {"no", "accepted", "wiped"} /\ enabled \in BOOLEAN
  /\ DOMAIN clauseTokens \subseteq Tokens
  /\ \A t \in DOMAIN clauseTokens :
       clauseTokens[t] \in [generation : Nat, age : 0..TokenTTL]
  /\ DOMAIN ledger \subseteq Nat
  /\ \A i \in DOMAIN ledger :
       ledger[i] \in [receipt : Receipts, outcome : Outcomes, age : 0..LedgerTTL]
  /\ recent \subseteq Receipts /\ applied \subseteq Receipts /\ reapplied \subseteq Receipts
  /\ IsFiniteSet(DOMAIN clauseTokens) /\ Cardinality(DOMAIN clauseTokens) <= TokenCapacity
  /\ IsFiniteSet(DOMAIN ledger) /\ Cardinality(DOMAIN ledger) <= LedgerCapacity

(* "A replay never re-enters learning, including after settings changed or *)
(* the candidate tokens expired" (CommitReceiptLedger): however often and  *)
(* however late a receipt that carries material is resent, commitReceipt   *)
(* applies it once, although the ledger forgets it after LedgerTTL.        *)
AppliedOnce == \A r \in reapplied : r.tokens = {}

(* Once a clear has emptied the learners, what the overlay holds was       *)
(* committed under the current generation of the current process: neither  *)
(* a late receipt nor one that raced the boundary brings anything back.    *)
OverlayIsCurrent ==
  clearing # "accepted" =>
    \A r \in recent : r.epoch = epoch /\ r.generation = generation

(* A remembered verdict is final: no conflicting, repeated or refused      *)
(* receipt displaces it before it ages out or the process ends.            *)
VerdictsAreFinal ==
  [][epoch' = epoch =>
       \A i \in Remembered :
         /\ i \in DOMAIN ledger'
         /\ ledger'[i].receipt = ledger[i].receipt
         /\ ledger'[i].outcome = ledger[i].outcome]_ledgerVars
=============================================================================
