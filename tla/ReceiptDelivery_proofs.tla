----------------------- MODULE ReceiptDelivery_proofs -----------------------
(***************************************************************************)
(* Commit learning end to end, proved for any number of commits, engines   *)
(* and generations and any capacities: the engine learns a receipt at most *)
(* once, the text service condemns only what is over and never keeps a     *)
(* condemned identity unnoticed, and the outbox and the ledger together    *)
(* keep the promise of CommitLearning.                                     *)
(*                                                                         *)
(* Part one is the ledger by itself, for every set of receipts, every pair *)
(* of life times with TokenTTL <= LedgerTTL and every capacity.  Part two  *)
(* is the outbox by itself, for every capacity, life time and list of      *)
(* retry delays and for any receipts and answers: its counter is exact and *)
(* a busy delivery thread is visible to the STA.  The engine's side enters *)
(* there only through the receipts R, so the lemmas on its single steps    *)
(* hold for the outbox inside the delivery too.  What joins the two is     *)
(* proved in part three, one lemma for each part of the joint invariant,   *)
(* and the refinement of CommitLearning in part four.                      *)
(***************************************************************************)
EXTENDS ReceiptDelivery, FiniteSetTheorems, SequenceTheorems, WellFoundedInduction, TLAPS

-----------------------------------------------------------------------------
(* Part one: the ledger.                                                   *)
USE LedgerAssumption

(* A token that is in the table was issued by this process.                *)
TokensIssued == \A t \in DOMAIN clauseTokens : Issued(t)

(* Why a receipt applied by this process cannot be applied again: each of  *)
(* its tokens is gone, or too old, or no younger than the ledger entry     *)
(* that still answers for the receipt.                                     *)
AnsweredFor(r, t) ==
  /\ r.id \in DOMAIN ledger
  /\ ledger[r.id].receipt = r
  /\ clauseTokens[t].age >= ledger[r.id].age

Guarded(r, t) ==
  /\ Issued(t)
  /\ t \in DOMAIN clauseTokens => clauseTokens[t].age >= TokenTTL \/ AnsweredFor(r, t)

ReplayGuard ==
  \A r \in applied :
    /\ r.epoch <= epoch
    /\ r.epoch = epoch => \A t \in r.tokens : Guarded(r, t)

IInv == TypeOK /\ TokensIssued /\ ReplayGuard /\ AppliedOnce /\ OverlayIsCurrent

(* The kept part of each table is a finite part of it, of at most its size.*)
LEMMA KeptIsFinite ==
  ASSUME TypeOK
  PROVE  /\ Live \subseteq DOMAIN clauseTokens /\ IsFiniteSet(Live)
         /\ Cardinality(Live) \in Nat /\ Cardinality(Live) <= TokenCapacity
         /\ Remembered \subseteq DOMAIN ledger /\ IsFiniteSet(Remembered)
         /\ Cardinality(Remembered) \in Nat /\ Cardinality(Remembered) <= LedgerCapacity
  <1>1. Live \subseteq DOMAIN clauseTokens /\ Remembered \subseteq DOMAIN ledger
    BY DEF Live, Remembered
  <1>2. /\ IsFiniteSet(Live) /\ Cardinality(Live) <= Cardinality(DOMAIN clauseTokens)
        /\ IsFiniteSet(Remembered) /\ Cardinality(Remembered) <= Cardinality(DOMAIN ledger)
    BY <1>1, FS_Subset DEF TypeOK
  <1>3. /\ Cardinality(Live) \in Nat /\ Cardinality(DOMAIN clauseTokens) \in Nat
        /\ Cardinality(Remembered) \in Nat /\ Cardinality(DOMAIN ledger) \in Nat
    BY <1>2, FS_CardinalityType DEF TypeOK
  <1> QED
    BY <1>1, <1>2, <1>3 DEF TypeOK

(* What the apply() closure needs: a receipt that is applied carries only  *)
(* tokens that are in the table, young and of the current generation.      *)
LEMMA AppliedHasLiveTokens ==
  ASSUME TypeOK, NEW r \in Receipts, "applied" \in ApplyOutcomes(r)
  PROVE  /\ clearing = "no" /\ r.generation = generation
         /\ \A t \in r.tokens : t \in DOMAIN clauseTokens /\ clauseTokens[t].age < TokenTTL
  <1>1. clearing = "no" /\ r.generation = generation
    BY DEF ApplyOutcomes
  <1>2. ASSUME NEW t \in r.tokens PROVE TokenRefusal(t, r) = {}
    <2>1. "applied" \notin TokenRefusal(t, r)
      BY DEF TokenRefusal
    <2>2. ASSUME NEW o \in TokenRefusal(t, r) PROVE FALSE
      <3>1. UNION {TokenRefusal(u, r) : u \in r.tokens} # {}
        BY <1>2, <2>2
      <3>2. "applied" \in UNION {TokenRefusal(u, r) : u \in r.tokens}
        BY <1>1, <3>1 DEF ApplyOutcomes
      <3>3. PICK u \in r.tokens : "applied" \in TokenRefusal(u, r)
        BY <3>2
      <3> QED
        BY <3>3 DEF TokenRefusal
    <2> QED
      BY <2>2
  <1>3. ASSUME NEW t \in r.tokens
        PROVE  t \in DOMAIN clauseTokens /\ clauseTokens[t].age < TokenTTL
    <2>1. TokenRefusal(t, r) = {}
      BY <1>2
    <2>2. t \in DOMAIN clauseTokens
      BY <2>1 DEF TokenRefusal
    <2>3. ~(clauseTokens[t].age >= TokenTTL)
      BY <2>1, <2>2 DEF TokenRefusal
    <2> QED
      BY <2>2, <2>3 DEF TypeOK
  <1> QED
    BY <1>1, <1>3

(* The shape of the two tables after an action that rebuilds them.         *)
LEMMA RecordType ==
  ASSUME TypeOK, NEW r \in Receipts, NEW answer \in Outcomes,
         r.id \notin Remembered, ~LedgerFull, ledger' = Record(r, answer)
  PROVE  /\ DOMAIN ledger' \subseteq Nat
         /\ \A i \in DOMAIN ledger' :
              ledger'[i] \in [receipt : Receipts, outcome : Outcomes, age : 0..LedgerTTL]
         /\ IsFiniteSet(DOMAIN ledger') /\ Cardinality(DOMAIN ledger') <= LedgerCapacity
  <1>1. DOMAIN ledger' = Remembered \cup {r.id}
    BY DEF Record
  <1>2. r.id \in Nat
    BY DEF ReceiptType
  <1>3. /\ IsFiniteSet(DOMAIN ledger')
        /\ Cardinality(DOMAIN ledger') = Cardinality(Remembered) + 1
    BY <1>1, KeptIsFinite, FS_AddElement
  <1>4. Cardinality(Remembered) + 1 <= LedgerCapacity
    BY KeptIsFinite DEF LedgerFull
  <1>5. ASSUME NEW i \in DOMAIN ledger'
        PROVE  ledger'[i] \in [receipt : Receipts, outcome : Outcomes, age : 0..LedgerTTL]
    <2>1. CASE i = r.id
      <3>1. ledger'[i] = [receipt |-> r, outcome |-> answer, age |-> 0]
        BY <1>1, <2>1 DEF Record
      <3> QED
        BY <3>1
    <2>2. CASE i # r.id
      <3>1. ledger'[i] = ledger[i] /\ i \in DOMAIN ledger
        BY <1>1, <2>2, KeptIsFinite DEF Record
      <3> QED
        BY <3>1 DEF TypeOK
    <2> QED
      BY <2>1, <2>2
  <1>6. DOMAIN ledger' \subseteq Nat
    BY <1>1, <1>2, KeptIsFinite DEF TypeOK
  <1> QED
    BY <1>3, <1>4, <1>5, <1>6

LEMMA PrunedLedgerType ==
  ASSUME TypeOK, ledger' = [i \in Remembered |-> ledger[i]]
  PROVE  /\ DOMAIN ledger' \subseteq Nat
         /\ \A i \in DOMAIN ledger' :
              ledger'[i] \in [receipt : Receipts, outcome : Outcomes, age : 0..LedgerTTL]
         /\ IsFiniteSet(DOMAIN ledger') /\ Cardinality(DOMAIN ledger') <= LedgerCapacity
  BY KeptIsFinite DEF TypeOK

LEMMA ApplyOutcomesType ==
  ASSUME NEW r \in Receipts, NEW answer \in ApplyOutcomes(r)
  PROVE  answer \in Outcomes
  BY DEF ApplyOutcomes, TokenRefusal, Outcomes

(* One receipt answered: types, the guard on replays and the overlay.      *)
LEMMA CommitReceiptKeepsIInv ==
  ASSUME IInv, NEW r \in Receipts, NEW answer \in Outcomes, CommitReceipt(r, answer)
  PROVE  IInv'
  <1> USE DEF IInv
  <1>0. UNCHANGED <<epoch, generation, clearing, enabled, nextToken, clauseTokens>>
    BY DEF CommitReceipt
  <1>1. CASE r.epoch # epoch
    <2>1. UNCHANGED <<ledger, applied, reapplied, recent>>
      BY <1>1 DEF CommitReceipt
    <2> QED
      BY <1>0, <2>1 DEF TypeOK, TokensIssued, Issued, ReplayGuard, Guarded, AnsweredFor,
                        AppliedOnce, OverlayIsCurrent
  <1>2. CASE r.epoch = epoch /\ (r.id \in Remembered \/ LedgerFull)
    <2>1. /\ ledger' = [i \in Remembered |-> ledger[i]]
          /\ UNCHANGED <<applied, reapplied, recent>>
      BY <1>2 DEF CommitReceipt, AnswerReplay, AnswerFull
    <2>2. TypeOK'
      BY <1>0, <2>1, PrunedLedgerType DEF TypeOK
    <2>3. ASSUME NEW q \in applied, q.epoch = epoch, NEW t \in q.tokens
          PROVE  Guarded(q, t)'
      <3>1. Guarded(q, t)
        BY <2>3 DEF ReplayGuard
      <3>2. CASE t \in DOMAIN clauseTokens /\ clauseTokens[t].age < TokenTTL
        <4>1. AnsweredFor(q, t)
          BY <3>1, <3>2 DEF Guarded, TypeOK
        <4>2. q.id \in Remembered
          BY <3>2, <4>1 DEF AnsweredFor, Remembered, TypeOK
        <4> QED
          BY <1>0, <2>1, <3>1, <4>1, <4>2 DEF Guarded, AnsweredFor, Issued
      <3>3. CASE ~(t \in DOMAIN clauseTokens /\ clauseTokens[t].age < TokenTTL)
        BY <1>0, <3>1, <3>3 DEF Guarded, Issued, TypeOK
      <3> QED
        BY <3>2, <3>3
    <2>4. ReplayGuard'
      BY <1>0, <2>1, <2>3 DEF ReplayGuard
    <2> QED
      BY <1>0, <2>1, <2>2, <2>4 DEF TokensIssued, Issued, AppliedOnce, OverlayIsCurrent
  <1>3. CASE r.epoch = epoch /\ r.id \notin Remembered /\ ~LedgerFull
    <2>1. Apply(r, answer)
      BY <1>3 DEF CommitReceipt
    <2>2. /\ ledger' = Record(r, answer) /\ answer \in ApplyOutcomes(r)
          /\ applied' \subseteq applied \cup {r} /\ reapplied' \subseteq reapplied \cup {r}
          /\ recent' \subseteq recent \cup {r}
      BY <2>1 DEF Apply
    <2>3. TypeOK'
      BY <1>0, <1>3, <2>2, RecordType DEF TypeOK
    <2>4. ASSUME NEW q \in applied, q.epoch = epoch, NEW t \in q.tokens, q # r
          PROVE  Guarded(q, t)'
      <3>1. Guarded(q, t)
        BY <2>4 DEF ReplayGuard
      <3>2. CASE t \in DOMAIN clauseTokens /\ clauseTokens[t].age < TokenTTL
        <4>1. AnsweredFor(q, t)
          BY <3>1, <3>2 DEF Guarded, TypeOK
        <4>2. q.id \in Remembered
          BY <3>2, <4>1 DEF AnsweredFor, Remembered, TypeOK
        <4>3. q.id # r.id
          BY <1>3, <4>2
        <4>4. q.id \in DOMAIN ledger' /\ ledger'[q.id] = ledger[q.id]
          BY <2>2, <4>2, <4>3 DEF Record
        <4> QED
          BY <1>0, <3>1, <4>1, <4>4 DEF Guarded, AnsweredFor, Issued
      <3>3. CASE ~(t \in DOMAIN clauseTokens /\ clauseTokens[t].age < TokenTTL)
        BY <1>0, <3>1, <3>3 DEF Guarded, Issued, TypeOK
      <3> QED
        BY <3>2, <3>3
    <2>5. CASE answer # "applied"
      <3>1. UNCHANGED <<applied, reapplied, recent>>
        BY <2>1, <2>5 DEF Apply
      <3>2. ASSUME r \in applied, NEW t \in r.tokens PROVE Guarded(r, t)'
        <4>1. Guarded(r, t)
          BY <1>3, <3>2 DEF ReplayGuard
        <4>2. CASE t \in DOMAIN clauseTokens /\ clauseTokens[t].age < TokenTTL
          <5>1. AnsweredFor(r, t)
            BY <4>1, <4>2 DEF Guarded, TypeOK
          <5> QED
            BY <1>3, <4>2, <5>1 DEF AnsweredFor, Remembered, TypeOK
        <4>3. CASE ~(t \in DOMAIN clauseTokens /\ clauseTokens[t].age < TokenTTL)
          BY <1>0, <4>1, <4>3 DEF Guarded, Issued, TypeOK
        <4> QED
          BY <4>2, <4>3
      <3>3. ReplayGuard'
        BY <1>0, <2>4, <3>1, <3>2 DEF ReplayGuard
      <3> QED
        BY <1>0, <2>3, <3>1, <3>3 DEF TokensIssued, Issued, AppliedOnce, OverlayIsCurrent
    <2>6. CASE answer = "applied"
      <3>1. /\ clearing = "no" /\ r.generation = generation
            /\ \A t \in r.tokens : t \in DOMAIN clauseTokens /\ clauseTokens[t].age < TokenTTL
        BY <2>2, <2>6, AppliedHasLiveTokens
      <3>2. r.id \in DOMAIN ledger' /\ ledger'[r.id] = [receipt |-> r, outcome |-> answer, age |-> 0]
        BY <2>2 DEF Record
      <3>3. ASSUME NEW t \in r.tokens PROVE Guarded(r, t)'
        <4>1. Issued(t) /\ clauseTokens[t].age >= 0
          BY <3>1, <3>3 DEF TokensIssued, TypeOK
        <4> QED
          BY <1>0, <3>2, <4>1 DEF Guarded, AnsweredFor, Issued
      <3>4. ReplayGuard'
        <4>1. applied' = applied \cup {r} /\ epoch' = epoch /\ r.epoch <= epoch
          BY <1>0, <1>3, <2>1, <2>6 DEF Apply, TypeOK
        <4> QED
          BY <2>4, <3>3, <4>1 DEF ReplayGuard
      <3>5. AppliedOnce'
        <4>1. CASE r \in applied
          <5>1. r.tokens = {}
            <6>1. ASSUME NEW t \in r.tokens PROVE FALSE
              <7>1. Guarded(r, t)
                BY <1>3, <4>1, <6>1 DEF ReplayGuard
              <7>2. AnsweredFor(r, t) /\ clauseTokens[t].age < TokenTTL
                BY <3>1, <6>1, <7>1 DEF Guarded, TypeOK
              <7>3. r.id \in Remembered
                BY <3>1, <6>1, <7>2 DEF AnsweredFor, Remembered, TypeOK
              <7> QED
                BY <1>3, <7>3
            <6> QED
              BY <6>1
          <5> QED
            BY <2>2, <5>1 DEF AppliedOnce
        <4>2. CASE r \notin applied
          <5>1. reapplied' = reapplied
            BY <2>1, <2>6, <4>2 DEF Apply
          <5> QED
            BY <5>1 DEF AppliedOnce
        <4> QED
          BY <4>1, <4>2
      <3>6. OverlayIsCurrent'
        BY <1>0, <1>3, <2>2, <3>1 DEF OverlayIsCurrent
      <3> QED
        BY <1>0, <2>3, <3>4, <3>5, <3>6 DEF TokensIssued, Issued
    <2> QED
      BY <2>5, <2>6
  <1> QED
    BY <1>1, <1>2, <1>3

(* A new token is younger than anything, but no applied receipt names it.  *)
LEMMA IssueTokenKeepsIInv ==
  ASSUME IInv, IssueToken
  PROVE  IInv'
  <1> USE DEF IInv
  <1>t. PICK t0 : t0 = <<epoch, nextToken + 1>>
    OBVIOUS
  <1>0. UNCHANGED <<epoch, generation, clearing, enabled, ledger, recent, applied, reapplied>>
    BY DEF IssueToken
  <1>1. CASE Cardinality(Live) < TokenCapacity
    <2>1. /\ nextToken' = nextToken + 1
          /\ clauseTokens' = [u \in Live \cup {t0} |->
               IF u = t0 THEN [generation |-> generation, age |-> 0] ELSE clauseTokens[u]]
      BY <1>1, <1>t DEF IssueToken
    <2>2. DOMAIN clauseTokens' = Live \cup {t0}
      BY <2>1
    <2>3. IsFiniteSet(DOMAIN clauseTokens') /\ Cardinality(DOMAIN clauseTokens') <= TokenCapacity
      <3>1. IsFiniteSet(Live) /\ Cardinality(Live) \in Nat
        BY KeptIsFinite
      <3>2. /\ IsFiniteSet(Live \cup {t0})
            /\ Cardinality(Live \cup {t0}) = IF t0 \in Live THEN Cardinality(Live) ELSE Cardinality(Live) + 1
        BY <3>1, FS_AddElement
      <3> QED
        BY <1>1, <2>2, <3>1, <3>2
    <2>4. t0 \in Tokens
      BY <1>t DEF Tokens, TypeOK
    <2>5. ASSUME NEW u \in DOMAIN clauseTokens'
          PROVE  clauseTokens'[u] \in [generation : Nat, age : 0..TokenTTL]
      <3>1. CASE u = t0
        BY <2>1, <2>2, <3>1 DEF TypeOK
      <3>2. CASE u # t0
        BY <2>1, <2>2, <3>2, KeptIsFinite DEF TypeOK
      <3> QED
        BY <3>1, <3>2
    <2>6. TypeOK'
      BY <1>0, <2>1, <2>2, <2>3, <2>4, <2>5, KeptIsFinite DEF TypeOK
    <2>7. ASSUME NEW u \in Tokens, Issued(u) PROVE Issued(u)' /\ u # t0
      BY <1>0, <1>t, <2>1, <2>7 DEF Issued, TypeOK
    <2>8. TokensIssued'
      <3>1. Issued(t0)'
        BY <1>0, <1>t, <2>1 DEF Issued, TypeOK
      <3> QED
        BY <2>2, <2>7, <3>1, KeptIsFinite DEF TokensIssued, TypeOK
    <2>9. ASSUME NEW q \in applied, q.epoch = epoch, NEW t \in q.tokens PROVE Guarded(q, t)'
      <3>1. Guarded(q, t) /\ t \in Tokens
        BY <2>9 DEF ReplayGuard, TypeOK, ReceiptType
      <3>2. Issued(t)' /\ t # t0
        BY <2>7, <3>1 DEF Guarded
      <3>3. t \in DOMAIN clauseTokens' => t \in DOMAIN clauseTokens /\ clauseTokens'[t] = clauseTokens[t]
        BY <2>1, <2>2, <3>2, KeptIsFinite
      <3> QED
        BY <1>0, <3>1, <3>2, <3>3 DEF Guarded, AnsweredFor
    <2> QED
      BY <1>0, <2>6, <2>8, <2>9 DEF ReplayGuard, AppliedOnce, OverlayIsCurrent
  <1>2. CASE ~(Cardinality(Live) < TokenCapacity)
    <2>1. clauseTokens' = [u \in Live |-> clauseTokens[u]] /\ nextToken' = nextToken
      BY <1>2 DEF IssueToken
    <2>2. TypeOK'
      BY <1>0, <2>1, KeptIsFinite DEF TypeOK
    <2>3. TokensIssued'
      BY <1>0, <2>1, KeptIsFinite DEF TokensIssued, Issued
    <2>4. ASSUME NEW q \in applied, q.epoch = epoch, NEW t \in q.tokens PROVE Guarded(q, t)'
      <3>1. Guarded(q, t)
        BY <2>4 DEF ReplayGuard
      <3> QED
        BY <1>0, <2>1, <3>1, KeptIsFinite DEF Guarded, AnsweredFor, Issued
    <2> QED
      BY <1>0, <2>2, <2>3, <2>4 DEF ReplayGuard, AppliedOnce, OverlayIsCurrent
  <1> QED
    BY <1>1, <1>2

(* Time: when an entry has aged out, so has every token it answered for,   *)
(* because TokenTTL <= LedgerTTL.                                          *)
LEMMA TickKeepsIInv ==
  ASSUME IInv, LedgerTick
  PROVE  IInv'
  <1> USE DEF IInv
  <1>1. /\ UNCHANGED <<epoch, generation, clearing, enabled, nextToken, recent, applied, reapplied>>
        /\ DOMAIN clauseTokens' = DOMAIN clauseTokens
        /\ DOMAIN ledger' = DOMAIN ledger
    BY DEF LedgerTick
  <1>2. ASSUME NEW t \in DOMAIN clauseTokens
        PROVE  /\ clauseTokens'[t] \in [generation : Nat, age : 0..TokenTTL]
               /\ clauseTokens'[t].age = AgeBy1(clauseTokens[t].age, TokenTTL)
    <2>1. clauseTokens'[t] = [clauseTokens[t] EXCEPT !.age = AgeBy1(clauseTokens[t].age, TokenTTL)]
      BY DEF LedgerTick
    <2>2. clauseTokens[t] \in [generation : Nat, age : 0..TokenTTL]
      BY DEF TypeOK
    <2> QED
      BY <2>1, <2>2 DEF AgeBy1
  <1>3. ASSUME NEW i \in DOMAIN ledger
        PROVE  /\ ledger'[i] \in [receipt : Receipts, outcome : Outcomes, age : 0..LedgerTTL]
               /\ ledger'[i].age = AgeBy1(ledger[i].age, LedgerTTL)
               /\ ledger'[i].receipt = ledger[i].receipt
               /\ ledger'[i].outcome = ledger[i].outcome
    <2>1. ledger'[i] = [ledger[i] EXCEPT !.age = AgeBy1(ledger[i].age, LedgerTTL)]
      BY DEF LedgerTick
    <2>2. ledger[i] \in [receipt : Receipts, outcome : Outcomes, age : 0..LedgerTTL]
      BY DEF TypeOK
    <2> QED
      BY <2>1, <2>2 DEF AgeBy1
  <1>4. TypeOK'
    BY <1>1, <1>2, <1>3 DEF TypeOK
  <1>5. ASSUME NEW q \in applied, q.epoch = epoch, NEW t \in q.tokens PROVE Guarded(q, t)'
    <2>1. Guarded(q, t)
      BY <1>5 DEF ReplayGuard
    <2>2. CASE t \in DOMAIN clauseTokens /\ clauseTokens[t].age < TokenTTL
      <3>1. AnsweredFor(q, t)
        BY <2>1, <2>2 DEF Guarded, TypeOK
      <3>2. /\ clauseTokens[t].age \in 0..TokenTTL /\ ledger[q.id].age \in 0..LedgerTTL
            /\ clauseTokens[t].age >= ledger[q.id].age
        BY <2>2, <3>1 DEF AnsweredFor, TypeOK
      <3>3. clauseTokens'[t].age >= ledger'[q.id].age
        BY <1>2, <1>3, <2>2, <3>1, <3>2 DEF AgeBy1, AnsweredFor
      <3> QED
        BY <1>1, <1>3, <2>1, <3>1, <3>3 DEF Guarded, AnsweredFor, Issued
    <2>3. CASE t \in DOMAIN clauseTokens /\ clauseTokens[t].age >= TokenTTL
      <3>1. clauseTokens'[t].age >= TokenTTL
        BY <1>2, <2>3 DEF AgeBy1, TypeOK
      <3> QED
        BY <1>1, <2>1, <3>1 DEF Guarded, Issued
    <2>4. CASE t \notin DOMAIN clauseTokens
      BY <1>1, <2>1, <2>4 DEF Guarded, Issued
    <2> QED
      BY <2>2, <2>3, <2>4 DEF TypeOK
  <1> QED
    BY <1>1, <1>4, <1>5 DEF ReplayGuard, TokensIssued, Issued, AppliedOnce, OverlayIsCurrent

(* Clearing, reloading and restarting touch neither table, or empty both.  *)
LEMMA BoundaryKeepsIInv ==
  ASSUME IInv, BeginClear \/ WipeLearners \/ EndClear \/ ReloadLearning
  PROVE  IInv'
  <1>1. UNCHANGED <<epoch, nextToken, clauseTokens, ledger, applied, reapplied>>
    BY DEF BeginClear, WipeLearners, EndClear, ReloadLearning
  <1>2. TypeOK'
    BY <1>1 DEF IInv, TypeOK, BeginClear, WipeLearners, EndClear, ReloadLearning
  <1>3. OverlayIsCurrent'
    BY <1>1 DEF IInv, OverlayIsCurrent, BeginClear, WipeLearners, EndClear, ReloadLearning
  <1> QED
    BY <1>1, <1>2, <1>3
    DEF IInv, TokensIssued, Issued, ReplayGuard, Guarded, AnsweredFor, AppliedOnce

LEMMA RestartKeepsIInv ==
  ASSUME IInv, Restart
  PROVE  IInv'
  <1>1. /\ epoch' = epoch + 1 /\ generation' = 0 /\ clearing' = "no" /\ nextToken' = 0
        /\ DOMAIN clauseTokens' = {} /\ DOMAIN ledger' = {} /\ recent' = {}
        /\ UNCHANGED <<enabled, applied, reapplied>>
    BY DEF Restart
  <1>2. TypeOK'
    BY <1>1, FS_EmptySet DEF IInv, TypeOK
  <1>3. ReplayGuard'
    BY <1>1 DEF IInv, ReplayGuard, TypeOK, ReceiptType
  <1> QED
    BY <1>1, <1>2, <1>3 DEF IInv, TokensIssued, AppliedOnce, OverlayIsCurrent
-----------------------------------------------------------------------------
LEMMA InitEstablishesIInv == LedgerInit => IInv
  BY FS_EmptySet
  DEF LedgerInit, IInv, TypeOK, TokensIssued, ReplayGuard, AppliedOnce, OverlayIsCurrent

LEMMA NextKeepsIInv == IInv /\ [Next]_ledgerVars => IInv'
  <1> SUFFICES ASSUME IInv, [Next]_ledgerVars PROVE IInv'
    OBVIOUS
  <1>1. ASSUME NEW r \in Receipts, NEW answer \in Outcomes, CommitReceipt(r, answer)
        PROVE  IInv'
    BY <1>1, CommitReceiptKeepsIInv
  <1>2. CASE IssueToken
    BY <1>2, IssueTokenKeepsIInv
  <1>3. CASE BeginClear \/ WipeLearners \/ EndClear \/ ReloadLearning
    BY <1>3, BoundaryKeepsIInv
  <1>4. CASE Restart
    BY <1>4, RestartKeepsIInv
  <1>5. CASE LedgerTick
    BY <1>5, TickKeepsIInv
  <1>6. CASE UNCHANGED ledgerVars
    BY <1>6 DEF ledgerVars, IInv, TypeOK, TokensIssued, Issued, ReplayGuard, Guarded, AnsweredFor,
                AppliedOnce, OverlayIsCurrent
  <1> QED
    BY <1>1, <1>2, <1>3, <1>4, <1>5, <1>6 DEF Next

(* The inductive invariant holds in every reachable state.                 *)
THEOREM IInvAlways == Spec => []IInv
  BY InitEstablishesIInv, NextKeepsIInv, PTL DEF Spec

(* Types, and the bounds of the token table and the receipt ledger.        *)
THEOREM TypeCorrect == Spec => []TypeOK
  <1>1. IInv => TypeOK
    BY DEF IInv
  <1> QED
    BY <1>1, IInvAlways, PTL

(* A receipt that carries material is applied at most once, whatever the   *)
(* client resends, whenever it does, and whatever the clock, clears,       *)
(* reloads and restarts do in between.                                     *)
THEOREM LearnedAtMostOnce == Spec => []AppliedOnce
  <1>1. IInv => AppliedOnce
    BY DEF IInv
  <1> QED
    BY <1>1, IInvAlways, PTL

(* Nothing committed before a clear or a reload is in the overlay after it.*)
THEOREM NothingResurfaces == Spec => []OverlayIsCurrent
  <1>1. IInv => OverlayIsCurrent
    BY DEF IInv
  <1> QED
    BY <1>1, IInvAlways, PTL

(* A remembered verdict is never replaced, by any step.                    *)
THEOREM FinalVerdicts == Spec => VerdictsAreFinal
  <1> DEFINE Final == epoch' = epoch =>
               \A i \in Remembered :
                 /\ i \in DOMAIN ledger'
                 /\ ledger'[i].receipt = ledger[i].receipt
                 /\ ledger'[i].outcome = ledger[i].outcome
  <1>1. ASSUME TypeOK, Next PROVE Final
    <2> SUFFICES ASSUME epoch' = epoch, NEW i \in Remembered
                 PROVE  /\ i \in DOMAIN ledger'
                        /\ ledger'[i].receipt = ledger[i].receipt
                        /\ ledger'[i].outcome = ledger[i].outcome
      OBVIOUS
    <2>0. i \in DOMAIN ledger
      BY DEF Remembered
    <2>1. ASSUME NEW r \in Receipts, NEW answer \in Outcomes, CommitReceipt(r, answer)
          PROVE  i \in DOMAIN ledger' /\ ledger'[i] = ledger[i]
      <3>1. CASE ledger' = ledger
        BY <2>0, <3>1
      <3>2. CASE ledger' = [j \in Remembered |-> ledger[j]]
        BY <3>2
      <3>3. CASE r.id \notin Remembered /\ ledger' = Record(r, answer)
        BY <3>3 DEF Record
      <3> QED
        BY <2>1, <3>1, <3>2, <3>3 DEF CommitReceipt, AnswerReplay, AnswerFull, Apply
    <2>2. CASE IssueToken \/ BeginClear \/ WipeLearners \/ EndClear \/ ReloadLearning
      BY <2>0, <2>2 DEF IssueToken, BeginClear, WipeLearners, EndClear, ReloadLearning
    <2>3. CASE Restart
      BY <2>3 DEF Restart, TypeOK
    <2>4. CASE LedgerTick
      <3>1. ledger[i] \in [receipt : Receipts, outcome : Outcomes, age : 0..LedgerTTL]
        BY <2>0, <1>1 DEF TypeOK
      <3>2. i \in DOMAIN ledger' /\ ledger'[i] = [ledger[i] EXCEPT !.age = AgeBy1(ledger[i].age, LedgerTTL)]
        BY <2>0, <2>4 DEF LedgerTick
      <3> QED
        BY <3>1, <3>2
    <2> QED
      BY <1>1, <2>1, <2>2, <2>3, <2>4 DEF Next
  <1>2. TypeOK /\ [Next]_ledgerVars => [Final]_ledgerVars
    BY <1>1
  <1> QED
    BY <1>2, TypeCorrect, PTL DEF Spec, VerdictsAreFinal

HIDE LedgerAssumption

-----------------------------------------------------------------------------
(* Part two: the outbox.                                                   *)

(* A delivery that waits, and one the worker has taken: an attempt is      *)
(* counted when the delivery is taken, and RETRIES bounds them.            *)
Queued(R) ==
  [receipt : R, left : 0..Lifetime, wait : Nat, attempts : 0..Len(RetryDelays)]
Taken(R) ==
  [receipt : R, left : 0..Lifetime, wait : Nat, attempts : 0..(Len(RetryDelays) + 1)]

DeliveriesTyped(R) ==
  /\ channel \in Seq(Queued(R)) /\ pending \in Seq(Queued(R)) /\ current \in Seq(Taken(R))
  /\ held \in Seq(R) /\ Len(current) <= 1 /\ Len(held) <= 1

(* Without its owner the STA does nothing and an exited thread has nothing *)
(* left; a delivery under way has counted its attempt.                     *)
Places ==
  /\ ~attached => sta = "idle"
  /\ phase = "exited" => ~attached /\ channel = <<>> /\ pending = <<>>
  /\ phase \in {"cached", "fresh", "await", "failed"} => current[1].attempts >= 1

OutboxIInv(R) == DeliveriesTyped(R) /\ OutboxTypeOK /\ CountIsExact /\ Places

-----------------------------------------------------------------------------
(* What the sequence operators of the model return.                        *)
LEMMA ElapseKeeps ==
  ASSUME NEW R, NEW n, NEW d \in [receipt : R, left : 0..Lifetime, wait : Nat, attempts : n]
  PROVE  Elapse(d) \in [receipt : R, left : 0..Lifetime, wait : Nat, attempts : n]
         /\ Elapse(d).receipt = d.receipt /\ Elapse(d).attempts = d.attempts
  <1>1. Lifetime \in Nat /\ d.left \in 0..Lifetime /\ d.wait \in Nat
    BY OutboxAssumption
  <1>2. (IF d.left > 0 THEN d.left - 1 ELSE 0) \in 0..Lifetime
    BY <1>1
  <1>3. (IF d.wait > 0 THEN d.wait - 1 ELSE 0) \in Nat
    BY <1>1
  <1>4. Elapse(d) = [d EXCEPT !.left = IF d.left > 0 THEN d.left - 1 ELSE 0,
                              !.wait = IF d.wait > 0 THEN d.wait - 1 ELSE 0]
    BY DEF Elapse
  <1> QED
    BY <1>2, <1>3, <1>4

LEMMA ElapsedSeq ==
  ASSUME NEW S, NEW q \in Seq(S), NEW T, \A d \in S : Elapse(d) \in T
  PROVE  ElapseAll(q) \in Seq(T) /\ Len(ElapseAll(q)) = Len(q)
         /\ \A i \in 1..Len(q) : ElapseAll(q)[i] = Elapse(q[i])
  <1>1. DOMAIN q = 1..Len(q) /\ Len(q) \in Nat /\ \A i \in 1..Len(q) : q[i] \in S
    BY LenProperties
  <1>2. ElapseAll(q) \in [1..Len(q) -> T]
    BY <1>1 DEF ElapseAll
  <1>3. ElapseAll(q) \in Seq(T)
    BY <1>1, <1>2
  <1>4. Len(ElapseAll(q)) = Len(q)
    BY <1>1, <1>2, <1>3, LenProperties
  <1> QED
    BY <1>1, <1>3, <1>4 DEF ElapseAll

(* The first due delivery, which run looks for, exists when one is due.    *)
LEMMA LeastDue ==
  ASSUME NEW S, Arrived \in Seq(S), \E i \in DOMAIN Arrived : Due(Arrived[i])
  PROVE  FirstDue \in DOMAIN Arrived /\ Due(Arrived[FirstDue])
  <1> DEFINE T == {i \in DOMAIN Arrived : Due(Arrived[i])}
  <1>1. T \subseteq Nat /\ T # {} /\ DOMAIN Arrived = 1..Len(Arrived) /\ Len(Arrived) \in Nat
    BY LenProperties
  <1>2. PICK i \in T : \A j \in T : ~(<<j, i>> \in OpToRel(<, Nat))
    <2> HIDE DEF T
    <2> QED
      BY <1>1, NatLessThanWellFounded, WFMin
  <1>3. \A j \in T : ~(j < i)
    BY <1>1, <1>2 DEF OpToRel
  <1>4. \A j \in 1..(i-1) : ~Due(Arrived[j])
    BY <1>1, <1>3
  <1> QED
    BY <1>2, <1>4 DEF FirstDue

LEMMA RemoveOne ==
  ASSUME NEW S, NEW s \in Seq(S), NEW k \in DOMAIN s
  PROVE  RemoveAt(s, k) \in Seq(S) /\ Len(RemoveAt(s, k)) = Len(s) - 1
  <1>1. Len(s) \in Nat /\ DOMAIN s = 1..Len(s) /\ \A i \in 1..Len(s) : s[i] \in S
    BY LenProperties
  <1>2. SubSeq(s, 1, k-1) \in Seq(S) /\ Len(SubSeq(s, 1, k-1)) = k - 1
    <2>1. \A i \in 1..(k-1) : s[i] \in S
      BY <1>1
    <2>2. k - 1 \in Int /\ k - 1 >= 0
      BY <1>1
    <2> QED
      BY <2>1, <2>2, SubSeqProperties
  <1>3. SubSeq(s, k+1, Len(s)) \in Seq(S) /\ Len(SubSeq(s, k+1, Len(s))) = Len(s) - k
    <2>1. \A i \in (k+1)..Len(s) : s[i] \in S
      BY <1>1
    <2>2. k + 1 \in Int /\ Len(s) \in Int /\ k <= Len(s)
      BY <1>1
    <2> QED
      BY <2>1, <2>2, SubSeqProperties
  <1>4. /\ SubSeq(s, 1, k-1) \o SubSeq(s, k+1, Len(s)) \in Seq(S)
        /\ Len(SubSeq(s, 1, k-1) \o SubSeq(s, k+1, Len(s))) = (k - 1) + (Len(s) - k)
    BY <1>2, <1>3, ConcatProperties
  <1>5. (k - 1) + (Len(s) - k) = Len(s) - 1
    BY <1>1
  <1>6. RemoveAt(s, k) = SubSeq(s, 1, k-1) \o SubSeq(s, k+1, Len(s))
    BY DEF RemoveAt
  <1> QED
    BY <1>4, <1>5, <1>6

-----------------------------------------------------------------------------
LEMMA OutboxNumbers ==
  ASSUME NEW R, OutboxIInv(R)
  PROVE  /\ Capacity \in Nat \ {0} /\ Lifetime \in Nat \ {0} /\ Len(RetryDelays) \in Nat
         /\ outstanding \in Nat /\ Len(channel) \in Nat /\ Len(pending) \in Nat
         /\ Len(current) \in {0, 1} /\ Len(held) \in {0, 1}
         /\ current = <<>> <=> Len(current) = 0
         /\ held = <<>> <=> Len(held) = 0
         /\ current # <<>> => current[1] \in Taken(R)
         /\ held # <<>> => held[1] \in R
         /\ channel = <<>> <=> Len(channel) = 0
         /\ pending = <<>> <=> Len(pending) = 0
  <1>1. /\ channel \in Seq(Queued(R)) /\ pending \in Seq(Queued(R)) /\ current \in Seq(Taken(R))
        /\ held \in Seq(R) /\ Len(current) <= 1 /\ Len(held) <= 1
    BY DEF OutboxIInv, DeliveriesTyped
  <1>2. /\ Len(channel) \in Nat /\ Len(pending) \in Nat /\ Len(current) \in Nat
        /\ Len(held) \in Nat
    BY <1>1, LenProperties
  <1>3. /\ current = <<>> <=> Len(current) = 0
        /\ held = <<>> <=> Len(held) = 0
        /\ channel = <<>> <=> Len(channel) = 0
        /\ pending = <<>> <=> Len(pending) = 0
    BY <1>1, EmptySeq
  <1>4. /\ current # <<>> => current[1] \in Taken(R)
        /\ held # <<>> => held[1] \in R
    BY <1>1, <1>2, <1>3, ElementOfSeq
  <1>5. outstanding \in Nat /\ Capacity \in Nat \ {0}
    BY OutboxAssumption DEF OutboxIInv, OutboxTypeOK
  <1>6. Lifetime \in Nat \ {0} /\ Len(RetryDelays) \in Nat
    BY OutboxAssumption, LenProperties
  <1>7. Len(current) \in {0, 1} /\ Len(held) \in {0, 1}
    <2>1. \A n \in Nat : n <= 1 => n \in {0, 1}
      OBVIOUS
    <2> QED
      BY <1>1, <1>2, <2>1
  <1> QED
    BY <1>2, <1>3, <1>4, <1>5, <1>6, <1>7

(* A step that moves no delivery.                                         *)
LEMMA NothingMoves ==
  ASSUME NEW R, OutboxIInv(R), UNCHANGED <<outstanding, channel, pending, current, held>>,
         OutboxTypeOK', Places', (sta' = "sending") = (sta = "sending"),
         phase' = "exited" => phase = "exited" \/ (channel = <<>> /\ pending = <<>>
                                                  /\ current = <<>> /\ sta # "sending")
  PROVE  OutboxIInv(R)'
  <1>1. DeliveriesTyped(R)'
    BY DEF OutboxIInv, DeliveriesTyped
  <1>2. CountIsExact'
    BY OutboxNumbers DEF OutboxIInv, CountIsExact
  <1> QED
    BY <1>1, <1>2 DEF OutboxIInv

LEMMA SwapInvalidationKeeps ==
  ASSUME NEW R, OutboxIInv(R), SwapInvalidation
  PROVE  OutboxIInv(R)'
  <1>1. UNCHANGED <<outstanding, channel, pending, current, held>>
    BY DEF SwapInvalidation, staVars, sharedVars, workerVars
  <1>2. OutboxTypeOK'
    BY <1>1 DEF SwapInvalidation, staVars, sharedVars, workerVars, OutboxIInv,
       OutboxTypeOK, Phases, Verdicts
  <1>3. Places'
    BY <1>1 DEF SwapInvalidation, staVars, sharedVars, workerVars, OutboxIInv, Places,
       OutboxTypeOK, Phases, Verdicts
  <1> QED
    BY <1>1, <1>2, <1>3, NothingMoves DEF SwapInvalidation, staVars, sharedVars, workerVars

LEMMA TakeNoticeKeeps ==
  ASSUME NEW R, OutboxIInv(R), TakeNotice
  PROVE  OutboxIInv(R)'
  <1>1. UNCHANGED <<outstanding, channel, pending, current, held>>
    BY DEF TakeNotice, staVars, sharedVars, workerVars
  <1>2. OutboxTypeOK'
    BY <1>1 DEF TakeNotice, staVars, sharedVars, workerVars, OutboxIInv, OutboxTypeOK,
       Phases, Verdicts
  <1>3. Places'
    BY <1>1 DEF TakeNotice, staVars, sharedVars, workerVars, OutboxIInv, Places,
       OutboxTypeOK, Phases, Verdicts
  <1> QED
    BY <1>1, <1>2, <1>3, NothingMoves DEF TakeNotice, staVars, sharedVars, workerVars

LEMMA DetachKeeps ==
  ASSUME NEW R, OutboxIInv(R), Detach
  PROVE  OutboxIInv(R)'
  <1>1. UNCHANGED <<outstanding, channel, pending, current, held>>
    BY DEF Detach, staVars, sharedVars, workerVars
  <1>2. OutboxTypeOK'
    BY <1>1 DEF Detach, staVars, sharedVars, workerVars, OutboxIInv, OutboxTypeOK, Phases,
       Verdicts
  <1>3. Places'
    BY <1>1 DEF Detach, staVars, sharedVars, workerVars, OutboxIInv, Places, OutboxTypeOK,
       Phases, Verdicts
  <1> QED
    BY <1>1, <1>2, <1>3, NothingMoves DEF Detach, staVars, sharedVars, workerVars

LEMMA HandshakeFailsKeeps ==
  ASSUME NEW R, OutboxIInv(R), HandshakeFails
  PROVE  OutboxIInv(R)'
  <1>1. UNCHANGED <<outstanding, channel, pending, current, held>>
    BY DEF HandshakeFails, staVars, sharedVars, workerVars
  <1>2. OutboxTypeOK'
    BY <1>1 DEF HandshakeFails, staVars, sharedVars, workerVars, OutboxIInv, OutboxTypeOK,
       Phases, Verdicts
  <1>3. Places'
    BY <1>1 DEF HandshakeFails, staVars, sharedVars, workerVars, OutboxIInv, Places,
       OutboxTypeOK, Phases, Verdicts
  <1> QED
    BY <1>1, <1>2, <1>3, NothingMoves DEF HandshakeFails, staVars, sharedVars, workerVars

LEMMA DropStaleClientKeeps ==
  ASSUME NEW R, OutboxIInv(R), DropStaleClient
  PROVE  OutboxIInv(R)'
  <1>1. UNCHANGED <<outstanding, channel, pending, current, held>>
    BY DEF DropStaleClient, staVars, sharedVars, workerVars
  <1>2. OutboxTypeOK'
    BY <1>1 DEF DropStaleClient, staVars, sharedVars, workerVars, OutboxIInv,
       OutboxTypeOK, Phases, Verdicts
  <1>3. Places'
    BY <1>1 DEF DropStaleClient, staVars, sharedVars, workerVars, OutboxIInv, Places,
       OutboxTypeOK, Phases, Verdicts
  <1> QED
    BY <1>1, <1>2, <1>3, NothingMoves DEF DropStaleClient, staVars, sharedVars, workerVars

LEMMA CondemnEpochKeeps ==
  ASSUME NEW R, OutboxIInv(R), CondemnEpoch
  PROVE  OutboxIInv(R)'
  <1>1. UNCHANGED <<outstanding, channel, pending, current, held>>
    BY DEF CondemnEpoch, Settle, staVars, sharedVars, workerVars
  <1>2. OutboxTypeOK'
    BY <1>1 DEF CondemnEpoch, Settle, staVars, sharedVars, workerVars, OutboxIInv,
       OutboxTypeOK, Phases, Verdicts
  <1>3. Places'
    BY <1>1 DEF CondemnEpoch, Settle, staVars, sharedVars, workerVars, OutboxIInv, Places,
       OutboxTypeOK, Phases, Verdicts
  <1> QED
    BY <1>1, <1>2, <1>3, NothingMoves DEF CondemnEpoch, Settle, staVars, sharedVars,
       workerVars

LEMMA SendReceiptKeeps ==
  ASSUME NEW R, OutboxIInv(R), SendReceipt
  PROVE  OutboxIInv(R)'
  <1>1. UNCHANGED <<outstanding, channel, pending, current, held>>
    BY DEF SendReceipt, staVars, sharedVars, workerVars
  <1>2. OutboxTypeOK'
    BY <1>1 DEF SendReceipt, staVars, sharedVars, workerVars, OutboxIInv, OutboxTypeOK,
       Phases, Verdicts
  <1>3. Places'
    BY <1>1 DEF SendReceipt, staVars, sharedVars, workerVars, OutboxIInv, Places,
       OutboxTypeOK, Phases, Verdicts
  <1> QED
    BY <1>1, <1>2, <1>3, NothingMoves DEF SendReceipt, staVars, sharedVars, workerVars

LEMMA AnswerLostKeeps ==
  ASSUME NEW R, OutboxIInv(R), AnswerLost
  PROVE  OutboxIInv(R)'
  <1>1. UNCHANGED <<outstanding, channel, pending, current, held>>
    BY DEF AnswerLost, staVars, sharedVars, workerVars
  <1>2. OutboxTypeOK'
    BY <1>1 DEF AnswerLost, staVars, sharedVars, workerVars, OutboxIInv, OutboxTypeOK,
       Phases, Verdicts
  <1>3. Places'
    BY <1>1 DEF AnswerLost, staVars, sharedVars, workerVars, OutboxIInv, Places,
       OutboxTypeOK, Phases, Verdicts
  <1> QED
    BY <1>1, <1>2, <1>3, NothingMoves DEF AnswerLost, staVars, sharedVars, workerVars

LEMMA RaiseWatermarkKeeps ==
  ASSUME NEW R, OutboxIInv(R), RaiseWatermark
  PROVE  OutboxIInv(R)'
  <1>1. UNCHANGED <<outstanding, channel, pending, current, held>>
    BY DEF RaiseWatermark, staVars, sharedVars, workerVars
  <1>2. OutboxTypeOK'
    BY <1>1 DEF RaiseWatermark, staVars, sharedVars, workerVars, OutboxIInv, OutboxTypeOK,
       Phases, Verdicts
  <1>3. Places'
    BY <1>1 DEF RaiseWatermark, staVars, sharedVars, workerVars, OutboxIInv, Places,
       OutboxTypeOK, Phases, Verdicts
  <1> QED
    BY <1>1, <1>2, <1>3, NothingMoves DEF RaiseWatermark, staVars, sharedVars, workerVars

LEMMA FlagInvalidationKeeps ==
  ASSUME NEW R, OutboxIInv(R), FlagInvalidation
  PROVE  OutboxIInv(R)'
  <1>1. UNCHANGED <<outstanding, channel, pending, current, held>>
    BY DEF FlagInvalidation, staVars, sharedVars, workerVars
  <1>2. OutboxTypeOK'
    BY <1>1 DEF FlagInvalidation, staVars, sharedVars, workerVars, OutboxIInv,
       OutboxTypeOK, Phases, Verdicts
  <1>3. Places'
    BY <1>1 DEF FlagInvalidation, staVars, sharedVars, workerVars, OutboxIInv, Places,
       OutboxTypeOK, Phases, Verdicts
  <1> QED
    BY <1>1, <1>2, <1>3, NothingMoves DEF FlagInvalidation, staVars, sharedVars, workerVars

LEMMA PublishNoticeKeeps ==
  ASSUME NEW R, OutboxIInv(R), PublishNotice
  PROVE  OutboxIInv(R)'
  <1>1. UNCHANGED <<outstanding, channel, pending, current, held>>
    BY DEF PublishNotice, staVars, sharedVars, workerVars
  <1>2. OutboxTypeOK'
    BY <1>1 DEF PublishNotice, staVars, sharedVars, workerVars, OutboxIInv, OutboxTypeOK,
       Phases, Verdicts
  <1>3. Places'
    BY <1>1 DEF PublishNotice, staVars, sharedVars, workerVars, OutboxIInv, Places,
       OutboxTypeOK, Phases, Verdicts
  <1> QED
    BY <1>1, <1>2, <1>3, NothingMoves DEF PublishNotice, staVars, sharedVars, workerVars

LEMMA WorkerExitKeeps ==
  ASSUME NEW R, OutboxIInv(R), WorkerExit
  PROVE  OutboxIInv(R)'
  <1>0. /\ channel = <<>> /\ pending = <<>> /\ current = <<>> /\ sta = "idle"
    <2>1. pending \o channel = <<>> /\ channel \in Seq(Queued(R)) /\ pending \in Seq(Queued(R))
      BY DEF WorkerExit, Arrived, OutboxIInv, DeliveriesTyped
    <2> QED
      BY <2>1, ConcatEqualIffEmpty DEF WorkerExit, OutboxIInv, OutboxTypeOK, Places
  <1>1. UNCHANGED <<outstanding, channel, pending, current, held>>
    BY DEF WorkerExit, staVars, sharedVars, workerVars
  <1>2. OutboxTypeOK'
    BY <1>1 DEF WorkerExit, staVars, sharedVars, workerVars, OutboxIInv, OutboxTypeOK,
       Phases, Verdicts
  <1>3. Places'
    BY <1>0, <1>1 DEF WorkerExit, staVars, sharedVars, workerVars, OutboxIInv, Places,
       OutboxTypeOK, Phases, Verdicts
  <1> QED
    BY <1>0, <1>1, <1>2, <1>3, NothingMoves DEF WorkerExit, staVars

LEMMA HandshakeKeeps ==
  ASSUME NEW R, OutboxIInv(R), NEW e, Handshake(e)
  PROVE  OutboxIInv(R)'
  <1>1. UNCHANGED <<outstanding, channel, pending, current, held>>
    BY DEF Handshake, staVars, sharedVars, workerVars
  <1>2. OutboxTypeOK'
    BY <1>1 DEF Handshake, staVars, sharedVars, workerVars, OutboxIInv, OutboxTypeOK,
       Phases, Verdicts
  <1>3. Places'
    BY <1>1 DEF Handshake, staVars, sharedVars, workerVars, OutboxIInv, Places,
       OutboxTypeOK, Phases, Verdicts
  <1> QED
    BY <1>1, <1>2, <1>3, NothingMoves DEF Handshake, staVars, sharedVars, workerVars

LEMMA AnsweredKeeps ==
  ASSUME NEW R, OutboxIInv(R), NEW v \in Verdicts, Answered(v)
  PROVE  OutboxIInv(R)'
  <1>1. UNCHANGED <<outstanding, channel, pending, current, held>>
    BY DEF Answered, Settle, staVars, sharedVars, workerVars
  <1>2. OutboxTypeOK'
    BY <1>1 DEF Answered, Settle, staVars, sharedVars, workerVars, OutboxIInv,
       OutboxTypeOK, Phases, Verdicts
  <1>3. Places'
    BY <1>1 DEF Answered, Settle, staVars, sharedVars, workerVars, OutboxIInv, Places,
       OutboxTypeOK, Phases, Verdicts
  <1> QED
    BY <1>1, <1>2, <1>3, NothingMoves DEF Answered, Settle, staVars, sharedVars, workerVars

(* The STA's own steps.                                                   *)
LEMMA PrepareCommitKeeps ==
  ASSUME NEW R, OutboxIInv(R), NEW r \in R, PrepareCommit(r)
  PROVE  OutboxIInv(R)'
  <1>1. /\ attached /\ sta = "idle" /\ sta' = "writing" /\ held' = <<r>>
        /\ UNCHANGED <<attached, outstanding, channel, notice, invalidated, pending, current,
                       phase, outcome>>
    BY DEF PrepareCommit, sharedVars, workerVars
  <1>2. DeliveriesTyped(R)'
    BY <1>1 DEF OutboxIInv, DeliveriesTyped
  <1>3. OutboxTypeOK'
    BY <1>1 DEF OutboxIInv, OutboxTypeOK
  <1>4. CountIsExact' /\ Places'
    BY <1>1 DEF OutboxIInv, CountIsExact, Places
  <1> QED
    BY <1>2, <1>3, <1>4 DEF OutboxIInv

LEMMA WriteFailsKeeps ==
  ASSUME NEW R, OutboxIInv(R), WriteFails
  PROVE  OutboxIInv(R)'
  <1>1. /\ sta = "writing" /\ sta' = "idle" /\ held' = <<>>
        /\ UNCHANGED <<attached, outstanding, channel, notice, invalidated, pending, current,
                       phase, outcome>>
    BY DEF WriteFails, sharedVars, workerVars
  <1>2. DeliveriesTyped(R)'
    BY <1>1 DEF OutboxIInv, DeliveriesTyped
  <1>3. OutboxTypeOK'
    BY <1>1 DEF OutboxIInv, OutboxTypeOK
  <1>4. CountIsExact' /\ Places'
    BY <1>1 DEF OutboxIInv, CountIsExact, Places
  <1> QED
    BY <1>2, <1>3, <1>4 DEF OutboxIInv

(* The reservation: below the capacity the counter has room for one more,  *)
(* and so has the channel.                                                 *)
LEMMA TextAppliedKeeps ==
  ASSUME NEW R, OutboxIInv(R), TextApplied
  PROVE  OutboxIInv(R)'
  <1>1. /\ sta = "writing" /\ held # <<>>
        /\ UNCHANGED <<attached, channel, invalidated, pending, current, phase, outcome>>
    BY DEF TextApplied, workerVars, OutboxIInv, OutboxTypeOK
  <1>2. CASE outstanding < Capacity
    <2>1. outstanding' = outstanding + 1 /\ sta' = "sending" /\ UNCHANGED <<held, notice>>
      BY <1>2 DEF TextApplied
    <2>2. DeliveriesTyped(R)'
      BY <1>1, <2>1 DEF OutboxIInv, DeliveriesTyped
    <2>3. OutboxTypeOK'
      BY <1>1, <1>2, <2>1, OutboxNumbers DEF OutboxIInv, OutboxTypeOK
    <2>4. CountIsExact' /\ Places'
      BY <1>1, <1>2, <2>1, OutboxNumbers DEF OutboxIInv, CountIsExact, Places
    <2> QED
      BY <2>2, <2>3, <2>4 DEF OutboxIInv
  <1>3. CASE ~(outstanding < Capacity)
    <2>1. notice' = TRUE /\ sta' = "idle" /\ held' = <<>> /\ UNCHANGED outstanding
      BY <1>3 DEF TextApplied
    <2>2. DeliveriesTyped(R)'
      BY <1>1, <2>1 DEF OutboxIInv, DeliveriesTyped
    <2>3. OutboxTypeOK'
      BY <1>1, <2>1 DEF OutboxIInv, OutboxTypeOK
    <2>4. CountIsExact' /\ Places'
      BY <1>1, <2>1 DEF OutboxIInv, CountIsExact, Places
    <2> QED
      BY <2>2, <2>3, <2>4 DEF OutboxIInv
  <1> QED
    BY <1>2, <1>3

LEMMA TrySendKeeps ==
  ASSUME NEW R, OutboxIInv(R), TrySend
  PROVE  OutboxIInv(R)'
  <1> DEFINE d == [receipt |-> held[1], left |-> Lifetime, wait |-> 0, attempts |-> 0]
  <1>1. /\ sta = "sending" /\ sta' = "idle" /\ held' = <<>> /\ channel' = Append(channel, d)
        /\ UNCHANGED <<attached, outstanding, notice, invalidated, pending, current, phase,
                       outcome>>
    BY DEF TrySend, workerVars
  <1>2. d \in Queued(R) /\ channel \in Seq(Queued(R))
    BY <1>1, OutboxNumbers DEF Queued, OutboxIInv, OutboxTypeOK, DeliveriesTyped
  <1>3. channel' \in Seq(Queued(R)) /\ Len(channel') = Len(channel) + 1
    BY <1>1, <1>2, AppendProperties
  <1>4. DeliveriesTyped(R)'
    BY <1>1, <1>3 DEF OutboxIInv, DeliveriesTyped
  <1>5. OutboxTypeOK'
    BY <1>1 DEF OutboxIInv, OutboxTypeOK
  <1>6. phase # "exited"
    BY <1>1 DEF OutboxIInv, Places
  <1>7. CountIsExact' /\ Places'
    BY <1>1, <1>3, <1>6, OutboxNumbers DEF OutboxIInv, CountIsExact, Places
  <1> QED
    BY <1>4, <1>5, <1>7 DEF OutboxIInv

(* The worker takes the first due delivery: one leaves the queues.         *)
LEMMA TakeDueKeeps ==
  ASSUME NEW R, OutboxIInv(R), TakeDue
  PROVE  OutboxIInv(R)'
  <1> DEFINE d == Arrived[FirstDue]
  <1>1. /\ phase = "idle" /\ channel' = <<>> /\ pending' = RemoveAt(Arrived, FirstDue)
        /\ UNCHANGED <<attached, sta, held, outstanding, notice, invalidated>>
        /\ IF d.left = 0 THEN current' = <<d>> /\ Settle("expired")
           ELSE current' = <<[d EXCEPT !.attempts = @ + 1]>> /\ phase' = "cached"
                /\ UNCHANGED outcome
    BY DEF TakeDue, staVars
  <1>2. Arrived \in Seq(Queued(R)) /\ Len(Arrived) = Len(pending) + Len(channel)
    BY ConcatProperties DEF Arrived, OutboxIInv, DeliveriesTyped
  <1>3. FirstDue \in DOMAIN Arrived
    BY <1>2, LeastDue DEF TakeDue
  <1>4. d \in Queued(R)
    BY <1>2, <1>3, LenProperties
  <1>5. pending' \in Seq(Queued(R)) /\ Len(pending') = Len(pending) + Len(channel) - 1
    <2>1. /\ RemoveAt(Arrived, FirstDue) \in Seq(Queued(R))
          /\ Len(RemoveAt(Arrived, FirstDue)) = Len(Arrived) - 1
      BY <1>2, <1>3, RemoveOne
    <2>2. /\ pending' \in Seq(Queued(R))
          /\ Len(pending') = (Len(pending) + Len(channel)) - 1
      BY <1>1, <1>2, <2>1
    <2> QED
      BY <2>2
  <1>6. PICK t \in Taken(R) : /\ current' = <<t>>
                              /\ phase' = "cached" => t.attempts >= 1
    <2> HIDE DEF d
    <2>1. d \in Taken(R)
      BY <1>4, OutboxNumbers DEF Queued, Taken
    <2>2. /\ [d EXCEPT !.attempts = @ + 1] \in Taken(R)
          /\ [d EXCEPT !.attempts = @ + 1].attempts >= 1
      <3>1. PICK n \in 1..Len(RetryDelays) + 1 : n = d.attempts + 1
        BY <1>4, OutboxNumbers DEF Queued
      <3>2. [d EXCEPT !.attempts = n].attempts = n
        BY <2>1 DEF Taken
      <3>3. [d EXCEPT !.attempts = n] \in Taken(R)
        BY <2>1 DEF Taken
      <3>4. n >= 1
        BY <3>1, OutboxNumbers
      <3> QED
        BY <3>1, <3>2, <3>3, <3>4
    <2>3. CASE d.left = 0
      BY <1>1, <2>1, <2>3 DEF Settle
    <2>4. CASE d.left # 0
      BY <1>1, <2>2, <2>4
    <2> QED
      BY <2>3, <2>4
  <1>7. /\ phase' \in {"cached", "notify"} /\ outcome' \in {"expired", outcome}
    BY <1>1 DEF Settle
  <1>8. current = <<>> /\ current' # <<>> /\ Len(current') = 1 /\ current'[1].attempts = t.attempts
    BY <1>1, <1>6 DEF OutboxIInv, OutboxTypeOK
  <1>9. DeliveriesTyped(R)'
    BY <1>1, <1>5, <1>6 DEF OutboxIInv, DeliveriesTyped
  <1>10. OutboxTypeOK'
    BY <1>1, <1>7, <1>8 DEF OutboxIInv, OutboxTypeOK, Phases, Verdicts
  <1>11. CountIsExact'
    BY <1>1, <1>5, <1>7, <1>8, OutboxNumbers DEF OutboxIInv, CountIsExact
  <1>12. Places'
    BY <1>1, <1>6, <1>7, <1>8 DEF OutboxIInv, Places
  <1> QED
    BY <1>9, <1>10, <1>11, <1>12 DEF OutboxIInv

(* A retry puts the delivery back, with the attempt it has counted.        *)
LEMMA RetryKeeps ==
  ASSUME NEW R, OutboxIInv(R), Retry
  PROVE  OutboxIInv(R)'
  <1> DEFINE d == current[1]
             again == d.attempts <= Len(RetryDelays) /\ RetryDelays[d.attempts] < d.left
  <1>1. /\ phase = "failed" /\ UNCHANGED <<attached, sta, held, outstanding, channel, notice,
                                           invalidated>>
        /\ current # <<>> /\ d \in Taken(R) /\ d.attempts >= 1
    BY OutboxNumbers DEF Retry, staVars, sharedVars, OutboxIInv, OutboxTypeOK, Places
  <1>2. CASE again
    <2> DEFINE e == [d EXCEPT !.wait = RetryDelays[d.attempts]]
    <2>1. /\ pending' = Append(pending, e) /\ current' = <<>> /\ phase' = "idle"
          /\ UNCHANGED outcome
      BY <1>2 DEF Retry
    <2>2. RetryDelays[d.attempts] \in Nat
      <3>1. d.attempts \in 1..Len(RetryDelays)
        BY <1>1, <1>2, OutboxNumbers DEF Taken
      <3> QED
        BY <3>1, OutboxAssumption, ElementOfSeq
    <2>3. e \in Queued(R)
      BY <1>1, <1>2, <2>2, OutboxNumbers DEF Queued, Taken
    <2>4. pending' \in Seq(Queued(R)) /\ Len(pending') = Len(pending) + 1
      BY <2>1, <2>3, AppendProperties DEF OutboxIInv, DeliveriesTyped
    <2>5. DeliveriesTyped(R)'
      BY <1>1, <2>1, <2>4 DEF OutboxIInv, DeliveriesTyped
    <2>6. OutboxTypeOK'
      BY <1>1, <2>1 DEF OutboxIInv, OutboxTypeOK, Phases
    <2>7. CountIsExact'
      <3>1. Len(current) = 1 /\ Len(current') = 0
        BY <1>1, <2>1, OutboxNumbers
      <3>2. /\ outstanding = Len(channel) + Len(pending) + Len(current)
                             + (IF sta = "sending" THEN 1 ELSE 0)
            /\ sta = "sending" => Len(channel) < Capacity
        BY DEF OutboxIInv, CountIsExact
      <3>3. Len(channel) \in Nat /\ Len(pending) \in Nat
        BY OutboxNumbers
      <3> QED
        BY <1>1, <2>1, <2>4, <3>1, <3>2, <3>3 DEF CountIsExact
    <2>8. Places'
      BY <1>1, <2>1 DEF OutboxIInv, Places
    <2> QED
      BY <2>5, <2>6, <2>7, <2>8 DEF OutboxIInv
  <1>3. CASE ~again
    <2>1. UNCHANGED <<pending, current>> /\ Settle(IF d.left = 0 THEN "expired" ELSE "failed")
      BY <1>3 DEF Retry
    <2>2. outcome' \in {"expired", "failed"} /\ phase' = "notify"
      BY <2>1 DEF Settle
    <2>3. OutboxTypeOK'
      BY <1>1, <2>1, <2>2 DEF OutboxIInv, OutboxTypeOK, Phases, Verdicts
    <2>4. Places'
      BY <1>1, <2>2 DEF OutboxIInv, Places
    <2> QED
      BY <1>1, <2>1, <2>2, <2>3, <2>4, NothingMoves
  <1> QED
    BY <1>2, <1>3

LEMMA ReleaseKeeps ==
  ASSUME NEW R, OutboxIInv(R), Release
  PROVE  OutboxIInv(R)'
  <1>1. /\ phase = "release" /\ outstanding' = outstanding - 1 /\ current' = <<>>
        /\ phase' = "idle" /\ outcome' = NoOutcome
        /\ UNCHANGED <<attached, sta, held, channel, notice, invalidated, pending>>
    BY DEF Release, staVars
  <1>2. Len(current) = 1 /\ outstanding >= 1
    BY <1>1, OutboxNumbers DEF OutboxIInv, OutboxTypeOK, CountIsExact
  <1>3. DeliveriesTyped(R)'
    BY <1>1 DEF OutboxIInv, DeliveriesTyped
  <1>4. OutboxTypeOK'
    BY <1>1, <1>2, OutboxNumbers DEF OutboxIInv, OutboxTypeOK, Phases
  <1>5. CountIsExact' /\ Places'
    BY <1>1, <1>2, OutboxNumbers DEF OutboxIInv, CountIsExact, Places
  <1> QED
    BY <1>3, <1>4, <1>5 DEF OutboxIInv

(* Time passes for every delivery and moves none.                          *)
LEMMA OutboxTickKeeps ==
  ASSUME NEW R, OutboxIInv(R), OutboxTick
  PROVE  OutboxIInv(R)'
  <1>1. /\ channel' = ElapseAll(channel) /\ pending' = ElapseAll(pending)
        /\ current' = ElapseAll(current)
        /\ UNCHANGED <<attached, sta, held, outstanding, notice, invalidated, phase, outcome>>
    BY DEF OutboxTick, staVars
  <1>2. /\ channel \in Seq(Queued(R)) /\ pending \in Seq(Queued(R)) /\ current \in Seq(Taken(R))
    BY DEF OutboxIInv, DeliveriesTyped
  <1>3. \A d \in Queued(R) : Elapse(d) \in Queued(R)
    BY ElapseKeeps DEF Queued
  <1>4. \A d \in Taken(R) : Elapse(d) \in Taken(R) /\ Elapse(d).attempts = d.attempts
    BY ElapseKeeps DEF Taken
  <1>5. /\ channel' \in Seq(Queued(R)) /\ pending' \in Seq(Queued(R))
        /\ Len(channel') = Len(channel) /\ Len(pending') = Len(pending)
    BY <1>1, <1>2, <1>3, ElapsedSeq
  <1>6. current' \in Seq(Taken(R)) /\ Len(current') = Len(current)
    BY <1>1, <1>2, <1>4, ElapsedSeq
  <1>7. /\ current' = <<>> <=> current = <<>>
        /\ channel' = <<>> <=> channel = <<>>
        /\ pending' = <<>> <=> pending = <<>>
    BY <1>2, <1>5, <1>6, EmptySeq
  <1>8. current # <<>> => current'[1].attempts = current[1].attempts
    <2>1. SUFFICES ASSUME current # <<>> PROVE current'[1].attempts = current[1].attempts
      OBVIOUS
    <2>2. 1 \in 1..Len(current) /\ current[1] \in Taken(R)
      BY <2>1, OutboxNumbers
    <2>3. current'[1] = Elapse(current[1])
      BY <1>1, <1>2, <1>4, <2>2, ElapsedSeq
    <2> QED
      BY <1>4, <2>2, <2>3
  <1>9. DeliveriesTyped(R)'
    BY <1>1, <1>5, <1>6 DEF OutboxIInv, DeliveriesTyped
  <1>10. OutboxTypeOK'
    BY <1>1, <1>7 DEF OutboxIInv, OutboxTypeOK
  <1>11. CountIsExact'
    BY <1>1, <1>5, <1>6 DEF OutboxIInv, CountIsExact
  <1>12. Places'
    BY <1>1, <1>7, <1>8 DEF OutboxIInv, Places, OutboxTypeOK
  <1> QED
    BY <1>9, <1>10, <1>11, <1>12 DEF OutboxIInv

-----------------------------------------------------------------------------
LEMMA OutboxInitially ==
  ASSUME NEW R, OutboxInit
  PROVE  OutboxIInv(R)
  <1> USE DEF OutboxInit
  <1>1. DeliveriesTyped(R)
    BY EmptySeq DEF DeliveriesTyped
  <1>2. OutboxTypeOK
    <2>1. outstanding \in 0..Capacity
      BY OutboxAssumption
    <2>2. notice \in BOOLEAN /\ invalidated \in BOOLEAN /\ attached \in BOOLEAN
      OBVIOUS
    <2>3. outcome \in Verdicts \cup {NoOutcome, "failed", "epochChanged"}
      OBVIOUS
    <2>4. held = <<>> /\ current = <<>> /\ sta = "idle" /\ phase = "idle"
      OBVIOUS
    <2> QED
      BY <2>1, <2>2, <2>3, <2>4 DEF OutboxTypeOK, Phases
  <1>3. CountIsExact /\ Places
    BY OutboxAssumption DEF CountIsExact, Places
  <1> QED
    BY <1>1, <1>2, <1>3 DEF OutboxIInv

LEMMA OutboxStep ==
  ASSUME NEW R, OutboxIInv(R), OutboxNext(R)
  PROVE  OutboxIInv(R)'
  <1>1. ASSUME NEW r \in R, PrepareCommit(r) PROVE OutboxIInv(R)'
    BY <1>1, PrepareCommitKeeps
  <1>2. CASE WriteFails \/ TextApplied \/ TrySend \/ SwapInvalidation \/ TakeNotice \/ Detach
    BY <1>2, WriteFailsKeeps, TextAppliedKeeps, TrySendKeeps, SwapInvalidationKeeps,
       TakeNoticeKeeps, DetachKeeps
  <1>3. CASE WorkerSteps(R)
    <2>1. ASSUME NEW r \in R, Handshake(r.epoch) PROVE OutboxIInv(R)'
      BY <2>1, HandshakeKeeps
    <2>2. ASSUME NEW v \in {"applied", "stale", "conflict"}, Answered(v) PROVE OutboxIInv(R)'
      <3>1. v \in Verdicts
        BY DEF Verdicts
      <3> QED
        BY <2>2, <3>1, AnsweredKeeps
    <2>3. CASE TakeDue \/ HandshakeFails \/ DropStaleClient \/ CondemnEpoch \/ SendReceipt
      BY <2>3, TakeDueKeeps, HandshakeFailsKeeps, DropStaleClientKeeps, CondemnEpochKeeps,
         SendReceiptKeeps
    <2>4. CASE AnswerLost \/ Retry \/ RaiseWatermark \/ FlagInvalidation
      BY <2>4, AnswerLostKeeps, RetryKeeps, RaiseWatermarkKeeps, FlagInvalidationKeeps
    <2>5. CASE PublishNotice \/ Release \/ WorkerExit
      BY <2>5, PublishNoticeKeeps, ReleaseKeeps, WorkerExitKeeps
    <2> QED
      BY <1>3, <2>1, <2>2, <2>3, <2>4, <2>5 DEF WorkerSteps
  <1>4. CASE OutboxTick
    BY <1>4, OutboxTickKeeps
  <1> QED
    BY <1>1, <1>2, <1>3, <1>4 DEF OutboxNext

LEMMA OutboxStutter ==
  ASSUME NEW R, OutboxIInv(R), UNCHANGED outboxVars
  PROVE  OutboxIInv(R)'
  BY DEF outboxVars, staVars, sharedVars, workerVars, OutboxIInv, DeliveriesTyped,
         OutboxTypeOK, CountIsExact, Places

(* A thread that is busy with a delivery has not given its count back.     *)
LEMMA OutboxIsSafe ==
  ASSUME NEW R, OutboxIInv(R)
  PROVE  OutboxInv
  <1>1. BusyIsVisible
    BY OutboxNumbers DEF BusyIsVisible, Pending, OutboxIInv, OutboxTypeOK, CountIsExact
  <1> QED
    BY <1>1 DEF OutboxInv, OutboxIInv

(* The outbox alone, for any receipts and any answers: the counter is      *)
(* exact, the channel cannot overflow after a reservation, a busy thread   *)
(* is visible to the poll, and every delivery is typed and within its      *)
(* attempts.                                                               *)
THEOREM OutboxIInvAlways ==
  ASSUME NEW R
  PROVE  OutboxInit /\ [][OutboxNext(R)]_outboxVars => []OutboxIInv(R)
  <1>1. OutboxInit => OutboxIInv(R)
    BY OutboxInitially
  <1>2. OutboxIInv(R) /\ [OutboxNext(R)]_outboxVars => OutboxIInv(R)'
    BY OutboxStep, OutboxStutter
  <1> QED
    BY <1>1, <1>2, PTL

(* What the run of the outbox checks, for any receipts and any answers:    *)
(* the count is that of the deliveries, and a thread with something left to*)
(* tell is visible to the poll (take, deliver, poll).                      *)
THEOREM OutboxSafe ==
  ASSUME NEW R
  PROVE  OutboxInit /\ [][OutboxNext(R)]_outboxVars => []OutboxInv
  <1>1. OutboxIInv(R) => OutboxInv
    BY OutboxIsSafe
  <1> QED
    BY <1>1, OutboxIInvAlways, PTL

-----------------------------------------------------------------------------
(* Part three: the outbox, the ledger and the text service.                *)

(* The engine's counters stay within the bounds of the model.              *)
Bounds ==
  /\ epoch \in 1..MaxEpoch /\ generation \in 0..MaxGeneration /\ nextToken \in 0..MaxToken

(* An identity the engine gave out, with the tokens issued under it, is of *)
(* an engine there was, and of its past if that engine still runs.         *)
TokenSets == {{}} \cup {{<<e, n>>} : e \in 1..MaxEpoch, n \in 1..MaxToken}
IsPast(e, g, T) == e = epoch => g <= generation /\ \A t \in T : Issued(t)
Given(e, g, T) ==
  /\ e \in 1..epoch /\ g \in 0..MaxGeneration /\ T \in TokenSets
  /\ IsPast(e, g, T)

OfferType == [epoch : Nat, generation : Nat, tokens : TokenSets]
Sessions ==
  /\ offer # <<>> => /\ offer[1] \in OfferType
                     /\ Given(offer[1].epoch, offer[1].generation, offer[1].tokens)
  /\ identity # <<>> => Given(identity[1].epoch, identity[1].generation, tokens)

(* Every receipt was frozen from such an identity, under an id of its own. *)
Frozen(r) ==
  /\ r \in Receipts /\ r.id \in 1..sequence /\ r.epoch \in 1..epoch
  /\ IsPast(r.epoch, r.generation, r.tokens)
Sent(r) == r.id \in CommitIds /\ sent[r.id] = <<r>>

Commits ==
  /\ sequence \in 0..MaxCommits
  /\ DOMAIN sent = CommitIds
  /\ \A i \in CommitIds : sent[i] # <<>> =>
       sent[i] = <<sent[i][1]>> /\ sent[i][1].id = i /\ Frozen(sent[i][1])
  /\ sta = "writing" => Frozen(held[1]) /\ sent[held[1].id] = <<>>
  /\ sta = "sending" => Sent(held[1])

(* A delivery is of a sent receipt.  While it may still be answered, the   *)
(* engine that has applied it remembers so.                                *)
Recalled(d) ==
  (d.receipt \in applied /\ d.receipt.epoch = epoch /\ d.left > 0) =>
    /\ d.receipt.id \in DOMAIN ledger
    /\ ledger[d.receipt.id].receipt = d.receipt
    /\ ledger[d.receipt.id].outcome = "applied"
    /\ ledger[d.receipt.id].age + d.left <= Lifetime

Untold(r) == Sent(r) /\ told[r.id] = "none"
Trying == phase \in {"cached", "fresh", "await", "failed"}

Waiting ==
  \A i \in DOMAIN Arrived : Untold(Arrived[i].receipt) /\ Recalled(Arrived[i])
InHand ==
  /\ current # <<>> => Sent(current[1].receipt) /\ Recalled(current[1])
  /\ Trying => told[current[1].receipt.id] = "none"
Sending ==
  sta = "sending" =>
    /\ told[held[1].id] = "none" /\ held[1] \notin applied
    /\ \A q \in requests : q.receipt # held[1]
Asked ==
  \A q \in requests :
    Sent(q.receipt) /\ q \in [receipt : Receipts, attempt : 1..(Len(RetryDelays) + 1)]

Deliveries == Waiting /\ InHand /\ Sending /\ Asked

(* No two deliveries are of the same commit.                               *)
Apart ==
  /\ \A i, j \in DOMAIN Arrived : Arrived[i].receipt.id = Arrived[j].receipt.id => i = j
  /\ current # <<>> => \A i \in DOMAIN Arrived : Arrived[i].receipt.id # current[1].receipt.id
  /\ sta = "sending" =>
       /\ \A i \in DOMAIN Arrived : Arrived[i].receipt.id # held[1].id
       /\ current # <<>> => current[1].receipt.id # held[1].id

ToldValues == Verdicts \cup {"none", "failed", "epochChanged"}
Telltale ==
  /\ told \in [CommitIds -> ToldValues]
  /\ \A i \in CommitIds : told[i] # "none" => sent[i] # <<>>

(* What the ledger remembers is what happened, and no token of a           *)
(* remembered receipt is alive and younger than its entry.                 *)
Entry(i) ==
  /\ ledger[i].receipt.id = i /\ ledger[i].receipt.epoch = epoch /\ Sent(ledger[i].receipt)
  /\ ledger[i].outcome # "alreadyProcessed"
  /\ ledger[i].outcome = "applied" => ledger[i].receipt \in applied
  /\ \A t \in ledger[i].receipt.tokens : t \in DOMAIN clauseTokens =>
       clauseTokens[t].age >= TokenTTL \/ clauseTokens[t].age >= ledger[i].age

Entries ==
  /\ \A i \in DOMAIN ledger : Entry(i)
  /\ \A r \in applied : Sent(r)
  /\ reapplied \subseteq applied

(* A commit refused to the client is not learned, and cannot be any more.  *)
RefusedOne(i) ==
  /\ sent[i][1] \notin applied
  /\ sent[i][1].epoch = epoch => \A t \in sent[i][1].tokens : Guarded(sent[i][1], t)

Refused ==
  \A i \in CommitIds :
    told[i] \in {"stale", "conflict", "invalidToken"} /\ HasMaterial(i) => RefusedOne(i)

(* Why only the past is condemned: the second handshake, which may condemn *)
(* an epoch, is never of an engine older than the receipt.                 *)
Condemned ==
  /\ client \in 0..epoch /\ DOMAIN watermark \subseteq 1..epoch
  /\ \A e \in DOMAIN watermark : watermark[e] \in Nat \cup {EveryGeneration}
  /\ phase = "fresh" /\ client # NoClient => current[1].receipt.epoch <= client
  /\ phase = "condemn" /\ outcome = "epochChanged" => current[1].receipt.epoch < epoch
  /\ CondemnationIsPast /\ CondemnedModelIsCaught

DeliveryIInv ==
  /\ OutboxIInv(Receipts) /\ IInv
  /\ Bounds /\ Sessions /\ Commits /\ Deliveries /\ Apart /\ Telltale /\ Entries /\ Refused
  /\ Condemned
-----------------------------------------------------------------------------
(* The engine's counters and its ledger, as a step of the engine finds and *)
(* leaves them.                                                            *)
LEMMA LedgerNumbers ==
  ASSUME IInv
  PROVE  /\ TokenTTL \in Nat \ {0} /\ LedgerTTL \in Nat /\ TokenTTL <= LedgerTTL
         /\ epoch \in Nat /\ generation \in Nat /\ nextToken \in Nat
         /\ \A t \in DOMAIN clauseTokens : t \in Tokens /\ clauseTokens[t].age \in 0..TokenTTL
         /\ \A i \in DOMAIN ledger : /\ i \in Nat /\ ledger[i].receipt \in Receipts
                                     /\ ledger[i].outcome \in Outcomes
                                     /\ ledger[i].age \in 0..LedgerTTL
  BY LedgerAssumption DEF IInv, TypeOK

(* What a boundary leaves alone.                                           *)
LEMMA BoundaryLeaves ==
  ASSUME BeginClear \/ WipeLearners \/ EndClear \/ ReloadLearning
  PROVE  UNCHANGED <<epoch, nextToken, clauseTokens, ledger, applied, reapplied>>
  BY DEF BeginClear, WipeLearners, EndClear, ReloadLearning

LEMMA TickFields ==
  ASSUME IInv, LedgerTick
  PROVE  /\ UNCHANGED <<epoch, generation, nextToken, applied, reapplied>>
         /\ DOMAIN clauseTokens' = DOMAIN clauseTokens /\ DOMAIN ledger' = DOMAIN ledger
         /\ \A t \in DOMAIN clauseTokens :
              clauseTokens'[t].age = AgeBy1(clauseTokens[t].age, TokenTTL)
         /\ \A i \in DOMAIN ledger : /\ ledger'[i].receipt = ledger[i].receipt
                                     /\ ledger'[i].outcome = ledger[i].outcome
                                     /\ ledger'[i].age = AgeBy1(ledger[i].age, LedgerTTL)
  <1>1. /\ UNCHANGED <<epoch, generation, nextToken, applied, reapplied>>
        /\ DOMAIN clauseTokens' = DOMAIN clauseTokens /\ DOMAIN ledger' = DOMAIN ledger
    BY DEF LedgerTick
  <1>2. ASSUME NEW t \in DOMAIN clauseTokens
        PROVE  clauseTokens'[t].age = AgeBy1(clauseTokens[t].age, TokenTTL)
    <2>1. clauseTokens[t] \in [generation : Nat, age : 0..TokenTTL]
      BY DEF IInv, TypeOK
    <2>2. clauseTokens'[t] = [clauseTokens[t] EXCEPT !.age = AgeBy1(clauseTokens[t].age, TokenTTL)]
      BY DEF LedgerTick
    <2> QED
      BY <2>1, <2>2
  <1>3. ASSUME NEW i \in DOMAIN ledger
        PROVE  /\ ledger'[i].receipt = ledger[i].receipt
               /\ ledger'[i].outcome = ledger[i].outcome
               /\ ledger'[i].age = AgeBy1(ledger[i].age, LedgerTTL)
    <2>1. ledger[i] \in [receipt : Receipts, outcome : Outcomes, age : 0..LedgerTTL]
      BY DEF IInv, TypeOK
    <2>2. ledger'[i] = [ledger[i] EXCEPT !.age = AgeBy1(ledger[i].age, LedgerTTL)]
      BY DEF LedgerTick
    <2> QED
      BY <2>1, <2>2
  <1> QED
    BY <1>1, <1>2, <1>3

(* A conversion adds at most one token, which is new.                      *)
LEMMA IssueFields ==
  ASSUME IInv, IssueToken
  PROVE  /\ UNCHANGED <<epoch, generation, ledger, applied, reapplied>>
         /\ nextToken < MaxToken /\ nextToken' \in {nextToken, nextToken + 1}
         /\ \A t \in DOMAIN clauseTokens' :
              \/ t \in DOMAIN clauseTokens /\ clauseTokens'[t] = clauseTokens[t]
              \/ t = <<epoch, nextToken + 1>> /\ nextToken' = nextToken + 1
  <1>1. CASE Cardinality(Live) < TokenCapacity
    BY <1>1 DEF IssueToken, Live
  <1>2. CASE ~(Cardinality(Live) < TokenCapacity)
    BY <1>2 DEF IssueToken, Live
  <1> QED
    BY <1>1, <1>2

(* An answer keeps what is remembered, and forgets only what has aged out. *)
LEMMA AnswerFields ==
  ASSUME IInv, NEW q \in Receipts, NEW v \in Outcomes, CommitReceipt(q, v)
  PROVE  /\ UNCHANGED <<epoch, generation, nextToken, clauseTokens>>
         /\ \A i \in DOMAIN ledger : ledger[i].age < LedgerTTL =>
              i \in DOMAIN ledger' /\ ledger'[i] = ledger[i]
         /\ \A i \in DOMAIN ledger' :
              \/ i \in DOMAIN ledger /\ ledger'[i] = ledger[i]
              \/ /\ i = q.id /\ q.epoch = epoch /\ q.id \notin Remembered
                 /\ v \in ApplyOutcomes(q)
                 /\ ledger'[i] = [receipt |-> q, outcome |-> v, age |-> 0]
  <1>1. UNCHANGED <<epoch, generation, nextToken, clauseTokens>>
    BY DEF CommitReceipt
  <1>2. Remembered = {i \in DOMAIN ledger : ledger[i].age < LedgerTTL}
    BY DEF Remembered
  <1>3. CASE ledger' = ledger
    BY <1>1, <1>3
  <1>4. CASE ledger' = [i \in Remembered |-> ledger[i]]
    BY <1>1, <1>2, <1>4
  <1>5. CASE q.epoch = epoch /\ q.id \notin Remembered /\ Apply(q, v)
    <2>1. /\ ledger' = Record(q, v) /\ v \in ApplyOutcomes(q)
      BY <1>5 DEF Apply
    <2>2. /\ DOMAIN ledger' = Remembered \cup {q.id}
          /\ \A i \in DOMAIN ledger' :
               ledger'[i] = IF i = q.id THEN [receipt |-> q, outcome |-> v, age |-> 0]
                            ELSE ledger[i]
      BY <2>1 DEF Record
    <2> QED
      BY <1>1, <1>2, <1>5, <2>1, <2>2
  <1> QED
    BY <1>3, <1>4, <1>5 DEF CommitReceipt, AnswerReplay, AnswerFull

(* A guarded token of a receipt stays guarded as long as its engine runs.  *)
LEMMA GuardedStays ==
  ASSUME IInv, NEW r, NEW t, Guarded(r, t), epoch' = epoch,
         \/ UNCHANGED <<nextToken, clauseTokens, ledger>>
         \/ \E q \in Receipts, v \in Outcomes : CommitReceipt(q, v)
         \/ IssueToken \/ LedgerTick
  PROVE  Guarded(r, t)'
  <1>0. Issued(t)
    BY DEF Guarded
  <1>1. CASE UNCHANGED <<nextToken, clauseTokens, ledger>>
    BY <1>1 DEF Guarded, AnsweredFor, Issued
  <1>2. ASSUME NEW q \in Receipts, NEW v \in Outcomes, CommitReceipt(q, v) PROVE Guarded(r, t)'
    <2>1. /\ UNCHANGED <<epoch, generation, nextToken, clauseTokens>>
          /\ \A i \in DOMAIN ledger : ledger[i].age < LedgerTTL =>
               i \in DOMAIN ledger' /\ ledger'[i] = ledger[i]
      BY <1>2, AnswerFields
    <2>2. CASE t \in DOMAIN clauseTokens /\ clauseTokens[t].age < TokenTTL
      <3>1. AnsweredFor(r, t) /\ clauseTokens[t].age \in 0..TokenTTL
        BY <2>2, LedgerNumbers DEF Guarded
      <3>2. ledger[r.id].age < LedgerTTL
        BY <2>2, <3>1, LedgerNumbers DEF AnsweredFor
      <3> QED
        BY <2>1, <3>1, <3>2 DEF Guarded, AnsweredFor, Issued
    <2>3. CASE t \notin DOMAIN clauseTokens
      BY <2>1, <2>3 DEF Guarded, Issued
    <2>4. CASE t \in DOMAIN clauseTokens /\ ~(clauseTokens[t].age < TokenTTL)
      <3>1. clauseTokens[t].age >= TokenTTL
        BY <2>4, LedgerNumbers
      <3> QED
        BY <2>1, <3>1 DEF Guarded, Issued
    <2> QED
      BY <2>2, <2>3, <2>4
  <1>3. CASE IssueToken
    <2>1. /\ UNCHANGED <<epoch, ledger>> /\ nextToken' \in {nextToken, nextToken + 1}
          /\ \A u \in DOMAIN clauseTokens' :
               \/ u \in DOMAIN clauseTokens /\ clauseTokens'[u] = clauseTokens[u]
               \/ u = <<epoch, nextToken + 1>> /\ nextToken' = nextToken + 1
      BY <1>3, IssueFields
    <2>2. t # <<epoch, nextToken + 1>> /\ Issued(t)'
      BY <1>0, <2>1, LedgerNumbers DEF Issued
    <2>3. t \in DOMAIN clauseTokens' => t \in DOMAIN clauseTokens /\ clauseTokens'[t] = clauseTokens[t]
      BY <2>1, <2>2
    <2> QED
      BY <2>1, <2>2, <2>3 DEF Guarded, AnsweredFor
  <1>4. CASE LedgerTick
    <2>1. /\ UNCHANGED <<epoch, nextToken>>
          /\ DOMAIN clauseTokens' = DOMAIN clauseTokens /\ DOMAIN ledger' = DOMAIN ledger
          /\ \A u \in DOMAIN clauseTokens :
               clauseTokens'[u].age = AgeBy1(clauseTokens[u].age, TokenTTL)
          /\ \A i \in DOMAIN ledger : /\ ledger'[i].receipt = ledger[i].receipt
                                      /\ ledger'[i].age = AgeBy1(ledger[i].age, LedgerTTL)
      BY <1>4, TickFields
    <2>2. Issued(t)'
      BY <1>0, <2>1 DEF Issued
    <2>3. CASE t \in DOMAIN clauseTokens /\ clauseTokens[t].age >= TokenTTL
      <3>1. clauseTokens'[t].age >= TokenTTL
        BY <2>1, <2>3, LedgerNumbers DEF AgeBy1
      <3> QED
        BY <2>2, <3>1 DEF Guarded
    <2>4. CASE t \in DOMAIN clauseTokens /\ AnsweredFor(r, t) /\ ~(clauseTokens[t].age >= TokenTTL)
      <3>1. /\ clauseTokens[t].age \in 0..TokenTTL /\ ledger[r.id].age \in 0..LedgerTTL
            /\ clauseTokens[t].age >= ledger[r.id].age /\ r.id \in DOMAIN ledger
            /\ ledger[r.id].receipt = r
        BY <2>4, LedgerNumbers DEF AnsweredFor
      <3>2. clauseTokens'[t].age >= ledger'[r.id].age
        BY <2>1, <2>4, <3>1, LedgerNumbers DEF AgeBy1
      <3> QED
        BY <2>1, <2>2, <3>1, <3>2 DEF Guarded, AnsweredFor
    <2>5. CASE t \notin DOMAIN clauseTokens
      BY <2>1, <2>2, <2>5 DEF Guarded
    <2> QED
      BY <2>3, <2>4, <2>5 DEF Guarded
  <1> QED
    BY <1>1, <1>2, <1>3, <1>4

-----------------------------------------------------------------------------
(* How the deliveries that have arrived change: one more at place k, or    *)
(* the one at place k gone.                                                *)
ArrivedGains(k, d) ==
  /\ Len(Arrived) \in Nat /\ DOMAIN Arrived = 1..Len(Arrived) /\ k \in 1..(Len(Arrived) + 1)
  /\ DOMAIN Arrived' = 1..(Len(Arrived) + 1)
  /\ \A i \in DOMAIN Arrived' :
       Arrived'[i] = IF i < k THEN Arrived[i] ELSE IF i = k THEN d ELSE Arrived[i-1]

ArrivedLoses(k) ==
  /\ Len(Arrived) \in Nat /\ DOMAIN Arrived = 1..Len(Arrived) /\ k \in DOMAIN Arrived
  /\ DOMAIN Arrived' = 1..(Len(Arrived) - 1)
  /\ \A i \in DOMAIN Arrived' : Arrived'[i] = IF i < k THEN Arrived[i] ELSE Arrived[i+1]

ArrivedShape ==
  /\ Arrived \in Seq(Queued(Receipts))
  /\ Len(channel) \in Nat /\ Len(pending) \in Nat
  /\ Len(Arrived) = Len(pending) + Len(channel) /\ Len(Arrived) \in Nat
  /\ DOMAIN Arrived = 1..Len(Arrived)
  /\ \A i \in DOMAIN Arrived : /\ Arrived[i] \in Queued(Receipts)
                               /\ Arrived[i] = IF i <= Len(pending) THEN pending[i]
                                               ELSE channel[i - Len(pending)]

LEMMA ArrivedSeq == OutboxIInv(Receipts) => ArrivedShape
  <1> SUFFICES ASSUME OutboxIInv(Receipts) PROVE ArrivedShape
    OBVIOUS
  <1>1. channel \in Seq(Queued(Receipts)) /\ pending \in Seq(Queued(Receipts))
    BY DEF OutboxIInv, DeliveriesTyped
  <1>2. Arrived \in Seq(Queued(Receipts)) /\ Len(Arrived) = Len(pending) + Len(channel)
    BY <1>1, ConcatProperties DEF Arrived
  <1>3. Len(channel) \in Nat /\ Len(pending) \in Nat /\ Len(Arrived) \in Nat
    BY <1>1, <1>2, LenProperties
  <1>4. DOMAIN Arrived = 1..Len(Arrived) /\ \A i \in 1..Len(Arrived) : Arrived[i] \in Queued(Receipts)
    BY <1>2, LenProperties
  <1>5. \A i \in 1..Len(Arrived) :
          Arrived[i] = IF i <= Len(pending) THEN pending[i] ELSE channel[i - Len(pending)]
    BY <1>1, <1>2, ConcatProperties DEF Arrived
  <1> QED
    BY <1>2, <1>3, <1>4, <1>5 DEF ArrivedShape

LEMMA SendGains ==
  ASSUME OutboxIInv(Receipts), OutboxIInv(Receipts)', NEW d, pending' = pending,
         channel' = Append(channel, d)
  PROVE  ArrivedGains(Len(Arrived) + 1, d)
  <1>1. channel \in Seq(Queued(Receipts)) /\ channel' \in Seq(Queued(Receipts))
    BY DEF OutboxIInv, DeliveriesTyped
  <1>2. /\ Len(channel') = Len(channel) + 1 /\ channel'[Len(channel) + 1] = d
        /\ \A i \in 1..Len(channel) : channel'[i] = channel[i]
    BY <1>1
  <1>3. /\ Len(channel) \in Nat /\ Len(pending) \in Nat
        /\ Len(Arrived) = Len(pending) + Len(channel) /\ DOMAIN Arrived = 1..Len(Arrived)
        /\ \A i \in DOMAIN Arrived :
             Arrived[i] = IF i <= Len(pending) THEN pending[i] ELSE channel[i - Len(pending)]
    BY ArrivedSeq DEF ArrivedShape
  <1>4. /\ Len(Arrived') = Len(pending') + Len(channel') /\ DOMAIN Arrived' = 1..Len(Arrived')
        /\ \A i \in DOMAIN Arrived' :
             Arrived'[i] = IF i <= Len(pending') THEN pending'[i] ELSE channel'[i - Len(pending')]
    <2>1. ArrivedShape'
      BY ArrivedSeq, PTL
    <2> QED
      BY <2>1 DEF ArrivedShape
  <1>5. Len(Arrived') = Len(Arrived) + 1
    BY <1>2, <1>3, <1>4
  <1>6. ASSUME NEW i \in 1..(Len(Arrived) + 1)
        PROVE  Arrived'[i] = IF i < Len(Arrived) + 1 THEN Arrived[i] ELSE d
    <2>1. CASE i <= Len(pending)
      BY <1>3, <1>4, <1>5, <2>1
    <2>2. CASE i > Len(pending) /\ i <= Len(Arrived)
      <3>1. i - Len(pending) \in 1..Len(channel)
        BY <1>3, <2>2
      <3>2. channel'[i - Len(pending)] = channel[i - Len(pending)]
        BY <1>2, <3>1
      <3> QED
        BY <1>3, <1>4, <1>5, <2>2, <3>2
    <2>3. CASE i = Len(Arrived) + 1
      <3>1. i - Len(pending) = Len(channel) + 1 /\ ~(i <= Len(pending)) /\ i \in DOMAIN Arrived'
        BY <1>3, <1>4, <1>5, <2>3
      <3>2. Arrived'[i] = channel'[Len(channel) + 1]
        BY <1>4, <3>1
      <3> QED
        BY <1>2, <1>3, <2>3, <3>2
    <2>4. i \in Nat /\ Len(Arrived) \in Nat /\ i <= Len(Arrived) + 1
      BY <1>3
    <2> QED
      BY <2>1, <2>2, <2>3, <2>4
  <1>7. Len(Arrived) \in Nat
    BY <1>3
  <1>8. DOMAIN Arrived' = 1..(Len(Arrived) + 1)
    BY <1>4, <1>5
  <1>9. ASSUME NEW i \in 1..(Len(Arrived) + 1)
        PROVE  Arrived'[i] = IF i < Len(Arrived) + 1 THEN Arrived[i]
                             ELSE IF i = Len(Arrived) + 1 THEN d ELSE Arrived[i-1]
    BY <1>6, <1>7
  <1> QED
    BY <1>3, <1>7, <1>8, <1>9 DEF ArrivedGains

LEMMA RetryGains ==
  ASSUME OutboxIInv(Receipts), OutboxIInv(Receipts)', NEW d, channel' = channel,
         pending' = Append(pending, d)
  PROVE  ArrivedGains(Len(pending) + 1, d)
  <1>1. pending \in Seq(Queued(Receipts)) /\ pending' \in Seq(Queued(Receipts))
    BY DEF OutboxIInv, DeliveriesTyped
  <1>2. /\ Len(pending') = Len(pending) + 1 /\ pending'[Len(pending) + 1] = d
        /\ \A i \in 1..Len(pending) : pending'[i] = pending[i]
    BY <1>1
  <1>3. /\ Len(channel) \in Nat /\ Len(pending) \in Nat
        /\ Len(Arrived) = Len(pending) + Len(channel) /\ DOMAIN Arrived = 1..Len(Arrived)
        /\ \A i \in DOMAIN Arrived :
             Arrived[i] = IF i <= Len(pending) THEN pending[i] ELSE channel[i - Len(pending)]
    BY ArrivedSeq DEF ArrivedShape
  <1>4. /\ Len(Arrived') = Len(pending') + Len(channel') /\ DOMAIN Arrived' = 1..Len(Arrived')
        /\ \A i \in DOMAIN Arrived' :
             Arrived'[i] = IF i <= Len(pending') THEN pending'[i] ELSE channel'[i - Len(pending')]
    <2>1. ArrivedShape'
      BY ArrivedSeq, PTL
    <2> QED
      BY <2>1 DEF ArrivedShape
  <1>5. Len(Arrived') = Len(Arrived) + 1
    BY <1>2, <1>3, <1>4
  <1>6. ASSUME NEW i \in 1..(Len(Arrived) + 1)
        PROVE  Arrived'[i] = IF i < Len(pending) + 1 THEN Arrived[i]
                             ELSE IF i = Len(pending) + 1 THEN d ELSE Arrived[i-1]
    <2>1. CASE i <= Len(pending)
      BY <1>2, <1>3, <1>4, <1>5, <2>1
    <2>2. CASE i = Len(pending) + 1
      BY <1>2, <1>3, <1>4, <1>5, <2>2
    <2>3. CASE i > Len(pending) + 1
      <3>1. i - Len(pending') = (i - 1) - Len(pending) /\ i - 1 \in DOMAIN Arrived
        BY <1>2, <1>3, <2>3
      <3> QED
        BY <1>2, <1>3, <1>4, <1>5, <2>3, <3>1
    <2> QED
      BY <1>3, <2>1, <2>2, <2>3
  <1> QED
    BY <1>3, <1>4, <1>5, <1>6 DEF ArrivedGains

LEMMA TakeLoses ==
  ASSUME OutboxIInv(Receipts), OutboxIInv(Receipts)', NEW k \in DOMAIN Arrived,
         pending' = RemoveAt(Arrived, k), channel' = <<>>
  PROVE  ArrivedLoses(k)
  <1> DEFINE s == Arrived
             a == SubSeq(s, 1, k-1)
             b == SubSeq(s, k+1, Len(s))
  <1>1. s \in Seq(Queued(Receipts)) /\ Len(s) \in Nat /\ DOMAIN s = 1..Len(s)
        /\ \A i \in 1..Len(s) : s[i] \in Queued(Receipts)
    BY ArrivedSeq DEF ArrivedShape
  <1>2. /\ a \in Seq(Queued(Receipts)) /\ Len(a) = k - 1
        /\ \A i \in 1..(k-1) : a[i] = s[i]
    <2>1. \A i \in 1..(k-1) : s[i] \in Queued(Receipts)
      BY <1>1
    <2>2. k - 1 \in Int /\ k - 1 >= 0
      BY <1>1
    <2> QED
      BY <2>1, <2>2, SubSeqProperties
  <1>3. /\ b \in Seq(Queued(Receipts)) /\ Len(b) = Len(s) - k
        /\ \A i \in 1..(Len(s) - k) : b[i] = s[i+k]
    <2>1. \A i \in (k+1)..Len(s) : s[i] \in Queued(Receipts)
      BY <1>1
    <2>2. k + 1 \in Int /\ Len(s) \in Int /\ k <= Len(s)
      BY <1>1
    <2>3. /\ b \in Seq(Queued(Receipts)) /\ Len(b) = Len(s) - k
          /\ \A i \in 1..(Len(s) - k) : b[i] = s[(k + 1) + i - 1]
      BY <2>1, <2>2, SubSeqProperties
    <2>4. \A i \in 1..(Len(s) - k) : (k + 1) + i - 1 = i + k
      BY <1>1
    <2> QED
      BY <2>3, <2>4
  <1> HIDE DEF s, a, b
  <1>4. /\ Len(a \o b) = Len(s) - 1
        /\ \A i \in 1..(Len(s) - 1) : (a \o b)[i] = IF i < k THEN s[i] ELSE s[i+1]
    <2>0. /\ Len(a \o b) = Len(a) + Len(b)
          /\ \A i \in 1..(Len(a) + Len(b)) :
               (a \o b)[i] = IF i <= Len(a) THEN a[i] ELSE b[i - Len(a)]
      BY <1>2, <1>3, ConcatProperties
    <2>1. /\ Len(a \o b) = (k - 1) + (Len(s) - k)
          /\ \A i \in 1..((k - 1) + (Len(s) - k)) :
               (a \o b)[i] = IF i <= k - 1 THEN a[i] ELSE b[i - (k - 1)]
      BY <1>2, <1>3, <2>0
    <2>2. (k - 1) + (Len(s) - k) = Len(s) - 1 /\ k \in 1..Len(s)
      BY <1>1 DEF s
    <2>3. ASSUME NEW i \in 1..(Len(s) - 1)
          PROVE  (a \o b)[i] = IF i < k THEN s[i] ELSE s[i+1]
      <3>1. CASE i < k
        <4>1. i \in 1..(k-1) /\ i <= k - 1
          BY <1>1, <2>2, <3>1
        <4> QED
          BY <1>2, <2>1, <2>2, <3>1, <4>1
      <3>2. CASE ~(i < k)
        <4>1. i - (k - 1) \in 1..(Len(s) - k) /\ (i - (k - 1)) + k = i + 1 /\ ~(i <= k - 1)
          BY <1>1, <2>2, <3>2
        <4> QED
          BY <1>3, <2>1, <2>2, <3>2, <4>1
      <3> QED
        BY <3>1, <3>2
    <2> QED
      BY <2>1, <2>2, <2>3
  <1>5. pending' = a \o b
    BY DEF RemoveAt, s, a, b
  <1>6. /\ Len(Arrived') = Len(pending') + Len(channel') /\ DOMAIN Arrived' = 1..Len(Arrived')
        /\ \A i \in DOMAIN Arrived' :
             Arrived'[i] = IF i <= Len(pending') THEN pending'[i] ELSE channel'[i - Len(pending')]
    <2>1. ArrivedShape'
      BY ArrivedSeq, PTL
    <2> QED
      BY <2>1 DEF ArrivedShape
  <1>7. Len(channel') = 0
    BY EmptySeq
  <1>8. DOMAIN Arrived' = 1..(Len(s) - 1)
        /\ \A i \in 1..(Len(s) - 1) : Arrived'[i] = IF i < k THEN s[i] ELSE s[i+1]
    <2>1. Len(pending') = Len(s) - 1 /\ Len(Arrived') = Len(s) - 1
      <3>1. Len(pending') = Len(s) - 1
        BY <1>4, <1>5
      <3>2. Len(Arrived') = Len(pending') + 0
        BY <1>6, <1>7
      <3>3. (Len(s) - 1) + 0 = Len(s) - 1
        BY <1>1
      <3> QED
        BY <3>1, <3>2, <3>3
    <2>2. ASSUME NEW i \in 1..(Len(s) - 1)
          PROVE  Arrived'[i] = IF i < k THEN s[i] ELSE s[i+1]
      <3>1. i \in DOMAIN Arrived' /\ i <= Len(pending')
        BY <1>1, <1>6, <2>1
      <3>2. Arrived'[i] = (a \o b)[i]
        BY <1>5, <1>6, <3>1
      <3> QED
        BY <1>4, <3>2
    <2> QED
      BY <1>6, <2>1, <2>2
  <1> QED
    BY <1>1, <1>8 DEF ArrivedLoses, s

LEMMA TickElapses ==
  ASSUME OutboxIInv(Receipts), OutboxTick
  PROVE  /\ DOMAIN Arrived' = DOMAIN Arrived
         /\ \A i \in DOMAIN Arrived : Arrived'[i] = Elapse(Arrived[i])
         /\ current = <<>> <=> current' = <<>>
         /\ current # <<>> => current'[1] = Elapse(current[1])
  <1>1. /\ channel \in Seq(Queued(Receipts)) /\ pending \in Seq(Queued(Receipts))
        /\ current \in Seq(Taken(Receipts)) /\ Len(current) \in {0, 1}
    BY OutboxNumbers DEF OutboxIInv, DeliveriesTyped
  <1>2. /\ channel' = ElapseAll(channel) /\ pending' = ElapseAll(pending)
        /\ current' = ElapseAll(current)
    BY DEF OutboxTick
  <1>3. /\ Len(channel') = Len(channel) /\ \A i \in 1..Len(channel) : channel'[i] = Elapse(channel[i])
        /\ Len(pending') = Len(pending) /\ \A i \in 1..Len(pending) : pending'[i] = Elapse(pending[i])
    <2>1. \A d \in Queued(Receipts) : Elapse(d) \in Queued(Receipts)
      BY ElapseKeeps DEF Queued
    <2> QED
      BY <1>1, <1>2, <2>1, ElapsedSeq
  <1>4. /\ current' \in Seq(Taken(Receipts)) /\ Len(current') = Len(current)
        /\ \A i \in 1..Len(current) : current'[i] = Elapse(current[i])
    <2>1. \A d \in Taken(Receipts) : Elapse(d) \in Taken(Receipts)
      BY ElapseKeeps DEF Taken
    <2> QED
      BY <1>1, <1>2, <2>1, ElapsedSeq
  <1>5. /\ Len(channel) \in Nat /\ Len(pending) \in Nat
        /\ Len(Arrived) = Len(pending) + Len(channel) /\ DOMAIN Arrived = 1..Len(Arrived)
        /\ \A i \in DOMAIN Arrived :
             Arrived[i] = IF i <= Len(pending) THEN pending[i] ELSE channel[i - Len(pending)]
    BY ArrivedSeq DEF ArrivedShape
  <1>6. OutboxIInv(Receipts)'
    BY OutboxTickKeeps
  <1>7. /\ Len(Arrived') = Len(pending') + Len(channel') /\ DOMAIN Arrived' = 1..Len(Arrived')
        /\ \A i \in DOMAIN Arrived' :
             Arrived'[i] = IF i <= Len(pending') THEN pending'[i] ELSE channel'[i - Len(pending')]
    <2>1. ArrivedShape'
      BY <1>6, ArrivedSeq, PTL
    <2> QED
      BY <2>1 DEF ArrivedShape
  <1>8. ASSUME NEW i \in DOMAIN Arrived PROVE Arrived'[i] = Elapse(Arrived[i])
    <2>1. CASE i <= Len(pending)
      BY <1>3, <1>5, <1>7, <2>1
    <2>2. CASE ~(i <= Len(pending))
      <3>1. i - Len(pending) \in 1..Len(channel)
        BY <1>5, <2>2
      <3> QED
        BY <1>3, <1>5, <1>7, <2>2, <3>1
    <2> QED
      BY <2>1, <2>2
  <1>9. /\ current = <<>> <=> current' = <<>>
        /\ current # <<>> => current'[1] = Elapse(current[1])
    BY <1>1, <1>4, EmptySeq
  <1> QED
    BY <1>3, <1>5, <1>7, <1>8, <1>9
-----------------------------------------------------------------------------
(* The engine only moves forward: what is past stays past, and a receipt   *)
(* that was frozen once could have been.                                   *)
EngineMoves ==
  \/ /\ epoch' = epoch /\ generation' \in Nat /\ nextToken' \in Nat
     /\ generation' >= generation /\ nextToken' >= nextToken
  \/ epoch' = epoch + 1

LEMMA PastStays ==
  ASSUME Bounds, EngineMoves
  PROVE  \A e \in 1..epoch, g \in 0..MaxGeneration : \A T :
           IsPast(e, g, T) => IsPast(e, g, T)'
  <1>1. /\ epoch \in Nat /\ generation \in Nat /\ nextToken \in Nat
        /\ \A g \in 0..MaxGeneration : g \in Nat
    BY LedgerAssumption DEF Bounds
  <1>2. CASE epoch' = epoch /\ generation' \in Nat /\ nextToken' \in Nat
             /\ generation' >= generation /\ nextToken' >= nextToken
    BY <1>1, <1>2 DEF IsPast, Issued
  <1>3. CASE epoch' = epoch + 1
    BY <1>1, <1>3 DEF IsPast
  <1> QED
    BY <1>2, <1>3 DEF EngineMoves

LEMMA FrozenStays ==
  ASSUME IInv, Bounds, EngineMoves, sequence \in Nat, sequence' \in {sequence, sequence + 1},
         NEW r, Frozen(r)
  PROVE  Frozen(r)'
  <1>1. /\ r \in Receipts /\ r.id \in 1..sequence /\ r.epoch \in 1..epoch
        /\ IsPast(r.epoch, r.generation, r.tokens)
    BY DEF Frozen
  <1>2. r.generation \in Nat /\ epoch \in Nat /\ epoch' \in {epoch, epoch + 1}
    BY <1>1, LedgerAssumption DEF ReceiptType, EngineMoves, Bounds
  <1>3. r.id \in 1..sequence' /\ r.epoch \in 1..epoch'
    BY <1>1, <1>2
  <1>4. IsPast(r.epoch, r.generation, r.tokens)'
    <2>1. CASE epoch' = epoch /\ generation' \in Nat /\ nextToken' \in Nat
               /\ generation' >= generation /\ nextToken' >= nextToken
      <3>1. generation \in Nat /\ nextToken \in Nat
        BY LedgerAssumption DEF Bounds
      <3> QED
        BY <1>1, <1>2, <2>1, <3>1 DEF IsPast, Issued
    <2>2. CASE epoch' = epoch + 1
      BY <1>1, <1>2, <2>2 DEF IsPast
    <2> QED
      BY <2>1, <2>2 DEF EngineMoves
  <1> QED
    BY <1>1, <1>3, <1>4 DEF Frozen

(* What a receipt in the joint state is known to be.                       *)
LEMMA SentIsFrozen ==
  ASSUME DeliveryIInv, NEW r, Sent(r)
  PROVE  /\ r.id \in CommitIds /\ sent[r.id] = <<r>> /\ sent[r.id][1] = r /\ sent[r.id] # <<>>
         /\ Frozen(r) /\ r \in Receipts /\ r.epoch \in 1..epoch
         /\ r.epoch = epoch => r.generation <= generation /\ \A t \in r.tokens : Issued(t)
  <1>1. r.id \in CommitIds /\ sent[r.id] = <<r>>
    BY DEF Sent
  <1>2. sent[r.id][1] = r /\ sent[r.id] # <<>>
    BY <1>1
  <1>3. Frozen(r)
    BY <1>1, <1>2 DEF DeliveryIInv, Commits
  <1> QED
    BY <1>1, <1>2, <1>3 DEF Frozen, IsPast

LEMMA SentIsOne ==
  ASSUME NEW r, NEW s, Sent(r), Sent(s), r.id = s.id
  PROVE  r = s
  <1>1. <<r>> = <<s>>
    BY DEF Sent
  <1> QED
    BY <1>1

-----------------------------------------------------------------------------
(* What a step of the text service that tells nothing leaves as it was.    *)
LEMMA EngineRests ==
  ASSUME DeliveryIInv, UNCHANGED <<ledgerVars, sent, told>>
  PROVE  IInv' /\ Bounds' /\ Telltale' /\ Entries' /\ Refused'
  <1>1. IInv'
    BY NextKeepsIInv DEF DeliveryIInv
  <1>2. Bounds' /\ Telltale'
    BY DEF DeliveryIInv, Bounds, Telltale, ledgerVars
  <1>3. Entries'
    BY DEF DeliveryIInv, Entries, Entry, Sent, ledgerVars
  <1>4. Refused'
    BY DEF DeliveryIInv, Refused, RefusedOne, HasMaterial, Guarded, AnsweredFor, Issued, ledgerVars
  <1> QED
    BY <1>1, <1>2, <1>3, <1>4

LEMMA CommitsRest ==
  ASSUME DeliveryIInv, UNCHANGED <<ledgerVars, sequence, sent>>,
         sta' \in {"writing", "sending"} => sta' = sta /\ held' = held
  PROVE  Commits'
  <1>1. \A r : Frozen(r)' <=> Frozen(r)
    BY DEF Frozen, IsPast, Issued, ledgerVars
  <1>2. \A r : Sent(r)' <=> Sent(r)
    BY DEF Sent
  <1> QED
    BY <1>1, <1>2 DEF DeliveryIInv, Commits

LEMMA MailRests ==
  ASSUME DeliveryIInv,
         UNCHANGED <<epoch, ledger, applied, requests, sent, told, pending, channel>>,
         current' = current \/ (current' = <<>> /\ ~Trying'),
         Trying' => Trying,
         sta' = "sending" => sta = "sending" /\ held' = held
  PROVE  Deliveries' /\ Apart'
  <1>0. Arrived' = Arrived
    BY DEF Arrived
  <1>3. Waiting /\ InHand /\ Sending /\ Asked
    BY DEF DeliveryIInv, Deliveries
  <1>4. Waiting'
    BY <1>0, <1>3 DEF Waiting, Untold, Sent, Recalled
  <1>5. InHand'
    BY <1>3 DEF InHand, Sent, Recalled
  <1>6. Sending' /\ Asked'
    BY <1>3 DEF Sending, Asked, Sent
  <1>7. Apart'
    BY <1>0 DEF DeliveryIInv, Apart
  <1> QED
    BY <1>4, <1>5, <1>6, <1>7 DEF Deliveries

(* A step that moves no delivery and tells nothing.                        *)
LEMMA QuietStep ==
  ASSUME DeliveryIInv, OutboxIInv(Receipts)', Sessions', Condemned',
         UNCHANGED <<ledgerVars, requests, sequence, historyVars, pending, channel>>,
         current' = current \/ (current' = <<>> /\ ~Trying'),
         Trying' => Trying,
         sta' \in {"writing", "sending"} => sta' = sta /\ held' = held
  PROVE  DeliveryIInv'
  <1>1. UNCHANGED <<epoch, ledger, applied, sent, told>>
    BY DEF ledgerVars, historyVars
  <1>2. Commits' /\ Deliveries' /\ Apart'
    BY <1>1, CommitsRest, MailRests
  <1>3. IInv' /\ Bounds' /\ Telltale' /\ Entries' /\ Refused'
    BY <1>1, EngineRests
  <1> QED
    BY <1>2, <1>3 DEF DeliveryIInv

LEMMA SessionsRest ==
  ASSUME DeliveryIInv, UNCHANGED <<offer, identity, tokens>>, EngineMoves
  PROVE  Sessions'
  <1>1. \A e, g, T : Given(e, g, T) => Given(e, g, T)'
    <2> SUFFICES ASSUME NEW e, NEW g, NEW T, Given(e, g, T) PROVE Given(e, g, T)'
      OBVIOUS
    <2>1. /\ e \in 1..epoch /\ g \in 0..MaxGeneration /\ T \in TokenSets /\ IsPast(e, g, T)
      BY DEF Given
    <2>2. IsPast(e, g, T)'
      BY <2>1, PastStays DEF DeliveryIInv
    <2>3. e \in 1..epoch'
      BY <2>1, LedgerAssumption DEF DeliveryIInv, Bounds, EngineMoves
    <2> QED
      BY <2>1, <2>2, <2>3 DEF Given
  <1> QED
    BY <1>1 DEF DeliveryIInv, Sessions

LEMMA NothingMovesOn ==
  ASSUME DeliveryIInv, UNCHANGED ledgerVars
  PROVE  EngineMoves
  BY LedgerAssumption DEF EngineMoves, ledgerVars, DeliveryIInv, Bounds

(* A step that condemns nothing, and neither gives the model an identity   *)
(* nor takes back the warning that it lost one.                            *)
LEMMA CondemnsNothing ==
  ASSUME DeliveryIInv, UNCHANGED watermark, EngineMoves, client' \in {client, NoClient},
         attached' => attached,
         identity' = identity,
         invalidated => invalidated',
         phase = "flag" => phase' = "flag" \/ invalidated',
         phase' = "fresh" /\ client' # NoClient =>
           phase = "fresh" /\ client' = client /\ current'[1].receipt = current[1].receipt,
         phase' = "condemn" /\ outcome' = "epochChanged" =>
           phase = "condemn" /\ outcome = outcome' /\ current'[1].receipt = current[1].receipt
  PROVE  Condemned'
  <1>1. /\ epoch \in Nat \ {0} /\ generation \in Nat
        /\ epoch' \in Nat /\ epoch' >= epoch /\ (epoch' = epoch => generation' \in Nat /\ generation' >= generation)
    BY LedgerAssumption DEF DeliveryIInv, Bounds, EngineMoves
  <1>2. /\ client \in 0..epoch /\ DOMAIN watermark \subseteq 1..epoch
        /\ \A e \in DOMAIN watermark : watermark[e] \in Nat \cup {EveryGeneration}
        /\ phase = "fresh" /\ client # NoClient => current[1].receipt.epoch <= client
        /\ phase = "condemn" /\ outcome = "epochChanged" => current[1].receipt.epoch < epoch
        /\ CondemnationIsPast /\ CondemnedModelIsCaught
    BY DEF DeliveryIInv, Condemned
  <1>3. client' \in 0..epoch' /\ DOMAIN watermark' \subseteq 1..epoch'
    BY <1>1, <1>2 DEF NoClient
  <1>4. phase' = "fresh" /\ client' # NoClient => current'[1].receipt.epoch <= client'
    BY <1>2
  <1>5. phase' = "condemn" /\ outcome' = "epochChanged" => current'[1].receipt.epoch < epoch'
    <2> SUFFICES ASSUME phase' = "condemn", outcome' = "epochChanged"
                 PROVE  current'[1].receipt.epoch < epoch'
      OBVIOUS
    <2>1. current[1].receipt.epoch < epoch /\ current'[1].receipt = current[1].receipt
      BY <1>2
    <2>2. current[1].receipt.epoch \in Nat
      <3>1. current # <<>>
        BY DEF DeliveryIInv, OutboxIInv, OutboxTypeOK
      <3>2. Sent(current[1].receipt)
        BY <3>1 DEF DeliveryIInv, Deliveries, InHand
      <3> QED
        BY <3>2, SentIsFrozen, <1>1
    <2> QED
      BY <1>1, <2>1, <2>2
  <1>6. CondemnationIsPast'
    <2> SUFFICES ASSUME NEW e \in DOMAIN watermark
                 PROVE  /\ watermark[e] = EveryGeneration => e < epoch'
                        /\ e = epoch' => watermark[e] <= generation'
      BY DEF CondemnationIsPast
    <2>1. /\ e \in 1..epoch /\ watermark[e] \in Nat \cup {EveryGeneration}
          /\ watermark[e] = EveryGeneration => e < epoch
          /\ e = epoch => watermark[e] <= generation
      BY <1>2 DEF CondemnationIsPast
    <2>2. CASE e = epoch'
      <3>1. epoch' = epoch /\ generation' >= generation
        BY <1>1, <2>1, <2>2
      <3> QED
        BY <1>1, <2>1, <2>2, <3>1 DEF EveryGeneration
    <2>3. CASE e # epoch'
      BY <1>1, <2>1, <2>3
    <2> QED
      BY <2>2, <2>3
  <1>7. CondemnedModelIsCaught'
    BY <1>2 DEF CondemnedModelIsCaught, Rejects
  <1>8. \A e \in DOMAIN watermark' : watermark'[e] \in Nat \cup {EveryGeneration}
    BY <1>2
  <1> QED
    BY <1>3, <1>4, <1>5, <1>6, <1>7, <1>8 DEF Condemned, EveryGeneration
-----------------------------------------------------------------------------
(* The steps that move no delivery, condemn nothing and tell nothing.      *)
LEMMA QuietTipStep ==
  ASSUME DeliveryIInv, OutboxIInv(Receipts)',
         UNCHANGED <<ledgerVars, requests, tipVars, sequence, historyVars, pending, channel,
                     watermark>>,
         attached' => attached, invalidated => invalidated', client' \in {client, NoClient},
         current' = current \/ (current' = <<>> /\ ~Trying'),
         Trying' => Trying,
         sta' \in {"writing", "sending"} => sta' = sta /\ held' = held,
         phase = "flag" => phase' = "flag" \/ invalidated',
         phase' = "fresh" => (phase = "fresh" /\ current' = current /\ client' = client)
                             \/ client' = NoClient,
         phase' = "condemn" => phase = "condemn" /\ outcome' = outcome /\ current' = current
  PROVE  DeliveryIInv'
  <1>1. EngineMoves
    BY NothingMovesOn
  <1>2. Sessions'
    BY <1>1, SessionsRest DEF tipVars
  <1>3. Condemned'
    BY <1>1, CondemnsNothing DEF tipVars
  <1> QED
    BY <1>2, <1>3, QuietStep

LEMMA QuietTipActions ==
  ASSUME DeliveryIInv,
         \/ StaOnly(WriteFails) \/ StaOnly(TakeNotice) \/ StaOnly(Detach)
         \/ WorkerOnly(HandshakeFails) \/ WorkerOnly(DropStaleClient) \/ WorkerOnly(AnswerLost)
         \/ WorkerOnly(FlagInvalidation) \/ WorkerOnly(PublishNotice) \/ WorkerOnly(Release)
         \/ WorkerOnly(WorkerExit)
  PROVE  DeliveryIInv'
  <1>0. OutboxIInv(Receipts)
    BY DEF DeliveryIInv
  <1>1. CASE StaOnly(WriteFails)
    <2>1. OutboxIInv(Receipts)'
      BY <1>0, <1>1, WriteFailsKeeps DEF StaOnly
    <2> QED
      BY <1>1, <2>1, QuietTipStep
      DEF StaOnly, WriteFails, Trying, staVars, sharedVars, workerVars
  <1>2. CASE StaOnly(TakeNotice)
    <2>1. OutboxIInv(Receipts)'
      BY <1>0, <1>2, TakeNoticeKeeps DEF StaOnly
    <2> QED
      BY <1>2, <2>1, QuietTipStep
      DEF StaOnly, TakeNotice, Trying, staVars, sharedVars, workerVars
  <1>3. CASE StaOnly(Detach)
    <2>1. OutboxIInv(Receipts)'
      BY <1>0, <1>3, DetachKeeps DEF StaOnly
    <2> QED
      BY <1>3, <2>1, QuietTipStep
      DEF StaOnly, Detach, Trying, staVars, sharedVars, workerVars
  <1>4. CASE WorkerOnly(HandshakeFails)
    <2>1. OutboxIInv(Receipts)'
      BY <1>0, <1>4, HandshakeFailsKeeps DEF WorkerOnly
    <2> QED
      BY <1>4, <2>1, QuietTipStep
      DEF WorkerOnly, HandshakeFails, Trying, staVars, sharedVars, workerVars
  <1>5. CASE WorkerOnly(DropStaleClient)
    <2>1. OutboxIInv(Receipts)'
      BY <1>0, <1>5, DropStaleClientKeeps DEF WorkerOnly
    <2> QED
      BY <1>5, <2>1, QuietTipStep
      DEF WorkerOnly, DropStaleClient, Trying, staVars, sharedVars, workerVars
  <1>6. CASE WorkerOnly(AnswerLost)
    <2>1. OutboxIInv(Receipts)'
      BY <1>0, <1>6, AnswerLostKeeps DEF WorkerOnly
    <2> QED
      BY <1>6, <2>1, QuietTipStep
      DEF WorkerOnly, AnswerLost, Trying, staVars, sharedVars, workerVars
  <1>7. CASE WorkerOnly(FlagInvalidation)
    <2>1. OutboxIInv(Receipts)'
      BY <1>0, <1>7, FlagInvalidationKeeps DEF WorkerOnly
    <2> QED
      BY <1>7, <2>1, QuietTipStep
      DEF WorkerOnly, FlagInvalidation, Trying, staVars, sharedVars, workerVars
  <1>8. CASE WorkerOnly(PublishNotice)
    <2>1. OutboxIInv(Receipts)'
      BY <1>0, <1>8, PublishNoticeKeeps DEF WorkerOnly
    <2> QED
      BY <1>8, <2>1, QuietTipStep
      DEF WorkerOnly, PublishNotice, Trying, staVars, sharedVars, workerVars
  <1>9. CASE WorkerOnly(Release)
    <2>1. OutboxIInv(Receipts)'
      BY <1>0, <1>9, ReleaseKeeps DEF WorkerOnly
    <2> QED
      BY <1>9, <2>1, QuietTipStep
      DEF WorkerOnly, Release, Trying, staVars, sharedVars, workerVars
  <1>10. CASE WorkerOnly(WorkerExit)
    <2>1. OutboxIInv(Receipts)'
      BY <1>0, <1>10, WorkerExitKeeps DEF WorkerOnly
    <2> QED
      BY <1>10, <2>1, QuietTipStep
      DEF WorkerOnly, WorkerExit, Trying, staVars, sharedVars, workerVars
  <1> QED
    BY <1>1, <1>2, <1>3, <1>4, <1>5, <1>6, <1>7, <1>8, <1>9, <1>10

(* A session's handshake offers the identity of the engine that runs, and  *)
(* the STA takes an offer over only if it is not condemned.                *)
LEMMA OpenSessionKeeps ==
  ASSUME DeliveryIInv, OpenSession
  PROVE  DeliveryIInv'
  <1>1. /\ UNCHANGED <<outboxVars, ledgerVars, requests, identity, tokens, sequence, historyVars>>
        /\ offer' = <<[epoch |-> epoch, generation |-> generation, tokens |-> {}]>>
    BY DEF OpenSession
  <1>2. OutboxIInv(Receipts)' /\ EngineMoves
    BY <1>1, OutboxStutter, NothingMovesOn DEF DeliveryIInv
  <1>3. Sessions'
    <2>1. Given(epoch, generation, {})'
      BY <1>1, LedgerAssumption DEF Given, IsPast, TokenSets, DeliveryIInv, Bounds, ledgerVars
    <2>2. identity' # <<>> => Given(identity[1].epoch, identity[1].generation, tokens)'
      BY <1>1 DEF DeliveryIInv, Sessions, Given, IsPast, Issued, ledgerVars
    <2>3. /\ offer'[1].epoch = epoch' /\ offer'[1].generation = generation'
          /\ offer'[1].tokens = {} /\ offer'[1] \in OfferType
      BY <1>1, LedgerAssumption DEF ledgerVars, OfferType, TokenSets, DeliveryIInv, Bounds
    <2> QED
      BY <1>1, <2>1, <2>2, <2>3 DEF Sessions, Given, IsPast, Issued, OfferType
  <1>4. Condemned'
    BY <1>1, <1>2, CondemnsNothing DEF outboxVars, staVars, sharedVars, workerVars
  <1> QED
    BY <1>1, <1>2, <1>3, <1>4, QuietStep DEF outboxVars, staVars, sharedVars, workerVars, Trying

LEMMA AcceptSessionKeeps ==
  ASSUME DeliveryIInv, AcceptSession
  PROVE  DeliveryIInv'
  <1> DEFINE new == [epoch |-> offer[1].epoch, generation |-> offer[1].generation]
  <1>1. /\ offer # <<>> /\ offer' = <<>>
        /\ UNCHANGED <<outboxVars, ledgerVars, requests, sequence, historyVars>>
        /\ \/ identity' = <<>> /\ tokens' = {}
           \/ identity' = identity /\ tokens' = tokens
              /\ (Rejects(new) => identity = <<>> \/ ~Rejects(identity[1]))
           \/ ~Rejects(new) /\ identity' = <<new>> /\ tokens' = offer[1].tokens
    BY DEF AcceptSession, InvalidateLearning
  <1>2. OutboxIInv(Receipts)'
    BY <1>1, OutboxStutter DEF DeliveryIInv
  <1>3. UNCHANGED <<epoch, generation, nextToken>>
    BY <1>1 DEF ledgerVars
  <1>4. Sessions'
    <2>1. Given(offer[1].epoch, offer[1].generation, offer[1].tokens)
      BY <1>1 DEF DeliveryIInv, Sessions
    <2>2. identity # <<>> => Given(identity[1].epoch, identity[1].generation, tokens)
      BY DEF DeliveryIInv, Sessions
    <2>3. CASE identity' = <<>>
      BY <1>1, <2>3 DEF Sessions
    <2>4. CASE identity' = identity /\ tokens' = tokens
      BY <1>1, <1>3, <2>2, <2>4 DEF Sessions, Given, IsPast, Issued
    <2>5. CASE identity' = <<new>> /\ tokens' = offer[1].tokens
      <3>1. identity'[1].epoch = offer[1].epoch /\ identity'[1].generation = offer[1].generation
        BY <2>5
      <3> QED
        BY <1>1, <1>3, <2>1, <2>5, <3>1 DEF Sessions, Given, IsPast, Issued
    <2> QED
      BY <1>1, <2>3, <2>4, <2>5
  <1>5. Condemned'
    <2>1. UNCHANGED <<watermark, client, attached, invalidated, phase, outcome, current>>
      BY <1>1 DEF outboxVars, staVars, sharedVars, workerVars
    <2>2. CondemnedModelIsCaught'
      <3>1. CASE identity' = <<>>
        BY <3>1 DEF CondemnedModelIsCaught
      <3>2. CASE identity' = identity
        BY <2>1, <3>2 DEF DeliveryIInv, Condemned, CondemnedModelIsCaught, Rejects
      <3>3. CASE ~Rejects(new) /\ identity' = <<new>>
        <4>1. identity'[1] = new
          BY <3>3
        <4> QED
          BY <2>1, <3>3, <4>1 DEF CondemnedModelIsCaught, Rejects
      <3> QED
        BY <1>1, <3>1, <3>2, <3>3
    <2> QED
      BY <1>3, <2>1, <2>2 DEF DeliveryIInv, Condemned, CondemnationIsPast
  <1> QED
    BY <1>1, <1>2, <1>4, <1>5, QuietStep DEF outboxVars, staVars, sharedVars, workerVars, Trying

(* The STA takes the warning back only together with what it warned of.    *)
LEMMA TakeInvalidationKeeps ==
  ASSUME DeliveryIInv, TakeInvalidation
  PROVE  DeliveryIInv'
  <1>1. /\ SwapInvalidation /\ sta = "idle" /\ sta' = "noticing"
        /\ UNCHANGED <<ledgerVars, requests, offer, sequence, historyVars>>
        /\ UNCHANGED <<attached, held, outstanding, channel, notice, watermark, pending, current,
                       phase, outcome, client>>
        /\ \/ identity' = <<>> /\ tokens' = {}
           \/ /\ identity' = identity /\ tokens' = tokens
              /\ ~invalidated \/ identity = <<>> \/ ~Rejects(identity[1])
    BY DEF TakeInvalidation, SwapInvalidation, InvalidateLearning, workerVars
  <1>2. OutboxIInv(Receipts)'
    BY <1>1, SwapInvalidationKeeps DEF DeliveryIInv
  <1>3. UNCHANGED <<epoch, generation, nextToken>>
    BY <1>1 DEF ledgerVars
  <1>4. Sessions'
    BY <1>1, <1>3 DEF DeliveryIInv, Sessions, Given, IsPast, Issued
  <1>5. Condemned'
    <2>1. CondemnedModelIsCaught'
      BY <1>1 DEF DeliveryIInv, Condemned, CondemnedModelIsCaught, Rejects
    <2> QED
      BY <1>1, <1>3, <2>1 DEF DeliveryIInv, Condemned, CondemnationIsPast
  <1> QED
    BY <1>1, <1>2, <1>4, <1>5, QuietStep DEF Trying

(* Where the receipt in hand stands in time.                               *)
LEMMA InHandIsPast ==
  ASSUME DeliveryIInv, phase \notin {"idle", "exited"}
  PROVE  /\ current # <<>> /\ Sent(current[1].receipt) /\ Frozen(current[1].receipt)
         /\ current[1].receipt.epoch \in 1..epoch /\ current[1].receipt.generation \in Nat
         /\ epoch \in Nat /\ generation \in Nat /\ current[1].receipt \in Receipts
         /\ current[1].receipt.epoch = epoch => current[1].receipt.generation <= generation
  <1>1. current # <<>>
    BY DEF DeliveryIInv, OutboxIInv, OutboxTypeOK
  <1>2. Sent(current[1].receipt)
    BY <1>1 DEF DeliveryIInv, Deliveries, InHand
  <1>3. /\ current[1].receipt \in Receipts /\ current[1].receipt.epoch \in 1..epoch
        /\ Frozen(current[1].receipt)
        /\ current[1].receipt.epoch = epoch => current[1].receipt.generation <= generation
    BY <1>2, SentIsFrozen
  <1>4. current[1].receipt.generation \in Nat
    BY <1>3, LedgerAssumption DEF ReceiptType
  <1> QED
    BY <1>1, <1>2, <1>3, <1>4, LedgerAssumption DEF DeliveryIInv, Bounds

LEMMA HandshakeStepKeeps ==
  ASSUME DeliveryIInv, WorkerOnly(Handshake(epoch))
  PROVE  DeliveryIInv'
  <1>1. /\ Handshake(epoch) /\ client' = epoch /\ phase \in {"cached", "fresh"}
        /\ UNCHANGED <<ledgerVars, requests, tipVars, sequence, historyVars>>
        /\ UNCHANGED <<attached, sta, held, outstanding, channel, notice, invalidated, watermark,
                       pending, current, phase, outcome>>
    BY DEF WorkerOnly, Handshake, staVars, sharedVars
  <1>2. OutboxIInv(Receipts)'
    BY <1>1, HandshakeKeeps DEF DeliveryIInv
  <1>3. Sessions' /\ UNCHANGED <<epoch, generation, identity>>
    BY <1>1, NothingMovesOn, SessionsRest DEF tipVars, ledgerVars
  <1>4. Condemned'
    <2>1. current[1].receipt.epoch <= epoch /\ epoch \in Nat
      BY <1>1, InHandIsPast
    <2> QED
      BY <1>1, <1>3, <2>1
      DEF DeliveryIInv, Condemned, CondemnationIsPast, CondemnedModelIsCaught, Rejects
  <1> QED
    BY <1>1, <1>2, <1>3, <1>4, QuietStep DEF Trying

(* What a verdict condemns: every generation of an epoch that is over, or  *)
(* the generations up to one the engine has left or refuses to learn.      *)
LEMMA RaiseWatermarkStepKeeps ==
  ASSUME DeliveryIInv, WorkerOnly(RaiseWatermark)
  PROVE  DeliveryIInv'
  <1> DEFINE r == current[1].receipt
             g == IF outcome = "epochChanged" THEN EveryGeneration ELSE r.generation
  <1>1. /\ RaiseWatermark /\ phase = "condemn" /\ phase' = "flag"
        /\ UNCHANGED <<ledgerVars, requests, tipVars, sequence, historyVars>>
        /\ UNCHANGED <<attached, sta, held, outstanding, channel, notice, invalidated, pending,
                       current, outcome, client>>
    BY DEF WorkerOnly, RaiseWatermark, staVars
  <1>2. OutboxIInv(Receipts)'
    BY <1>1, RaiseWatermarkKeeps DEF DeliveryIInv
  <1>3. Sessions' /\ UNCHANGED <<epoch, generation, identity>>
    BY <1>1, NothingMovesOn, SessionsRest DEF tipVars, ledgerVars
  <1>4. Condemned'
    <2>1. /\ DOMAIN watermark' = DOMAIN watermark \cup {r.epoch}
          /\ \A e \in DOMAIN watermark' :
               watermark'[e] = IF e # r.epoch THEN watermark[e]
                               ELSE IF e \in DOMAIN watermark THEN Higher(watermark[e], g) ELSE g
      BY <1>1 DEF RaiseWatermark
    <2>2. /\ r.epoch \in 1..epoch /\ r.generation \in Nat /\ epoch \in Nat /\ generation \in Nat
          /\ r.epoch = epoch => r.generation <= generation
      BY <1>1, InHandIsPast
    <2>3. outcome = "epochChanged" => r.epoch < epoch
      BY <1>1 DEF DeliveryIInv, Condemned
    <2>4. /\ client \in 0..epoch /\ DOMAIN watermark \subseteq 1..epoch
          /\ \A e \in DOMAIN watermark :
               /\ watermark[e] \in Nat \cup {EveryGeneration}
               /\ watermark[e] = EveryGeneration => e < epoch
               /\ e = epoch => watermark[e] <= generation
      BY DEF DeliveryIInv, Condemned, CondemnationIsPast
    <2>5. /\ g \in Nat \cup {EveryGeneration} /\ (g = EveryGeneration => r.epoch < epoch)
          /\ r.epoch = epoch => g <= generation
      BY <2>2, <2>3 DEF EveryGeneration
    <2> HIDE DEF g
    <2>6. ASSUME NEW e \in DOMAIN watermark'
          PROVE  /\ watermark'[e] \in Nat \cup {EveryGeneration}
                 /\ watermark'[e] = EveryGeneration => e < epoch
                 /\ e = epoch => watermark'[e] <= generation
      <3>1. CASE e # r.epoch
        BY <2>1, <2>4, <3>1
      <3>2. CASE e = r.epoch /\ e \notin DOMAIN watermark
        BY <2>1, <2>5, <3>2
      <3>3. CASE e = r.epoch /\ e \in DOMAIN watermark
        <4>1. watermark'[e] = Higher(watermark[e], g)
          BY <2>1, <3>3
        <4>2. watermark'[e] \in {watermark[e], g}
          BY <4>1 DEF Higher
        <4> QED
          BY <2>4, <2>5, <3>3, <4>2
      <3> QED
        BY <3>1, <3>2, <3>3
    <2>7. DOMAIN watermark' \subseteq 1..epoch
      BY <2>1, <2>2, <2>4
    <2>8. CondemnedModelIsCaught'
      BY <1>1 DEF CondemnedModelIsCaught
    <2>9. CondemnationIsPast'
      BY <1>3, <2>6 DEF CondemnationIsPast, EveryGeneration
    <2> QED
      BY <1>1, <1>3, <2>4, <2>6, <2>7, <2>8, <2>9 DEF Condemned, EveryGeneration
  <1> QED
    BY <1>1, <1>2, <1>3, <1>4, QuietStep DEF Trying
-----------------------------------------------------------------------------
(* The STA freezes a receipt under the next id,                            *)
LEMMA CommitKeeps ==
  ASSUME DeliveryIInv, Commit
  PROVE  DeliveryIInv'
  <1>0. PICK r : r = [id |-> sequence + 1, epoch |-> identity[1].epoch,
                      generation |-> identity[1].generation, tokens |-> tokens]
    OBVIOUS
  <1>1. /\ PrepareCommit(r) /\ identity # <<>> /\ sequence < MaxCommits
        /\ sequence' = sequence + 1 /\ tokens' = {} /\ sta' = "writing" /\ held' = <<r>>
        /\ UNCHANGED <<ledgerVars, requests, offer, identity, historyVars>>
        /\ UNCHANGED <<attached, outstanding, channel, notice, invalidated, watermark, pending,
                       current, phase, outcome, client>>
    BY <1>0 DEF Commit, PrepareCommit, sharedVars, workerVars
  <1>2. /\ r.id = sequence + 1 /\ r.epoch = identity[1].epoch
        /\ r.generation = identity[1].generation /\ r.tokens = tokens
    BY <1>0
  <1>3. /\ sequence \in Nat /\ sequence + 1 \in 1..MaxCommits
        /\ MaxCommits \in Nat /\ epoch \in 1..MaxEpoch
    BY <1>1, DeliveryAssumption DEF DeliveryIInv, Commits, Bounds
  <1>4. Given(identity[1].epoch, identity[1].generation, tokens)
    BY <1>1 DEF DeliveryIInv, Sessions
  <1>5. r \in Receipts
    <2>1. identity[1].epoch \in 1..MaxEpoch
      BY <1>3, <1>4, LedgerAssumption DEF Given
    <2> QED
      BY <1>0, <1>3, <1>4, <2>1, DeliveryAssumption DEF Given, TokenSets
  <1>6. OutboxIInv(Receipts)'
    BY <1>1, <1>5, PrepareCommitKeeps DEF DeliveryIInv
  <1>7. UNCHANGED <<epoch, generation, nextToken, sent, told>> /\ EngineMoves
    BY <1>1, NothingMovesOn DEF ledgerVars, historyVars
  <1>8. Sessions'
    <2>1. Given(identity[1].epoch, identity[1].generation, {})'
      BY <1>1, <1>4, <1>7 DEF Given, IsPast, TokenSets
    <2>2. offer # <<>> =>
            (offer[1] \in OfferType /\ Given(offer[1].epoch, offer[1].generation, offer[1].tokens))'
      BY <1>1, <1>7 DEF DeliveryIInv, Sessions, Given, IsPast, Issued, OfferType
    <2> QED
      BY <1>1, <2>1, <2>2 DEF Sessions
  <1>9. Commits'
    <2>1. Frozen(r)'
      <3>1. r.id \in 1..sequence' /\ r.epoch \in 1..epoch'
        BY <1>1, <1>2, <1>3, <1>4, <1>7 DEF Given
      <3>2. IsPast(r.epoch, r.generation, r.tokens)'
        BY <1>2, <1>4, <1>7 DEF Given, IsPast, Issued
      <3> QED
        BY <1>5, <3>1, <3>2 DEF Frozen
    <2>2. \A s : Frozen(s) => Frozen(s)'
      <3> SUFFICES ASSUME NEW s, Frozen(s) PROVE Frozen(s)'
        OBVIOUS
      <3> QED
        BY <1>1, <1>3, <1>7, FrozenStays DEF DeliveryIInv
    <2>3. sent[r.id] = <<>>
      <3>1. sent[r.id] # <<>> => Frozen(sent[r.id][1]) /\ sent[r.id][1].id = r.id
        BY <1>2, <1>3 DEF DeliveryIInv, Commits, CommitIds
      <3>2. ~(r.id \in 1..sequence)
        BY <1>2, <1>3
      <3> QED
        BY <3>1, <3>2 DEF Frozen
    <2>4. /\ DOMAIN sent = CommitIds
          /\ \A i \in CommitIds : sent[i] # <<>> =>
               sent[i] = <<sent[i][1]>> /\ sent[i][1].id = i /\ Frozen(sent[i][1])
      BY DEF DeliveryIInv, Commits
    <2>5. \A i \in CommitIds : sent'[i] # <<>> =>
            sent'[i] = <<sent'[i][1]>> /\ sent'[i][1].id = i /\ Frozen(sent[i][1])'
      BY <1>7, <2>2, <2>4
    <2>6. held'[1] = r /\ sequence' \in 0..MaxCommits
      BY <1>1, <1>3
    <2> QED
      BY <1>1, <1>7, <2>1, <2>3, <2>4, <2>5, <2>6 DEF Commits
  <1>10. Deliveries' /\ Apart'
    BY <1>1, <1>7, MailRests DEF ledgerVars, Trying
  <1>11. IInv' /\ Bounds' /\ Telltale' /\ Entries' /\ Refused'
    BY <1>1, <1>7, EngineRests
  <1>12. Condemned'
    BY <1>1, <1>7, CondemnsNothing
  <1> QED
    BY <1>6, <1>8, <1>9, <1>10, <1>11, <1>12 DEF DeliveryIInv

(* and the text of a receipt that has not been sent yet is written.        *)
LEMMA WritingIsUnsent ==
  ASSUME DeliveryIInv, sta = "writing"
  PROVE  /\ held # <<>> /\ Frozen(held[1]) /\ held[1].id \in CommitIds
         /\ sent[held[1].id] = <<>> /\ told[held[1].id] = "none"
         /\ held[1] \notin applied /\ held[1] \notin reapplied
         /\ \A s : Sent(s) => s.id # held[1].id
  <1>1. held # <<>>
    BY DEF DeliveryIInv, OutboxIInv, OutboxTypeOK
  <1>2. Frozen(held[1]) /\ sent[held[1].id] = <<>>
    BY DEF DeliveryIInv, Commits
  <1>3. held[1].id \in CommitIds
    BY <1>2, DeliveryAssumption DEF Frozen, CommitIds, DeliveryIInv, Commits
  <1>4. told[held[1].id] = "none"
    BY <1>2, <1>3 DEF DeliveryIInv, Telltale
  <1>5. ASSUME NEW s, Sent(s), s.id = held[1].id PROVE FALSE
    <2>1. <<s>> = <<>>
      BY <1>2, <1>5 DEF Sent
    <2> QED
      BY <2>1
  <1>6. held[1] \notin applied /\ held[1] \notin reapplied
    BY <1>5 DEF DeliveryIInv, Entries
  <1> QED
    BY <1>1, <1>2, <1>3, <1>4, <1>5, <1>6

LEMMA AppliedFields ==
  ASSUME DeliveryIInv, Applied
  PROVE  /\ sta = "writing" /\ TextApplied /\ sent' = [sent EXCEPT ![held[1].id] = <<held[1]>>]
         /\ UNCHANGED <<ledgerVars, requests, tipVars, sequence>>
         /\ UNCHANGED <<attached, channel, invalidated, watermark, workerVars>>
         /\ \/ sta' = "sending" /\ held' = held /\ told' = told
            \/ sta' = "idle" /\ held' = <<>> /\ told' = [told EXCEPT ![held[1].id] = "capacity"]
  BY DEF Applied, TextApplied

LEMMA AppliedKeeps ==
  ASSUME DeliveryIInv, Applied
  PROVE  DeliveryIInv'
  <1>0. PICK r : r = held[1]
    OBVIOUS
  <1>1. /\ sta = "writing" /\ TextApplied /\ sent' = [sent EXCEPT ![r.id] = <<r>>]
        /\ UNCHANGED <<ledgerVars, requests, tipVars, sequence>>
        /\ UNCHANGED <<attached, channel, invalidated, watermark, workerVars>>
        /\ \/ sta' = "sending" /\ held' = held /\ told' = told
           \/ sta' = "idle" /\ held' = <<>> /\ told' = [told EXCEPT ![r.id] = "capacity"]
    BY <1>0, AppliedFields
  <1>2. /\ held # <<>> /\ Frozen(r) /\ r.id \in CommitIds
        /\ sent[r.id] = <<>> /\ told[r.id] = "none" /\ r \notin applied
        /\ \A s : Sent(s) => s.id # r.id
    BY <1>0, <1>1, WritingIsUnsent
  <1>3. OutboxIInv(Receipts)'
    BY <1>1, TextAppliedKeeps DEF DeliveryIInv
  <1>4. /\ UNCHANGED <<epoch, generation, nextToken, clauseTokens, ledger, applied, reapplied>>
        /\ UNCHANGED <<pending, channel, current, phase, outcome, client, offer, identity, tokens>>
        /\ EngineMoves
    BY <1>1, NothingMovesOn DEF ledgerVars, workerVars, tipVars
  <1>5. Sessions' /\ Bounds' /\ IInv'
    BY <1>1, <1>4, SessionsRest, NextKeepsIInv DEF tipVars, DeliveryIInv, Bounds
  <1>6. Condemned'
    BY <1>1, <1>4, CondemnsNothing
  <1>7. DOMAIN sent = CommitIds /\ told \in [CommitIds -> ToldValues]
    BY DEF DeliveryIInv, Commits, Telltale
  <1>8. /\ sent'[r.id] = <<r>> /\ told'[r.id] \in {"none", "capacity"}
        /\ \A i \in CommitIds : i # r.id => sent'[i] = sent[i] /\ told'[i] = told[i]
        /\ DOMAIN sent' = CommitIds /\ told' \in [CommitIds -> ToldValues]
    BY <1>1, <1>2, <1>7 DEF ToldValues, Verdicts
  <1>9. /\ \A s : Sent(s) => Sent(s)'
        /\ \A s : Untold(s) => Untold(s)'
        /\ \A s : Frozen(s)' <=> Frozen(s)
    BY <1>1, <1>2, <1>4, <1>8 DEF Sent, Untold, Frozen, IsPast, Issued
  <1>10. Commits'
    <2>1. /\ sequence \in 0..MaxCommits
          /\ \A i \in CommitIds : sent[i] # <<>> =>
               sent[i] = <<sent[i][1]>> /\ sent[i][1].id = i /\ Frozen(sent[i][1])
      BY DEF DeliveryIInv, Commits
    <2>2. ASSUME NEW i \in CommitIds, sent'[i] # <<>>
          PROVE  sent'[i] = <<sent'[i][1]>> /\ sent'[i][1].id = i /\ Frozen(sent[i][1])'
      <3>1. CASE i = r.id
        <4>1. sent'[i] = <<r>> /\ sent'[i][1] = r
          BY <1>8, <3>1
        <4> QED
          BY <1>2, <1>4, <1>1, <3>1, <4>1 DEF Frozen, IsPast, Issued
      <3>2. CASE i # r.id
        BY <1>1, <1>4, <1>8, <2>1, <2>2, <3>2 DEF Frozen, IsPast, Issued
      <3> QED
        BY <3>1, <3>2
    <2>3. sta' = "sending" => Sent(held[1])'
      <3> SUFFICES ASSUME sta' = "sending" PROVE Sent(held[1])'
        OBVIOUS
      <3>1. held'[1] = r
        BY <1>0, <1>1
      <3> QED
        BY <1>2, <1>8, <3>1 DEF Sent
    <2>4. sta' # "writing" /\ sequence' \in 0..MaxCommits
      BY <1>1, <2>1
    <2> QED
      BY <1>8, <2>2, <2>3, <2>4 DEF Commits
  <1>11. Deliveries'
    <2>1. Waiting /\ InHand /\ Asked
      BY DEF DeliveryIInv, Deliveries
    <2>2. Arrived' = Arrived
      BY <1>4 DEF Arrived
    <2>3. Waiting'
      BY <1>4, <1>9, <2>1, <2>2 DEF Waiting, Recalled, Untold, Sent
    <2>4. InHand'
      <3>1. current # <<>> => Sent(current[1].receipt)'
        BY <1>4, <1>9, <2>1 DEF InHand, Sent
      <3>2. Trying => current # <<>>
        BY DEF DeliveryIInv, OutboxIInv, OutboxTypeOK, Trying
      <3>3. Trying => told'[current[1].receipt.id] = "none"
        BY <1>2, <1>8, <2>1, <3>2 DEF InHand, Sent
      <3> QED
        BY <1>4, <2>1, <3>1, <3>3 DEF InHand, Recalled, Trying, Sent
    <2>5. Sending'
      <3>1. \A q \in requests : q.receipt # r
        BY <1>2, <2>1 DEF Asked
      <3> QED
        BY <1>0, <1>1, <1>2, <1>4, <3>1 DEF Sending
    <2>6. Asked'
      BY <1>1, <1>9, <2>1 DEF Asked, Sent
    <2> QED
      BY <2>3, <2>4, <2>5, <2>6 DEF Deliveries
  <1>12. Apart'
    <2>1. \A i \in DOMAIN Arrived : Arrived[i].receipt.id # r.id
      BY <1>2 DEF DeliveryIInv, Deliveries, Waiting, Untold
    <2>2. current # <<>> => current[1].receipt.id # r.id
      BY <1>2 DEF DeliveryIInv, Deliveries, InHand
    <2>3. Arrived' = Arrived
      BY <1>4 DEF Arrived
    <2> QED
      BY <1>0, <1>1, <1>4, <2>1, <2>2, <2>3 DEF DeliveryIInv, Apart
  <1>13. Telltale'
    <2>1. \A i \in CommitIds : told[i] # "none" => sent[i] # <<>>
      BY DEF DeliveryIInv, Telltale
    <2>2. <<r>> # <<>>
      OBVIOUS
    <2> QED
      BY <1>2, <1>8, <2>1, <2>2 DEF Telltale
  <1>14. Entries'
    BY <1>4, <1>9 DEF DeliveryIInv, Entries, Entry, Sent
  <1>15. Refused'
    <2>1. ASSUME NEW i \in CommitIds, told'[i] \in {"stale", "conflict", "invalidToken"},
                 HasMaterial(i)'
          PROVE  RefusedOne(i)'
      <3>1. i # r.id
        BY <1>8, <2>1
      <3>2. told[i] \in {"stale", "conflict", "invalidToken"} /\ HasMaterial(i)
        BY <1>8, <2>1, <3>1 DEF HasMaterial
      <3>3. RefusedOne(i)
        BY <3>2 DEF DeliveryIInv, Refused
      <3> QED
        BY <1>4, <1>8, <3>1, <3>3 DEF RefusedOne, Guarded, AnsweredFor, Issued
    <2> QED
      BY <2>1 DEF Refused
  <1> QED
    BY <1>3, <1>5, <1>6, <1>10, <1>11, <1>12, <1>13, <1>14, <1>15 DEF DeliveryIInv
-----------------------------------------------------------------------------
(* The steps of the text service that move a delivery, or give one up.     *)
Tells(r, v) ==
  /\ Sent(r) /\ told[r.id] = "none"
  /\ v \in {"expired", "failed", "epochChanged"} /\ told' = [told EXCEPT ![r.id] = v]

LEMMA TellsFields ==
  ASSUME DeliveryIInv, NEW r, NEW v, Tells(r, v)
  PROVE  /\ r.id \in CommitIds /\ told'[r.id] = v /\ told' \in [CommitIds -> ToldValues]
         /\ \A i \in CommitIds : i # r.id => told'[i] = told[i]
  <1>1. told \in [CommitIds -> ToldValues] /\ r.id \in CommitIds
    BY DEF DeliveryIInv, Telltale, Tells, Sent
  <1>2. v \in ToldValues
    BY DEF Tells, ToldValues, Verdicts
  <1> QED
    BY <1>1, <1>2 DEF Tells

LEMMA TipStep ==
  ASSUME DeliveryIInv, OutboxIInv(Receipts)', Deliveries', Apart', Condemned',
         UNCHANGED <<ledgerVars, tipVars, sequence, sent>>,
         sta' \in {"writing", "sending"} => sta' = sta /\ held' = held,
         told' = told \/ \E r, v : Tells(r, v)
  PROVE  DeliveryIInv'
  <1>1. EngineMoves
    BY NothingMovesOn
  <1>2. Sessions' /\ Commits'
    BY <1>1, SessionsRest, CommitsRest DEF tipVars
  <1>3. IInv' /\ Bounds' /\ Telltale' /\ Entries' /\ Refused'
    <2>1. CASE told' = told
      BY <2>1, EngineRests
    <2>2. ASSUME NEW r, NEW v, Tells(r, v)
          PROVE  IInv' /\ Bounds' /\ Telltale' /\ Entries' /\ Refused'
      <3>1. IInv' /\ Bounds'
        BY NextKeepsIInv DEF DeliveryIInv, Bounds, ledgerVars
      <3>2. Entries'
        BY DEF DeliveryIInv, Entries, Entry, Sent, ledgerVars
      <3>3. /\ r.id \in CommitIds /\ told'[r.id] = v /\ told' \in [CommitIds -> ToldValues]
            /\ \A i \in CommitIds : i # r.id => told'[i] = told[i]
        BY <2>2, TellsFields
      <3>4. v \in {"expired", "failed", "epochChanged"} /\ sent[r.id] # <<>>
        BY <2>2, SentIsFrozen DEF Tells
      <3>5. Telltale'
        BY <3>3, <3>4 DEF DeliveryIInv, Telltale
      <3>6. \A i \in CommitIds :
              told'[i] \in {"stale", "conflict", "invalidToken"} => told'[i] = told[i]
        BY <3>3, <3>4
      <3>7. Refused'
        BY <3>6
        DEF DeliveryIInv, Refused, RefusedOne, HasMaterial, Guarded, AnsweredFor, Issued, ledgerVars
      <3> QED
        BY <3>1, <3>2, <3>5, <3>7
    <2> QED
      BY <2>1, <2>2
  <1> QED
    BY <1>2, <1>3 DEF DeliveryIInv

(* Telling of one receipt does not tell of another.                        *)
LEMMA TellsOthersNothing ==
  ASSUME DeliveryIInv, UNCHANGED sent, NEW r, NEW s, Untold(s),
         told' = told \/ (s.id # r.id /\ \E v : Tells(r, v))
  PROVE  Untold(s)'
  BY TellsFields DEF Untold, Sent

LEMMA TrySendStepKeeps ==
  ASSUME DeliveryIInv, StaOnly(TrySend)
  PROVE  DeliveryIInv'
  <1>0. PICK d : d = [receipt |-> held[1], left |-> Lifetime, wait |-> 0, attempts |-> 0]
    OBVIOUS
  <1>1. /\ TrySend /\ sta = "sending" /\ sta' = "idle" /\ channel' = Append(channel, d)
        /\ UNCHANGED <<ledgerVars, requests, tipVars, sequence, historyVars>>
        /\ UNCHANGED <<attached, invalidated, watermark, pending, current, phase, outcome, client>>
    BY <1>0 DEF StaOnly, TrySend, workerVars
  <1>2. OutboxIInv(Receipts) /\ OutboxIInv(Receipts)'
    BY <1>1, TrySendKeeps DEF DeliveryIInv
  <1>3. ArrivedGains(Len(Arrived) + 1, d)
    BY <1>1, <1>2, SendGains
  <1>4. UNCHANGED <<epoch, ledger, applied, sent, told>> /\ EngineMoves
    BY <1>1, NothingMovesOn DEF ledgerVars, historyVars
  <1>5. Untold(d.receipt) /\ d.receipt \notin applied /\ d.receipt = held[1]
    BY <1>0, <1>1 DEF DeliveryIInv, Commits, Deliveries, Sending, Untold
  <1>6. Waiting /\ InHand /\ Asked /\ Apart
    BY DEF DeliveryIInv, Deliveries
  <1>7. Deliveries'
    <2>1. Waiting'
      <3>1. ASSUME NEW j \in DOMAIN Arrived', NEW a, a = Arrived'[j]
            PROVE  Untold(a.receipt)' /\ Recalled(a)'
        <4>1. a = d \/ \E i \in DOMAIN Arrived : a = Arrived[i]
          BY <1>3, <3>1 DEF ArrivedGains
        <4>2. Untold(a.receipt) /\ Recalled(a)
          BY <1>5, <1>6, <4>1 DEF Waiting, Recalled
        <4> QED
          BY <1>4, <4>2 DEF Untold, Sent, Recalled
      <3> QED
        BY <3>1 DEF Waiting
    <2>2. InHand' /\ Asked'
      BY <1>1, <1>4, <1>6 DEF InHand, Asked, Recalled, Sent, Trying
    <2>3. Sending'
      BY <1>1 DEF Sending
    <2> QED
      BY <2>1, <2>2, <2>3 DEF Deliveries
  <1>8. Apart'
    <2>1. /\ \A i \in DOMAIN Arrived : Arrived[i].receipt.id # d.receipt.id
          /\ current # <<>> => current[1].receipt.id # d.receipt.id
      BY <1>1, <1>5, <1>6 DEF Apart
    <2> QED
      BY <1>1, <1>3, <1>6, <2>1 DEF Apart, ArrivedGains
  <1>9. Condemned'
    BY <1>1, <1>4, CondemnsNothing DEF tipVars
  <1> QED
    BY <1>1, <1>2, <1>4, <1>7, <1>8, <1>9, TipStep

(* The worker takes a delivery that is due, and gives up one that expired: *)
(* c is what it makes of the one in the k-th place.                        *)
TakesFrom(k, c) ==
  /\ ArrivedLoses(k) /\ current' = <<c>>
  /\ c.receipt = Arrived[k].receipt /\ c.left = Arrived[k].left
  /\ \/ phase' = "cached" /\ told' = told /\ outcome' = outcome
     \/ /\ phase' = "notify" /\ Tells(c.receipt, "expired")
  /\ Untold(c.receipt) /\ Recalled(c)
  /\ OutboxIInv(Receipts)' /\ phase = "idle" /\ current = <<>>
  /\ UNCHANGED <<ledgerVars, requests, tipVars, sequence, sent>>
  /\ UNCHANGED <<attached, sta, held, invalidated, watermark, client>>

LEMMA TakeDueFields ==
  ASSUME DeliveryIInv, Telling(TakeDue), UNCHANGED requests
  PROVE  \E k \in DOMAIN Arrived : \E c : TakesFrom(k, c)
  <1>1. OutboxIInv(Receipts) /\ Waiting
    BY DEF DeliveryIInv, Deliveries
  <1>2. /\ TakeDue /\ phase = "idle" /\ pending' = RemoveAt(Arrived, FirstDue) /\ channel' = <<>>
        /\ \E i \in DOMAIN Arrived : Due(Arrived[i])
        /\ UNCHANGED <<ledgerVars, requests, tipVars, sequence, sent>>
        /\ UNCHANGED <<attached, sta, held, invalidated, watermark, client>>
    BY DEF Telling, TakeDue, staVars
  <1>3. OutboxIInv(Receipts)' /\ current = <<>>
    BY <1>1, <1>2, TakeDueKeeps DEF OutboxIInv, OutboxTypeOK
  <1>4. PICK k \in DOMAIN Arrived : k = FirstDue
    <2>1. Arrived \in Seq(Queued(Receipts))
      BY <1>1, ArrivedSeq DEF ArrivedShape
    <2> QED
      BY <1>2, <2>1, LeastDue
  <1>5. ArrivedLoses(k)
    BY <1>1, <1>2, <1>3, <1>4, TakeLoses
  <1>6. /\ Arrived[k] \in Queued(Receipts) /\ Untold(Arrived[k].receipt) /\ Recalled(Arrived[k])
    BY <1>1, ArrivedSeq DEF ArrivedShape, Waiting
  <1>7. told' = IF phase' \in {"release", "condemn", "notify"}
                THEN [told EXCEPT ![current'[1].receipt.id] = outcome'] ELSE told
    BY DEF Telling
  <1>8. PICK c : /\ current' = <<c>> /\ c.receipt = Arrived[k].receipt /\ c.left = Arrived[k].left
                 /\ \/ phase' = "cached" /\ outcome' = outcome
                    \/ phase' = "notify" /\ outcome' = "expired"
    <2>1. CASE Arrived[k].left = 0
      <3>1. current' = <<Arrived[k]>> /\ Settle("expired")
        BY <1>2, <1>4, <2>1 DEF TakeDue
      <3>2. phase' = "notify" /\ outcome' = "expired"
        BY <3>1 DEF Settle
      <3> QED
        BY <3>1, <3>2
    <2>2. CASE Arrived[k].left # 0
      <3>1. /\ current' = <<[Arrived[k] EXCEPT !.attempts = Arrived[k].attempts + 1]>>
            /\ phase' = "cached" /\ outcome' = outcome
        BY <1>2, <1>4, <2>2 DEF TakeDue
      <3> DEFINE c == [Arrived[k] EXCEPT !.attempts = Arrived[k].attempts + 1]
      <3>2. c.receipt = Arrived[k].receipt /\ c.left = Arrived[k].left
        BY <1>6 DEF Queued
      <3> QED
        BY <3>1, <3>2
    <2> QED
      BY <2>1, <2>2
  <1>9. current'[1] = c
    BY <1>8
  <1>10. \/ phase' = "cached" /\ told' = told /\ outcome' = outcome
         \/ phase' = "notify" /\ Tells(c.receipt, "expired")
    BY <1>6, <1>7, <1>8, <1>9 DEF Tells, Untold
  <1>11. Untold(c.receipt) /\ Recalled(c)
    BY <1>6, <1>8 DEF Recalled
  <1> QED
    BY <1>2, <1>3, <1>5, <1>8, <1>10, <1>11 DEF TakesFrom

LEMMA TakeDueStepKeeps ==
  ASSUME DeliveryIInv, Telling(TakeDue), UNCHANGED requests
  PROVE  DeliveryIInv'
  <1>0. PICK k \in DOMAIN Arrived : \E c : TakesFrom(k, c)
    BY TakeDueFields
  <1>c. PICK c : TakesFrom(k, c)
    BY <1>0
  <1>1. /\ ArrivedLoses(k) /\ current' = <<c>>
        /\ c.receipt = Arrived[k].receipt /\ c.left = Arrived[k].left
        /\ \/ phase' = "cached" /\ told' = told /\ outcome' = outcome
           \/ /\ phase' = "notify" /\ Tells(c.receipt, "expired")
        /\ Untold(c.receipt) /\ Recalled(c)
        /\ OutboxIInv(Receipts)' /\ phase = "idle" /\ current = <<>>
        /\ UNCHANGED <<ledgerVars, requests, tipVars, sequence, sent>>
        /\ UNCHANGED <<attached, sta, held, invalidated, watermark, client>>
    BY <1>c DEF TakesFrom
  <1>2. current'[1] = c /\ UNCHANGED <<epoch, ledger, applied, identity>> /\ EngineMoves
    BY <1>1, NothingMovesOn DEF ledgerVars, tipVars
  <1>3. Waiting /\ Sending /\ Asked /\ Apart
    BY DEF DeliveryIInv, Deliveries
  <1>4. \A i \in DOMAIN Arrived : i # k => Arrived[i].receipt.id # c.receipt.id
    BY <1>1, <1>3 DEF Apart
  <1>5. ASSUME NEW j \in DOMAIN Arrived'
        PROVE  \E i \in DOMAIN Arrived : /\ i # k /\ Arrived'[j] = Arrived[i]
                                         /\ i = IF j < k THEN j ELSE j + 1
    BY <1>1 DEF ArrivedLoses
  <1>6. ASSUME NEW s, Untold(s), s.id # c.receipt.id PROVE Untold(s)'
    <2>1. told' = told \/ (s.id # c.receipt.id /\ \E v : Tells(c.receipt, v))
      BY <1>1, <1>6
    <2> QED
      BY <1>1, <1>6, <2>1, TellsOthersNothing
  <1>7. \A s : Sent(s) => Sent(s)'
    BY <1>1 DEF Sent
  <1>8. Deliveries'
    <2>1. Waiting'
      <3>1. ASSUME NEW j \in DOMAIN Arrived', NEW a, a = Arrived'[j]
            PROVE  Untold(a.receipt)' /\ Recalled(a)'
        <4>1. PICK i \in DOMAIN Arrived : i # k /\ a = Arrived[i]
          BY <1>5, <3>1
        <4>2. Untold(a.receipt) /\ Recalled(a) /\ a.receipt.id # c.receipt.id
          BY <1>3, <1>4, <4>1 DEF Waiting
        <4> QED
          BY <1>2, <1>6, <4>2 DEF Recalled
      <3> QED
        BY <3>1 DEF Waiting
    <2>2. InHand'
      <3>1. Sent(c.receipt) /\ told[c.receipt.id] = "none"
        BY <1>1 DEF Untold
      <3>2. Sent(c.receipt)' /\ Recalled(c)'
        BY <1>1, <1>2, <1>7, <3>1 DEF Recalled
      <3>3. Trying' => told'[c.receipt.id] = "none"
        BY <1>1, <3>1 DEF Trying
      <3> QED
        BY <1>2, <3>2, <3>3 DEF InHand, Sent, Recalled
    <2>3. Sending'
      <3> SUFFICES ASSUME sta = "sending"
                   PROVE  /\ told'[held[1].id] = "none" /\ held[1] \notin applied
                          /\ \A q \in requests : q.receipt # held[1]
        BY <1>1, <1>2 DEF Sending
      <3>1. /\ told[held[1].id] = "none" /\ held[1] \notin applied
            /\ \A q \in requests : q.receipt # held[1]
        BY <1>3 DEF Sending
      <3>2. held[1].id # c.receipt.id /\ held[1].id \in CommitIds
        BY <1>1, <1>3 DEF Apart, DeliveryIInv, Commits, Sent
      <3> QED
        BY <1>1, <3>1, <3>2, TellsFields
    <2>4. Asked'
      BY <1>1, <1>3, <1>7 DEF Asked, Sent
    <2> QED
      BY <2>1, <2>2, <2>3, <2>4 DEF Deliveries
  <1>9. Apart'
    <2>1. ASSUME NEW i \in DOMAIN Arrived', NEW j \in DOMAIN Arrived',
                 Arrived'[i].receipt.id = Arrived'[j].receipt.id
          PROVE  i = j
      <3>1. PICK a \in DOMAIN Arrived : /\ Arrived'[i] = Arrived[a]
                                        /\ a = IF i < k THEN i ELSE i + 1
        BY <1>5
      <3>2. PICK b \in DOMAIN Arrived : /\ Arrived'[j] = Arrived[b]
                                        /\ b = IF j < k THEN j ELSE j + 1
        BY <1>5
      <3>3. a = b
        BY <1>3, <2>1, <3>1, <3>2 DEF Apart
      <3>4. i \in Nat /\ j \in Nat /\ k \in Nat
        BY <1>1 DEF ArrivedLoses
      <3> QED
        BY <3>1, <3>2, <3>3, <3>4
    <2>2. \A i \in DOMAIN Arrived' : Arrived'[i].receipt.id # c.receipt.id
      BY <1>4, <1>5
    <2>3. sta' = "sending" => /\ \A i \in DOMAIN Arrived' : Arrived'[i].receipt.id # held'[1].id
                              /\ c.receipt.id # held'[1].id
      BY <1>1, <1>3, <1>5 DEF Apart
    <2> QED
      BY <1>2, <2>1, <2>2, <2>3 DEF Apart
  <1>10. Condemned'
    BY <1>1, <1>2, CondemnsNothing
  <1> QED
    BY <1>1, <1>8, <1>9, <1>10, TipStep

LEMMA GainedApart ==
  ASSUME NEW k, NEW d, ArrivedGains(k, d),
         \A i, j \in DOMAIN Arrived : Arrived[i].receipt.id = Arrived[j].receipt.id => i = j,
         \A i \in DOMAIN Arrived : Arrived[i].receipt.id # d.receipt.id
  PROVE  \A i, j \in DOMAIN Arrived' : Arrived'[i].receipt.id = Arrived'[j].receipt.id => i = j
  <1>1. /\ Len(Arrived) \in Nat /\ DOMAIN Arrived = 1..Len(Arrived) /\ k \in 1..(Len(Arrived) + 1)
        /\ DOMAIN Arrived' = 1..(Len(Arrived) + 1)
    BY DEF ArrivedGains
  <1>2. ASSUME NEW j \in DOMAIN Arrived', j # k
        PROVE  \E i \in DOMAIN Arrived : Arrived'[j] = Arrived[i] /\ i = IF j < k THEN j ELSE j - 1
    BY <1>1, <1>2 DEF ArrivedGains
  <1>3. Arrived'[k] = d /\ k \in DOMAIN Arrived'
    BY <1>1 DEF ArrivedGains
  <1>4. ASSUME NEW i \in DOMAIN Arrived', NEW j \in DOMAIN Arrived',
               Arrived'[i].receipt.id = Arrived'[j].receipt.id
        PROVE  i = j
    <2>1. CASE i = k \/ j = k
      BY <1>2, <1>3, <1>4, <2>1
    <2>2. CASE i # k /\ j # k
      <3>1. PICK a \in DOMAIN Arrived : Arrived'[i] = Arrived[a] /\ a = IF i < k THEN i ELSE i - 1
        BY <1>2, <2>2
      <3>2. PICK b \in DOMAIN Arrived : Arrived'[j] = Arrived[b] /\ b = IF j < k THEN j ELSE j - 1
        BY <1>2, <2>2
      <3>3. a = b /\ i \in Nat /\ j \in Nat /\ k \in Nat
        BY <1>1, <1>4, <3>1, <3>2
      <3> QED
        BY <2>2, <3>1, <3>2, <3>3
    <2> QED
      BY <2>1, <2>2
  <1> QED
    BY <1>4

(* A delivery that is given up where it is.                                *)
LEMMA GivenUpKeepsMail ==
  ASSUME DeliveryIInv, phase \notin {"idle", "exited"},
         UNCHANGED <<epoch, ledger, applied, requests, sent, pending, channel, current, sta, held>>,
         ~Trying', NEW v, Tells(current[1].receipt, v)
  PROVE  Deliveries' /\ Apart'
  <1>1. Waiting /\ InHand /\ Sending /\ Asked /\ Apart
    BY DEF DeliveryIInv, Deliveries
  <1>2. current # <<>> /\ Arrived' = Arrived
    BY InHandIsPast DEF Arrived
  <1>3. PICK r : r = current[1].receipt
    OBVIOUS
  <1>4. Waiting'
    <2>1. ASSUME NEW j \in DOMAIN Arrived, NEW a, a = Arrived[j]
          PROVE  Untold(a.receipt)' /\ Recalled(a)'
      <3>1. Untold(a.receipt) /\ Recalled(a) /\ a.receipt.id # r.id
        BY <1>1, <1>2, <1>3, <2>1 DEF Waiting, Apart
      <3>2. Untold(a.receipt)'
        BY <1>3, <3>1, TellsOthersNothing
      <3> QED
        BY <3>1, <3>2 DEF Recalled
    <2> QED
      BY <1>2, <2>1 DEF Waiting
  <1>5. InHand'
    BY <1>1, <1>2 DEF InHand, Sent, Recalled
  <1>6. Sending'
    <2> SUFFICES ASSUME sta = "sending"
                 PROVE  /\ told'[held[1].id] = "none" /\ held[1] \notin applied
                        /\ \A q \in requests : q.receipt # held[1]
      BY DEF Sending
    <2>1. /\ told[held[1].id] = "none" /\ held[1] \notin applied
          /\ \A q \in requests : q.receipt # held[1]
      BY <1>1 DEF Sending
    <2>2. held[1].id # r.id /\ held[1].id \in CommitIds
      BY <1>1, <1>2, <1>3 DEF Apart, DeliveryIInv, Commits, Sent
    <2> QED
      BY <1>3, <2>1, <2>2, TellsFields
  <1>7. Asked' /\ Apart'
    BY <1>1, <1>2 DEF Asked, Apart, Sent
  <1> QED
    BY <1>4, <1>5, <1>6, <1>7 DEF Deliveries

LEMMA CondemnEpochStepKeeps ==
  ASSUME DeliveryIInv, Telling(CondemnEpoch), UNCHANGED requests
  PROVE  DeliveryIInv'
  <1>1. /\ CondemnEpoch /\ phase = "fresh" /\ Mismatch /\ phase' = "condemn"
        /\ outcome' = "epochChanged"
        /\ UNCHANGED <<ledgerVars, tipVars, sequence, sent>>
        /\ UNCHANGED <<attached, sta, held, outstanding, channel, notice, invalidated, watermark,
                       pending, current, client>>
    BY DEF Telling, CondemnEpoch, Settle, staVars, sharedVars
  <1>2. OutboxIInv(Receipts)' /\ EngineMoves
    BY <1>1, CondemnEpochKeeps, NothingMovesOn DEF DeliveryIInv
  <1>3. Tells(current[1].receipt, "epochChanged")
    <2>1. told' = [told EXCEPT ![current[1].receipt.id] = "epochChanged"]
      BY <1>1 DEF Telling
    <2>2. Sent(current[1].receipt) /\ told[current[1].receipt.id] = "none"
      BY <1>1, InHandIsPast DEF DeliveryIInv, Deliveries, InHand, Trying
    <2> QED
      BY <2>1, <2>2 DEF Tells
  <1>4. Deliveries' /\ Apart'
    BY <1>1, <1>3, GivenUpKeepsMail DEF Trying, ledgerVars
  <1>5. Condemned'
    <2>1. client # NoClient /\ client # current[1].receipt.epoch
      BY <1>1 DEF Mismatch
    <2>2. current[1].receipt.epoch <= client /\ client \in 0..epoch
      BY <1>1, <2>1 DEF DeliveryIInv, Condemned
    <2>3. current[1].receipt.epoch \in 1..epoch /\ epoch \in Nat
      BY <1>1, InHandIsPast
    <2>4. current[1].receipt.epoch < epoch
      BY <2>1, <2>2, <2>3
    <2> QED
      BY <1>1, <2>4
      DEF DeliveryIInv, Condemned, CondemnationIsPast, CondemnedModelIsCaught, Rejects,
          ledgerVars, tipVars
  <1> QED
    BY <1>1, <1>2, <1>3, <1>4, <1>5, TipStep

(* A request is of the delivery in hand.                                   *)
LEMMA SendStepKeeps ==
  ASSUME DeliveryIInv, Send
  PROVE  DeliveryIInv'
  <1>1. /\ SendReceipt /\ phase \in {"cached", "fresh"} /\ phase' = "await"
        /\ requests' \in {requests,
             requests \cup {[receipt |-> current[1].receipt, attempt |-> current[1].attempts]}}
        /\ UNCHANGED <<ledgerVars, tipVars, sequence, historyVars>>
        /\ UNCHANGED <<attached, sta, held, outstanding, channel, notice, invalidated, watermark,
                       pending, current, outcome, client>>
    BY DEF Send, SendReceipt, staVars, sharedVars
  <1>2. OutboxIInv(Receipts) /\ OutboxIInv(Receipts)' /\ EngineMoves
    BY <1>1, SendReceiptKeeps, NothingMovesOn DEF DeliveryIInv
  <1>3. UNCHANGED <<epoch, ledger, applied, sent, told, Arrived>>
    BY <1>1 DEF ledgerVars, historyVars, Arrived
  <1>4. Waiting /\ InHand /\ Sending /\ Asked /\ Apart
    BY DEF DeliveryIInv, Deliveries
  <1>5. PICK n : /\ n = [receipt |-> current[1].receipt, attempt |-> current[1].attempts]
                 /\ n \in [receipt : Receipts, attempt : 1..(Len(RetryDelays) + 1)]
                 /\ n.receipt = current[1].receipt /\ Sent(n.receipt) /\ current # <<>>
    <2>1. /\ current # <<>> /\ Sent(current[1].receipt) /\ current[1].receipt \in Receipts
      BY <1>1, InHandIsPast
    <2>2. current[1] \in Taken(Receipts) /\ current[1].attempts >= 1 /\ Len(RetryDelays) \in Nat
      BY <1>1, <1>2, <2>1, OutboxNumbers DEF OutboxIInv, Places
    <2>3. current[1].attempts \in 1..(Len(RetryDelays) + 1)
      <3>1. current[1].attempts \in 0..(Len(RetryDelays) + 1)
        BY <2>2 DEF Taken
      <3> QED
        BY <2>2, <3>1
    <2> DEFINE n == [receipt |-> current[1].receipt, attempt |-> current[1].attempts]
    <2>4. n \in [receipt : Receipts, attempt : 1..(Len(RetryDelays) + 1)]
      BY <2>1, <2>3
    <2>5. n.receipt = current[1].receipt
      OBVIOUS
    <2> QED
      BY <2>1, <2>4, <2>5
  <1>6. Deliveries'
    <2>1. Waiting' /\ InHand'
      BY <1>1, <1>3, <1>4 DEF Waiting, InHand, Untold, Sent, Recalled, Trying
    <2>2. Asked'
      BY <1>1, <1>3, <1>4, <1>5 DEF Asked, Sent
    <2>3. Sending'
      <3> SUFFICES ASSUME sta = "sending"
                   PROVE  /\ told[held[1].id] = "none" /\ held[1] \notin applied
                          /\ \A q \in requests' : q.receipt # held[1]
        BY <1>1, <1>3 DEF Sending
      <3>1. n.receipt # held[1]
        BY <1>4, <1>5 DEF Apart
      <3> QED
        BY <1>1, <1>4, <1>5, <3>1 DEF Sending
    <2> QED
      BY <2>1, <2>2, <2>3 DEF Deliveries
  <1>7. Apart'
    BY <1>1, <1>3, <1>4 DEF Apart
  <1>8. Condemned'
    BY <1>1, <1>2, CondemnsNothing DEF tipVars
  <1> QED
    BY <1>1, <1>2, <1>3, <1>6, <1>7, <1>8, TipStep

(* A delivery that failed waits for another attempt, or is given up.       *)
LEMMA RetryStepKeeps ==
  ASSUME DeliveryIInv, Telling(Retry), UNCHANGED requests
  PROVE  DeliveryIInv'
  <1>1. /\ Retry /\ phase = "failed"
        /\ UNCHANGED <<ledgerVars, tipVars, sequence, sent>>
        /\ UNCHANGED <<attached, sta, held, outstanding, channel, notice, invalidated, watermark,
                       client>>
    BY DEF Telling, Retry, staVars, sharedVars
  <1>2. OutboxIInv(Receipts) /\ OutboxIInv(Receipts)' /\ EngineMoves
    BY <1>1, RetryKeeps, NothingMovesOn DEF DeliveryIInv
  <1>3. /\ current # <<>> /\ Sent(current[1].receipt) /\ told[current[1].receipt.id] = "none"
        /\ Recalled(current[1])
    BY <1>1, InHandIsPast DEF DeliveryIInv, Deliveries, InHand, Trying
  <1>4. Waiting /\ InHand /\ Sending /\ Asked /\ Apart
    BY DEF DeliveryIInv, Deliveries
  <1>5. CASE phase' = "idle"
    <2>1. PICK d : /\ pending' = Append(pending, d) /\ current' = <<>> /\ outcome' = outcome
                   /\ d.receipt = current[1].receipt /\ d.left = current[1].left
      <3>1. current[1] \in Taken(Receipts)
        BY <1>2, <1>3, OutboxNumbers
      <3>2. /\ pending' = Append(pending, [current[1] EXCEPT !.wait = RetryDelays[current[1].attempts]])
            /\ current' = <<>> /\ outcome' = outcome
        BY <1>1, <1>5 DEF Retry, Settle
      <3> DEFINE d == [current[1] EXCEPT !.wait = RetryDelays[current[1].attempts]]
      <3>3. d.receipt = current[1].receipt /\ d.left = current[1].left
        BY <3>1 DEF Taken
      <3> QED
        BY <3>2, <3>3
    <2>2. UNCHANGED <<told, epoch, ledger, applied>>
      BY <1>1, <1>5 DEF Telling, ledgerVars
    <2>3. ArrivedGains(Len(pending) + 1, d)
      BY <1>1, <1>2, <2>1, RetryGains
    <2>4. Untold(d.receipt) /\ Recalled(d)
      BY <1>3, <2>1 DEF Untold, Recalled
    <2>5. Deliveries'
      <3>1. Waiting'
        <4>1. ASSUME NEW j \in DOMAIN Arrived', NEW a, a = Arrived'[j]
              PROVE  Untold(a.receipt)' /\ Recalled(a)'
          <5>1. a = d \/ \E i \in DOMAIN Arrived : a = Arrived[i]
            BY <2>3, <4>1 DEF ArrivedGains
          <5>2. Untold(a.receipt) /\ Recalled(a)
            BY <1>4, <2>4, <5>1 DEF Waiting
          <5> QED
            BY <1>1, <2>2, <5>2 DEF Untold, Sent, Recalled
        <4> QED
          BY <4>1 DEF Waiting
      <3>2. InHand' /\ Sending' /\ Asked'
        BY <1>1, <1>4, <1>5, <2>1, <2>2 DEF InHand, Sending, Asked, Sent, Trying
      <3> QED
        BY <3>1, <3>2 DEF Deliveries
    <2>6. Apart'
      <3>1. \A i \in DOMAIN Arrived : Arrived[i].receipt.id # d.receipt.id
        BY <1>3, <1>4, <2>1 DEF Apart
      <3>2. sta = "sending" => d.receipt.id # held[1].id
        BY <1>3, <1>4, <2>1 DEF Apart
      <3>3. \A j \in DOMAIN Arrived' :
              Arrived'[j] = d \/ \E i \in DOMAIN Arrived : Arrived'[j] = Arrived[i]
        BY <2>3 DEF ArrivedGains
      <3>4. \A i, j \in DOMAIN Arrived' : Arrived'[i].receipt.id = Arrived'[j].receipt.id => i = j
        BY <1>4, <2>3, <3>1, GainedApart DEF Apart
      <3> QED
        BY <1>1, <1>4, <2>1, <3>2, <3>3, <3>4 DEF Apart
    <2>7. Condemned'
      BY <1>1, <1>2, <1>5, CondemnsNothing DEF tipVars
    <2> QED
      BY <1>1, <1>2, <2>2, <2>5, <2>6, <2>7, TipStep
  <1>6. CASE phase' # "idle"
    <2>1. /\ phase' = "notify" /\ outcome' \in {"expired", "failed"}
          /\ UNCHANGED <<pending, current>>
      BY <1>1, <1>6 DEF Retry, Settle
    <2>2. PICK v : Tells(current[1].receipt, v)
      BY <1>3, <2>1 DEF Telling, Tells
    <2>3. Deliveries' /\ Apart'
      BY <1>1, <2>1, <2>2, GivenUpKeepsMail DEF Trying, ledgerVars
    <2>4. Condemned'
      BY <1>1, <1>2, <2>1, CondemnsNothing DEF tipVars
    <2> QED
      BY <1>1, <1>2, <2>2, <2>3, <2>4, TipStep
  <1> QED
    BY <1>5, <1>6
-----------------------------------------------------------------------------
(* The engine's own steps: what was frozen stays so, and what was refused  *)
(* stays out of reach.                                                     *)
LEMMA CommitsKept ==
  ASSUME DeliveryIInv, EngineMoves, UNCHANGED <<sequence, sent, sta, held>>
  PROVE  Commits'
  <1>1. \A s : Frozen(s) => Frozen(s)'
    <2> SUFFICES ASSUME NEW s, Frozen(s) PROVE Frozen(s)'
      OBVIOUS
    <2>1. sequence \in Nat /\ IInv /\ Bounds
      BY DeliveryAssumption DEF DeliveryIInv, Commits
    <2> QED
      BY <2>1, FrozenStays
  <1>2. \A s : Sent(s) => Sent(s)'
    BY DEF Sent
  <1>3. \A i \in CommitIds : sent'[i] # <<>> =>
          sent'[i] = <<sent'[i][1]>> /\ sent'[i][1].id = i /\ Frozen(sent[i][1])'
    <2> SUFFICES ASSUME NEW i \in CommitIds, sent[i] # <<>>
                 PROVE  sent[i] = <<sent[i][1]>> /\ sent[i][1].id = i /\ Frozen(sent[i][1])'
      OBVIOUS
    <2>1. PICK s : s = sent[i][1] /\ sent[i] = <<s>> /\ s.id = i /\ Frozen(s)
      BY DEF DeliveryIInv, Commits
    <2>2. Frozen(s)' /\ s = sent'[i][1]
      BY <1>1, <2>1
    <2> QED
      BY <2>1, <2>2
  <1>4. sta = "writing" => Frozen(held[1])' /\ sent[held[1].id] = <<>>
    <2> SUFFICES ASSUME sta = "writing" PROVE Frozen(held[1])' /\ sent[held[1].id] = <<>>
      OBVIOUS
    <2>1. PICK s : s = held[1] /\ Frozen(s)
      BY DEF DeliveryIInv, Commits
    <2>2. Frozen(s)' /\ s = held'[1]
      BY <1>1, <2>1
    <2> QED
      BY <2>1, <2>2 DEF DeliveryIInv, Commits
  <1>5. sta = "sending" => Sent(held[1])'
    BY DEF DeliveryIInv, Commits, Sent
  <1> QED
    BY <1>3, <1>4, <1>5 DEF DeliveryIInv, Commits

LEMMA RefusedKept ==
  ASSUME DeliveryIInv, UNCHANGED <<epoch, sent, told, applied>>,
         UNCHANGED <<nextToken, clauseTokens, ledger>> \/ IssueToken \/ LedgerTick
  PROVE  Refused'
  <1>1. IInv
    BY DEF DeliveryIInv
  <1>2. ASSUME NEW i \in CommitIds, told[i] \in {"stale", "conflict", "invalidToken"},
               HasMaterial(i)
        PROVE  RefusedOne(i)'
    <2>1. PICK s : s = sent[i][1] /\ s \notin applied
                   /\ (s.epoch = epoch => \A t \in s.tokens : Guarded(s, t))
      BY <1>2 DEF DeliveryIInv, Refused, RefusedOne
    <2>2. ASSUME s.epoch = epoch, NEW t \in s.tokens PROVE Guarded(s, t)'
      <3>1. Guarded(s, t)
        BY <2>1, <2>2
      <3> QED
        BY <1>1, <3>1, GuardedStays
    <2>3. s = sent'[i][1]
      BY <2>1
    <2> QED
      BY <2>1, <2>2, <2>3 DEF RefusedOne, Guarded, AnsweredFor, Issued
  <1> QED
    BY <1>2 DEF Refused, HasMaterial

(* A clear or a reload moves the boundary, and nothing else.               *)
LEMMA BoundaryStepKeeps ==
  ASSUME DeliveryIInv, UNCHANGED <<outboxVars, requests, tipVars, sequence, historyVars>>,
         BeginClear \/ WipeLearners \/ EndClear \/ ReloadLearning
  PROVE  DeliveryIInv'
  <1>1. UNCHANGED <<epoch, nextToken, clauseTokens, ledger, applied, reapplied>>
    BY BoundaryLeaves
  <1>2. OutboxIInv(Receipts)' /\ IInv'
    BY OutboxStutter, BoundaryKeepsIInv DEF DeliveryIInv
  <1>3. /\ UNCHANGED <<attached, sta, held, channel, pending, current, phase, outcome, client>>
        /\ UNCHANGED <<invalidated, watermark, sent, told, offer, identity, tokens>>
    BY DEF outboxVars, staVars, sharedVars, workerVars, historyVars, tipVars
  <1>4. generation' \in 0..MaxGeneration /\ generation' >= generation
    BY LedgerAssumption
    DEF DeliveryIInv, Bounds, BeginClear, WipeLearners, EndClear, ReloadLearning
  <1>5. EngineMoves /\ Bounds'
    BY <1>1, <1>4, LedgerAssumption DEF EngineMoves, DeliveryIInv, Bounds
  <1>6. Sessions' /\ Commits'
    BY <1>3, <1>5, SessionsRest, CommitsKept
  <1>7. Deliveries' /\ Apart'
    BY <1>1, <1>3, MailRests DEF Trying
  <1>8. Telltale' /\ Entries'
    BY <1>1, <1>3 DEF DeliveryIInv, Telltale, Entries, Entry, Sent
  <1>9. Refused' /\ Condemned'
    BY <1>1, <1>3, <1>5, RefusedKept, CondemnsNothing
  <1> QED
    BY <1>2, <1>5, <1>6, <1>7, <1>8, <1>9 DEF DeliveryIInv

(* A receipt that was sent names only tokens that were issued before it.   *)
LEMMA ConvertKeeps ==
  ASSUME DeliveryIInv, ConvertInSession
  PROVE  DeliveryIInv'
  <1> DEFINE new == <<epoch, nextToken + 1>>
  <1>1. /\ IssueToken /\ offer # <<>> /\ offer[1].epoch = epoch
        /\ offer' = <<[offer[1] EXCEPT !.tokens = DOMAIN clauseTokens' \ DOMAIN clauseTokens]>>
        /\ UNCHANGED <<outboxVars, requests, identity, tokens, sequence, historyVars>>
    BY DEF ConvertInSession
  <1>2. OutboxIInv(Receipts)' /\ IInv /\ IInv'
    BY <1>1, OutboxStutter, IssueTokenKeepsIInv DEF DeliveryIInv
  <1>3. /\ UNCHANGED <<epoch, generation, ledger, applied, reapplied>>
        /\ nextToken < MaxToken /\ nextToken' \in {nextToken, nextToken + 1}
        /\ \A t \in DOMAIN clauseTokens' :
             \/ t \in DOMAIN clauseTokens /\ clauseTokens'[t] = clauseTokens[t]
             \/ t = new /\ nextToken' = nextToken + 1
    BY <1>1, <1>2, IssueFields
  <1>4. /\ UNCHANGED <<attached, sta, held, channel, pending, current, phase, outcome, client>>
        /\ UNCHANGED <<invalidated, watermark, sent, told>>
    BY <1>1 DEF outboxVars, staVars, sharedVars, workerVars, historyVars
  <1>5. Bounds' /\ EngineMoves /\ epoch \in 1..MaxEpoch /\ nextToken \in 0..MaxToken
    BY <1>3, LedgerAssumption DEF DeliveryIInv, Bounds, EngineMoves
  <1>6. Sessions'
    <2>1. Given(offer[1].epoch, offer[1].generation, offer[1].tokens)
      BY <1>1 DEF DeliveryIInv, Sessions
    <2>2. PICK T : T = DOMAIN clauseTokens' \ DOMAIN clauseTokens
      OBVIOUS
    <2>3. T = {} \/ (T = {new} /\ nextToken' = nextToken + 1)
      BY <1>3, <2>2
    <2>4. T \in TokenSets
      <3>1. nextToken + 1 \in 1..MaxToken
        BY <1>3, <1>5, LedgerAssumption
      <3> QED
        BY <1>5, <2>3, <3>1 DEF TokenSets
    <2>5. \A t \in T : Issued(t)'
      BY <1>3, <1>5, <2>3, LedgerAssumption DEF Issued
    <2>6. PICK o : o = offer'[1]
      OBVIOUS
    <2>7. o.epoch = epoch /\ o.generation = offer[1].generation /\ o.tokens = T
      <3>1. o = [offer[1] EXCEPT !.tokens = T]
        BY <1>1, <2>2, <2>6
      <3>2. offer[1] \in OfferType
        BY <1>1 DEF DeliveryIInv, Sessions
      <3> QED
        BY <1>1, <3>1, <3>2 DEF OfferType
    <2>8. Given(o.epoch, o.generation, o.tokens)' /\ o \in OfferType
      <3>1. offer[1] \in OfferType
        BY <1>1 DEF DeliveryIInv, Sessions
      <3>2. o = [offer[1] EXCEPT !.tokens = T]
        BY <1>1, <2>2, <2>6
      <3>3. o \in OfferType
        BY <2>4, <3>1, <3>2 DEF OfferType
      <3> QED
        BY <1>1, <1>3, <2>1, <2>4, <2>5, <2>7, <3>3 DEF Given, IsPast
    <2>9. identity' # <<>> => Given(identity[1].epoch, identity[1].generation, tokens)'
      <3> SUFFICES ASSUME identity # <<>>
                   PROVE  Given(identity[1].epoch, identity[1].generation, tokens)'
        BY <1>1
      <3>1. Given(identity[1].epoch, identity[1].generation, tokens)
        BY DEF DeliveryIInv, Sessions
      <3> QED
        BY <1>1, <1>3, <1>5, <3>1, LedgerAssumption DEF Given, IsPast, Issued
    <2> QED
      BY <2>6, <2>8, <2>9 DEF Sessions, Given, IsPast, Issued, OfferType
  <1>7. Commits'
    BY <1>1, <1>4, <1>5, CommitsKept
  <1>8. Deliveries' /\ Apart'
    BY <1>1, <1>3, <1>4, MailRests DEF Trying
  <1>9. Telltale' /\ Refused' /\ Condemned'
    BY <1>1, <1>3, <1>4, <1>5, RefusedKept, CondemnsNothing DEF DeliveryIInv, Telltale
  <1>10. Entries'
    <2>1. ASSUME NEW i \in DOMAIN ledger PROVE Entry(i)'
      <3>1. Entry(i)
        BY DEF DeliveryIInv, Entries
      <3>2. Sent(ledger[i].receipt) /\ ledger[i].receipt.epoch = epoch
        BY <3>1 DEF Entry
      <3>3. \A t \in ledger[i].receipt.tokens : Issued(t)
        BY <3>2, SentIsFrozen
      <3>4. \A t \in ledger[i].receipt.tokens : t \in DOMAIN clauseTokens' =>
              t \in DOMAIN clauseTokens /\ clauseTokens'[t] = clauseTokens[t]
        BY <1>3, <1>5, <3>3, LedgerAssumption DEF Issued
      <3> QED
        BY <1>3, <1>4, <3>1, <3>4 DEF Entry, Sent
    <2> QED
      BY <1>3, <1>4, <2>1 DEF DeliveryIInv, Entries, Sent
  <1> QED
    BY <1>2, <1>5, <1>6, <1>7, <1>8, <1>9, <1>10 DEF DeliveryIInv

(* Time passes for both sides at once: what a delivery has left shrinks as *)
(* the entry that remembers it ages.                                       *)
LEMMA RecalledElapses ==
  ASSUME DeliveryIInv, LedgerTick, NEW n, NEW d \in [receipt : Receipts, left : 0..Lifetime,
                                                     wait : Nat, attempts : n],
         Recalled(d), NEW e, e = Elapse(d)
  PROVE  e.receipt = d.receipt /\ Recalled(e)'
  <1>1. /\ UNCHANGED <<epoch, applied>> /\ DOMAIN ledger' = DOMAIN ledger
        /\ \A i \in DOMAIN ledger : /\ ledger'[i].receipt = ledger[i].receipt
                                    /\ ledger'[i].outcome = ledger[i].outcome
                                    /\ ledger'[i].age = AgeBy1(ledger[i].age, LedgerTTL)
    BY TickFields DEF DeliveryIInv
  <1>2. /\ e.receipt = d.receipt /\ d.left \in Nat /\ Lifetime \in Nat
        /\ e.left = IF d.left > 0 THEN d.left - 1 ELSE 0
    BY OutboxAssumption DEF Elapse
  <1>3. ASSUME d.receipt \in applied, d.receipt.epoch = epoch, e.left > 0
        PROVE  /\ d.receipt.id \in DOMAIN ledger'
               /\ ledger'[d.receipt.id].receipt = d.receipt
               /\ ledger'[d.receipt.id].outcome = "applied"
               /\ ledger'[d.receipt.id].age + e.left <= Lifetime
    <2>1. d.left > 0 /\ e.left = d.left - 1
      BY <1>2, <1>3
    <2>2. /\ d.receipt.id \in DOMAIN ledger
          /\ ledger[d.receipt.id].receipt = d.receipt
          /\ ledger[d.receipt.id].outcome = "applied"
          /\ ledger[d.receipt.id].age + d.left <= Lifetime
      BY <1>3, <2>1 DEF Recalled
    <2>3. ledger[d.receipt.id].age \in 0..LedgerTTL /\ LedgerTTL \in Nat
      BY <2>2, LedgerNumbers DEF DeliveryIInv
    <2>4. ledger'[d.receipt.id].age <= ledger[d.receipt.id].age + 1
          /\ ledger'[d.receipt.id].age \in Nat
      BY <1>1, <2>2, <2>3 DEF AgeBy1
    <2> QED
      BY <1>1, <1>2, <2>1, <2>2, <2>3, <2>4
  <1> QED
    BY <1>1, <1>2, <1>3 DEF Recalled

LEMMA TickKeeps ==
  ASSUME DeliveryIInv, Tick
  PROVE  DeliveryIInv'
  <1>1. /\ OutboxTick /\ LedgerTick /\ UNCHANGED <<requests, tipVars, sequence, historyVars>>
        /\ UNCHANGED <<attached, sta, held, invalidated, watermark, phase, outcome, client>>
    BY DEF Tick, OutboxTick, staVars
  <1>2. OutboxIInv(Receipts) /\ OutboxIInv(Receipts)' /\ IInv /\ IInv'
    BY <1>1, OutboxTickKeeps, TickKeepsIInv DEF DeliveryIInv
  <1>3. /\ UNCHANGED <<epoch, generation, nextToken, applied, reapplied>>
        /\ DOMAIN clauseTokens' = DOMAIN clauseTokens /\ DOMAIN ledger' = DOMAIN ledger
        /\ \A t \in DOMAIN clauseTokens :
             clauseTokens'[t].age = AgeBy1(clauseTokens[t].age, TokenTTL)
        /\ \A i \in DOMAIN ledger : /\ ledger'[i].receipt = ledger[i].receipt
                                    /\ ledger'[i].outcome = ledger[i].outcome
                                    /\ ledger'[i].age = AgeBy1(ledger[i].age, LedgerTTL)
    BY <1>1, <1>2, TickFields
  <1>4. /\ DOMAIN Arrived' = DOMAIN Arrived
        /\ \A i \in DOMAIN Arrived : Arrived'[i] = Elapse(Arrived[i])
        /\ current = <<>> <=> current' = <<>>
        /\ current # <<>> => current'[1] = Elapse(current[1])
    BY <1>1, <1>2, TickElapses
  <1>5. UNCHANGED <<offer, identity, tokens, sent, told>>
    BY <1>1 DEF tipVars, historyVars
  <1>6. Bounds' /\ EngineMoves
    BY <1>3, LedgerAssumption DEF DeliveryIInv, Bounds, EngineMoves
  <1>7. Sessions' /\ Commits'
    BY <1>1, <1>5, <1>6, SessionsRest, CommitsKept
  <1>8. Waiting /\ InHand /\ Sending /\ Asked /\ Apart
    BY DEF DeliveryIInv, Deliveries
  <1>9. ASSUME NEW i \in DOMAIN Arrived, NEW a, a = Arrived'[i]
        PROVE  a.receipt = Arrived[i].receipt /\ Recalled(a)'
    <2>1. Arrived[i] \in Queued(Receipts) /\ a = Elapse(Arrived[i])
      BY <1>2, <1>4, <1>9, ArrivedSeq DEF ArrivedShape
    <2>2. Recalled(Arrived[i])
      BY <1>8 DEF Waiting
    <2> QED
      BY <1>1, <2>1, <2>2, RecalledElapses DEF Queued
  <1>10. ASSUME current # <<>>, NEW c, c = current'[1]
         PROVE  c.receipt = current[1].receipt /\ Recalled(c)'
    <2>1. current[1] \in Taken(Receipts) /\ c = Elapse(current[1])
      BY <1>2, <1>4, <1>10, OutboxNumbers
    <2>2. Recalled(current[1])
      BY <1>8, <1>10 DEF InHand
    <2> QED
      BY <1>1, <2>1, <2>2, RecalledElapses DEF Taken
  <1>11. current # <<>> => current'[1].receipt = current[1].receipt
    BY <1>10
  <1>12. Deliveries'
    <2>1. Waiting'
      <3>1. ASSUME NEW i \in DOMAIN Arrived', NEW a, a = Arrived'[i]
            PROVE  Untold(a.receipt)' /\ Recalled(a)'
        BY <1>4, <1>5, <1>8, <1>9, <3>1 DEF Waiting, Untold, Sent
      <3> QED
        BY <3>1 DEF Waiting
    <2>2. InHand'
      <3>1. ASSUME current' # <<>>, NEW c, c = current'[1]
            PROVE  Sent(c.receipt)' /\ Recalled(c)'
        BY <1>4, <1>5, <1>8, <1>10, <3>1 DEF InHand, Sent
      <3>2. Trying' => told'[current'[1].receipt.id] = "none"
        BY <1>1, <1>5, <1>8, <1>11 DEF InHand, Trying, DeliveryIInv, OutboxIInv, OutboxTypeOK
      <3> QED
        BY <3>1, <3>2 DEF InHand
    <2>3. Sending' /\ Asked'
      BY <1>1, <1>3, <1>5, <1>8 DEF Sending, Asked, Sent
    <2> QED
      BY <2>1, <2>2, <2>3 DEF Deliveries
  <1>13. Apart'
    <2>1. \A i \in DOMAIN Arrived : Arrived'[i].receipt = Arrived[i].receipt
      BY <1>9
    <2> QED
      BY <1>1, <1>4, <1>8, <1>11, <2>1 DEF Apart
  <1>14. Telltale' /\ Refused'
    BY <1>1, <1>3, <1>5, RefusedKept DEF DeliveryIInv, Telltale
  <1>15. Entries'
    <2>1. ASSUME NEW i \in DOMAIN ledger PROVE Entry(i)'
      <3>1. Entry(i) /\ ledger[i].age \in 0..LedgerTTL
        BY <1>2, LedgerNumbers DEF DeliveryIInv, Entries
      <3>2. ledger'[i].receipt = ledger[i].receipt /\ ledger'[i].outcome = ledger[i].outcome
            /\ ledger'[i].age = AgeBy1(ledger[i].age, LedgerTTL)
        BY <1>3
      <3>3. ASSUME NEW t \in ledger[i].receipt.tokens, t \in DOMAIN clauseTokens
            PROVE  clauseTokens'[t].age >= TokenTTL \/ clauseTokens'[t].age >= ledger'[i].age
        <4>1. clauseTokens[t].age >= TokenTTL \/ clauseTokens[t].age >= ledger[i].age
          BY <3>1, <3>3 DEF Entry
        <4>2. clauseTokens[t].age \in 0..TokenTTL /\ TokenTTL \in Nat /\ LedgerTTL \in Nat
              /\ TokenTTL <= LedgerTTL
              /\ clauseTokens'[t].age = AgeBy1(clauseTokens[t].age, TokenTTL)
          BY <1>2, <1>3, <3>3, LedgerNumbers
        <4> QED
          BY <3>1, <3>2, <4>1, <4>2 DEF AgeBy1
      <3> QED
        BY <1>3, <1>5, <3>1, <3>2, <3>3 DEF Entry, Sent
    <2> QED
      BY <1>3, <1>5, <2>1 DEF DeliveryIInv, Entries, Sent
  <1>16. Condemned'
    <2>1. phase \in {"fresh", "condemn"} => current'[1].receipt = current[1].receipt
      BY <1>11 DEF DeliveryIInv, OutboxIInv, OutboxTypeOK
    <2> QED
      BY <1>1, <1>5, <1>6, <2>1, CondemnsNothing
  <1> QED
    BY <1>2, <1>6, <1>7, <1>12, <1>13, <1>14, <1>15, <1>16 DEF DeliveryIInv

(* A restart forgets everything the engine knew, and with it every reason  *)
(* to expect anything of a receipt of its epoch.                           *)
LEMMA RestartStepKeeps ==
  ASSUME DeliveryIInv, EngineRestarts
  PROVE  DeliveryIInv'
  <1>1. /\ Restart /\ requests' = {} /\ UNCHANGED <<outboxVars, tipVars, sequence, historyVars>>
        /\ epoch < MaxEpoch /\ epoch' = epoch + 1 /\ generation' = 0 /\ nextToken' = 0
        /\ DOMAIN ledger' = {} /\ UNCHANGED <<applied, reapplied>>
    BY DEF EngineRestarts, Restart
  <1>2. OutboxIInv(Receipts)' /\ IInv'
    BY <1>1, OutboxStutter, RestartKeepsIInv DEF DeliveryIInv
  <1>3. /\ UNCHANGED <<attached, sta, held, channel, pending, current, phase, outcome, client>>
        /\ UNCHANGED <<invalidated, watermark, sent, told, offer, identity, tokens>>
        /\ Arrived' = Arrived
    BY <1>1 DEF outboxVars, staVars, sharedVars, workerVars, historyVars, tipVars, Arrived
  <1>4. Bounds' /\ EngineMoves
    BY <1>1, LedgerAssumption DEF DeliveryIInv, Bounds, EngineMoves
  <1>5. Sessions' /\ Commits'
    BY <1>1, <1>3, <1>4, SessionsRest, CommitsKept
  <1>6. \A s : Sent(s) => s.epoch # epoch'
    <2> SUFFICES ASSUME NEW s, Sent(s) PROVE s.epoch # epoch + 1
      BY <1>1
    <2>1. s.epoch \in 1..epoch /\ epoch \in Nat
      BY SentIsFrozen, LedgerAssumption DEF DeliveryIInv, Bounds
    <2> QED
      BY <2>1
  <1>7. Waiting /\ InHand /\ Sending /\ Asked /\ Apart
    BY DEF DeliveryIInv, Deliveries
  <1>8. Deliveries'
    <2>1. Waiting'
      BY <1>3, <1>6, <1>7 DEF Waiting, Untold, Sent, Recalled
    <2>2. InHand'
      BY <1>3, <1>6, <1>7 DEF InHand, Sent, Recalled, Trying
    <2>3. Sending' /\ Asked'
      BY <1>1, <1>3, <1>7 DEF Sending, Asked
    <2> QED
      BY <2>1, <2>2, <2>3 DEF Deliveries
  <1>9. Apart' /\ Telltale'
    BY <1>3, <1>7 DEF Apart, DeliveryIInv, Telltale
  <1>10. Entries'
    BY <1>1, <1>3 DEF DeliveryIInv, Entries, Sent
  <1>11. Refused'
    <2>1. ASSUME NEW i \in CommitIds, told[i] \in {"stale", "conflict", "invalidToken"},
                 HasMaterial(i)
          PROVE  sent[i][1] \notin applied /\ sent[i][1].epoch # epoch'
      <3>1. Sent(sent[i][1])
        BY <2>1 DEF DeliveryIInv, Commits, HasMaterial, Sent
      <3> QED
        BY <1>6, <2>1, <3>1 DEF DeliveryIInv, Refused, RefusedOne
    <2> QED
      BY <1>1, <1>3, <2>1 DEF Refused, RefusedOne, HasMaterial
  <1>12. Condemned'
    BY <1>3, <1>4, CondemnsNothing
  <1> QED
    BY <1>2, <1>4, <1>5, <1>8, <1>9, <1>10, <1>11, <1>12 DEF DeliveryIInv
-----------------------------------------------------------------------------
(* What an answer of the engine does to the two histories.                 *)
LEMMA AnswerLearns ==
  ASSUME NEW r, NEW v, CommitReceipt(r, v)
  PROVE  \/ UNCHANGED <<applied, reapplied>>
         \/ /\ v = "applied" /\ applied' = applied \cup {r}
            /\ reapplied' = IF r \in applied THEN reapplied \cup {r} ELSE reapplied
            /\ r.epoch = epoch /\ r.id \notin Remembered /\ "applied" \in ApplyOutcomes(r)
            /\ ledger' = Record(r, "applied")
  BY DEF CommitReceipt, AnswerReplay, AnswerFull, Apply

(* A receipt whose tokens are all guarded is answered from the ledger, or  *)
(* its tokens are gone: apply() does not accept it again.                  *)
LEMMA GuardedIsNotApplied ==
  ASSUME IInv, NEW s \in Receipts, s.tokens # {}, s.id \notin Remembered,
         \A t \in s.tokens : Guarded(s, t)
  PROVE  "applied" \notin ApplyOutcomes(s)
  <1> SUFFICES ASSUME "applied" \in ApplyOutcomes(s) PROVE FALSE
    OBVIOUS
  <1>1. PICK t \in s.tokens : t \in DOMAIN clauseTokens /\ clauseTokens[t].age < TokenTTL
    BY AppliedHasLiveTokens DEF IInv
  <1>2. clauseTokens[t].age \in 0..TokenTTL /\ TokenTTL \in Nat /\ LedgerTTL \in Nat
        /\ TokenTTL <= LedgerTTL
    BY <1>1, LedgerNumbers
  <1>3. s.id \in DOMAIN ledger /\ clauseTokens[t].age >= ledger[s.id].age
    BY <1>1, <1>2 DEF Guarded, AnsweredFor
  <1>4. ledger[s.id].age \in 0..LedgerTTL
    BY <1>3, LedgerNumbers
  <1> QED
    BY <1>1, <1>2, <1>3, <1>4 DEF Remembered

(* As long as a delivery may be answered, what was answered for its        *)
(* receipt is remembered: a receipt never outlives its ledger entry.       *)
LEMMA RecalledAnswered ==
  ASSUME DeliveryIInv, NEW r \in Receipts, NEW v \in Outcomes, CommitReceipt(r, v),
         NEW d, d.left \in 0..Lifetime, Recalled(d)
  PROVE  Recalled(d)'
  <1>1. /\ UNCHANGED epoch
        /\ \A i \in DOMAIN ledger : ledger[i].age < LedgerTTL =>
             i \in DOMAIN ledger' /\ ledger'[i] = ledger[i]
    BY AnswerFields DEF DeliveryIInv
  <1>2. Lifetime \in Nat /\ LedgerTTL \in Nat /\ Lifetime <= LedgerTTL /\ d.left \in Nat
    BY OutboxAssumption, LedgerAssumption, DeliveryAssumption
  <1>3. ASSUME d.receipt \in applied', d.receipt.epoch = epoch, d.left > 0
        PROVE  /\ d.receipt.id \in DOMAIN ledger'
               /\ ledger'[d.receipt.id].receipt = d.receipt
               /\ ledger'[d.receipt.id].outcome = "applied"
               /\ ledger'[d.receipt.id].age + d.left <= Lifetime
    <2>1. CASE d.receipt \in applied
      <3>1. /\ d.receipt.id \in DOMAIN ledger
            /\ ledger[d.receipt.id].receipt = d.receipt
            /\ ledger[d.receipt.id].outcome = "applied"
            /\ ledger[d.receipt.id].age + d.left <= Lifetime
        BY <1>3, <2>1 DEF Recalled
      <3>2. ledger[d.receipt.id].age \in 0..LedgerTTL
        BY <3>1, LedgerNumbers DEF DeliveryIInv
      <3>3. ledger[d.receipt.id].age < LedgerTTL
        BY <1>2, <1>3, <3>1, <3>2
      <3> QED
        BY <1>1, <3>1, <3>3
    <2>2. CASE d.receipt \notin applied
      <3>1. d.receipt = r /\ ledger' = Record(r, "applied")
        BY <1>3, <2>2, AnswerLearns
      <3>2. r.id \in DOMAIN ledger'
            /\ ledger'[r.id] = [receipt |-> r, outcome |-> "applied", age |-> 0]
        BY <3>1 DEF Record
      <3> QED
        BY <1>2, <3>1, <3>2
    <2> QED
      BY <2>1, <2>2
  <1> QED
    BY <1>1, <1>3 DEF Recalled

LEMMA EntriesAnswered ==
  ASSUME DeliveryIInv, NEW r \in Receipts, NEW v \in Outcomes, CommitReceipt(r, v), Sent(r),
         UNCHANGED sent
  PROVE  Entries'
  <1>1. /\ UNCHANGED <<epoch, clauseTokens>>
        /\ \A i \in DOMAIN ledger' :
             \/ i \in DOMAIN ledger /\ ledger'[i] = ledger[i]
             \/ /\ i = r.id /\ r.epoch = epoch /\ r.id \notin Remembered
                /\ v \in ApplyOutcomes(r)
                /\ ledger'[i] = [receipt |-> r, outcome |-> v, age |-> 0]
    BY AnswerFields DEF DeliveryIInv
  <1>2. /\ \A i \in DOMAIN ledger : Entry(i)
        /\ \A s \in applied : Sent(s)
        /\ reapplied \subseteq applied
    BY DEF DeliveryIInv, Entries
  <1>3. \/ UNCHANGED <<applied, reapplied>>
        \/ /\ v = "applied" /\ applied' = applied \cup {r}
           /\ reapplied' = IF r \in applied THEN reapplied \cup {r} ELSE reapplied
    BY AnswerLearns
  <1>4. (\A s \in applied' : Sent(s)) /\ reapplied' \subseteq applied' /\ applied \subseteq applied'
    BY <1>2, <1>3
  <1>5. ASSUME NEW i \in DOMAIN ledger' PROVE Entry(i)'
    <2>1. CASE i \in DOMAIN ledger /\ ledger'[i] = ledger[i]
      BY <1>1, <1>2, <1>4, <2>1 DEF Entry, Sent
    <2>2. CASE /\ i = r.id /\ r.epoch = epoch /\ r.id \notin Remembered
               /\ v \in ApplyOutcomes(r)
               /\ ledger'[i] = [receipt |-> r, outcome |-> v, age |-> 0]
      <3>1. /\ ledger'[i].receipt = r /\ ledger'[i].outcome = v /\ ledger'[i].age = 0
        BY <2>2
      <3>2. v # "alreadyProcessed"
        BY <2>2 DEF ApplyOutcomes, TokenRefusal
      <3>3. v = "applied" => r \in applied'
        <4> SUFFICES ASSUME v = "applied" PROVE r \in applied'
          OBVIOUS
        <4>1. r.id \notin Remembered /\ r.epoch = epoch
          BY <2>2
        <4>2. ~LedgerFull
          BY <4>1 DEF CommitReceipt, AnswerFull
        <4>3. Apply(r, v)
          BY <4>1, <4>2 DEF CommitReceipt
        <4> QED
          BY <4>3 DEF Apply
      <3>4. \A t \in DOMAIN clauseTokens : clauseTokens[t].age >= 0
        BY LedgerNumbers DEF DeliveryIInv
      <3> QED
        BY <1>1, <2>2, <3>1, <3>2, <3>3, <3>4 DEF Entry, Sent
    <2> QED
      BY <1>1, <2>1, <2>2
  <1> QED
    BY <1>4, <1>5 DEF Entries, Sent

(* A refusal is honest: the receipt was not applied, and its tokens will   *)
(* not let it be.                                                          *)
LEMMA RefusalIsFinal ==
  ASSUME DeliveryIInv, NEW r \in Receipts, NEW v, v \in {"stale", "conflict", "invalidToken"},
         CommitReceipt(r, v), Sent(r),
         NEW d, d.receipt = r, d.left \in Nat, d.left > 0, Recalled(d)
  PROVE  r \notin applied' /\ r.epoch = epoch /\ \A t \in r.tokens : Guarded(r, t)'
  <1>1. r.epoch = epoch
    BY DEF CommitReceipt
  <1>2. v \in Outcomes /\ IInv
    BY DEF Outcomes, DeliveryIInv
  <1>3. \A t \in r.tokens : Issued(t)
    BY <1>1, SentIsFrozen
  <1>4. applied' = applied
    BY AnswerLearns
  <1>5. r.id \in DOMAIN ledger => ledger[r.id].receipt = r
    BY SentIsOne DEF DeliveryIInv, Entries, Entry
  <1>6. CASE r.id \in Remembered
    <2>1. r.id \in DOMAIN ledger /\ ledger[r.id].receipt = r
      BY <1>5, <1>6 DEF Remembered
    <2>2. v = Replay(r)
      BY <1>1, <1>6 DEF CommitReceipt, AnswerReplay
    <2>3. ledger[r.id].outcome # "applied"
      BY <2>1, <2>2 DEF Replay
    <2>4. r \notin applied
      BY <1>1, <2>3 DEF Recalled
    <2>5. ASSUME NEW t \in r.tokens PROVE Guarded(r, t)'
      <3>1. Entry(r.id)
        BY <2>1 DEF DeliveryIInv, Entries
      <3>2. Guarded(r, t)
        BY <1>3, <2>1, <2>5, <3>1 DEF Entry, Guarded, AnsweredFor
      <3>3. epoch' = epoch
        BY DEF CommitReceipt
      <3> QED
        BY <1>2, <3>2, <3>3, GuardedStays
    <2> QED
      BY <1>1, <1>4, <2>4, <2>5
  <1>7. CASE r.id \notin Remembered
    <2>1. ~LedgerFull
      BY <1>1, <1>7 DEF CommitReceipt, AnswerFull
    <2>2. ledger' = Record(r, v) /\ UNCHANGED <<epoch, nextToken, clauseTokens>>
      BY <1>1, <1>7, <2>1 DEF CommitReceipt, Apply
    <2>3. r \notin applied
      <3> SUFFICES ASSUME r \in applied PROVE FALSE
        OBVIOUS
      <3>1. r.id \in DOMAIN ledger /\ ledger[r.id].age + d.left <= Lifetime
        BY <1>1 DEF Recalled
      <3>2. ledger[r.id].age \in 0..LedgerTTL /\ Lifetime <= LedgerTTL /\ LedgerTTL \in Nat
            /\ Lifetime \in Nat
        BY <1>2, <3>1, LedgerNumbers, DeliveryAssumption, OutboxAssumption
      <3> QED
        BY <1>7, <3>1, <3>2 DEF Remembered
    <2>4. ASSUME NEW t \in r.tokens PROVE Guarded(r, t)'
      <3>1. r.id \in DOMAIN ledger' /\ ledger'[r.id].receipt = r /\ ledger'[r.id].age = 0
        BY <2>2 DEF Record
      <3>2. t \in DOMAIN clauseTokens => clauseTokens[t].age >= 0
        BY <1>2, LedgerNumbers
      <3> QED
        BY <1>3, <2>2, <2>4, <3>1, <3>2 DEF Guarded, AnsweredFor, Issued
    <2> QED
      BY <1>1, <1>4, <2>3, <2>4
  <1> QED
    BY <1>6, <1>7

(* A receipt refused to the client stays refused when the engine answers   *)
(* a late request, of this receipt or of another.                          *)
LEMMA RefusedStays ==
  ASSUME DeliveryIInv, NEW r \in Receipts, NEW v \in Outcomes, CommitReceipt(r, v),
         UNCHANGED sent, NEW i \in CommitIds,
         told[i] \in {"stale", "conflict", "invalidToken"}, HasMaterial(i)
  PROVE  RefusedOne(i)'
  <1>1. PICK s : s = sent[i][1] /\ s \notin applied
                 /\ (s.epoch = epoch => \A t \in s.tokens : Guarded(s, t))
    BY DEF DeliveryIInv, Refused, RefusedOne
  <1>2. s \in Receipts /\ s.tokens # {}
    <2>1. Sent(s)
      BY <1>1 DEF DeliveryIInv, Commits, HasMaterial, Sent
    <2> QED
      BY <1>1, <2>1, SentIsFrozen DEF HasMaterial
  <1>3. IInv /\ epoch' = epoch
    BY DEF DeliveryIInv, CommitReceipt
  <1>4. s \notin applied'
    <2>1. CASE applied' = applied
      BY <1>1, <2>1
    <2>2. CASE /\ applied' = applied \cup {r} /\ r.epoch = epoch /\ r.id \notin Remembered
               /\ "applied" \in ApplyOutcomes(r)
      BY <1>1, <1>2, <1>3, <2>2, GuardedIsNotApplied
    <2> QED
      BY <2>1, <2>2, AnswerLearns
  <1>5. ASSUME s.epoch = epoch, NEW t \in s.tokens PROVE Guarded(s, t)'
    BY <1>1, <1>3, <1>5, GuardedStays
  <1>6. s = sent'[i][1]
    BY <1>1
  <1> QED
    BY <1>3, <1>4, <1>5, <1>6 DEF RefusedOne, Guarded, AnsweredFor, Issued

LEMMA AnswersFields ==
  ASSUME DeliveryIInv, NEW q \in requests, NEW v \in Outcomes, EngineAnswers(q, v)
  PROVE  /\ q.receipt \in Receipts /\ Sent(q.receipt) /\ requests' = requests \ {q}
         /\ CommitReceipt(q.receipt, v)
         /\ UNCHANGED <<tipVars, sequence, sent>>
         /\ UNCHANGED <<attached, sta, held, outstanding, channel, notice, invalidated, watermark,
                        pending, current, client>>
         /\ \/ /\ phase = "await" /\ q.receipt = current[1].receipt /\ current[1].left > 0
               /\ phase' \notin {"cached", "fresh", "await", "failed"} /\ outcome' = v
               /\ Answered(v) /\ told' = [told EXCEPT ![q.receipt.id] = v]
            \/ UNCHANGED <<outboxVars, told>>
  <1>1. Sent(q.receipt)
    BY DEF DeliveryIInv, Deliveries, Asked
  <1>2. q.receipt \in Receipts
    BY <1>1, SentIsFrozen
  <1>3. /\ requests' = requests \ {q} /\ CommitReceipt(q.receipt, v)
        /\ UNCHANGED <<tipVars, sequence, sent>>
        /\ \/ /\ phase = "await" /\ q = AwaitedRequest /\ Answered(v)
              /\ told' = [told EXCEPT ![q.receipt.id] = v]
           \/ UNCHANGED <<outboxVars, told>>
    BY DEF EngineAnswers
  <1>4. CASE /\ phase = "await" /\ q = AwaitedRequest /\ Answered(v)
             /\ told' = [told EXCEPT ![q.receipt.id] = v]
    <2>1. q.receipt = current[1].receipt
      BY <1>4 DEF AwaitedRequest
    <2>2. /\ current[1].left > 0 /\ outcome' = v
          /\ phase' \notin {"cached", "fresh", "await", "failed"}
          /\ UNCHANGED <<attached, sta, held, outstanding, channel, notice, invalidated, watermark,
                         pending, current, client>>
      BY <1>4 DEF Answered, Settle, staVars, sharedVars
    <2> QED
      BY <1>1, <1>2, <1>3, <1>4, <2>1, <2>2
  <1>5. CASE UNCHANGED <<outboxVars, told>>
    BY <1>1, <1>2, <1>3, <1>5 DEF outboxVars, staVars, sharedVars, workerVars
  <1> QED
    BY <1>3, <1>4, <1>5

LEMMA EngineAnswersKeeps ==
  ASSUME DeliveryIInv, NEW q \in requests, NEW v \in Outcomes, EngineAnswers(q, v)
  PROVE  DeliveryIInv'
  <1>0. PICK r : r = q.receipt
    OBVIOUS
  <1>1. /\ r \in Receipts /\ Sent(r) /\ requests' = requests \ {q} /\ CommitReceipt(r, v)
        /\ UNCHANGED <<tipVars, sequence, sent>>
        /\ UNCHANGED <<attached, sta, held, outstanding, channel, notice, invalidated, watermark,
                       pending, current, client>>
        /\ \/ /\ phase = "await" /\ r = current[1].receipt /\ current[1].left > 0
              /\ phase' \notin {"cached", "fresh", "await", "failed"} /\ outcome' = v
              /\ Answered(v) /\ told' = [told EXCEPT ![r.id] = v]
           \/ UNCHANGED <<outboxVars, told>>
    BY <1>0, AnswersFields
  <1>2. /\ OutboxIInv(Receipts) /\ IInv /\ Waiting /\ InHand /\ Sending /\ Asked /\ Apart
    BY DEF DeliveryIInv, Deliveries
  <1>3. OutboxIInv(Receipts)'
    <2>1. CASE Answered(v)
      <3>1. v \in Verdicts
        BY DEF Outcomes, Verdicts
      <3> QED
        BY <1>2, <2>1, <3>1, AnsweredKeeps
    <2>2. CASE UNCHANGED outboxVars
      BY <1>2, <2>2, OutboxStutter
    <2> QED
      BY <1>1, <2>1, <2>2
  <1>4. IInv' /\ UNCHANGED <<epoch, generation, nextToken>>
    BY <1>1, <1>2, CommitReceiptKeepsIInv, AnswerFields
  <1>5. Bounds' /\ EngineMoves
    BY <1>4, LedgerAssumption DEF DeliveryIInv, Bounds, EngineMoves
  <1>6. Sessions' /\ Commits'
    BY <1>1, <1>5, SessionsRest, CommitsKept DEF tipVars
  <1>7. /\ r.id \in CommitIds /\ sent[r.id] = <<r>> /\ sent[r.id] # <<>>
        /\ told \in [CommitIds -> ToldValues]
    BY <1>1, SentIsFrozen DEF DeliveryIInv, Telltale
  <1>8. v \in ToldValues
    BY DEF Outcomes, ToldValues, Verdicts
  <1>9. /\ told' \in [CommitIds -> ToldValues]
        /\ \A i \in CommitIds : told'[i] = told[i] \/ (i = r.id /\ told'[i] = v)
    BY <1>1, <1>7, <1>8
  <1>10. Telltale'
    BY <1>1, <1>7, <1>9 DEF DeliveryIInv, Telltale
  <1>11. Entries'
    BY <1>1, EntriesAnswered
  <1>12. Arrived' = Arrived
    BY <1>1 DEF Arrived
  <1>13. told' = told \/ (Trying /\ ~Trying' /\ r = current[1].receipt /\ current # <<>>
                          /\ current[1].left > 0
                          /\ told' = [told EXCEPT ![r.id] = v])
    BY <1>1, <1>2 DEF Trying, OutboxIInv, OutboxTypeOK
  <1>14. ASSUME NEW i \in DOMAIN Arrived, NEW a, a = Arrived[i]
         PROVE  Untold(a.receipt)' /\ Recalled(a)'
    <2>1. Untold(a.receipt) /\ Recalled(a)
      BY <1>2, <1>14 DEF Waiting
    <2>2. a \in Queued(Receipts)
      BY <1>2, <1>14, ArrivedSeq DEF ArrivedShape
    <2>3. Recalled(a)'
      BY <1>1, <2>1, <2>2, RecalledAnswered DEF Queued
    <2>4. told' = told \/ a.receipt.id # r.id
      BY <1>2, <1>13, <1>14 DEF Apart
    <2>5. told'[a.receipt.id] = told[a.receipt.id] /\ a.receipt.id \in CommitIds
      BY <1>9, <2>1, <2>4 DEF Untold, Sent
    <2> QED
      BY <1>1, <2>1, <2>3, <2>5 DEF Untold, Sent
  <1>15. Deliveries'
    <2>1. Waiting'
      BY <1>12, <1>14 DEF Waiting
    <2>2. InHand'
      <3>1. ASSUME current # <<>>, NEW c, c = current[1] PROVE Sent(c.receipt)' /\ Recalled(c)'
        <4>1. Sent(c.receipt) /\ Recalled(c)
          BY <1>2, <3>1 DEF InHand
        <4>2. c \in Taken(Receipts)
          BY <1>2, <3>1, OutboxNumbers
        <4>3. Recalled(c)'
          BY <1>1, <4>1, <4>2, RecalledAnswered DEF Taken
        <4> QED
          BY <1>1, <4>1, <4>3 DEF Sent
      <3>2. Trying' => Trying /\ told' = told
        BY <1>1 DEF Trying, outboxVars, workerVars
      <3>3. Trying' => told'[current'[1].receipt.id] = "none"
        BY <1>1, <1>2, <3>2 DEF InHand
      <3> QED
        BY <1>1, <3>1, <3>3 DEF InHand
    <2>3. Sending'
      <3> SUFFICES ASSUME sta = "sending"
                   PROVE  /\ told'[held[1].id] = "none" /\ held[1] \notin applied'
                          /\ \A p \in requests' : p.receipt # held[1]
        BY <1>1 DEF Sending
      <3>1. /\ told[held[1].id] = "none" /\ held[1] \notin applied
            /\ \A p \in requests : p.receipt # held[1]
        BY <1>2 DEF Sending
      <3>2. held[1] # r
        BY <1>0, <3>1
      <3>3. held[1] \notin applied'
        BY <1>1, <3>1, <3>2, AnswerLearns
      <3>4. Sent(held[1])
        BY DEF DeliveryIInv, Commits
      <3>5. held[1].id # r.id /\ held[1].id \in CommitIds
        BY <1>1, <3>2, <3>4, SentIsOne DEF Sent
      <3> QED
        BY <1>1, <1>9, <3>1, <3>3, <3>5
    <2>4. Asked'
      BY <1>1, <1>2 DEF Asked, Sent
    <2> QED
      BY <2>1, <2>2, <2>3, <2>4 DEF Deliveries
  <1>16. Apart'
    BY <1>1, <1>2, <1>12 DEF Apart
  <1>17. Refused'
    <2>1. ASSUME NEW i \in CommitIds, told'[i] \in {"stale", "conflict", "invalidToken"},
                 HasMaterial(i)'
          PROVE  RefusedOne(i)'
      <3>1. HasMaterial(i)
        BY <1>1, <2>1 DEF HasMaterial
      <3>2. CASE told'[i] = told[i]
        BY <1>1, <2>1, <3>1, <3>2, RefusedStays
      <3>3. CASE told'[i] # told[i]
        <4>1. i = r.id /\ v \in {"stale", "conflict", "invalidToken"}
          BY <1>9, <2>1, <3>3
        <4>2. /\ r = current[1].receipt /\ current # <<>> /\ current[1].left > 0
          BY <1>13, <3>3
        <4>3. Recalled(current[1]) /\ current[1].left \in Nat
          <5>1. current[1] \in Taken(Receipts) /\ Lifetime \in Nat
            BY <1>2, <4>2, OutboxNumbers
          <5>2. current[1].left \in 0..Lifetime
            BY <5>1 DEF Taken
          <5> QED
            BY <1>2, <4>2, <5>1, <5>2 DEF InHand
        <4>4. r \notin applied' /\ r.epoch = epoch /\ \A t \in r.tokens : Guarded(r, t)'
          BY <1>1, <4>1, <4>2, <4>3, RefusalIsFinal
        <4>5. sent'[i][1] = r
          BY <1>1, <1>7, <4>1
        <4> QED
          BY <1>4, <4>4, <4>5 DEF RefusedOne, Guarded, AnsweredFor, Issued
      <3> QED
        BY <3>2, <3>3
    <2> QED
      BY <2>1 DEF Refused
  <1>18. Condemned'
    <2>1. /\ phase = "flag" => phase' = "flag"
          /\ phase' = "fresh" => phase = "fresh"
          /\ phase' = "condemn" /\ outcome' = "epochChanged" =>
               phase = "condemn" /\ outcome = outcome'
      BY <1>1 DEF outboxVars, workerVars, Outcomes
    <2> QED
      BY <1>1, <1>5, <2>1, CondemnsNothing DEF tipVars
  <1> QED
    BY <1>3, <1>4, <1>5, <1>6, <1>10, <1>11, <1>15, <1>16, <1>17, <1>18 DEF DeliveryIInv

-----------------------------------------------------------------------------
LEMMA DeliveryInitially == Init => DeliveryIInv
  <1> SUFFICES ASSUME Init PROVE DeliveryIInv
    OBVIOUS
  <1> USE DEF Init
  <1>1. OutboxIInv(Receipts) /\ IInv
    BY OutboxInitially, InitEstablishesIInv
  <1>2. Bounds /\ Sessions
    BY LedgerAssumption, DeliveryAssumption DEF LedgerInit, Bounds, Sessions
  <1>3. Commits /\ Telltale /\ Refused
    BY DeliveryAssumption
    DEF OutboxInit, Commits, Telltale, Refused, HasMaterial, ToldValues
  <1>4. Arrived = <<>> /\ DOMAIN Arrived = {}
    BY DEF OutboxInit, Arrived
  <1>5. Deliveries /\ Apart
    BY <1>4
    DEF OutboxInit, Deliveries, Waiting, InHand, Sending, Asked, Trying, Apart
  <1>6. Entries
    BY DEF LedgerInit, Entries
  <1>7. Condemned
    BY DEF OutboxInit, LedgerInit, Condemned, CondemnationIsPast, CondemnedModelIsCaught, NoClient
  <1> QED
    BY <1>1, <1>2, <1>3, <1>5, <1>6, <1>7 DEF DeliveryIInv

LEMMA DeliveryStutter ==
  ASSUME DeliveryIInv, UNCHANGED vars
  PROVE  DeliveryIInv'
  <1>1. /\ UNCHANGED <<outboxVars, ledgerVars, requests, tipVars, sequence, historyVars>>
        /\ UNCHANGED <<attached, sta, held, outstanding, channel, notice, invalidated, watermark,
                       pending, current, phase, outcome, client>>
    BY DEF vars, outboxVars, staVars, sharedVars, workerVars
  <1>2. OutboxIInv(Receipts)'
    BY <1>1, OutboxStutter DEF DeliveryIInv
  <1> QED
    BY <1>1, <1>2, QuietTipStep DEF Trying

LEMMA DeliveryStep == DeliveryIInv /\ [DeliveryNext]_vars => DeliveryIInv'
  <1> SUFFICES ASSUME DeliveryIInv, [DeliveryNext]_vars PROVE DeliveryIInv'
    OBVIOUS
  <1>1. CASE STA
    BY <1>1, CommitKeeps, AppliedKeeps, TakeInvalidationKeeps, AcceptSessionKeeps,
       QuietTipActions, TrySendStepKeeps DEF STA
  <1>2. CASE Worker
    BY <1>2, TakeDueStepKeeps, HandshakeStepKeeps, CondemnEpochStepKeeps, SendStepKeeps,
       RetryStepKeeps, RaiseWatermarkStepKeeps, QuietTipActions DEF Worker
  <1>3. CASE Engine
    <2>1. ASSUME NEW q \in requests, NEW v \in Outcomes, EngineAnswers(q, v)
          PROVE  DeliveryIInv'
      BY <2>1, EngineAnswersKeeps
    <2>2. CASE \/ EngineOnly(BeginClear) \/ EngineOnly(WipeLearners) \/ EngineOnly(EndClear)
               \/ EngineOnly(ReloadLearning)
      BY <2>2, BoundaryStepKeeps DEF EngineOnly
    <2> QED
      BY <1>3, <2>1, <2>2, RestartStepKeeps DEF Engine
  <1>4. CASE OpenSession \/ ConvertInSession \/ Tick
    BY <1>4, OpenSessionKeeps, ConvertKeeps, TickKeeps
  <1> QED
    BY <1>1, <1>2, <1>3, <1>4, DeliveryStutter DEF DeliveryNext

(* The joint invariant holds in every state of the delivery, whatever the  *)
(* engine answers, however late, and however often it restarts.            *)
THEOREM DeliveryIInvAlways == DeliverySpec => []DeliveryIInv
  BY DeliveryInitially, DeliveryStep, PTL DEF DeliverySpec

(* The text service condemns only what is over, and a model it condemns is *)
(* about to lose its identity: rejects_identity, run, poll_receipt_notice  *)
(* and configure_model, under every interleaving.                          *)
THEOREM DeliverySafe == DeliverySpec => []DeliveryInv
  <1>1. DeliveryIInv => DeliveryInv
    <2> SUFFICES ASSUME DeliveryIInv PROVE DeliveryInv
      OBVIOUS
    <2>1. TypeOK /\ OutboxTypeOK
      BY DEF DeliveryIInv, IInv, OutboxIInv
    <2>2. requests \subseteq [receipt : Receipts, attempt : 1..Len(RetryDelays) + 1]
      BY DEF DeliveryIInv, Deliveries, Asked
    <2> QED
      BY <2>1, <2>2 DEF DeliveryIInv, Condemned, DeliveryInv, DeliveryTypeOK
  <1> QED
    BY <1>1, DeliveryIInvAlways, PTL
-----------------------------------------------------------------------------
(* Part four: the refinement of CommitLearning.  What its variables        *)
(* stand for:                                                              *)
Written == {i \in CommitIds : sent[i] # <<>>}
TimesOf == [i \in CommitIds |-> TimesLearned(i)]
VerdictOf == [i \in CommitIds |-> VerdictTold(i)]

(* A step that changes nothing of a commit changes nothing of what is      *)
(* promised about it.                                                      *)
SameLearning(j) ==
  /\ sent'[j] = sent[j] /\ told'[j] = told[j]
  /\ sent[j] # <<>> => /\ sent[j][1] \in applied' <=> sent[j][1] \in applied
                       /\ sent[j][1] \in reapplied' <=> sent[j][1] \in reapplied

LEMMA SameIsSame ==
  ASSUME NEW j \in CommitIds, SameLearning(j)
  PROVE  /\ (sent'[j] # <<>>) <=> (sent[j] # <<>>)
         /\ TimesLearned(j)' = TimesLearned(j) /\ VerdictTold(j)' = VerdictTold(j)
  <1>1. HasMaterial(j)' <=> HasMaterial(j)
    BY DEF SameLearning, HasMaterial
  <1>2. TimesLearned(j)' = TimesLearned(j)
    BY <1>1 DEF SameLearning, TimesLearned, HasMaterial
  <1>3. VerdictTold(j)' = VerdictTold(j)
    BY <1>1 DEF SameLearning, VerdictTold
  <1> QED
    BY <1>2, <1>3 DEF SameLearning

LEMMA LearningStutters ==
  ASSUME \A j \in CommitIds : SameLearning(j)
  PROVE  UNCHANGED Learning!vars
  <1>1. Written' = Written /\ TimesOf' = TimesOf /\ VerdictOf' = VerdictOf
    BY SameIsSame DEF Written, TimesOf, VerdictOf
  <1> QED
    BY <1>1 DEF Learning!vars, Written, TimesOf, VerdictOf, CommitIds

(* A step that touches one commit.                                         *)
LEMMA OneCommit ==
  ASSUME NEW i \in CommitIds, \A j \in CommitIds : j # i => SameLearning(j)
  PROVE  /\ TimesOf' = [TimesOf EXCEPT ![i] = TimesLearned(i)']
         /\ VerdictOf' = [VerdictOf EXCEPT ![i] = VerdictTold(i)']
         /\ Written' \cup {i} = Written \cup {i}
         /\ TimesOf[i] = TimesLearned(i) /\ VerdictOf[i] = VerdictTold(i)
         /\ i \in Written <=> sent[i] # <<>>
         /\ i \in Written' <=> sent'[i] # <<>>
  <1>1. \A j \in CommitIds : j # i =>
          /\ (sent'[j] # <<>>) <=> (sent[j] # <<>>)
          /\ TimesLearned(j)' = TimesLearned(j) /\ VerdictTold(j)' = VerdictTold(j)
    BY SameIsSame
  <1>2. TimesOf' = [TimesOf EXCEPT ![i] = TimesLearned(i)']
    BY <1>1 DEF TimesOf
  <1>3. VerdictOf' = [VerdictOf EXCEPT ![i] = VerdictTold(i)']
    BY <1>1 DEF VerdictOf
  <1>4. /\ Written' \cup {i} = Written \cup {i}
        /\ i \in Written <=> sent[i] # <<>>
        /\ i \in Written' <=> sent'[i] # <<>>
    BY <1>1 DEF Written
  <1> QED
    BY <1>2, <1>3, <1>4 DEF TimesOf, VerdictOf

(* The steps of CommitLearning in these terms.                             *)
LEMMA LearningSteps ==
  ASSUME NEW i \in CommitIds
  PROVE  /\ (/\ i \notin Written /\ Written' = Written \cup {i} /\ TimesOf' = TimesOf
             /\ \/ VerdictOf' = VerdictOf
                \/ VerdictOf' = [VerdictOf EXCEPT ![i] = "unknown"])
            => Learning!Next
         /\ (/\ i \in Written /\ TimesOf[i] = 0 /\ VerdictOf[i] # "refused"
             /\ TimesOf' = [TimesOf EXCEPT ![i] = 1] /\ Written' = Written
             /\ \/ VerdictOf[i] = "none" /\ VerdictOf' = [VerdictOf EXCEPT ![i] = "learned"]
                \/ VerdictOf' = VerdictOf)
            => Learning!Next
         /\ \A v \in {"learned", "refused", "unknown"} :
              (/\ i \in Written /\ VerdictOf[i] = "none"
               /\ v = "learned" => TimesOf[i] = 1
               /\ v = "refused" => TimesOf[i] = 0
               /\ VerdictOf' = [VerdictOf EXCEPT ![i] = v]
               /\ Written' = Written /\ TimesOf' = TimesOf)
              => Learning!Next
  <1>0. i \in 1..MaxCommits
    BY DEF CommitIds
  <1>1. (/\ i \notin Written /\ Written' = Written \cup {i} /\ TimesOf' = TimesOf
         /\ VerdictOf' = VerdictOf) => Learning!Write(i)
    BY DEF Learning!Write, Written, TimesOf, VerdictOf, CommitIds
  <1>2. (/\ i \notin Written /\ Written' = Written \cup {i} /\ TimesOf' = TimesOf
         /\ VerdictOf' = [VerdictOf EXCEPT ![i] = "unknown"]) => Learning!WriteAndTell(i)
    BY DEF Learning!WriteAndTell, Written, TimesOf, VerdictOf, CommitIds
  <1>3. (/\ i \in Written /\ TimesOf[i] = 0 /\ VerdictOf[i] # "refused"
         /\ TimesOf' = [TimesOf EXCEPT ![i] = 1] /\ Written' = Written
         /\ \/ VerdictOf[i] = "none" /\ VerdictOf' = [VerdictOf EXCEPT ![i] = "learned"]
            \/ VerdictOf' = VerdictOf) => Learning!Learn(i)
    BY DEF Learning!Learn, Written, TimesOf, VerdictOf, CommitIds
  <1>4. ASSUME NEW v \in {"learned", "refused", "unknown"}
        PROVE  (/\ i \in Written /\ VerdictOf[i] = "none"
                /\ v = "learned" => TimesOf[i] = 1
                /\ v = "refused" => TimesOf[i] = 0
                /\ VerdictOf' = [VerdictOf EXCEPT ![i] = v]
                /\ Written' = Written /\ TimesOf' = TimesOf) => Learning!Tell(i, v)
    BY DEF Learning!Tell, Written, TimesOf, VerdictOf, CommitIds
  <1>5. Learning!Write(i) \/ Learning!WriteAndTell(i) \/ Learning!Learn(i)
        \/ (\E v \in {"learned", "refused", "unknown"} : Learning!Tell(i, v)) => Learning!Next
    BY <1>0 DEF Learning!Next
  <1> QED
    BY <1>1, <1>2, <1>3, <1>4, <1>5

(* The text is written: a promise is made, or given up at once.            *)
LEMMA AppliedWrites ==
  ASSUME DeliveryIInv, Applied
  PROVE  Learning!Next
  <1>0. PICK i : i = held[1].id
    OBVIOUS
  <1>1. /\ sta = "writing" /\ sent' = [sent EXCEPT ![i] = <<held[1]>>]
        /\ UNCHANGED <<applied, reapplied>>
        /\ told' = told \/ told' = [told EXCEPT ![i] = "capacity"]
    BY <1>0, AppliedFields DEF ledgerVars
  <1>2. /\ i \in CommitIds /\ sent[i] = <<>> /\ told[i] = "none"
        /\ held[1] \notin applied /\ held[1] \notin reapplied
        /\ DOMAIN sent = CommitIds /\ told \in [CommitIds -> ToldValues]
    BY <1>0, <1>1, WritingIsUnsent DEF DeliveryIInv, Commits, Telltale
  <1>3. /\ sent'[i] = <<held[1]>> /\ told'[i] \in {"none", "capacity"}
        /\ told' = told => told'[i] = "none"
        /\ told' # told => told'[i] = "capacity"
        /\ \A j \in CommitIds : j # i => SameLearning(j)
    BY <1>1, <1>2 DEF SameLearning
  <1>4. TimesLearned(i) = 0 /\ VerdictTold(i) = "none"
    BY <1>2 DEF TimesLearned, HasMaterial, VerdictTold
  <1>5. sent'[i] # <<>> /\ sent'[i][1] = held[1]
    BY <1>3
  <1>6. TimesLearned(i)' = 0
    BY <1>1, <1>2, <1>5 DEF TimesLearned
  <1>7. VerdictTold(i)' = IF told'[i] = "none" THEN "none" ELSE "unknown"
    BY <1>3 DEF VerdictTold
  <1>8. /\ TimesOf' = [TimesOf EXCEPT ![i] = TimesLearned(i)']
        /\ VerdictOf' = [VerdictOf EXCEPT ![i] = VerdictTold(i)']
        /\ Written' \cup {i} = Written \cup {i}
        /\ TimesOf[i] = TimesLearned(i) /\ VerdictOf[i] = VerdictTold(i)
        /\ i \in Written <=> sent[i] # <<>>
        /\ i \in Written' <=> sent'[i] # <<>>
    BY <1>2, <1>3, OneCommit
  <1>9. TimesOf' = TimesOf /\ i \notin Written /\ Written' = Written \cup {i}
    BY <1>2, <1>4, <1>5, <1>6, <1>8, ZenonT(60) DEF TimesOf
  <1>10. VerdictOf' = VerdictOf \/ VerdictOf' = [VerdictOf EXCEPT ![i] = "unknown"]
    BY <1>3, <1>4, <1>7, <1>8 DEF VerdictOf
  <1> QED
    BY <1>2, <1>9, <1>10, LearningSteps

(* One verdict is told, of a commit that was written.                      *)
LEMMA TellsOnce ==
  ASSUME DeliveryIInv, NEW r, Sent(r), told[r.id] = "none", NEW v \in ToldValues, v # "none",
         told' = [told EXCEPT ![r.id] = v], UNCHANGED <<sent, applied, reapplied>>,
         v \in {"applied", "alreadyProcessed"} /\ r.tokens # {} => r \in applied /\ r \notin reapplied,
         v \in {"stale", "conflict", "invalidToken"} /\ r.tokens # {} => r \notin applied
  PROVE  Learning!Next
  <1>0. PICK i : i = r.id
    OBVIOUS
  <1>1. /\ i \in CommitIds /\ sent[i] = <<r>> /\ sent[i][1] = r /\ sent[i] # <<>>
        /\ told \in [CommitIds -> ToldValues] /\ reapplied \subseteq applied
    BY <1>0, SentIsFrozen DEF DeliveryIInv, Telltale, Entries
  <1>2. /\ told'[i] = v /\ \A j \in CommitIds : j # i => SameLearning(j)
    BY <1>0, <1>1 DEF SameLearning
  <1>3. VerdictTold(i) = "none"
    BY <1>0 DEF VerdictTold
  <1>4. TimesLearned(i)' = TimesLearned(i)
    BY DEF TimesLearned, HasMaterial
  <1>5. HasMaterial(i)' <=> r.tokens # {}
    BY <1>1 DEF HasMaterial
  <1>6. /\ TimesOf' = [TimesOf EXCEPT ![i] = TimesLearned(i)']
        /\ VerdictOf' = [VerdictOf EXCEPT ![i] = VerdictTold(i)']
        /\ Written' \cup {i} = Written \cup {i}
        /\ TimesOf[i] = TimesLearned(i) /\ VerdictOf[i] = VerdictTold(i)
        /\ i \in Written <=> sent[i] # <<>>
        /\ i \in Written' <=> sent'[i] # <<>>
    BY <1>1, <1>2, OneCommit
  <1>7. TimesOf' = TimesOf /\ i \in Written /\ Written' = Written
    <2>1. \A j \in CommitIds : TimesLearned(j)' = TimesLearned(j)
      BY <1>2, <1>4, SameIsSame
    <2>2. TimesOf' = TimesOf
      BY <2>1 DEF TimesOf
    <2>3. i \in Written /\ i \in Written'
      BY <1>1, <1>6
    <2>4. Written' = Written
      <3>1. PICK A, B : A = Written' /\ B = Written
        OBVIOUS
      <3>2. A \cup {i} = B \cup {i} /\ i \in A /\ i \in B
        BY <1>6, <2>3, <3>1
      <3>3. A = B
        BY <3>2
      <3> QED
        BY <3>1, <3>3
    <2> QED
      BY <2>2, <2>3, <2>4
  <1>8. VerdictTold(i)' \in {"learned", "refused", "unknown"}
    BY <1>2 DEF VerdictTold
  <1>9. VerdictTold(i)' = "learned" => TimesOf[i] = 1
    <2> SUFFICES ASSUME VerdictTold(i)' = "learned" PROVE TimesLearned(i) = 1
      BY <1>6
    <2>1. v \in {"applied", "alreadyProcessed"} /\ r.tokens # {}
      BY <1>2, <1>5 DEF VerdictTold
    <2>2. r \in applied /\ r \notin reapplied
      BY <2>1
    <2> QED
      BY <1>1, <2>1, <2>2 DEF TimesLearned, HasMaterial
  <1>10. VerdictTold(i)' = "refused" => TimesOf[i] = 0
    <2> SUFFICES ASSUME VerdictTold(i)' = "refused" PROVE TimesLearned(i) = 0
      BY <1>6
    <2>1. v \in {"stale", "conflict", "invalidToken"} /\ r.tokens # {}
      BY <1>2, <1>5 DEF VerdictTold
    <2>2. r \notin applied /\ r \notin reapplied
      BY <1>1, <2>1
    <2> QED
      BY <1>1, <2>2 DEF TimesLearned
  <1>11. PICK w \in {"learned", "refused", "unknown"} : w = VerdictTold(i)'
    BY <1>8
  <1>12. VerdictOf' = [VerdictOf EXCEPT ![i] = w] /\ VerdictOf[i] = "none"
    BY <1>3, <1>6, <1>11
  <1> QED
    BY <1>1, <1>7, <1>9, <1>10, <1>11, <1>12, LearningSteps

(* A receipt that carries material is learned by an answer.                *)
LEMMA LearnsOnce ==
  ASSUME DeliveryIInv, NEW r, Sent(r), r.tokens # {}, r \notin applied,
         applied' = applied \cup {r}, UNCHANGED <<sent, reapplied>>,
         \/ told' = told
         \/ told[r.id] = "none" /\ told' = [told EXCEPT ![r.id] = "applied"],
         told[r.id] \notin {"stale", "conflict", "invalidToken"}
  PROVE  Learning!Next
  <1>0. PICK i : i = r.id
    OBVIOUS
  <1>1. /\ i \in CommitIds /\ sent[i] = <<r>> /\ sent[i][1] = r /\ sent[i] # <<>>
        /\ told \in [CommitIds -> ToldValues] /\ reapplied \subseteq applied
    BY <1>0, SentIsFrozen DEF DeliveryIInv, Telltale, Entries
  <1>2. \A j \in CommitIds : j # i => SameLearning(j)
    <2> SUFFICES ASSUME NEW j \in CommitIds, j # i PROVE SameLearning(j)
      OBVIOUS
    <2>1. told'[j] = told[j]
      BY <1>0, <1>1
    <2>2. sent[j] # <<>> => sent[j][1].id = j
      BY DEF DeliveryIInv, Commits
    <2>3. sent[j] # <<>> => sent[j][1] # r
      BY <1>0, <2>2
    <2> QED
      BY <2>1, <2>3 DEF SameLearning
  <1>3. HasMaterial(i) /\ HasMaterial(i)'
    BY <1>1 DEF HasMaterial
  <1>4. TimesLearned(i) = 0 /\ TimesLearned(i)' = 1
    BY <1>1, <1>3 DEF TimesLearned
  <1>5. /\ TimesOf' = [TimesOf EXCEPT ![i] = TimesLearned(i)']
        /\ VerdictOf' = [VerdictOf EXCEPT ![i] = VerdictTold(i)']
        /\ Written' \cup {i} = Written \cup {i}
        /\ TimesOf[i] = TimesLearned(i) /\ VerdictOf[i] = VerdictTold(i)
        /\ i \in Written <=> sent[i] # <<>>
        /\ i \in Written' <=> sent'[i] # <<>>
    BY <1>1, <1>2, OneCommit
  <1>6. VerdictOf[i] # "refused"
    BY <1>0, <1>5 DEF VerdictTold
  <1>7. \/ VerdictOf[i] = "none" /\ VerdictOf' = [VerdictOf EXCEPT ![i] = "learned"]
        \/ VerdictOf' = VerdictOf
    <2>1. CASE told' = told
      <3>1. VerdictTold(i)' = VerdictTold(i)
        BY <1>3, <2>1 DEF VerdictTold
      <3> QED
        BY <1>5, <3>1 DEF VerdictOf
    <2>2. CASE told[r.id] = "none" /\ told' = [told EXCEPT ![r.id] = "applied"]
      <3>1. told'[i] = "applied"
        BY <1>0, <1>1, <2>2
      <3>2. VerdictTold(i) = "none" /\ VerdictTold(i)' = "learned"
        BY <1>0, <1>3, <2>2, <3>1 DEF VerdictTold
      <3> QED
        BY <1>5, <3>2
    <2> QED
      BY <2>1, <2>2
  <1>8. TimesOf' = [TimesOf EXCEPT ![i] = 1] /\ Written' = Written /\ i \in Written /\ TimesOf[i] = 0
    BY <1>1, <1>4, <1>5
  <1> QED
    BY <1>1, <1>6, <1>7, <1>8, LearningSteps

(* A receipt without material is applied without being learned.            *)
LEMMA TellsOfNothing ==
  ASSUME DeliveryIInv, NEW r, Sent(r), r.tokens = {}, UNCHANGED sent,
         applied' = applied \cup {r}, reapplied' \in {reapplied, reapplied \cup {r}},
         told' = told \/ (told[r.id] = "none" /\ told' = [told EXCEPT ![r.id] = "applied"])
  PROVE  [Learning!Next]_Learning!vars
  <1>0. PICK i : i = r.id
    OBVIOUS
  <1>1. /\ i \in CommitIds /\ sent[i] = <<r>> /\ sent[i][1] = r /\ sent[i] # <<>>
        /\ told \in [CommitIds -> ToldValues]
    BY <1>0, SentIsFrozen DEF DeliveryIInv, Telltale
  <1>2. \A j \in CommitIds : j # i => SameLearning(j)
    <2> SUFFICES ASSUME NEW j \in CommitIds, j # i PROVE SameLearning(j)
      OBVIOUS
    <2>1. told'[j] = told[j]
      BY <1>0, <1>1
    <2>2. sent[j] # <<>> => sent[j][1].id = j
      BY DEF DeliveryIInv, Commits
    <2>3. sent[j] # <<>> => sent[j][1] # r
      BY <1>0, <2>2
    <2> QED
      BY <2>1, <2>3 DEF SameLearning
  <1>3. ~HasMaterial(i) /\ ~HasMaterial(i)'
    BY <1>1 DEF HasMaterial
  <1>4. TimesLearned(i) = 0 /\ TimesLearned(i)' = 0
    BY <1>3 DEF TimesLearned
  <1>5. /\ TimesOf' = [TimesOf EXCEPT ![i] = TimesLearned(i)']
        /\ VerdictOf' = [VerdictOf EXCEPT ![i] = VerdictTold(i)']
        /\ Written' \cup {i} = Written \cup {i}
        /\ TimesOf[i] = TimesLearned(i) /\ VerdictOf[i] = VerdictTold(i)
        /\ i \in Written <=> sent[i] # <<>>
        /\ i \in Written' <=> sent'[i] # <<>>
    BY <1>1, <1>2, OneCommit
  <1>6. TimesOf' = TimesOf /\ i \in Written /\ Written' = Written
    <2>1. \A j \in CommitIds : TimesLearned(j)' = TimesLearned(j)
      BY <1>2, <1>4, SameIsSame
    <2>2. TimesOf' = TimesOf
      BY <2>1 DEF TimesOf
    <2>3. i \in Written /\ i \in Written'
      BY <1>1, <1>5
    <2>4. Written' = Written
      <3>1. PICK A, B : A = Written' /\ B = Written
        OBVIOUS
      <3>2. A \cup {i} = B \cup {i} /\ i \in A /\ i \in B
        BY <1>5, <2>3, <3>1
      <3>3. A = B
        BY <3>2
      <3> QED
        BY <3>1, <3>3
    <2> QED
      BY <2>2, <2>3, <2>4
  <1>7. CASE told' = told
    <2>1. VerdictTold(i)' = VerdictTold(i)
      BY <1>3, <1>7 DEF VerdictTold
    <2>2. VerdictOf' = VerdictOf
      BY <1>5, <2>1 DEF VerdictOf
    <2> QED
      BY <1>6, <2>2 DEF Learning!vars, Written, TimesOf, VerdictOf, CommitIds
  <1>8. CASE told[r.id] = "none" /\ told' = [told EXCEPT ![r.id] = "applied"]
    <2>1. told[i] = "none" /\ told'[i] = "applied"
      BY <1>0, <1>1, <1>8
    <2>2. VerdictTold(i) = "none" /\ VerdictTold(i)' = "unknown"
      BY <1>3, <2>1 DEF VerdictTold
    <2> QED
      BY <1>1, <1>5, <1>6, <2>2, LearningSteps
  <1> QED
    BY <1>7, <1>8

(* An answer learns, tells, or does both, and always truthfully.           *)
LEMMA AnswersTruthfully ==
  ASSUME DeliveryIInv, DeliveryIInv', NEW q \in requests, NEW v \in Outcomes, EngineAnswers(q, v)
  PROVE  [Learning!Next]_Learning!vars
  <1>0. PICK r : r = q.receipt
    OBVIOUS
  <1>1. /\ r \in Receipts /\ Sent(r) /\ CommitReceipt(r, v) /\ UNCHANGED sent
        /\ \/ /\ phase = "await" /\ r = current[1].receipt
              /\ told' = [told EXCEPT ![r.id] = v]
           \/ told' = told
    BY <1>0, AnswersFields
  <1>2. /\ r.id \in CommitIds /\ sent[r.id] = <<r>> /\ sent[r.id][1] = r /\ sent[r.id] # <<>>
        /\ told \in [CommitIds -> ToldValues] /\ v \in ToldValues /\ v # "none"
    BY <1>1, SentIsFrozen DEF DeliveryIInv, Telltale, ToldValues, Outcomes, Verdicts
  <1>3. told' = told \/ (told[r.id] = "none" /\ told' = [told EXCEPT ![r.id] = v])
    BY <1>1 DEF DeliveryIInv, Deliveries, InHand, Trying
  <1>4. AppliedOnce /\ AppliedOnce'
    BY DEF DeliveryIInv, IInv
  <1>5. CASE UNCHANGED <<applied, reapplied>>
    <2>1. CASE told' = told
      <3>1. \A j \in CommitIds : SameLearning(j)
        BY <1>1, <1>5, <2>1 DEF SameLearning
      <3> QED
        BY <3>1, LearningStutters
    <2>2. CASE told[r.id] = "none" /\ told' = [told EXCEPT ![r.id] = v]
      <3>1. ASSUME v \in {"applied", "alreadyProcessed"}, r.tokens # {}
            PROVE  r \in applied /\ r \notin reapplied
        <4>1. r.epoch = epoch
          BY <1>1, <3>1 DEF CommitReceipt
        <4>2. r \in applied
          <5>1. CASE r.id \in Remembered
            <6>1. v = Replay(r)
              BY <1>1, <4>1, <5>1 DEF CommitReceipt, AnswerReplay
            <6>2. r.id \in DOMAIN ledger /\ Entry(r.id)
              BY <5>1 DEF Remembered, DeliveryIInv, Entries
            <6>3. ledger[r.id].receipt = r
              BY <1>1, <6>2, SentIsOne DEF Entry
            <6>4. ledger[r.id].outcome = "applied"
              BY <3>1, <6>1, <6>2, <6>3 DEF Replay, Entry
            <6> QED
              BY <6>2, <6>3, <6>4 DEF Entry
          <5>2. CASE r.id \notin Remembered
            <6>1. ~LedgerFull
              BY <1>1, <3>1, <4>1, <5>2 DEF CommitReceipt, AnswerFull
            <6>2. Apply(r, v)
              BY <1>1, <4>1, <5>2, <6>1 DEF CommitReceipt
            <6>3. v = "applied"
              BY <3>1, <6>2 DEF Apply, ApplyOutcomes, TokenRefusal
            <6> QED
              BY <1>5, <6>2, <6>3 DEF Apply
          <5> QED
            BY <5>1, <5>2
        <4> QED
          BY <1>4, <3>1, <4>2 DEF AppliedOnce
      <3>2. ASSUME v \in {"stale", "conflict", "invalidToken"}, r.tokens # {}
            PROVE  r \notin applied
        <4>1. told'[r.id] = v
          BY <1>2, <2>2
        <4>2. HasMaterial(r.id)'
          BY <1>1, <1>2, <3>2 DEF HasMaterial
        <4>3. RefusedOne(r.id)'
          BY <1>2, <3>2, <4>1, <4>2 DEF DeliveryIInv, Refused
        <4> QED
          BY <1>1, <1>2, <1>5, <4>3 DEF RefusedOne
      <3> QED
        BY <1>1, <1>2, <1>5, <2>2, <3>1, <3>2, TellsOnce
    <2> QED
      BY <1>3, <2>1, <2>2
  <1>6. CASE /\ v = "applied" /\ applied' = applied \cup {r}
             /\ reapplied' = IF r \in applied THEN reapplied \cup {r} ELSE reapplied
             /\ r.epoch = epoch /\ r.id \notin Remembered /\ "applied" \in ApplyOutcomes(r)
             /\ ~UNCHANGED <<applied, reapplied>>
    <2>1. CASE r.tokens # {}
      <3>1. r \notin applied
        BY <1>4, <1>6, <2>1 DEF AppliedOnce
      <3>2. told[r.id] \notin {"stale", "conflict", "invalidToken"}
        <4> SUFFICES ASSUME told[r.id] \in {"stale", "conflict", "invalidToken"} PROVE FALSE
          OBVIOUS
        <4>1. HasMaterial(r.id)
          BY <1>2, <2>1 DEF HasMaterial
        <4>2. \A t \in r.tokens : Guarded(r, t)
          BY <1>2, <1>6, <4>1 DEF DeliveryIInv, Refused, RefusedOne
        <4>3. "applied" \notin ApplyOutcomes(r)
          BY <1>1, <1>6, <2>1, <4>2, GuardedIsNotApplied DEF DeliveryIInv
        <4> QED
          BY <1>6, <4>3
      <3> QED
        BY <1>1, <1>3, <1>6, <2>1, <3>1, <3>2, LearnsOnce
    <2>2. CASE r.tokens = {}
      <3> QED
        BY <1>1, <1>2, <1>3, <1>6, <2>2, TellsOfNothing
    <2> QED
      BY <2>1, <2>2
  <1> QED
    BY <1>1, <1>5, <1>6, AnswerLearns

LEMMA Telltales ==
  ASSUME DeliveryIInv, NEW r, NEW v, Tells(r, v), UNCHANGED <<ledgerVars, sent>>
  PROVE  Learning!Next
  BY TellsOnce DEF Tells, ledgerVars, ToldValues, Verdicts

LEMMA NothingLearned ==
  ASSUME UNCHANGED <<sent, told, applied, reapplied>>
  PROVE  UNCHANGED Learning!vars
  BY LearningStutters DEF SameLearning

LEMMA GivingUpTells ==
  ASSUME DeliveryIInv, Telling(CondemnEpoch) \/ Telling(Retry)
  PROVE  told' = told \/ \E v : Tells(current[1].receipt, v)
  <1>1. CASE Telling(CondemnEpoch)
    <2>1. /\ phase = "fresh" /\ phase' = "condemn" /\ outcome' = "epochChanged" /\ current' = current
      BY <1>1 DEF Telling, CondemnEpoch, Settle
    <2>2. Sent(current[1].receipt) /\ told[current[1].receipt.id] = "none"
      BY <2>1, InHandIsPast DEF DeliveryIInv, Deliveries, InHand, Trying
    <2> QED
      BY <1>1, <2>1, <2>2 DEF Telling, Tells
  <1>2. CASE Telling(Retry)
    <2>1. /\ phase = "failed"
          /\ phase' = "idle" \/ (phase' = "notify" /\ outcome' \in {"expired", "failed"}
                                 /\ current' = current)
      BY <1>2 DEF Telling, Retry, Settle
    <2>2. Sent(current[1].receipt) /\ told[current[1].receipt.id] = "none"
      BY <2>1, InHandIsPast DEF DeliveryIInv, Deliveries, InHand, Trying
    <2> QED
      BY <1>2, <2>1, <2>2 DEF Telling, Tells
  <1> QED
    BY <1>1, <1>2

LEMMA DeliveryImplements ==
  DeliveryIInv /\ DeliveryIInv' /\ [DeliveryNext]_vars => [Learning!Next]_Learning!vars
  <1> SUFFICES ASSUME DeliveryIInv, DeliveryIInv', [DeliveryNext]_vars
               PROVE  [Learning!Next]_Learning!vars
    OBVIOUS
  <1>1. CASE STA
    <2>1. CASE Applied
      BY <2>1, AppliedWrites
    <2>2. CASE ~Applied
      <3>1. UNCHANGED <<ledgerVars, historyVars>>
        BY <1>1, <2>2 DEF STA, Commit, TakeInvalidation, AcceptSession, StaOnly
      <3> QED
        BY <3>1, NothingLearned DEF ledgerVars, historyVars
    <2> QED
      BY <2>1, <2>2
  <1>2. CASE Worker
    <2>1. CASE Telling(TakeDue) /\ UNCHANGED requests
      <3>1. PICK c : /\ UNCHANGED <<ledgerVars, sent>>
                     /\ told' = told \/ Tells(c.receipt, "expired")
        BY <2>1, TakeDueFields DEF TakesFrom
      <3> QED
        BY <3>1, NothingLearned, Telltales DEF ledgerVars
    <2>2. CASE Telling(CondemnEpoch) \/ Telling(Retry)
      <3>1. told' = told \/ \E v : Tells(current[1].receipt, v)
        BY <2>2, GivingUpTells
      <3>2. UNCHANGED <<ledgerVars, sent>>
        BY <2>2 DEF Telling
      <3> QED
        BY <3>1, <3>2, NothingLearned, Telltales DEF ledgerVars
    <2>3. CASE UNCHANGED <<ledgerVars, historyVars>>
      BY <2>3, NothingLearned DEF ledgerVars, historyVars
    <2> QED
      BY <1>2, <2>1, <2>2, <2>3 DEF Worker, WorkerOnly, Send
  <1>3. CASE Engine
    <2>1. ASSUME NEW q \in requests, NEW v \in Outcomes, EngineAnswers(q, v)
          PROVE  [Learning!Next]_Learning!vars
      BY <2>1, AnswersTruthfully
    <2>2. CASE UNCHANGED <<applied, reapplied, historyVars>>
      BY <2>2, NothingLearned DEF historyVars
    <2> QED
      BY <1>3, <2>1, <2>2
      DEF Engine, EngineOnly, EngineRestarts, BeginClear, WipeLearners, EndClear, ReloadLearning,
          Restart
  <1>4. CASE OpenSession \/ ConvertInSession \/ Tick
    <2>1. UNCHANGED <<applied, reapplied, historyVars>>
      BY <1>4 DEF OpenSession, ConvertInSession, Tick, IssueToken, LedgerTick, ledgerVars
    <2> QED
      BY <2>1, NothingLearned DEF historyVars
  <1>5. CASE UNCHANGED vars
    BY <1>5, NothingLearned DEF vars, ledgerVars, historyVars
  <1> QED
    BY <1>1, <1>2, <1>3, <1>4, <1>5 DEF DeliveryNext

(* Delivery keeps the promise of CommitLearning: a confirmed text that     *)
(* carries material is learned at most once, and what the client is told   *)
(* of it is true and final, over lost answers, retries, late requests,     *)
(* clears, reloads and engine restarts (run, commitReceipt).               *)
THEOREM PromiseKept == DeliverySpec => KeepsThePromise
  <1>1. Init => Learning!Init
    BY DEF Init, LedgerInit, Learning!Init, TimesLearned, HasMaterial, VerdictTold, CommitIds
  <1> QED
    BY <1>1, DeliveryImplements, DeliveryIInvAlways, PTL
    DEF DeliverySpec, KeepsThePromise, Learning!Spec
=============================================================================
