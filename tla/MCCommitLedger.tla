--------------------------- MODULE MCCommitLedger ---------------------------
(* Instance of CommitLedger: two receipts with one id (a conflict), one    *)
(* that needs two tokens and the second generation, and one of the second  *)
(* engine process that carries no material.                                *)
EXTENDS CommitLedger

MCReceipts == {
  [id |-> 1, epoch |-> 1, generation |-> 0, tokens |-> {<<1, 1>>}],
  [id |-> 1, epoch |-> 1, generation |-> 0, tokens |-> {<<1, 2>>}],
  [id |-> 2, epoch |-> 1, generation |-> 1, tokens |-> {<<1, 1>>, <<1, 2>>}],
  [id |-> 2, epoch |-> 2, generation |-> 0, tokens |-> {}]}
=============================================================================
