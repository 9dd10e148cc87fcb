-------------------------- MODULE MCReceiptDelivery -------------------------
(* Instance of ReceiptDelivery: one commit, every receipt it may freeze.   *)
EXTENDS ReceiptDelivery
MCRetryDelays == <<1>>
MCReceipts ==
  [id : 1..MaxCommits, epoch : 1..MaxEpoch, generation : 0..MaxGeneration,
   tokens : {{}} \cup {{<<e, n>>} : e \in 1..MaxEpoch, n \in 1..MaxToken}]

(* The overlay and the learning switch decide nothing outside CommitLedger,*)
(* whose own run covers them.                                              *)
MCView == <<outboxVars, epoch, generation, clearing, nextToken, clauseTokens, ledger,
            applied, reapplied, requests, tipVars, sequence, historyVars>>
=============================================================================
