--------------------------- MODULE MCLearningStore --------------------------
(* Instance of LearningStore: two directories, so that a move can be       *)
(* followed by a clear of the other one.                                   *)
EXTENDS LearningStore
=============================================================================
