------------------------- MODULE MCAutomaticCheck -------------------------
(* The update check with two checkers and one release to announce. *)
EXTENDS AutomaticCheck
=============================================================================
