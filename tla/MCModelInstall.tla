-------------------------- MODULE MCModelInstall --------------------------
(* Two downloads, two cancellations and a change of the setting. *)
EXTENDS ModelInstall
=============================================================================
