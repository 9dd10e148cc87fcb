---------------------- MODULE MCBackgroundMaintenance ----------------------
(* Instance of BackgroundMaintenance: work is told apart by its label.     *)
EXTENDS BackgroundMaintenance
=============================================================================
