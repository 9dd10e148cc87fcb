------------------------ MODULE MCGPUWorkerSupervisor -----------------------
(* Instance of GPUWorkerSupervisor: a foreground call and the snapshot     *)
(* thread.  A supervisor that starts lazily does all that the production   *)
(* one does.                                                               *)
EXTENDS GPUWorkerSupervisor
=============================================================================
