-------------------------- MODULE MCSnapshotStream --------------------------
(* The snapshot stream on a small instance, for TLC.                       *)
EXTENDS SnapshotStream
=============================================================================
