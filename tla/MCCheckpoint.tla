---------------------------- MODULE MCCheckpoint ----------------------------
(* Model values for Checkpoint. *)
EXTENDS Checkpoint
=============================================================================
