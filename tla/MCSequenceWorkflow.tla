------------------------- MODULE MCSequenceWorkflow -------------------------
(* SequenceWorkflow for TLC. *)
EXTENDS SequenceWorkflow
=============================================================================
