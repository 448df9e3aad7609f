------------------------ MODULE MCVolumeCancellation ------------------------
(* Instances of VolumeCancellation for TLC. *)
EXTENDS VolumeCancellation
=============================================================================
