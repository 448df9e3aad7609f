---------------------------- MODULE MCKmsRotation ----------------------------
(* Instances of KmsRotation for TLC. *)
EXTENDS KmsRotation, TLC

\* Executions differ in nothing but their name.
Symmetry == Permutations(Rotations)
=============================================================================
