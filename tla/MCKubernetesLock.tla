-------------------------- MODULE MCKubernetesLock --------------------------
(* Instances of KubernetesLock for TLC. *)
EXTENDS KubernetesLock
=============================================================================
