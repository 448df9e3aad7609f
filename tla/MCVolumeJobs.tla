---------------------------- MODULE MCVolumeJobs ----------------------------
(* Instances of VolumeJobs for TLC: the .cfg files choose the number of    *)
(* requests and which faults may happen.                                   *)
EXTENDS VolumeJobs, TLC

\* Jobs are numbered by their primary key, not by their name.
Symmetry == Permutations(Jobs)
=============================================================================
