------------------------------ MODULE MCFailure ------------------------------
(* Instances of ClusterFailure for TLC. *)
EXTENDS ClusterFailure, TLC
CONSTANTS M1, M2, M3, M4, M5, E1, S1
==============================================================================
