----------------------------- MODULE MCSentinel -----------------------------
(* Instances of Sentinel for TLC: up to three sentinels and three instances. *)
EXTENDS Sentinel, TLC
CONSTANTS S1, S2, S3, M, X, Y

Candidates == Permutations(Candidate)
==============================================================================
