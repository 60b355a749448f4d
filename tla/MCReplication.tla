---------------------------- MODULE MCReplication ----------------------------
(* Instances of Replication: a master with two slaves, and a chain. *)
EXTENDS Replication

CONSTANTS M, A, B

Star   == [n \in Node |-> IF n = M THEN None ELSE M]
Chain  == [n \in Node |-> CASE n = M -> None [] n = A -> M [] n = B -> A]
Stars == {Star}
Chains == {Chain}
Shapes == {Star, Chain}
Moves  == {<<A, None>>, <<B, M>>}
==============================================================================
