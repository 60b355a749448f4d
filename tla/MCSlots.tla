------------------------------ MODULE MCSlots ------------------------------
(* Instances of ClusterSlots for TLC: the slot goes from S to T, and on to O. *)
EXTENDS ClusterSlots, TLC
CONSTANTS S, T, O, \* nodes
          k1, c1, c2, v1, v2

MCNameRank == [n \in Node |-> CASE n = O -> 1 [] n = S -> 2 [] n = T -> 3]

\* redis-trib create gives every node a configEpoch of its own, if it succeeds
\* (assign_config_epoch); or two of them share one.
MCEpochs    == [n \in Node |-> CASE n = T -> 1 [] n = S -> 2 [] n = O -> 3]
MCCollision == [n \in Node |-> IF n = S THEN 1 ELSE 2]

\* The source shares one with the node that looks on, and has the smaller name.
MCSourceCollision == [n \in Node |-> IF n = T THEN 3 ELSE 2]
MCSourceFirst == [n \in Node |-> CASE n = S -> 1 [] n = O -> 2 [] n = T -> 3]

OneMove  == <<[from |-> S, to |-> T]>>
TwoMoves == <<[from |-> S, to |-> T], [from |-> T, to |-> O]>>

\* A late packet of the node that gives the slot away to the one that takes it.
FromSToT == {<<S, T>>}

\* Nothing orders clients or values.
ClientsAndValues == {p @@ q : p \in Permutations(Client), q \in Permutations(Value)}
=============================================================================
