------------------------------ MODULE MCElection ------------------------------
(* Instances of ClusterElection for TLC: shard A has a master and up to two
   slaves, every other shard has one master. *)
EXTENDS ClusterElection, TLC
CONSTANTS A1, A2, A3, B1, C1, \* nodes
          A, B, C             \* shards

MCFirstMaster == [s \in Shard |-> CASE s = A -> A1 [] s = B -> B1 [] s = C -> C1]
MCShardOf == [n \in Node |-> CASE n = B1 -> B [] n = C1 -> C [] OTHER -> A]
MCFirstEpoch == [s \in Shard |-> CASE s = A -> 1 [] s = B -> 2 [] s = C -> 3]
MCFreshEpoch == [s \in Shard |-> 0]
MCNameRank ==
    [n \in Node |-> CASE n = A1 -> 1 [] n = A2 -> 2 [] n = A3 -> 3
                      [] n = B1 -> 4 [] n = C1 -> 5]

\* Every two nodes are linked; every two but the failed master; each slave of the
\* failed master with each other master; each slave with two masters, one of
\* which hears both.
AllLinked   == Node \X Node
WithoutA1   == (Node \ {A1}) \X (Node \ {A1})
SlavesToMasters == ({A2, A3} \X {B1, C1}) \cup ({B1, C1} \X {A2, A3})
OneSharedVoter == LET links == ({A2} \X {A1, B1}) \cup ({A3} \X {B1, C1})
                  IN  links \cup {<<l[2], l[1]>> : l \in links}
==============================================================================
