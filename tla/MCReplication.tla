--------------------------- MODULE MCReplication ---------------------------
(* TLC instances of Replication: the metrics share one fanout queue. *)
EXTENDS Replication, TLC

OneShard == [m \in Metrics |-> CHOOSE s \in Shards : TRUE]
Symmetry == Permutations(Replicas) \cup Permutations(Handlers) \cup Permutations(Metrics)
=============================================================================
