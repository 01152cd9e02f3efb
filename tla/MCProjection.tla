---------------------------- MODULE MCProjection ----------------------------
(* TLC instances of Projection. *)
EXTENDS Projection, TLC

Symmetry == Permutations(Readers) \cup Permutations(Boards) \cup Permutations(Entities)
=============================================================================
