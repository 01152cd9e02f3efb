--------------------------- MODULE MCCommandPool ---------------------------
(* TLC instances of CommandPool. *)
EXTENDS CommandPool, TLC

Symmetry == Permutations(Requests) \cup Permutations(Slots)
=============================================================================
