---------------------------- MODULE MCCoalescer ----------------------------
(* TLC instances of Coalescer. *)
EXTENDS Coalescer, TLC

CONSTANTS r1, r2, r3

\* The only item of the first chunk is rejected; the second chunk has two items of a
\* second metric.
MCItems == (r1 :> 1 @@ r2 :> 2 @@ r3 :> 1)
MCBad == {<<r1, 1>>}
MCMetric == (<<r1, 1>> :> "m" @@ <<r2, 1>> :> "n" @@ <<r2, 2>> :> "n" @@ <<r3, 1>> :> "m")

Symmetry == Permutations(Workers)
=============================================================================
