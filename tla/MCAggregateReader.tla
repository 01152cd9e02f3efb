------------------------- MODULE MCAggregateReader -------------------------
(* TLC instance of AggregateReader: a read of a short range and a read of everything  *)
(* that may share a tag; the sum of the second one is too large over both events.     *)
EXTENDS AggregateReader

A == <<"k", "a">>
B == <<"k", "b">>
X == <<"l", "x">>
TwoEvents == {[metric |-> "m", ts |-> 1, value |-> 2, tags |-> {A, X}],
              [metric |-> "m", ts |-> 3, value |-> 1, tags |-> {B, X}]}
Read(where, from, to, agg) ==
    [metric |-> "m", where |-> where, from |-> from, to |-> to, agg |-> agg]
TwoReads == <<Read({A, X}, 0, 2, "count"), Read({X}, 0, 0, "avg")>>
=============================================================================
