---------------------------- MODULE MCRebalance ----------------------------
(* TLC instance of Rebalance: metric m is held by both peers and here whatever the    *)
(* factor is; n, which has a score only, is held by one peer, and here if the factor  *)
(* is 2.  A write replaces m's event by one with another tag or adds an event.        *)
EXTENDS Rebalance

ByFactor == <<{"m"}, {"m", "n"}>>
ByPeer == [p1 |-> {"m", "n"}, p2 |-> {"m"}]
TwoWrites == {[metric |-> "m", time |-> 1, tag |-> "b"], [metric |-> "m", time |-> 2, tag |-> "a"]}
=============================================================================
