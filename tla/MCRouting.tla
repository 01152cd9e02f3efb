----------------------------- MODULE MCRouting -----------------------------
(* Three nodes with two virtual nodes each; n1 is the seed. *)
EXTENDS Routing

CONSTANTS n1, n2, n3, m1, m2

MCVirtual == n1 :> {2, 3} @@ n2 :> {4, 6} @@ n3 :> {5, 7}
\* m2 lies behind the last virtual node.
MCHashOf == m1 :> 4 @@ m2 :> 8
MCSeeds == n1 :> <<>> @@ n2 :> <<n1>> @@ n3 :> <<n1>>
MCRunning == {{}, {n1, n3}, {n1, n2, n3}}
MCRequests == {
    [kind |-> "write", items |-> <<m1>>, rejected |-> {}],
    [kind |-> "batch", items |-> <<m2, m1, m1>>, rejected |-> {2}],
    [kind |-> "read", items |-> <<m1>>, rejected |-> {}]}

\* After the answer nothing is left but the membership, which goes on alike without a client.
Pending == reply = None
=============================================================================
