------------------------------ MODULE HashRing ------------------------------
(***************************************************************************)
(* The consistent-hash ring: which nodes hold a metric, in a node's view.  *)
(***************************************************************************)
EXTENDS Integers, FiniteSets, Sequences, SequencesExt, FiniteSetsExt

CONSTANTS
    Nodes,
    Metrics,
    HashSpace,      \* hashes are 1..HashSpace
    Virtual,        \* [Nodes -> SUBSET hashes]: the virtual nodes
    HashOf          \* [Metrics -> hashes]

Hashes == 1..HashSpace

ASSUME RingAssumption ==
    /\ HashSpace \in Nat \ {0}
    /\ Virtual \in [Nodes -> SUBSET Hashes \ {{}}]
    /\ HashOf \in [Metrics -> Hashes]
    /\ \A m, n \in Nodes : m # n => Virtual[m] \cap Virtual[n] = {}

\* The sorted keys of a ring.
Keys(view) == SelectSeq([h \in Hashes |-> h], LAMBDA h : \E n \in view : h \in Virtual[n])
Owner(h) == CHOOSE n \in Nodes : h \in Virtual[n]

\* The first key from the metric's hash on, the first of all after the last.
Start(keys, metric) ==
    LET from == {i \in DOMAIN keys : keys[i] >= HashOf[metric]}
    IN IF from = {} THEN 1 ELSE Min(from)

\* Defective variant: only as many keys as nodes are looked at.
GetNOfKeys(view, metric, n) ==
    LET keys == Keys(view)
        at == Start(keys, metric)
    IN FoldLeft(LAMBDA found, i :
                   LET node == Owner(keys[1 + ((at + i - 2) % Len(keys))])
                   IN IF node \in Range(found) THEN found ELSE Append(found, node),
                <<>>, [i \in 1..Min({n, Len(keys)}) |-> i])

\* GetN: the owners of the keys from there on, each once, until there are n.
GetN(view, metric, n) ==
    LET keys == Keys(view)
        at == Start(keys, metric)
    IN FoldLeft(LAMBDA found, i :
                   LET node == Owner(keys[1 + ((at + i - 2) % Len(keys))])
                   IN IF Len(found) >= n \/ node \in Range(found) THEN found
                      ELSE Append(found, node),
                <<>>, [i \in DOMAIN keys |-> i])

\* The same as a table.
Routes ==
    [view \in SUBSET Nodes \ {{}}, metric \in Metrics, n \in 1..Cardinality(Nodes) |->
        GetN(view, metric, n)]

\* How far a node is from a metric, clockwise.
Distance[metric \in Metrics, node \in Nodes] ==
    Min({(h - HashOf[metric]) % HashSpace : h \in Virtual[node]})

\* Whether the routes of a view are of the nearest nodes, the nearest first.
Nearest(view) ==
    \A metric \in Metrics, k \in 1..Cardinality(Nodes) :
        LET route == Routes[view, metric, k]
        IN /\ Len(route) = Min({k, Cardinality(view)}) /\ Range(route) \subseteq view
           /\ \A i \in DOMAIN route : \A m \in view \ {route[j] : j \in 1..i} :
                 Distance[metric, route[i]] < Distance[metric, m]

\* The same as a table (extended by nothing, which makes TLC write it out).
NearestTable == [view \in SUBSET Nodes \ {{}} |-> Nearest(view)] @@ <<>>
=============================================================================
