----------------------------- MODULE Membership -----------------------------
(***************************************************************************)
(* How nodes learn of each other and forget each other.                    *)
(*                                                                         *)
(* A starting node announces itself to its seeds one after the other and   *)
(* learns the ring of each.  A node that hears of a new one tells those it *)
(* knows.  Every node pings the others and drops one that does not answer  *)
(* several times in a row.  Rings are kept in memory only.                 *)
(***************************************************************************)
EXTENDS HashRing

CONSTANTS
    Seeds,          \* [Nodes -> Seq(Nodes)]
    Running,        \* sets of nodes that may already run and know each other
    Strikes,        \* failed pings until a node is removed
    MaxStarts,      \* bound on starts of nodes, one of them left if nodes already run
    MaxRemovals,    \* bound on removals by heartbeats
    MaxFaults       \* bound on connections that fail between running nodes

ASSUME MembershipAssumption ==
    /\ Seeds \in [Nodes -> Seq(Nodes)] /\ Running \subseteq SUBSET Nodes
    /\ Strikes \in Nat \ {0} /\ MaxStarts \in Nat \ {0}
    /\ MaxRemovals \in Nat /\ MaxFaults \in Nat

VARIABLES
    up,             \* running nodes
    ring,           \* [Nodes -> SUBSET Nodes]
    failures,       \* [Nodes -> [Nodes -> Nat]]
    seeds,          \* seeds a node has still to ask
    calls,          \* JOIN messages and their answers
    spreading,      \* <<n, x>>: n is about to tell its peers of x
    starts, faults,
    removals,       \* how often a heartbeat has removed a node
    stopped,        \* history: nodes whose process has ended
    links           \* history: <<x, s>>, x has joined through the seed s

known == <<ring, failures>>
gossip == <<seeds, calls, spreading>>
history == <<removals, stopped>>
memberVars == <<up, known, gossip, starts, faults, history, links>>

MemberInit ==
    /\ up \in Running
    /\ ring = [n \in Nodes |-> IF n \in up THEN up ELSE {n}]
    /\ failures = [n \in Nodes |-> [m \in Nodes |-> 0]]
    /\ seeds = [n \in Nodes |-> <<>>]
    /\ calls = {} /\ spreading = {}
    /\ starts = (IF up = {} THEN 0 ELSE MaxStarts - 1) /\ faults = 0
    /\ removals = 0 /\ stopped = {} /\ links = {}

\* A JOIN about a node; the node itself waits for the answer, gossip does not.
Call(from, to, about) == [from |-> from, to |-> to, about |-> about, stage |-> "sent", peers |-> {}]
Asking(n) == \E c \in calls : c.from = n /\ c.about = n

StartNode(n) ==
    /\ n \notin up /\ starts < MaxStarts
    /\ up' = up \cup {n}
    /\ starts' = starts + 1
    /\ seeds' = [seeds EXCEPT ![n] = Seeds[n]]
    /\ UNCHANGED <<known, calls, spreading, faults, history, links>>

\* announceToAddr, one seed at a time.
Announce(n) ==
    /\ n \in up /\ seeds[n] # <<>> /\ ~Asking(n)
    /\ calls' = calls \cup {Call(n, Head(seeds[n]), n)}
    /\ UNCHANGED <<up, known, seeds, spreading, starts, faults, history, links>>

\* The JOIN handler: a node heard of for the first time is passed on.
HandleJoin(c) ==
    /\ c \in calls /\ c.stage = "sent" /\ c.to \in up
    /\ ring' = [ring EXCEPT ![c.to] = @ \cup {c.about}]
    /\ spreading' = IF c.about \in ring[c.to] THEN spreading
                    ELSE spreading \cup {<<c.to, c.about>>}
    /\ calls' = (calls \ {c}) \cup
           IF c.from = c.about THEN {[c EXCEPT !.stage = "handled"]} ELSE {}
    /\ UNCHANGED <<up, failures, seeds, starts, faults, history, links>>

\* Defective variant: the peers are those the caller has told itself.
PeersKnown(c) == {c.about}
Peers(c) == ring[c.to]

\* Its answer lists the ring of that moment.
Answer(c) ==
    /\ c \in calls /\ c.stage = "handled"
    /\ calls' = (calls \ {c}) \cup {[c EXCEPT !.stage = "answered", !.peers = Peers(c)]}
    /\ UNCHANGED <<up, known, seeds, spreading, starts, faults, history, links>>

Learn(c) ==
    /\ c \in calls /\ c.stage = "answered"
    /\ ring' = [ring EXCEPT ![c.from] = @ \cup c.peers]
    /\ seeds' = [seeds EXCEPT ![c.from] = Tail(@)]
    /\ calls' = calls \ {c}
    /\ links' = links \cup {<<c.from, c.to>>}
    /\ UNCHANGED <<up, failures, spreading, starts, faults, history>>

\* A call that is refused, or lost on the way.
Dropped(c) ==
    /\ calls' = calls \ {c}
    /\ seeds' = IF c.from = c.about THEN [seeds EXCEPT ![c.from] = Tail(@)] ELSE seeds
    /\ UNCHANGED <<up, known, spreading, starts, history, links>>
Refused(c) == c \in calls /\ c.to \notin up /\ Dropped(c) /\ UNCHANGED faults
LoseCall(c) ==
    /\ c \in calls /\ c.to \in up
    /\ faults < MaxFaults /\ faults' = faults + 1
    /\ Dropped(c)

\* propagateJoin, to the ring at the moment it runs.
Propagate(n, x) ==
    /\ <<n, x>> \in spreading
    /\ calls' = calls \cup {Call(n, m, x) : m \in ring[n] \ {n, x}}
    /\ spreading' = spreading \ {<<n, x>>}
    /\ UNCHANGED <<up, known, seeds, starts, faults, history, links>>

-----------------------------------------------------------------------------
(* The heartbeat, once the seeds have been asked. *)

Heartbeats(n, m) == n \in up /\ seeds[n] = <<>> /\ m \in ring[n] \ {n}

\* recordFailure.
PingFails(n, m) ==
    /\ Heartbeats(n, m)
    /\ \/ m \notin up /\ UNCHANGED faults
       \/ m \in up /\ faults < MaxFaults /\ faults' = faults + 1
    /\ LET struck == failures[n][m] + 1 >= Strikes
       IN /\ struck => removals < MaxRemovals
          /\ failures' = [failures EXCEPT ![n][m] = IF struck THEN 0 ELSE @ + 1]
          /\ ring' = [ring EXCEPT ![n] = IF struck THEN @ \ {m} ELSE @]
          /\ removals' = IF struck THEN removals + 1 ELSE removals
    /\ UNCHANGED <<up, gossip, starts, stopped, links>>

\* clearFailure.
PingAnswers(n, m) ==
    /\ Heartbeats(n, m) /\ m \in up /\ failures[n][m] > 0
    /\ failures' = [failures EXCEPT ![n][m] = 0]
    /\ UNCHANGED <<up, ring, gossip, starts, faults, history, links>>

\* The process ends, with its ring and its connections.
StopNode(n) ==
    /\ n \in up
    /\ up' = up \ {n}
    /\ ring' = [ring EXCEPT ![n] = {n}]
    /\ failures' = [failures EXCEPT ![n] = [m \in Nodes |-> 0]]
    /\ seeds' = [x \in Nodes |->
           IF x = n THEN <<>>
           ELSE IF \E c \in calls : c.from = x /\ c.about = x /\ c.to = n THEN Tail(seeds[x])
           ELSE seeds[x]]
    /\ calls' = {c \in calls : n \notin {c.from, c.to}}
    /\ spreading' = {s \in spreading : s[1] # n}
    /\ links' = {l \in links : n \notin {l[1], l[2]}}
    /\ stopped' = stopped \cup {n}
    /\ UNCHANGED <<starts, faults, removals>>

-----------------------------------------------------------------------------
MemberTypeOK ==
    /\ up \subseteq Nodes /\ ring \in [Nodes -> SUBSET Nodes]
    /\ failures \in [Nodes -> [Nodes -> 0..(Strikes - 1)]]
    /\ seeds \in [Nodes -> Seq(Nodes)]
    /\ calls \subseteq [from: Nodes, to: Nodes, about: Nodes,
                        stage: {"sent", "handled", "answered"}, peers: SUBSET Nodes]
    /\ spreading \subseteq Nodes \X Nodes
    /\ {starts, faults, removals} \subseteq Nat
    /\ stopped \subseteq Nodes /\ links \subseteq Nodes \X Nodes

\* In a cluster with one seed that keeps running, when no announcement is on its way
\* any more, no connection has failed and no heartbeat has removed anyone, a node and
\* the seed it joined through have the same ring, however joins, gossip and restarts
\* of the other nodes interleaved (the JOIN handler, announceToAddr, propagateJoin).
TheSeed(s) == \A n \in Nodes : Seeds[n] = IF n = s THEN <<>> ELSE <<s>>
Settled == calls = {} /\ spreading = {} /\ \A n \in Nodes : seeds[n] = <<>>
Converged ==
    \A s \in Nodes \ stopped :
        TheSeed(s) /\ Settled /\ faults = 0 /\ removals = 0 =>
            \A l \in links : ring[l[1]] = ring[l[2]]

\* The ring gives every metric the nearest nodes of a view, nearest first, so nodes
\* with the same ring agree on its primary and replicas (Ring.GetN).
RoutesNearest == \A n \in up : NearestTable[ring[n]]
=============================================================================
