--------------------------- MODULE ReplicatedLog ---------------------------
(***************************************************************************)
(* What peer replication promises: one log of mutations, of which each     *)
(* replica applies, per metric, a growing prefix of the published entries, *)
(* each entry once.  Only after an orderly stop of the primary an entry    *)
(* may arrive behind later ones.                                           *)
(***************************************************************************)
EXTENDS Naturals, Sequences, FiniteSets

CONSTANTS
    Replicas,   \* the other owners of the metrics
    Needed      \* replicas that must have applied an acknowledged quorum entry

VARIABLES
    log,        \* entries in the order of their local commit
    published,  \* entries that will reach the replicas
    applied,    \* per replica, the entries it has applied, in that order
    acked,      \* entries acknowledged to their clients
    closes      \* orderly stops of the primary

vars == <<log, published, applied, acked, closes>>

Applied(r) == {applied[r][i] : i \in DOMAIN applied[r]}
Earlier(n) == {k \in 1..(n - 1) : log[k].metric = log[n].metric}
Quorate(n) == log[n].quorum =>
    Needed <= Cardinality({r \in Replicas : n \in Applied(r)})

Init ==
    /\ log = <<>>
    /\ published = {}
    /\ applied = [r \in Replicas |-> <<>>]
    /\ acked = {}
    /\ closes = 0

Commit ==
    /\ Len(log') > Len(log)
    /\ SubSeq(log', 1, Len(log)) = log
    /\ UNCHANGED <<published, applied, acked, closes>>

\* Entries are published in the order of the log, metric by metric; an entry
\* that was passed over never is.
Publish(S) ==
    /\ S \subseteq DOMAIN log
    /\ \A n \in S, k \in published : log[k].metric = log[n].metric => k < n
    /\ published' = published \cup S
    /\ UNCHANGED <<log, applied, acked, closes>>

Apply(r, n) ==
    /\ n \in published \ Applied(r)
    /\ closes = 0 => Earlier(n) \cap published \subseteq Applied(r)
    /\ applied' = [applied EXCEPT ![r] = Append(@, n)]
    /\ UNCHANGED <<log, published, acked, closes>>

Acknowledge(S) ==
    /\ S \subseteq published
    /\ \A n \in S : Quorate(n)
    /\ acked' = acked \cup S
    /\ UNCHANGED <<log, published, applied, closes>>

Stop ==
    /\ closes' = closes + 1
    /\ UNCHANGED <<log, published, applied, acked>>

Next ==
    \/ Commit \/ Stop
    \/ \E S \in SUBSET (DOMAIN log) : Publish(S) \/ Acknowledge(S)
    \/ \E r \in Replicas, n \in published : Apply(r, n)

Spec == Init /\ [][Next]_vars
=============================================================================
