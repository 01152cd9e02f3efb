------------------------------ MODULE Routing ------------------------------
(***************************************************************************)
(* How a request finds the nodes that execute it.                          *)
(*                                                                         *)
(* A node executes a mutation only if it is the primary of the metric in   *)
(* its own ring and forwards it otherwise.  The items of a WRITE_BATCH are *)
(* grouped by their primaries, and the answers put together again.  Reads  *)
(* go to a replica and fail over to others.  The rings change meanwhile.   *)
(* A request is the stack of the handlers that wait for each other.        *)
(***************************************************************************)
EXTENDS Membership

CONSTANTS
    Requests,       \* [kind, items: Seq(Metrics), rejected: items the executor refuses]
    Factor          \* the replication factor

ASSUME RoutingAssumption ==
    /\ \A q \in Requests :
          /\ q.kind \in {"write", "batch", "read"} /\ q.items \in Seq(Metrics)
          /\ q.rejected \subseteq DOMAIN q.items
          /\ q.kind # "batch" => Len(q.items) = 1
    /\ Factor \in 1..Cardinality(Nodes)

VARIABLES
    request,        \* the request of a client; requests share nothing but the rings
    frames,         \* the handlers that wait for each other, the client's first
    reply,          \* what the client was told: none, lost, or a result
    applied         \* history: how often each item was executed

vars == <<memberVars, request, frames, reply, applied>>

\* Without a client.
Silence == [kind |-> "batch", items |-> <<>>, rejected |-> {}]

None == [kind |-> "none", accepted |-> 0, errors |-> {}]
Gone == [None EXCEPT !.kind = "lost"]

\* A handler on a node: the items it was sent, by their numbers in the request.
Frame(node, items, forced) ==
    [node |-> node, items |-> items, forced |-> forced, stage |-> "check", away |-> {},
     groups |-> {}, sent |-> <<>>, left |-> <<>>, accepted |-> 0, errors |-> {}]

Init ==
    /\ MemberInit
    /\ request \in IF up = {} THEN {Silence} ELSE Requests
    /\ frames = <<>>
    /\ reply = None
    /\ applied = [i \in DOMAIN request.items |-> 0]

Route(n, metric) == Routes[ring[n], metric, Factor]

\* Defective variant: the first other node.
PrimaryOther(n, metric) ==
    IF ring[n] = {n} THEN n ELSE SelectSeq(Routes[ring[n], metric, 2], LAMBDA m : m # n)[1]
Primary(n, metric) == Route(n, metric)[1]

Top == Last(frames)
Metric(p) == request.items[Top.items[p]]
Positions == DOMAIN Top.items
At(stage) == frames # <<>> /\ Top.stage = stage

SetTop(f) == frames' = Append(Front(frames), f)
Goto(stage) == SetTop([Top EXCEPT !.stage = stage])
still == <<memberVars, request, reply, applied>>

\* A client sends a request to a node.
Receive(n) ==
    /\ reply = None /\ frames = <<>> /\ n \in up /\ request # Silence
    /\ frames' = <<Frame(n, [i \in DOMAIN request.items |-> i], FALSE)>>
    /\ UNCHANGED still

-----------------------------------------------------------------------------
(* Calls and their ends. *)

All(f) == DOMAIN f.items

\* Defective variant: the numbers of the group are taken for numbers of the batch.
MergeUnmapped(f, res) ==
    [f EXCEPT !.accepted = @ + res.accepted, !.errors = @ \cup res.errors]
\* The answer for a group of a batch.
Merge(f, res) ==
    [f EXCEPT !.accepted = @ + res.accepted, !.errors = @ \cup {f.sent[k] : k \in res.errors}]

\* A handler goes on after the answer to its call.
Answered(f, res) ==
    IF f.stage = "sent" THEN [Merge(f, res) EXCEPT !.stage = "send"]
    ELSE [f EXCEPT !.stage = "reply", !.accepted = res.accepted, !.errors = res.errors]

Failed(f) == [f EXCEPT !.stage = "reply", !.errors = All(f)]

\* Or after a failure of it.
Unanswered(f) ==
    CASE f.stage = "sent" -> [f EXCEPT !.stage = "send", !.errors = @ \cup Range(f.sent)]
      [] f.stage = "tried" -> IF request.kind = "read" THEN [f EXCEPT !.stage = "failover"] ELSE Failed(f)
      [] f.stage = "asked" -> [f EXCEPT !.stage = "execute"]
      [] OTHER -> Failed(f)

\* A call to a node, which fails at once if the node does not run.
CallNode(f, n, items, forced) ==
    frames' = Front(frames) \o
        IF n \in up THEN <<f, Frame(n, items, forced)>> ELSE <<Unanswered(f)>>

Return ==
    /\ At("reply")
    /\ LET below == Front(frames)
       IN \/ /\ below = <<>> /\ frames' = <<>>
             /\ reply' = [kind |-> "told", accepted |-> Top.accepted, errors |-> Top.errors]
          \/ /\ below # <<>> /\ frames' = Append(Front(below), Answered(Last(below), Top))
             /\ UNCHANGED reply
    /\ UNCHANGED <<memberVars, request, applied>>

\* What is left of a stack whose handler number d is gone.
Cut(d) ==
    IF d = 1 THEN <<>>
    ELSE Append(SubSeq(frames, 1, d - 2), Unanswered(frames[d - 1]))

\* A connection breaks between two running nodes; the called handler may be done.
Lose ==
    /\ faults < MaxFaults /\ faults' = faults + 1
    /\ \E d \in 2..Len(frames) : frames' = Cut(d)
    /\ UNCHANGED <<up, known, gossip, starts, history, links, request, reply, applied>>

\* The end of a node ends its handlers.
Stop(n) ==
    /\ StopNode(n)
    /\ LET at == {d \in DOMAIN frames : frames[d].node = n}
       IN /\ frames' = IF at = {} THEN frames ELSE Cut(Min(at))
          /\ reply' = IF 1 \in at THEN Gone ELSE reply
    /\ UNCHANGED <<request, applied>>

-----------------------------------------------------------------------------
(* Mutations and reads. *)

CheckPrimary ==
    /\ At("check")
    /\ LET f == Top
           away == {p \in Positions : Primary(f.node, Metric(p)) # f.node}
       IN CASE request.kind = "batch" -> SetTop([f EXCEPT !.stage = "group", !.away = away])
            [] request.kind = "write" -> Goto(IF away = {} THEN "local" ELSE "forward")
            [] request.kind = "read" -> Goto("local")
    /\ UNCHANGED still

\* ForwardToPrimary reads the ring again.
Forward ==
    /\ At("forward")
    /\ LET f == Top
           n == Primary(f.node, Metric(1))
       IN IF n = f.node THEN SetTop(Failed(f))
          ELSE CallNode([f EXCEPT !.stage = "forwarded"], n, f.items, f.forced)
    /\ UNCHANGED still

CheckLocal ==
    /\ At("local")
    /\ LET f == Top
           route == Route(f.node, Metric(1))
       IN IF f.forced \/ f.node \in Range(route)
          THEN Goto(IF request.kind = "read" THEN "choose" ELSE "execute")
          ELSE Goto("seek")
    /\ UNCHANGED still

\* ForwardWithFailover reads the ring again.
Seek ==
    /\ At("seek")
    /\ SetTop([Top EXCEPT !.stage = "failover",
           !.left = SelectSeq(Route(Top.node, Metric(1)), LAMBDA n : n # Top.node)])
    /\ UNCHANGED still

Failover ==
    /\ At("failover")
    /\ LET f == Top
       IN IF f.left = <<>> THEN SetTop(Failed(f))
          ELSE CallNode([f EXCEPT !.stage = "tried", !.left = Tail(@)],
                        Head(f.left), f.items, TRUE)
    /\ UNCHANGED still

\* GetReadNode by the policies local, primary and round robin.
ReadNodes(n, metric) ==
    LET route == Route(n, metric)
    IN Range(route) \cup (IF n \in Range(route) THEN {n} ELSE {route[1]})
Choose ==
    /\ At("choose")
    /\ \E n \in ReadNodes(Top.node, Metric(1)) :
          IF Top.forced \/ n = Top.node THEN Goto("execute")
          ELSE CallNode([Top EXCEPT !.stage = "asked"], n, Top.items, TRUE)
    /\ UNCHANGED still

-----------------------------------------------------------------------------
(* WRITE_BATCH. *)

\* The ring is read again for the groups, and to see that the other items are local.
Group ==
    /\ At("group")
    /\ LET f == Top
           to(p) == Primary(f.node, Metric(p))
           away == f.away \cup
               {p \in Positions : f.node \notin Range(Route(f.node, Metric(p)))}
           groups == {<<n, SelectSeq([p \in Positions |-> p],
                                     LAMBDA p : p \in away /\ to(p) = n)>> :
                         n \in {to(p) : p \in away}}
       IN SetTop([f EXCEPT !.stage = "send", !.away = away, !.groups = groups])
    /\ UNCHANGED still

SendGroup ==
    /\ At("send")
    /\ \E g \in Top.groups :
          CallNode([Top EXCEPT !.stage = "sent", !.sent = g[2], !.groups = @ \ {g}],
                   g[1], [k \in DOMAIN g[2] |-> Top.items[g[2][k]]], FALSE)
    /\ UNCHANGED still

SendNoMore ==
    /\ At("send") /\ Top.groups = {}
    /\ Goto("execute")
    /\ UNCHANGED still

\* The items that stayed here, after those that were sent.
Execute ==
    /\ At("execute")
    /\ LET f == Top
           here == All(f) \ f.away
           bad == {p \in here : f.items[p] \in request.rejected}
           good == here \ bad
       IN /\ applied' = [i \in DOMAIN applied |->
                 applied[i] + Cardinality({p \in good : f.items[p] = i})]
          /\ SetTop([f EXCEPT !.stage = "reply", !.accepted = @ + Cardinality(good),
                              !.errors = @ \cup bad])
    /\ UNCHANGED <<memberVars, request, reply>>

Handle ==
    \/ CheckPrimary \/ Forward \/ CheckLocal \/ Seek \/ Failover \/ Choose
    \/ Group \/ SendGroup \/ SendNoMore \/ Execute \/ Return \/ Lose

Meeting ==
    \/ \E n \in Nodes : StartNode(n) \/ Announce(n)
    \/ \E c \in calls : HandleJoin(c) \/ Answer(c) \/ Learn(c) \/ Refused(c) \/ LoseCall(c)
    \/ \E s \in spreading : Propagate(s[1], s[2])
    \/ \E n, m \in Nodes : PingFails(n, m) \/ PingAnswers(n, m)

Next ==
    \/ Handle
    \/ \E n \in Nodes : Receive(n) \/ Stop(n)
    \/ Meeting /\ UNCHANGED <<request, frames, reply, applied>>

\* As before, for the requests.
TypeOK ==
    /\ MemberTypeOK
    /\ request \in Requests \cup {Silence}
    /\ \A f \in Range(frames) :
          /\ f.node \in up /\ Range(f.items) \subseteq DOMAIN request.items
          /\ f.away \cup f.errors \cup Range(f.sent) \subseteq DOMAIN f.items
    /\ reply.kind \in {"none", "lost", "told"} /\ reply.errors \subseteq DOMAIN request.items

\* Whatever the rings of the nodes are and however they change, no item of a mutation
\* is executed twice (IsPrimaryFor, ForwardToPrimary, Send).  One without an error in
\* the answer was executed, one the executor refused has an error, and the number of
\* accepted items is that of the items without one, though groups of items went through
\* several nodes and were split again there (handleWriteBatch, upstreamBatchResult).
Reported ==
    /\ TypeOK
    /\ request.kind # "read" => \A i \in DOMAIN applied : applied[i] <= 1
    /\ reply.kind = "told" /\ request.kind # "read" =>
        LET fine == DOMAIN request.items \ reply.errors
        IN /\ \A i \in fine : applied[i] = 1
           /\ request.rejected \subseteq reply.errors
           /\ reply.accepted = Cardinality(fine)

\* Forwarding ends: a node hands an item to one nearer to its metric, or back to itself
\* when its ring has changed, never to one further away, though the rings of the nodes
\* differ; a read is handed on once (getRoute, ForwardToPrimary, GetPrimaryNode).
Descends ==
    IF request.kind = "read" THEN Len(frames) <= 2
    ELSE \A d \in 2..Len(frames) : \A i \in Range(frames[d].items) :
             Distance[request.items[i], frames[d].node]
                 <= Distance[request.items[i], frames[d - 1].node]

\* Each node sends a metric to the nearest nodes of its own ring, and requests come
\* nearer although the rings differ.
RoutesDescend == RoutesNearest /\ Descends

Spec == Init /\ [][Next]_vars
=============================================================================
