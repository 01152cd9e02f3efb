----------------------------- MODULE Rebalance -----------------------------
(***************************************************************************)
(* Rebalancing: a node of the Pebble mode imports the metrics it has to    *)
(* hold from the nodes it knows, after it has joined and whenever the      *)
(* replication factor is set.                                              *)
(*                                                                         *)
(* A worker per peer asks for the peer's metrics and, for each one, for    *)
(* its events and scores, which the peer reads with one iterator after the *)
(* other.  Meanwhile peers are written to and send replica lines, other    *)
(* workers import, connections break and the node shuts down.  A metric    *)
(* has one entity; an event has one tag.                                   *)
(***************************************************************************)
EXTENDS Naturals, FiniteSets

CONSTANTS
    Peers,          \* the other nodes of the ring
    Metrics, Times, Tags,
    Owned,          \* Owned[f]: the metrics this node holds if the factor is f
    Stored,         \* [Peers -> SUBSET Metrics]: what the peers hold initially
    ScoreOnly,      \* metrics that have been SET and never written
    Writes,         \* writes clients may send: [metric, time, tag]
    None,
    MaxTriggers,    \* bound on rebalances
    MaxWrites,      \* bound on writes at the peers
    MaxFaults       \* bound on lost connections and failing exports and imports

ASSUME RebalanceAssumption ==
    /\ \A f \in DOMAIN Owned : Owned[f] \subseteq Metrics
    /\ Stored \in [Peers -> SUBSET Metrics] /\ ScoreOnly \subseteq Metrics
    /\ Writes \subseteq [metric : Metrics, time : Times, tag : Tags]
    /\ Tags # {} /\ None \notin Tags /\ None \notin Metrics /\ None \notin Nat
    /\ MaxTriggers \in Nat \ {0} /\ {MaxWrites, MaxFaults} \subseteq Nat

VARIABLES
    copies,         \* per peer and metric: events, ranking keys and score
    own,            \* the same of this node
    idx,            \* this node's tag index
    lines,          \* replica lines on their way to this node
    staged,         \* per metric: a line staged and not committed
    factor,         \* the replication factor
    trigger,        \* progress of TriggerRebalance; the peers it has still to ask
    worker,         \* progress of rebalanceFromNode
    rebalancing,    \* metrics that a worker imports
    closed, open,   \* the cluster is closed; the store is open
    writes, faults,
    imported,       \* history: peers whose answer has been stored, per metric
    written,        \* history: metrics that have been written since the start
    unsent          \* history: events written at a peer whose ring or factor does not name
                    \* this node, and not imported since

peerVars == <<copies, lines, writes>>
store == <<own, idx>>
lifeVars == <<closed, open>>
vars == <<peerVars, store, staged, factor, trigger, worker, rebalancing, lifeVars,
          faults, imported, written, unsent>>

-----------------------------------------------------------------------------
(* Data. *)

Triggers == 1..MaxTriggers
Workers == Triggers \X Peers
Nothing == [events |-> [t \in Times |-> None], rank |-> {}, score |-> None]
\* A copy before the first write of the model: one event, the entity's score is 1.
Old(m) ==
    [events |-> [t \in Times |->
                   IF m \notin ScoreOnly /\ t = CHOOSE x \in Times : TRUE
                   THEN CHOOSE g \in Tags : TRUE ELSE None],
     rank |-> {1}, score |-> 1]

\* HasMetric looks for events only; listAllMetrics also for scores.
HasMetric(c) == \E t \in Times : c.events[t] # None
Listed(c) == HasMetric(c) \/ c.score # None

\* Get: an entity without a score has 0.
Current(c) == IF c.score = None THEN 0 ELSE c.score
\* The copy after a write of an event, which adds 1 to the score s it has read.
Added(c, t, g, s) ==
    [events |-> [c.events EXCEPT ![t] = g],
     rank |-> (c.rank \ {s}) \cup {s + 1},
     score |-> s + 1]

Begin == [pc |-> "connect", todo |-> {}, metric |-> None, data |-> Nothing, lost |-> FALSE]

-----------------------------------------------------------------------------
Init ==
    /\ copies = [p \in Peers |-> [m \in Metrics |-> IF m \in Stored[p] THEN Old(m) ELSE Nothing]]
    /\ own = [m \in Metrics |-> Nothing]
    /\ idx = {}
    /\ lines = {}
    /\ staged = [m \in Metrics |-> None]
    /\ factor \in DOMAIN Owned
    /\ \E first \in {"wait", "none"} :
          trigger = [k \in Triggers |-> IF k = 1 THEN first ELSE "none"]
    /\ worker = [w \in Workers |-> [Begin EXCEPT !.pc = "none"]]
    /\ rebalancing = {}
    /\ closed = FALSE /\ open = TRUE
    /\ writes = 0 /\ faults = 0
    /\ imported = [m \in Metrics |-> {}]
    /\ written = {} /\ unsent = {}

-----------------------------------------------------------------------------
(* Writes elsewhere, and their lines. *)

\* A peer commits a write of a metric it holds and sends it to the metric's other replicas,
\* as its own ring and factor name them: rings and factors differ while a JOIN or SET_CONFIG
\* is on its way to the peer, or has been lost, so that this node is one of them or not.
WriteAtPeer(p) ==
    /\ writes < MaxWrites
    /\ \E e \in Writes :
          /\ e.metric \in Stored[p]
          /\ copies' = [copies EXCEPT ![p][e.metric] = Added(@, e.time, e.tag, Current(@))]
          /\ \/ /\ lines' = lines \cup {[id |-> writes, metric |-> e.metric, time |-> e.time,
                                        tag |-> e.tag]}
                /\ UNCHANGED unsent
             \/ /\ unsent' = unsent \cup {<<p, e.metric, e.time>>}
                /\ UNCHANGED lines
          /\ written' = written \cup {e.metric}
    /\ writes' = writes + 1
    /\ UNCHANGED <<store, staged, factor, trigger, worker, rebalancing, lifeVars, faults,
                   imported>>

\* StageEvent and the increment read what they are going to replace; the entity's lock
\* is held until the commit.
StageLine ==
    \E l \in lines :
        /\ open
        /\ staged[l.metric] = None
        /\ staged' = [staged EXCEPT ![l.metric] =
                        [line |-> l, event |-> own[l.metric].events[l.time],
                         score |-> Current(own[l.metric])]]
        /\ UNCHANGED <<peerVars, store, factor, trigger, worker, rebalancing, lifeVars,
                       faults, imported, written, unsent>>

CommitLine(m) ==
    /\ staged[m] # None
    /\ LET l == staged[m].line
       IN /\ own' = [own EXCEPT ![m] = Added(@, l.time, l.tag, staged[m].score)]
          /\ idx' = (idx \ {<<m, staged[m].event, l.time>>}) \cup {<<m, l.tag, l.time>>}
          /\ lines' = lines \ {l}
    /\ staged' = [staged EXCEPT ![m] = None]
    /\ UNCHANGED <<copies, writes, factor, trigger, worker, rebalancing, lifeVars, faults,
                   imported, written, unsent>>

-----------------------------------------------------------------------------
(* TriggerRebalance *)

\* SET_CONFIG: the factor is stored, and the rebalance runs beside the handler.
SetConfig(k) ==
    /\ open
    /\ trigger[k] = "none" /\ \A j \in 1..(k - 1) : trigger[j] # "none"
    /\ \E f \in DOMAIN Owned : factor' = f
    /\ trigger' = [trigger EXCEPT ![k] = "wait"]
    /\ UNCHANGED <<peerVars, store, staged, worker, rebalancing, lifeVars, faults,
                   imported, written, unsent>>

\* Two seconds have passed, or the cluster has been closed.
Wait(k) ==
    /\ trigger[k] = "wait"
    /\ \/ closed /\ trigger' = [trigger EXCEPT ![k] = "done"]
       \/ trigger' = [trigger EXCEPT ![k] = "start"]
    /\ UNCHANGED <<peerVars, store, staged, factor, worker, rebalancing, lifeVars, faults,
                   imported, written, unsent>>

\* Defective variant: startWorker does not look at closed.
MayStartAnyhow == TRUE
\* startWorker refuses once the cluster is closed.
MayStart == ~closed

StartWorkers(k) ==
    /\ trigger[k] = "start"
    /\ LET todo == {p \in Peers : worker[<<k, p>>].pc = "none"}
       IN \/ /\ MayStart
             /\ \E p \in todo : worker' = [worker EXCEPT ![<<k, p>>] = Begin]
             /\ UNCHANGED trigger
          \/ /\ todo = {} \/ ~MayStart
             /\ trigger' = [trigger EXCEPT ![k] = "done"]
             /\ UNCHANGED worker
    /\ UNCHANGED <<peerVars, store, staged, factor, rebalancing, lifeVars, faults,
                   imported, written, unsent>>

-----------------------------------------------------------------------------
(* rebalanceFromNode *)

Goes(w, pc) == worker' = [worker EXCEPT ![w].pc = pc]
NextMetric(w) ==
    worker' = [worker EXCEPT ![w] = [Begin EXCEPT !.pc = "next", !.todo = worker[w].todo,
                                                 !.lost = worker[w].lost]]
End(w) == worker' = [worker EXCEPT ![w] = [Begin EXCEPT !.pc = "ended"]]
Fault == faults < MaxFaults /\ faults' = faults + 1

Connect(w) ==
    /\ worker[w].pc = "connect"
    /\ \/ Goes(w, "list") /\ UNCHANGED faults
       \/ Fault /\ End(w)
    /\ UNCHANGED <<peerVars, store, staged, factor, trigger, rebalancing, lifeVars,
                   imported, written, unsent>>

\* CLUSTER_METRICS
ListMetrics(w) ==
    /\ worker[w].pc = "list"
    /\ \/ /\ worker' = [worker EXCEPT ![w].pc = "next",
                          ![w].todo = {m \in Metrics : Listed(copies[w[2]][m])}]
          /\ UNCHANGED faults
       \/ Fault /\ End(w)
    /\ UNCHANGED <<peerVars, store, staged, factor, trigger, rebalancing, lifeVars,
                   imported, written, unsent>>

\* The next metric of the list: skipped if it is not held here or present.
Consider(w) ==
    /\ worker[w].pc = "next"
    /\ \/ worker[w].todo = {} /\ End(w)
       \/ \E m \in worker[w].todo :
             IF m \in Owned[factor] /\ ~HasMetric(own[m])
             THEN worker' = [worker EXCEPT ![w].pc = "claim", ![w].todo = @ \ {m},
                                           ![w].metric = m]
             ELSE worker' = [worker EXCEPT ![w].todo = @ \ {m}]
    /\ UNCHANGED <<peerVars, store, staged, factor, trigger, rebalancing, lifeVars, faults,
                   imported, written, unsent>>

\* LoadOrStore: skipped if another worker imports it.
Claim(w) ==
    /\ worker[w].pc = "claim"
    /\ IF worker[w].metric \in rebalancing THEN NextMetric(w) ELSE Goes(w, "events")
    /\ rebalancing' = rebalancing \cup {worker[w].metric}
    /\ UNCHANGED <<peerVars, store, staged, factor, trigger, lifeVars, faults, imported,
                   written, unsent>>

\* Defective variant: the entity keys are not exported.
ExportWithoutScores(data, c, part) ==
    [data EXCEPT ![part] = IF part = "score" THEN None ELSE c[part]]
\* One iterator of ExportMetricData: the events, the ranking keys or the entity keys.
Export(data, c, part) == [data EXCEPT ![part] = c[part]]

\* CLUSTER_EXPORT: the peer reads the three parts one after the other.
ExportPart(w) ==
    /\ worker[w].pc \in {"events", "rank", "score"} /\ ~worker[w].lost
    /\ LET part == worker[w].pc
       IN worker' = [worker EXCEPT
             ![w].data = Export(IF part = "events" THEN Nothing ELSE @,
                                copies[w[2]][worker[w].metric], part),
             ![w].pc = IF part = "events" THEN "rank"
                       ELSE IF part = "rank" THEN "score" ELSE "import"]
    /\ UNCHANGED <<peerVars, store, staged, factor, trigger, rebalancing, lifeVars, faults,
                   imported, written, unsent>>

\* Defective variant: an error leaves the claim.
ReleaseOnSuccess(w, ok) ==
    rebalancing' = IF ok THEN rebalancing \ {worker[w].metric} ELSE rebalancing
Release(w, ok) == rebalancing' = rebalancing \ {worker[w].metric}

\* The peer's answer is an error, which is parsed as an export without content; or the
\* connection is lost, and with it every later request of this worker, which goes on to
\* claim and release the metrics that remain.
ExportFails(w) ==
    /\ worker[w].pc \in {"events", "rank", "score"}
    /\ \/ /\ ~worker[w].lost /\ Fault
          /\ worker' = [worker EXCEPT ![w].data = Nothing, ![w].pc = "import"]
          /\ UNCHANGED rebalancing
       \/ /\ IF worker[w].lost THEN UNCHANGED faults ELSE Fault
          /\ worker' = [worker EXCEPT ![w] = [Begin EXCEPT !.pc = "next", !.todo = worker[w].todo,
                                                           !.lost = TRUE]]
          /\ Release(w, FALSE)
    /\ UNCHANGED <<peerVars, store, staged, factor, trigger, lifeVars, imported, written,
                   unsent>>

\* Defective variant: the index, which is not exported, is not rebuilt.
IndexNothing(m, data) == idx
\* The index entries of the imported events are part of the batch.
Rebuilt(m, data) ==
    idx \cup {<<m, data.events[t], t>> : t \in {x \in Times : data.events[x] # None}}

\* ImportRebalanceData: one batch of blind writes, without the entities' locks.
Import(w) ==
    /\ worker[w].pc = "import"
    /\ LET m == worker[w].metric
           data == worker[w].data
       IN /\ own' = [own EXCEPT ![m] =
                [events |-> [t \in Times |-> IF data.events[t] = None THEN @.events[t]
                                             ELSE data.events[t]],
                 rank |-> @.rank \cup data.rank,
                 score |-> IF data.score = None THEN @.score ELSE data.score]]
          /\ idx' = Rebuilt(m, data)
          /\ imported' = [imported EXCEPT ![m] = IF Listed(data) THEN @ \cup {w[2]} ELSE @]
          /\ unsent' = unsent \ {<<w[2], m, t>> : t \in {x \in Times : data.events[x] # None}}
    /\ worker' = [worker EXCEPT ![w].pc = "release", ![w].data = Nothing]
    /\ UNCHANGED <<peerVars, staged, factor, trigger, rebalancing, lifeVars, faults, written>>

ImportFails(w) ==
    /\ worker[w].pc = "import"
    /\ Fault
    /\ Release(w, FALSE)
    /\ NextMetric(w)
    /\ UNCHANGED <<peerVars, store, staged, factor, trigger, lifeVars, imported, written,
                   unsent>>

Released(w) ==
    /\ worker[w].pc = "release"
    /\ Release(w, TRUE)
    /\ NextMetric(w)
    /\ UNCHANGED <<peerVars, store, staged, factor, trigger, lifeVars, faults, imported,
                   written, unsent>>

-----------------------------------------------------------------------------
(* Shutdown: Close waits for the workers, then the server's handlers end and *)
(* the store is closed.                                                      *)

Close ==
    /\ ~closed
    /\ closed' = TRUE
    /\ UNCHANGED <<peerVars, store, staged, factor, trigger, worker, rebalancing, open,
                   faults, imported, written, unsent>>

Running(w) == worker[w].pc \notin {"none", "ended"}

CloseStore ==
    /\ closed /\ open
    /\ \A w \in Workers : ~Running(w)
    /\ \A m \in Metrics : staged[m] = None
    /\ open' = FALSE
    /\ UNCHANGED <<peerVars, store, staged, factor, trigger, worker, rebalancing, closed,
                   faults, imported, written, unsent>>

-----------------------------------------------------------------------------
TriggerStep(k) == Wait(k) \/ StartWorkers(k)
WorkerStep(w) ==
    \/ Connect(w) \/ ListMetrics(w) \/ Consider(w) \/ Claim(w) \/ ExportPart(w)
    \/ ExportFails(w) \/ Import(w) \/ ImportFails(w) \/ Released(w)
LineStep == StageLine \/ \E m \in Metrics : CommitLine(m)

Next ==
    \/ \E p \in Peers : WriteAtPeer(p)
    \/ LineStep
    \/ \E k \in Triggers : SetConfig(k) \/ TriggerStep(k)
    \/ \E w \in Workers : WorkerStep(w)
    \/ Close \/ CloseStore
Spec == Init /\ [][Next]_vars

\* The goroutines go on; a request to a peer ends, as it has a deadline.  Nothing is
\* assumed of writers, administrators, lines and the shutdown.
Fairness ==
    /\ \A k \in Triggers : WF_vars(TriggerStep(k))
    /\ \A w \in Workers : WF_vars(WorkerStep(w))
LiveSpec == Spec /\ Fairness

-----------------------------------------------------------------------------
(* Correctness. *)

Copy == [events : [Times -> Tags \cup {None}], rank : SUBSET Nat, score : Nat \cup {None}]
Line == [id : Nat, metric : Metrics, time : Times, tag : Tags]
Pcs == {"none", "connect", "list", "next", "claim", "events", "rank", "score", "import",
        "release", "ended"}

\* Types of the state.
TypeOK ==
    /\ copies \in [Peers -> [Metrics -> Copy]]
    /\ own \in [Metrics -> Copy]
    /\ idx \subseteq Metrics \X Tags \X Times
    /\ lines \subseteq Line
    /\ staged \in [Metrics -> {None} \cup [line : Line, event : Tags \cup {None},
                                           score : Nat]]
    /\ factor \in DOMAIN Owned
    /\ trigger \in [Triggers -> {"none", "wait", "start", "done"}]
    /\ worker \in [Workers -> [pc : Pcs, todo : SUBSET Metrics,
                               metric : Metrics \cup {None}, data : Copy, lost : BOOLEAN]]
    /\ rebalancing \subseteq Metrics
    /\ closed \in BOOLEAN /\ open \in BOOLEAN
    /\ writes \in Nat /\ faults \in Nat
    /\ imported \in [Metrics -> SUBSET Peers]
    /\ written \subseteq Metrics
    /\ unsent \subseteq Peers \X Metrics \X Times

\* Every event is found through its tag, although imports and lines that were staged
\* before them replace each other's events ("Rebalance imports rebuild tag indexes",
\* AUDIT_2026-09-18.md; ImportRebalanceData, StageEvent).
FoundByTags ==
    /\ TypeOK
    /\ \A m \in Metrics, t \in Times :
          own[m].events[t] # None => <<m, own[m].events[t], t>> \in idx

Quiet ==
    /\ \A k \in Triggers : trigger[k] \in {"none", "done"}
    /\ \A w \in Workers : ~Running(w)

\* A metric that has been imported from a peer has every event the peer has, those
\* written during the export included: they are in the export, in a line that is still to
\* be applied, or in neither because the peer, whose ring or factor does not name this
\* node, wrote them after the export had read its events.  If the metric has not been
\* written, scores and ranking keys are the peer's as well.  And after a rebalance without
\* faults, shutdown and writes every metric to be held here has been imported from a peer
\* that has it (rebalanceFromNode, ExportMetricData, ImportRebalanceData, GetReplicaNodes;
\* "new node imports metrics it owns from existing nodes", v1.md).
NothingMissing ==
    /\ \A m \in Metrics : \A p \in imported[m] :
          /\ \A t \in Times : copies[p][m].events[t] # None =>
                \/ own[m].events[t] # None
                \/ \E l \in lines : l.metric = m /\ l.time = t
                \/ <<p, m, t>> \in unsent
          /\ m \notin written => own[m] = copies[p][m]
    /\ Quiet /\ faults = 0 /\ ~closed /\ trigger[1] = "done" =>
          \A p \in Peers : \A m \in Stored[p] \cap Owned[factor] :
              m \in written \/ imported[m] # {}

\* No worker uses the store once it is closed (startWorker, Close, the shutdown in
\* cmd/flamedb/main.go).
StoreInUse == (\E w \in Workers : Running(w)) => open

\* A rebalance ends and leaves no claim behind, which would keep the metric from being
\* imported until the process is restarted (TriggerRebalance, rebalanceFromNode).
Completes ==
    \A k \in Triggers :
        trigger[k] = "wait" ~> trigger[k] = "done" /\ Quiet /\ rebalancing = {}
=============================================================================
