-------------------------- MODULE RebalanceProofs ---------------------------
(***************************************************************************)
(* For every set of peers, metrics and events and for every bound: imports *)
(* and replica lines keep every event of this node findable through its    *)
(* tag, no worker uses a closed store, what an import brings is complete,  *)
(* and a rebalance without faults leaves out no metric that is to be held  *)
(* here.                                                                   *)
(***************************************************************************)
EXTENDS Rebalance, TLAPS

\* A worker that has chosen a metric knows which one.
Busy == {"claim", "events", "rank", "score", "import", "release"}
MetricInv == \A w \in Workers : worker[w].pc \in Busy => worker[w].metric \in Metrics
TypeInv == TypeOK /\ MetricInv

IndexInv ==
    \A m \in Metrics, t \in Times :
        own[m].events[t] # None => <<m, own[m].events[t], t>> \in idx

\* The store is closed after the cluster and after its workers.
LifeInv == (~closed => open) /\ StoreInUse

WorkerState == [pc : Pcs, todo : SUBSET Metrics, metric : Metrics \cup {None}, data : Copy,
                lost : BOOLEAN]
Staged == {None} \cup [line : Line, event : Tags \cup {None}, score : Nat]

-----------------------------------------------------------------------------
(* Copies of a metric. *)

LEMMA CopyTypes ==
    /\ Nothing \in Copy
    /\ \A m \in Metrics : Old(m) \in Copy
    /\ Begin \in WorkerState
<1>1. Nothing \in Copy
  BY Zenon DEF Nothing, Copy
<1>2. (CHOOSE g \in Tags : TRUE) \in Tags
  BY RebalanceAssumption, Zenon
<1>3. ASSUME NEW m \in Metrics PROVE Old(m) \in Copy
  BY <1>2 DEF Old, Copy
<1> QED
  BY <1>1, <1>3, Zenon DEF Begin, WorkerState, Pcs

LEMMA AddedType ==
    ASSUME NEW c \in Copy, NEW t \in Times, NEW g \in Tags, NEW s \in Nat
    PROVE  Added(c, t, g, s) \in Copy
BY DEF Added, Copy

LEMMA CurrentType ==
    ASSUME NEW c \in Copy
    PROVE  Current(c) \in Nat
BY Zenon DEF Current, Copy

LEMMA ExportType ==
    ASSUME NEW data \in Copy, NEW c \in Copy, NEW part \in {"events", "rank", "score"}
    PROVE  Export(data, c, part) \in Copy
<1>1. CASE part = "events"
  BY <1>1, Zenon DEF Export, Copy
<1>2. CASE part = "rank"
  BY <1>2, Zenon DEF Export, Copy
<1>3. CASE part = "score"
  BY <1>3, Zenon DEF Export, Copy
<1> QED
  BY <1>1, <1>2, <1>3, Zenon

-----------------------------------------------------------------------------
(* Types. *)

LEMMA InitType == Init => TypeInv
<1> SUFFICES ASSUME Init PROVE TypeInv
  BY Zenon
<1>1. copies \in [Peers -> [Metrics -> Copy]] /\ own \in [Metrics -> Copy]
  BY CopyTypes, Zenon DEF Init
<1>2. worker \in [Workers -> WorkerState]
  BY CopyTypes, Zenon DEF Init, WorkerState, Pcs
<1>3. trigger \in [Triggers -> {"none", "wait", "start", "done"}]
  BY Zenon DEF Init
<1>4. MetricInv
  BY CopyTypes, Zenon DEF Init, MetricInv, Busy, WorkerState
<1> QED
  BY <1>1, <1>2, <1>3, <1>4, Zenon DEF Init, TypeInv, TypeOK, WorkerState

\* The line of a write at a peer.
Sent(e) == [id |-> writes, metric |-> e.metric, time |-> e.time, tag |-> e.tag]

LEMMA WriteType ==
    ASSUME TypeInv, NEW p \in Peers, WriteAtPeer(p)
    PROVE  TypeInv'
<1> USE DEF TypeInv, TypeOK
<1>1. PICK e \in Writes :
        /\ copies' = [copies EXCEPT ![p][e.metric] =
                        Added(copies[p][e.metric], e.time, e.tag, Current(copies[p][e.metric]))]
        /\ \/ lines' = lines
           \/ lines' = lines \cup {Sent(e)}
        /\ unsent' = unsent \/ unsent' = unsent \cup {<<p, e.metric, e.time>>}
        /\ written' = written \cup {e.metric}
  BY Zenon DEF WriteAtPeer, Sent
<1>2. e.metric \in Metrics /\ e.time \in Times /\ e.tag \in Tags
  BY RebalanceAssumption, Zenon
<1>3. Added(copies[p][e.metric], e.time, e.tag, Current(copies[p][e.metric])) \in Copy
  BY <1>2, AddedType, CurrentType
<1>4. copies' \in [Peers -> [Metrics -> Copy]]
  BY <1>1, <1>2, <1>3, Zenon
<1>5. lines' \subseteq Line /\ written' \subseteq Metrics /\ writes' \in Nat
  BY <1>1, <1>2 DEF WriteAtPeer, Line, Sent
<1>6. unsent' \subseteq Peers \X Metrics \X Times
  BY <1>1, <1>2
<1> QED
  BY <1>4, <1>5, <1>6, Zenon DEF WriteAtPeer, store, lifeVars, MetricInv

LEMMA StageType ==
    ASSUME TypeInv, StageLine
    PROVE  TypeInv'
<1> USE DEF TypeInv, TypeOK
<1>1. PICK l \in lines :
        staged' = [staged EXCEPT ![l.metric] =
                     [line |-> l, event |-> own[l.metric].events[l.time],
                      score |-> Current(own[l.metric])]]
  BY Zenon DEF StageLine
<1>2. l \in Line /\ l.metric \in Metrics /\ l.time \in Times
  BY Zenon DEF Line
<1>3. own[l.metric] \in Copy
  BY <1>2, Zenon
<1>4. own[l.metric].events[l.time] \in Tags \cup {None} /\ Current(own[l.metric]) \in Nat
  BY <1>2, <1>3, CurrentType, Zenon DEF Copy
<1>5. staged' \in [Metrics -> Staged]
  BY <1>1, <1>2, <1>4, Zenon DEF Staged
<1> QED
  BY <1>5, Zenon DEF StageLine, peerVars, store, lifeVars, MetricInv, Staged

LEMMA CommitType ==
    ASSUME TypeInv, NEW m \in Metrics, CommitLine(m)
    PROVE  TypeInv'
<1> USE DEF TypeInv, TypeOK
<1>1. /\ staged[m].line \in Line /\ staged[m].score \in Nat
      /\ staged[m].line.time \in Times /\ staged[m].line.tag \in Tags
  BY Zenon DEF CommitLine, Line
<1>2. Added(own[m], staged[m].line.time, staged[m].line.tag, staged[m].score) \in Copy
  BY <1>1, AddedType, Zenon
<1>3. own' \in [Metrics -> Copy]
  BY <1>2, Zenon DEF CommitLine
<1>4. /\ idx' \subseteq Metrics \X Tags \X Times /\ lines' \subseteq Line
      /\ staged' \in [Metrics -> Staged]
  BY <1>1 DEF CommitLine, Staged
<1> QED
  BY <1>3, <1>4, Zenon DEF CommitLine, lifeVars, MetricInv, Staged

\* A step of one worker.
LEMMA WorkerChange ==
    ASSUME TypeInv, NEW w \in Workers, NEW x \in WorkerState,
           x.pc \in Busy => x.metric \in Metrics,
           worker' = [worker EXCEPT ![w] = x]
    PROVE  worker' \in [Workers -> WorkerState] /\ MetricInv'
<1>1. worker \in [Workers -> WorkerState]
  BY Zenon DEF TypeInv, TypeOK, WorkerState
<1>2. \A v \in Workers : worker'[v] = IF v = w THEN x ELSE worker[v]
  BY <1>1, Zenon
<1> QED
  BY <1>1, <1>2, Zenon DEF TypeInv, MetricInv

LEMMA TriggerType ==
    ASSUME TypeInv, NEW k \in Triggers, SetConfig(k) \/ TriggerStep(k)
    PROVE  TypeInv'
<1> USE DEF TypeInv, TypeOK
<1>1. CASE SetConfig(k) \/ Wait(k)
  BY <1>1, Zenon DEF SetConfig, Wait, peerVars, store, lifeVars, MetricInv
<1>2. CASE StartWorkers(k)
  <2>1. \/ worker' = worker
        \/ \E w \in Workers : worker' = [worker EXCEPT ![w] = Begin]
    BY <1>2, Zenon DEF StartWorkers, Workers
  <2>2. worker' \in [Workers -> WorkerState] /\ MetricInv'
    <3>1. Begin \in WorkerState /\ Begin.pc \notin Busy
      BY CopyTypes, Zenon DEF Begin, Busy
    <3>2. worker \in [Workers -> WorkerState] /\ MetricInv
      BY Zenon DEF WorkerState
    <3>3. CASE worker' = worker
      BY <3>2, <3>3, Zenon DEF MetricInv
    <3> QED
      BY <2>1, <3>1, <3>3, WorkerChange, Zenon
  <2>3. trigger' \in [Triggers -> {"none", "wait", "start", "done"}]
    BY <1>2, Zenon DEF StartWorkers
  <2> QED
    BY <1>2, <2>2, <2>3, Zenon DEF StartWorkers, peerVars, store, lifeVars, WorkerState
<1> QED
  BY <1>1, <1>2, Zenon DEF TriggerStep

\* What a step of a worker may change.
MayBecome(w, x) ==
    /\ x \in WorkerState
    /\ x.pc \in Busy => x.metric \in Metrics
    /\ worker' = [worker EXCEPT ![w] = x]

LEMMA WorkerForm ==
    ASSUME TypeInv, NEW w \in Workers, WorkerStep(w)
    PROVE  /\ Running(w)
           /\ \E x : MayBecome(w, x)
           /\ rebalancing' \subseteq Metrics /\ faults' \in Nat
           /\ UNCHANGED <<peerVars, staged, factor, trigger, lifeVars, written>>
<1> DEFINE v == worker[w]
<1>1. /\ v \in WorkerState /\ (v.pc \in Busy => v.metric \in Metrics)
      /\ rebalancing \subseteq Metrics /\ faults \in Nat /\ worker \in [Workers -> WorkerState]
      /\ w[2] \in Peers
      /\ copies \in [Peers -> [Metrics -> Copy]]
  BY Zenon DEF TypeInv, TypeOK, MetricInv, WorkerState, Workers
<1>2. Nothing \in Copy
  BY CopyTypes, Zenon
<1> DEFINE goes(pc) == [v EXCEPT !.pc = pc]
           next == [Begin EXCEPT !.pc = "next", !.todo = v.todo, !.lost = v.lost]
           lost == [Begin EXCEPT !.pc = "next", !.todo = v.todo, !.lost = TRUE]
           ended == [Begin EXCEPT !.pc = "ended"]
<1>3. /\ next \in WorkerState /\ lost \in WorkerState /\ ended \in WorkerState
      /\ next.pc = "next" /\ lost.pc = "next" /\ ended.pc = "ended"
  BY <1>1, CopyTypes, Zenon DEF WorkerState, Begin, Pcs
<1>4. ASSUME NEW pc \in Pcs
      PROVE  goes(pc) \in WorkerState /\ goes(pc).pc = pc /\ goes(pc).metric = v.metric
  BY <1>1, Zenon DEF WorkerState
<1>5. ASSUME End(w) PROVE \E x : MayBecome(w, x)
  BY <1>3, <1>5, Zenon DEF End, MayBecome, Busy
<1>6. ASSUME NextMetric(w) PROVE \E x : MayBecome(w, x)
  BY <1>3, <1>6, Zenon DEF NextMetric, MayBecome, Busy
<1>7. ASSUME NEW pc \in Pcs, Goes(w, pc), pc \in Busy => v.pc \in Busy PROVE \E x : MayBecome(w, x)
  <2>1. worker' = [worker EXCEPT ![w] = goes(pc)]
    BY <1>1, <1>7, Zenon DEF Goes, WorkerState
  <2> QED
    BY <1>1, <1>4, <1>7, <2>1, Zenon DEF MayBecome
<1>8. ASSUME Fault PROVE faults' \in Nat
  BY <1>1, <1>8 DEF Fault
<1>9. ASSUME NEW ok, Release(w, ok) PROVE rebalancing' \subseteq Metrics
  BY <1>1, <1>9, Zenon DEF Release
<1> HIDE DEF v, goes, next, lost, ended
<1>10. CASE Connect(w)
  BY <1>1, <1>5, <1>7, <1>8, <1>10, Zenon DEF Connect, Running, v, Pcs, Busy
<1>11. CASE ListMetrics(w)
  <2>1. CASE End(w)
    BY <1>1, <1>5, <1>8, <1>11, <2>1, Zenon DEF ListMetrics, Running, v
  <2>2. CASE ~End(w)
    <3> DEFINE x == [pc |-> "next", todo |-> {m \in Metrics : Listed(copies[w[2]][m])},
                     metric |-> v.metric, data |-> v.data, lost |-> v.lost]
    <3>1. x \in WorkerState /\ x.pc \notin Busy
      BY <1>1, Zenon DEF WorkerState, Pcs, Busy
    <3>2. worker' = [worker EXCEPT ![w] = x]
      BY <1>1, <1>11, <2>2 DEF ListMetrics, WorkerState, v
    <3> QED
      BY <1>1, <1>11, <2>2, <3>1, <3>2, ZenonT(30) DEF ListMetrics, Running, MayBecome, v
  <2> QED
    BY <2>1, <2>2, Zenon
<1>12. CASE Consider(w)
  <2>1. CASE End(w)
    BY <1>1, <1>5, <1>12, <2>1, Zenon DEF Consider, Running, v
  <2>2. CASE ~End(w)
    <3>1. PICK m \in v.todo :
            IF m \in Owned[factor] /\ ~HasMetric(own[m])
            THEN worker' = [worker EXCEPT ![w].pc = "claim", ![w].todo = @ \ {m}, ![w].metric = m]
            ELSE worker' = [worker EXCEPT ![w].todo = @ \ {m}]
      BY <1>12, <2>2, Zenon DEF Consider, v
    <3> DEFINE x == [pc |-> "claim", todo |-> v.todo \ {m}, metric |-> m, data |-> v.data,
                     lost |-> v.lost]
               y == [v EXCEPT !.todo = v.todo \ {m}]
    <3>2. m \in Metrics
      BY <1>1, Zenon DEF WorkerState
    <3>3. /\ x \in WorkerState /\ x.metric \in Metrics
          /\ y \in WorkerState /\ y.pc = v.pc /\ y.metric = v.metric
      BY <1>1, <3>2, Zenon DEF WorkerState, Pcs
    <3>4. worker' = [worker EXCEPT ![w] = x] \/ worker' = [worker EXCEPT ![w] = y]
      BY <1>1, <3>1 DEF WorkerState, v
    <3> HIDE DEF x, y
    <3>5. \E z : MayBecome(w, z)
      BY <1>1, <3>3, <3>4, Zenon DEF MayBecome
    <3> QED
      BY <1>1, <1>12, <3>5, ZenonT(30) DEF Consider, Running, v
  <2> QED
    BY <2>1, <2>2, Zenon
<1>13. CASE Claim(w)
  BY <1>1, <1>6, <1>7, <1>13, Zenon DEF Claim, Running, v, Pcs, Busy
<1>14. CASE ExportPart(w)
  <2> DEFINE part == v.pc
             c == copies[w[2]][v.metric]
             x == [v EXCEPT !.data = Export(IF part = "events" THEN Nothing ELSE v.data, c, part),
                            !.pc = IF part = "events" THEN "rank"
                                   ELSE IF part = "rank" THEN "score" ELSE "import"]
  <2>1. part \in {"events", "rank", "score"} /\ v.metric \in Metrics /\ c \in Copy /\ v.data \in Copy
    BY <1>1, <1>14, Zenon DEF ExportPart, v, Busy, WorkerState
  <2>2. Export(IF part = "events" THEN Nothing ELSE v.data, c, part) \in Copy
    BY <1>2, <2>1, ExportType, Zenon
  <2>3. x \in WorkerState /\ x.metric = v.metric
    BY <1>1, <2>1, <2>2, Zenon DEF WorkerState, Pcs
  <2>4. worker' = [worker EXCEPT ![w] = x]
    BY <1>1, <1>14, Zenon DEF ExportPart, WorkerState, v
  <2> QED
    BY <1>1, <1>14, <2>1, <2>3, <2>4, Zenon DEF ExportPart, Running, MayBecome, v
<1>15. CASE ExportFails(w)
  <2>1. CASE worker' = [worker EXCEPT ![w] = lost]
    <3>1. MayBecome(w, lost)
      BY <1>3, <2>1, Zenon DEF MayBecome, Busy
    <3> QED
      BY <1>1, <1>8, <1>9, <1>15, <3>1, Zenon DEF ExportFails, Running, v
  <2>2. CASE worker' # [worker EXCEPT ![w] = lost]
    <3> DEFINE x == [v EXCEPT !.data = Nothing, !.pc = "import"]
    <3>1. x \in WorkerState /\ x.metric = v.metric
      BY <1>1, <1>2, Zenon DEF WorkerState, Pcs
    <3>2. /\ worker' = [worker EXCEPT ![w].data = Nothing, ![w].pc = "import"]
          /\ rebalancing' = rebalancing /\ faults' \in Nat
      BY <1>8, <1>15, <2>2, Zenon DEF ExportFails, v, lost
    <3>3. worker' = [worker EXCEPT ![w] = x]
      BY <1>1, <3>2, Zenon DEF WorkerState, v
    <3> QED
      BY <1>1, <1>15, <3>1, <3>2, <3>3, Zenon DEF ExportFails, Running, MayBecome, v, Busy
  <2> QED
    BY <2>1, <2>2, Zenon
<1>16. CASE Import(w)
  <2> DEFINE x == [v EXCEPT !.pc = "release", !.data = Nothing]
  <2>1. x \in WorkerState /\ x.metric = v.metric
    BY <1>1, <1>2, Zenon DEF WorkerState, Pcs
  <2>2. worker' = [worker EXCEPT ![w] = x]
    BY <1>1, <1>16, Zenon DEF Import, WorkerState, v
  <2> QED
    BY <1>1, <1>16, <2>1, <2>2, Zenon DEF Import, Running, MayBecome, v, Busy
<1>17. CASE ImportFails(w)
  BY <1>1, <1>6, <1>8, <1>9, <1>17, Zenon DEF ImportFails, Running, v
<1>18. CASE Released(w)
  BY <1>1, <1>6, <1>9, <1>18, Zenon DEF Released, Running, v
<1> QED
  BY <1>10, <1>11, <1>12, <1>13, <1>14, <1>15, <1>16, <1>17, <1>18, Zenon DEF WorkerStep

\* A copy after the import of data.
Merged(c, data) ==
    [events |-> [t \in Times |-> IF data.events[t] = None THEN c.events[t] ELSE data.events[t]],
     rank |-> c.rank \cup data.rank,
     score |-> IF data.score = None THEN c.score ELSE data.score]

LEMMA MergedType ==
    ASSUME NEW c \in Copy, NEW data \in Copy
    PROVE  Merged(c, data) \in Copy
BY Zenon DEF Merged, Copy

LEMMA ImportStore ==
    ASSUME TypeInv, NEW w \in Workers, Import(w)
    PROVE  /\ worker[w].metric \in Metrics /\ worker[w].data \in Copy
           /\ own' = [own EXCEPT ![worker[w].metric] =
                        Merged(own[worker[w].metric], worker[w].data)]
           /\ own' \in [Metrics -> Copy]
           /\ idx' = Rebuilt(worker[w].metric, worker[w].data)
           /\ idx' \subseteq Metrics \X Tags \X Times
           /\ imported' \in [Metrics -> SUBSET Peers]
           /\ unsent' \subseteq unsent
<1>1. worker[w].metric \in Metrics /\ worker[w].data \in Copy /\ w[2] \in Peers
  BY Zenon DEF TypeInv, TypeOK, MetricInv, Import, Busy, Workers
<1>2. /\ own' = [own EXCEPT ![worker[w].metric] =
                   Merged(own[worker[w].metric], worker[w].data)]
      /\ idx' = Rebuilt(worker[w].metric, worker[w].data)
  BY Zenon DEF Import, Merged
<1>3. Merged(own[worker[w].metric], worker[w].data) \in Copy
  BY <1>1, MergedType, Zenon DEF TypeInv, TypeOK
<1>4. own' \in [Metrics -> Copy]
  BY <1>2, <1>3, Zenon DEF TypeInv, TypeOK
<1>5. idx' \subseteq Metrics \X Tags \X Times
  BY <1>1, <1>2, SMTT(30) DEF Rebuilt, TypeInv, TypeOK, Copy
<1>6. imported' \in [Metrics -> SUBSET Peers]
  BY <1>1, Zenon DEF Import, TypeInv, TypeOK
<1>7. unsent' \subseteq unsent
  BY Zenon DEF Import
<1> QED
  BY <1>1, <1>2, <1>4, <1>5, <1>6, <1>7, Zenon

LEMMA OnlyImportStores ==
    ASSUME NEW w \in Workers, WorkerStep(w), ~Import(w)
    PROVE  UNCHANGED <<own, idx, imported, unsent>>
BY Zenon DEF WorkerStep, Connect, ListMetrics, Consider, Claim, ExportPart, ExportFails,
     ImportFails, Released, store

LEMMA WorkerType ==
    ASSUME TypeInv, NEW w \in Workers, WorkerStep(w)
    PROVE  TypeInv'
<1>1. worker' \in [Workers -> WorkerState] /\ MetricInv'
  BY WorkerForm, WorkerChange, Zenon DEF MayBecome
<1>2. /\ own' \in [Metrics -> Copy] /\ idx' \subseteq Metrics \X Tags \X Times
      /\ imported' \in [Metrics -> SUBSET Peers] /\ unsent' \subseteq Peers \X Metrics \X Times
  <2>1. CASE Import(w)
    BY <2>1, ImportStore, Zenon DEF TypeInv, TypeOK
  <2>2. CASE ~Import(w)
    BY <2>2, OnlyImportStores, Zenon DEF TypeInv, TypeOK
  <2> QED
    BY <2>1, <2>2, Zenon
<1> QED
  BY <1>1, <1>2, WorkerForm, Zenon DEF TypeInv, TypeOK, WorkerState, peerVars, lifeVars

LEMMA StepType == TypeInv /\ [Next]_vars => TypeInv'
<1> SUFFICES ASSUME TypeInv, [Next]_vars PROVE TypeInv'
  BY Zenon
<1>1. CASE Close \/ CloseStore \/ UNCHANGED vars
  BY <1>1, Zenon
     DEF Close, CloseStore, vars, peerVars, store, lifeVars, TypeInv, TypeOK, MetricInv
<1> QED
  BY <1>1, WriteType, StageType, CommitType, TriggerType, WorkerType, Zenon DEF Next, LineStep

-----------------------------------------------------------------------------
(* The index and the life of the store. *)

LEMMA StepIndex ==
    ASSUME TypeInv, IndexInv, [Next]_vars
    PROVE  IndexInv'
<1>1. CASE UNCHANGED store
  BY <1>1, Zenon DEF store, IndexInv
<1>2. ASSUME NEW m \in Metrics, CommitLine(m) PROVE IndexInv'
  <2>1. staged[m].line.time \in Times /\ own \in [Metrics -> Copy]
    BY <1>2, Zenon DEF CommitLine, TypeInv, TypeOK, Line
  <2> DEFINE l == staged[m].line
  <2>2. \A q \in Metrics, t \in Times :
          own'[q].events[t] = IF q = m /\ t = l.time THEN l.tag ELSE own[q].events[t]
    BY <1>2, <2>1, Zenon DEF CommitLine, Added, Copy
  <2>3. idx' = (idx \ {<<m, staged[m].event, l.time>>}) \cup {<<m, l.tag, l.time>>}
    BY <1>2, Zenon DEF CommitLine
  <2> QED
    BY <2>2, <2>3, Zenon DEF IndexInv
<1>3. ASSUME NEW w \in Workers, WorkerStep(w) PROVE IndexInv'
  <2>1. CASE Import(w)
    <3> DEFINE m == worker[w].metric
               data == worker[w].data
    <3>1. /\ m \in Metrics /\ data \in Copy /\ own \in [Metrics -> Copy]
          /\ own' = [own EXCEPT ![m] = Merged(own[m], data)]
          /\ idx' = Rebuilt(m, data)
      BY <2>1, ImportStore, Zenon DEF TypeInv, TypeOK
    <3> HIDE DEF m, data
    <3>2. \A q \in Metrics, t \in Times :
            own'[q].events[t] = IF q = m /\ data.events[t] # None THEN data.events[t]
                                ELSE own[q].events[t]
      BY <3>1, Zenon DEF Merged
    <3> QED
      BY <3>1, <3>2, ZenonT(30) DEF IndexInv, Rebuilt
  <2>2. CASE ~Import(w)
    BY <1>1, <1>3, <2>2, OnlyImportStores, ZenonT(30) DEF store
  <2> QED
    BY <2>1, <2>2, Zenon
<1>4. CASE \/ \E p \in Peers : WriteAtPeer(p)
           \/ StageLine \/ Close \/ CloseStore \/ UNCHANGED vars
           \/ \E k \in Triggers : SetConfig(k) \/ TriggerStep(k)
  BY <1>1, <1>4, ZenonT(30)
     DEF WriteAtPeer, StageLine, Close, CloseStore, vars, SetConfig, TriggerStep,
       Wait, StartWorkers
<1> QED
  BY <1>2, <1>3, <1>4, Zenon DEF Next, LineStep

LEMMA StepLife ==
    ASSUME TypeInv, LifeInv, [Next]_vars
    PROVE  LifeInv'
<1> USE DEF LifeInv, StoreInUse
<1>1. CASE UNCHANGED <<worker, lifeVars>>
  BY <1>1, Zenon DEF lifeVars, Running
<1>2. ASSUME NEW k \in Triggers, StartWorkers(k) PROVE LifeInv'
  <2>1. worker' = worker \/ ~closed
    BY <1>2, Zenon DEF StartWorkers, MayStart
  <2> QED
    BY <1>1, <1>2, <2>1, Zenon DEF StartWorkers, lifeVars
<1>3. ASSUME NEW w \in Workers, WorkerStep(w) PROVE LifeInv'
  BY <1>3, WorkerForm, Zenon DEF lifeVars
<1>4. CASE Close
  BY <1>4, Zenon DEF Close, Running
<1>5. CASE CloseStore
  BY <1>5, Zenon DEF CloseStore, Running
<1>6. CASE \/ \E p \in Peers : WriteAtPeer(p)
           \/ LineStep \/ UNCHANGED vars
           \/ \E k \in Triggers : SetConfig(k) \/ Wait(k)
  BY <1>1, <1>6, Zenon DEF WriteAtPeer, LineStep, StageLine, CommitLine, vars, SetConfig, Wait
<1> QED
  BY <1>2, <1>3, <1>4, <1>5, <1>6, Zenon DEF Next, TriggerStep

\* Whatever imports and lines replace each other's events, an event of this node is found
\* through its tag.
THEOREM EventsAreFound == Spec => []FoundByTags
<1>1. Init => TypeInv /\ IndexInv
  BY InitType DEF Init, IndexInv, Nothing
<1>2. TypeInv /\ IndexInv /\ [Next]_vars => (TypeInv /\ IndexInv)'
  BY StepType, StepIndex, Zenon
<1>3. TypeInv /\ IndexInv => FoundByTags
  BY Zenon DEF TypeInv, IndexInv, FoundByTags
<1> QED
  BY <1>1, <1>2, <1>3, PTL DEF Spec

\* However many rebalances are under way when the node shuts down, no worker runs once the
\* store is closed.
THEOREM StoreOutlivesWorkers == Spec => []StoreInUse
<1>1. Init => TypeInv /\ LifeInv
  BY InitType, CopyTypes, Zenon DEF Init, LifeInv, StoreInUse, Running, WorkerState
<1>2. TypeInv /\ LifeInv /\ [Next]_vars => (TypeInv /\ LifeInv)'
  BY StepType, StepLife, Zenon
<1>3. LifeInv => StoreInUse
  BY Zenon DEF LifeInv
<1> QED
  BY <1>1, <1>2, <1>3, PTL DEF Spec
-----------------------------------------------------------------------------
(* What an import brings. *)

\* A line that is staged is one of its metric.
StagedInv == \A m \in Metrics : staged[m] # None => staged[m].line.metric = m

\* The event is here, a line will bring one, or the peer has not named this node.
Arrives(o, ls, u, p, m, t) ==
    \/ o[m].events[t] # None
    \/ \E l \in ls : l.metric = m /\ l.time = t
    \/ <<p, m, t>> \in u
Covered(p, m, t) == Arrives(own, lines, unsent, p, m, t)

\* The worker holds the events of its peer, and not the answer of a failed export.
Exported(w) ==
    worker[w].pc \in {"rank", "score"} \/ (worker[w].pc = "import" /\ Listed(worker[w].data))
Brings(w) ==
    Exported(w) => \A t \in Times :
        copies[w[2]][worker[w].metric].events[t] # None =>
            worker[w].data.events[t] # None \/ Covered(w[2], worker[w].metric, t)
EventsInv ==
    /\ \A m \in Metrics : \A p \in imported[m], t \in Times :
          copies[p][m].events[t] # None => Covered(p, m, t)
    /\ \A w \in Workers : Brings(w)

\* A metric that has not been written is nowhere or as it was at the start.
Untouched(m) ==
    /\ \A p \in Peers : copies[p][m] = IF m \in Stored[p] THEN Old(m) ELSE Nothing
    /\ \A l \in lines : l.metric # m
    /\ staged[m] = None
    /\ own[m] \in {Nothing, Old(m)}
    /\ own[m] # Nothing => imported[m] # {}
    /\ \A p \in imported[m] : own[m] = Old(m) /\ m \in Stored[p]

\* What a worker has read of it so far.
Carries(w) ==
    LET m == worker[w].metric
        data == worker[w].data
    IN /\ \A q \in worker[w].todo : q \notin written => q \in Stored[w[2]]
       /\ worker[w].pc \in Busy /\ m \notin written =>
             /\ m \in Stored[w[2]]
             /\ worker[w].pc = "rank" =>
                   data = [events |-> Old(m).events, rank |-> {}, score |-> None]
             /\ worker[w].pc = "score" =>
                   data = [events |-> Old(m).events, rank |-> {1}, score |-> None]
             /\ worker[w].pc = "import" => data = Old(m) \/ (data = Nothing /\ faults > 0)
UnwrittenInv ==
    /\ \A m \in Metrics : m \notin written => Untouched(m)
    /\ \A w \in Workers : Carries(w)

-----------------------------------------------------------------------------
(* The steps of a worker, field by field. *)

Moves(w, from, to) ==
    /\ worker[w].pc = from /\ worker'[w].pc = to
    /\ worker'[w].todo = worker[w].todo
Keeps(w) == worker'[w].metric = worker[w].metric
PeerCopy(w) == copies[w[2]][worker[w].metric]

Ends(w) ==
    /\ worker'[w].pc = "ended" /\ worker'[w].todo = {}
    /\ faults' > 0 \/ (worker[w].pc = "next" /\ worker[w].todo = {})
Lists(w) ==
    /\ worker[w].pc = "list" /\ worker'[w].pc = "next"
    /\ worker'[w].todo = {m \in Metrics : Listed(copies[w[2]][m])}
Passes(w) ==
    /\ worker[w].pc = "next" /\ worker'[w].pc = "next"
    /\ \E m \in worker[w].todo :
          /\ worker'[w].todo = worker[w].todo \ {m}
          /\ m \notin Owned[factor] \/ HasMetric(own[m])
Chooses(w) ==
    /\ worker[w].pc = "next" /\ worker'[w].pc = "claim"
    /\ worker'[w].metric \in worker[w].todo
    /\ worker'[w].todo = worker[w].todo \ {worker'[w].metric}
Yields(w) ==
    \/ Moves(w, "claim", "next") /\ worker[w].metric \in rebalancing
    \/ Moves(w, "import", "next") /\ faults' > 0
    \/ /\ \E pc \in {"events", "rank", "score"} : Moves(w, pc, "next")
       /\ faults' > 0 \/ worker[w].lost
    \/ Moves(w, "release", "next")
Claims(w) == Moves(w, "claim", "events") /\ Keeps(w)
ReadsEvents(w) ==
    /\ Moves(w, "events", "rank") /\ Keeps(w)
    /\ worker'[w].data = [events |-> PeerCopy(w).events, rank |-> {}, score |-> None]
ReadsRank(w) ==
    /\ Moves(w, "rank", "score") /\ Keeps(w)
    /\ worker'[w].data = [events |-> worker[w].data.events, rank |-> PeerCopy(w).rank,
                          score |-> worker[w].data.score]
ReadsScore(w) ==
    /\ Moves(w, "score", "import") /\ Keeps(w)
    /\ worker'[w].data = [events |-> worker[w].data.events, rank |-> worker[w].data.rank,
                          score |-> PeerCopy(w).score]
ReadsError(w) ==
    /\ worker[w].pc \in {"events", "rank", "score"} /\ worker'[w].pc = "import"
    /\ worker'[w].todo = worker[w].todo /\ Keeps(w)
    /\ worker'[w].data = Nothing /\ faults' > 0
Stores(w) == Import(w) /\ Moves(w, "import", "release") /\ Keeps(w)

LEMMA OwnFields ==
    ASSUME TypeInv, NEW w \in Workers, WorkerStep(w)
    PROVE  /\ \A v \in Workers \ {w} : worker'[v] = worker[v]
           /\ \/ Moves(w, "connect", "list") \/ Ends(w) \/ Lists(w) \/ Passes(w)
              \/ Chooses(w) \/ Yields(w) \/ Claims(w) \/ ReadsEvents(w)
              \/ ReadsRank(w) \/ ReadsScore(w) \/ ReadsError(w) \/ Stores(w)
<1>1. /\ worker \in [Workers -> WorkerState] /\ faults \in Nat
      /\ copies \in [Peers -> [Metrics -> Copy]] /\ w[2] \in Peers
      /\ worker[w].pc \in Busy => worker[w].metric \in Metrics
  BY Zenon DEF TypeInv, TypeOK, MetricInv, WorkerState, Workers
<1>2. \A v \in Workers \ {w} : worker'[v] = worker[v]
  BY <1>1, WorkerForm, Zenon DEF MayBecome
<1>3. ASSUME End(w) PROVE worker'[w].pc = "ended" /\ worker'[w].todo = {}
  BY <1>1, <1>3, Zenon DEF End, Begin
<1>4. ASSUME NextMetric(w) PROVE worker'[w].pc = "next" /\ worker'[w].todo = worker[w].todo
  BY <1>1, <1>4, Zenon DEF NextMetric, Begin
<1>5. ASSUME NEW pc, Goes(w, pc)
      PROVE  worker'[w].pc = pc /\ worker'[w].todo = worker[w].todo /\ Keeps(w)
  BY <1>1, <1>5, Zenon DEF Goes, WorkerState, Keeps
<1>6. ASSUME Fault PROVE faults' > 0
  BY <1>1, <1>6 DEF Fault
<1>7. CASE Connect(w)
  BY <1>2, <1>3, <1>5, <1>6, <1>7, Zenon DEF Connect, Moves, Ends
<1>8. CASE ListMetrics(w)
  <2>1. CASE End(w) /\ Fault
    BY <1>2, <1>3, <1>6, <2>1, Zenon DEF Ends
  <2>2. CASE ~(End(w) /\ Fault)
    BY <1>1, <1>2, <1>8, <2>2 DEF ListMetrics, Lists, WorkerState
  <2> QED
    BY <2>1, <2>2, Zenon
<1>9. CASE Consider(w)
  <2>1. CASE worker[w].todo = {} /\ End(w)
    BY <1>2, <1>3, <1>9, <2>1, Zenon DEF Consider, Ends
  <2>2. CASE ~(worker[w].todo = {} /\ End(w))
    <3>1. PICK m \in worker[w].todo :
            IF m \in Owned[factor] /\ ~HasMetric(own[m])
            THEN worker' = [worker EXCEPT ![w].pc = "claim", ![w].todo = @ \ {m}, ![w].metric = m]
            ELSE worker' = [worker EXCEPT ![w].todo = @ \ {m}]
      BY <1>9, <2>2, ZenonT(30) DEF Consider
    <3>2. CASE m \in Owned[factor] /\ ~HasMetric(own[m])
      <4>1. /\ worker'[w].pc = "claim" /\ worker'[w].metric = m
            /\ worker'[w].todo = worker[w].todo \ {m}
        BY <1>1, <3>1, <3>2 DEF WorkerState
      <4> QED
        BY <1>2, <1>9, <4>1, Zenon DEF Consider, Chooses
    <3>3. CASE ~(m \in Owned[factor] /\ ~HasMetric(own[m]))
      BY <1>1, <1>2, <1>9, <3>1, <3>3, ZenonT(30) DEF Consider, Passes, WorkerState
    <3> QED
      BY <3>2, <3>3, ZenonT(30)
  <2> QED
    BY <2>1, <2>2, Zenon
<1>10. CASE Claim(w)
  BY <1>2, <1>4, <1>5, <1>10, Zenon DEF Claim, Yields, Claims, Moves
<1>11. CASE ExportPart(w)
  <2>1. worker[w].data \in Copy /\ PeerCopy(w) \in Copy
    BY <1>1, <1>11, Zenon DEF ExportPart, WorkerState, PeerCopy, Busy
  <2>2. /\ Keeps(w) /\ worker'[w].todo = worker[w].todo
        /\ worker'[w].pc = IF worker[w].pc = "events" THEN "rank"
                           ELSE IF worker[w].pc = "rank" THEN "score" ELSE "import"
        /\ worker'[w].data = Export(IF worker[w].pc = "events" THEN Nothing ELSE worker[w].data,
                                    PeerCopy(w), worker[w].pc)
    BY <1>1, <1>11, ZenonT(30) DEF ExportPart, WorkerState, Keeps, PeerCopy
  <2>3. CASE worker[w].pc = "events"
    <3>1. worker'[w].data = [events |-> PeerCopy(w).events, rank |-> {}, score |-> None]
      BY <2>1, <2>2, <2>3, Zenon DEF Export, Nothing, Copy
    <3> QED
      BY <1>2, <2>2, <2>3, <3>1, Zenon DEF ReadsEvents, Moves
  <2>4. CASE worker[w].pc = "rank"
    <3>1. worker'[w].data = [events |-> worker[w].data.events, rank |-> PeerCopy(w).rank,
                             score |-> worker[w].data.score]
      BY <2>1, <2>2, <2>4, Zenon DEF Export, Copy
    <3> QED
      BY <1>2, <2>2, <2>4, <3>1, Zenon DEF ReadsRank, Moves
  <2>5. CASE worker[w].pc = "score"
    <3>1. worker'[w].data = [events |-> worker[w].data.events, rank |-> worker[w].data.rank,
                             score |-> PeerCopy(w).score]
      BY <2>1, <2>2, <2>5, Zenon DEF Export, Copy
    <3> QED
      BY <1>2, <2>2, <2>5, <3>1, Zenon DEF ReadsScore, Moves
  <2> QED
    BY <1>11, <2>3, <2>4, <2>5, Zenon DEF ExportPart
<1>12. CASE ExportFails(w)
  <2> DEFINE x == [Begin EXCEPT !.pc = "next", !.todo = worker[w].todo, !.lost = TRUE]
  <2>1. CASE worker' = [worker EXCEPT ![w] = x]
    <3>1. worker'[w].pc = "next" /\ worker'[w].todo = worker[w].todo
      BY <1>1, <2>1, Zenon DEF Begin
    <3>2. worker[w].pc \in {"events", "rank", "score"} /\ (faults' > 0 \/ worker[w].lost)
      BY <1>6, <1>12, Zenon DEF ExportFails
    <3> QED
      BY <1>2, <3>1, <3>2, Zenon DEF Yields, Moves
  <2>2. CASE worker' # [worker EXCEPT ![w] = x]
    <3>1. worker' = [worker EXCEPT ![w].data = Nothing, ![w].pc = "import"] /\ faults' > 0
      BY <1>6, <1>12, <2>2, Zenon DEF ExportFails
    <3>2. /\ worker'[w].data = Nothing /\ worker'[w].pc = "import"
          /\ worker'[w].todo = worker[w].todo /\ worker'[w].metric = worker[w].metric
      BY <1>1, <3>1, Zenon DEF WorkerState
    <3> QED
      BY <1>2, <1>12, <3>1, <3>2, Zenon DEF ExportFails, ReadsError, Keeps
  <2> QED
    BY <2>1, <2>2, Zenon
<1>13. CASE Import(w)
  BY <1>1, <1>2, <1>13, ZenonT(30) DEF Import, Stores, Moves, Keeps, WorkerState
<1>14. CASE ImportFails(w)
  BY <1>2, <1>4, <1>6, <1>14, Zenon DEF ImportFails, Yields, Moves
<1>15. CASE Released(w)
  BY <1>2, <1>4, <1>15, Zenon DEF Released, Yields, Moves
<1> QED
  BY <1>7, <1>8, <1>9, <1>10, <1>11, <1>12, <1>13, <1>14, <1>15, Zenon DEF WorkerStep

-----------------------------------------------------------------------------
(* No event is lost between an export and its import. *)

LEMMA StepStaged ==
    ASSUME TypeInv, StagedInv, [Next]_vars
    PROVE  StagedInv'
<1> USE DEF StagedInv
<1>1. CASE StageLine
  BY <1>1, RebalanceAssumption DEF StageLine, TypeInv, TypeOK
<1>2. ASSUME NEW m \in Metrics, CommitLine(m) PROVE StagedInv'
  BY <1>2, Zenon DEF CommitLine, TypeInv, TypeOK
<1>3. ASSUME NEW w \in Workers, WorkerStep(w) PROVE StagedInv'
  BY <1>3, WorkerForm, Zenon
<1>4. CASE \/ \E p \in Peers : WriteAtPeer(p)
           \/ Close \/ CloseStore \/ UNCHANGED vars
           \/ \E k \in Triggers : SetConfig(k) \/ TriggerStep(k)
  BY <1>4, Zenon
     DEF WriteAtPeer, Close, CloseStore, vars, SetConfig, TriggerStep, Wait, StartWorkers
<1> QED
  BY <1>1, <1>2, <1>3, <1>4, Zenon DEF Next, LineStep

\* Only a write at a peer changes the peers' copies, and only that and the commit of a
\* line change the lines; only that and an import change what was not sent.
LEMMA PeersStay ==
    ASSUME TypeInv, [Next]_vars, \A p \in Peers : ~WriteAtPeer(p)
    PROVE  /\ copies' = copies /\ written' = written
           /\ lines' = lines \/ \E m \in Metrics : CommitLine(m)
           /\ unsent' = unsent \/ \E w \in Workers : Import(w)
<1>1. ASSUME NEW w \in Workers, WorkerStep(w)
      PROVE  UNCHANGED <<copies, written, lines>> /\ (unsent' = unsent \/ Import(w))
  BY <1>1, WorkerForm, OnlyImportStores, ZenonT(30) DEF peerVars
<1>2. CASE \/ LineStep \/ Close \/ CloseStore \/ UNCHANGED vars
           \/ \E k \in Triggers : SetConfig(k) \/ TriggerStep(k)
  BY <1>2, Zenon
     DEF LineStep, StageLine, CommitLine, Close, CloseStore, vars, peerVars, SetConfig,
       TriggerStep, Wait, StartWorkers
<1> QED
  BY <1>1, <1>2, Zenon DEF Next

\* Only an import and the commit of a line change this node's data.
LEMMA StoreStays ==
    ASSUME TypeInv, [Next]_vars, \A w \in Workers : ~Import(w), \A m \in Metrics : ~CommitLine(m)
    PROVE  own' = own /\ imported' = imported
<1>1. ASSUME NEW w \in Workers, WorkerStep(w) PROVE own' = own /\ imported' = imported
  BY <1>1, OnlyImportStores, Zenon
<1>2. CASE \/ \E p \in Peers : WriteAtPeer(p)
           \/ StageLine \/ Close \/ CloseStore \/ UNCHANGED vars
           \/ \E k \in Triggers : SetConfig(k) \/ TriggerStep(k)
  BY <1>2, Zenon DEF WriteAtPeer, StageLine, Close, CloseStore, vars, store, SetConfig,
       TriggerStep, Wait, StartWorkers
<1> QED
  BY <1>1, <1>2, Zenon DEF Next, LineStep

LEMMA CoveredStays ==
    ASSUME TypeInv, StagedInv, [Next]_vars, NEW p \in Peers, NEW m \in Metrics,
           NEW t \in Times, Covered(p, m, t)
    PROVE  Covered(p, m, t)'
<1>1. ASSUME NEW q \in Peers, WriteAtPeer(q) PROVE Covered(p, m, t)'
  BY <1>1, Zenon DEF WriteAtPeer, store, Covered, Arrives
<1>2. ASSUME NEW q \in Metrics, CommitLine(q) PROVE Covered(p, m, t)'
  <2> DEFINE l == staged[q].line
  <2>1. /\ l \in Line /\ l.time \in Times /\ l.tag \in Tags /\ l.metric = q
        /\ own \in [Metrics -> Copy]
    BY <1>2, Zenon DEF CommitLine, TypeInv, TypeOK, Line, StagedInv
  <2>2. own'[m].events[t] = IF m = q /\ t = l.time THEN l.tag ELSE own[m].events[t]
    BY <1>2, <2>1, Zenon DEF CommitLine, Added, Copy
  <2>3. lines' = lines \ {l} /\ unsent' = unsent
    BY <1>2, Zenon DEF CommitLine
  <2> QED
    BY <2>1, <2>2, <2>3, RebalanceAssumption, Zenon DEF Covered, Arrives
<1>3. ASSUME NEW w \in Workers, Import(w) PROVE Covered(p, m, t)'
  <2>1. /\ worker[w].metric \in Metrics /\ own \in [Metrics -> Copy]
        /\ own' = [own EXCEPT ![worker[w].metric] = Merged(own[worker[w].metric], worker[w].data)]
        /\ lines' = lines
    BY <1>3, ImportStore, Zenon DEF TypeInv, TypeOK, Import, peerVars
  <2>2. own[m].events[t] # None => own'[m].events[t] # None
    BY <2>1, Zenon DEF Merged
  <2>3. <<p, m, t>> \in unsent => <<p, m, t>> \in unsent' \/ own'[m].events[t] # None
    <3>1. \/ <<p, m, t>> \in unsent' \/ <<p, m, t>> \notin unsent
          \/ m = worker[w].metric /\ worker[w].data.events[t] # None
      BY <1>3 DEF Import
    <3>2. m = worker[w].metric /\ worker[w].data.events[t] # None => own'[m].events[t] # None
      BY <2>1, Zenon DEF Merged
    <3> QED
      BY <3>1, <3>2, Zenon
  <2> QED
    BY <2>1, <2>2, <2>3, ZenonT(30) DEF Covered, Arrives
<1>4. CASE /\ \A q \in Peers : ~WriteAtPeer(q)
           /\ \A q \in Metrics : ~CommitLine(q)
           /\ \A w \in Workers : ~Import(w)
  BY <1>4, PeersStay, StoreStays, Zenon DEF Covered, Arrives
<1> QED
  BY <1>1, <1>2, <1>3, <1>4, Zenon

\* An event that appears at a peer is covered by its line, if the peer sends one.
LEMMA PeerEvents ==
    ASSUME TypeInv, [Next]_vars, NEW p \in Peers, NEW m \in Metrics, NEW t \in Times,
           copies'[p][m].events[t] # None
    PROVE  copies[p][m].events[t] # None \/ Covered(p, m, t)'
<1>1. ASSUME NEW q \in Peers, WriteAtPeer(q)
      PROVE  copies[p][m].events[t] # None \/ Covered(p, m, t)'
  <2>1. PICK e \in Writes :
          /\ copies' = [copies EXCEPT ![q][e.metric] =
                          Added(copies[q][e.metric], e.time, e.tag, Current(copies[q][e.metric]))]
          /\ \/ lines' = lines \cup {Sent(e)}
             \/ unsent' = unsent \cup {<<q, e.metric, e.time>>}
    BY <1>1, Zenon DEF WriteAtPeer, Sent
  <2>2. e.metric \in Metrics /\ e.time \in Times /\ copies \in [Peers -> [Metrics -> Copy]]
    BY RebalanceAssumption, ZenonT(30) DEF TypeInv, TypeOK
  <2>3. copies'[p][m].events[t] = IF p = q /\ m = e.metric /\ t = e.time THEN e.tag
                                  ELSE copies[p][m].events[t]
    BY <2>1, <2>2, SMTT(30) DEF Added, Copy
  <2>4. CASE p = q /\ m = e.metric /\ t = e.time
    <3> DEFINE new == Sent(e)
    <3>1. (new \in lines' /\ new.metric = m /\ new.time = t) \/ <<p, m, t>> \in unsent'
      BY <2>1, <2>4, Zenon DEF Sent
    <3> HIDE DEF new
    <3> QED
      BY <3>1, Zenon DEF Covered, Arrives
  <2> QED
    BY <2>3, <2>4, Zenon
<1>2. CASE \A q \in Peers : ~WriteAtPeer(q)
  BY <1>2, PeersStay, Zenon
<1> QED
  BY <1>1, <1>2, Zenon

\* A worker goes on, is started, or stays.
LEMMA WorkerChanges ==
    ASSUME TypeInv, [Next]_vars, NEW w \in Workers
    PROVE  \/ WorkerStep(w)
           \/ worker'[w] = worker[w]
           \/ /\ worker'[w] = Begin /\ worker[w].pc = "none"
              /\ \E k \in Triggers : StartWorkers(k) /\ w[1] = k
<1>1. ASSUME NEW v \in Workers, WorkerStep(v) PROVE worker'[w] = worker[w] \/ v = w
  BY <1>1, OwnFields, Zenon
<1>2. ASSUME NEW k \in Triggers, StartWorkers(k)
      PROVE  worker'[w] = worker[w] \/ (worker'[w] = Begin /\ worker[w].pc = "none" /\ w[1] = k)
  <2>1. \/ worker' = worker
        \/ \E p \in Peers : worker[<<k, p>>].pc = "none" /\ worker' = [worker EXCEPT ![<<k, p>>] = Begin]
    BY <1>2, Zenon DEF StartWorkers
  <2>2. CASE worker' = worker
    BY <2>2, Zenon
  <2>3. ASSUME NEW p \in Peers, worker[<<k, p>>].pc = "none",
               worker' = [worker EXCEPT ![<<k, p>>] = Begin]
        PROVE  worker'[w] = worker[w] \/ (worker'[w] = Begin /\ worker[w].pc = "none" /\ w[1] = k)
    <3>1. CASE w = <<k, p>>
      BY <2>3, <3>1, Zenon DEF TypeInv, TypeOK
    <3>2. CASE w # <<k, p>>
      BY <2>3, <3>2, ZenonT(30) DEF TypeInv, TypeOK
    <3> QED
      BY <3>1, <3>2, Zenon
  <2> QED
    BY <2>1, <2>2, <2>3, Zenon
<1>3. CASE \/ \E p \in Peers : WriteAtPeer(p)
           \/ LineStep \/ Close \/ CloseStore \/ UNCHANGED vars
           \/ \E k \in Triggers : SetConfig(k) \/ Wait(k)
  BY <1>3, ZenonT(30)
     DEF WriteAtPeer, LineStep, StageLine, CommitLine, Close, CloseStore, vars,
       SetConfig, Wait
<1> QED
  BY <1>1, <1>2, <1>3, Zenon DEF Next, TriggerStep

\* A worker brings what its peer had when the events were exported.
LEMMA StepBrings ==
    ASSUME TypeInv, TypeInv', StagedInv, EventsInv, [Next]_vars, NEW w \in Workers
    PROVE  Brings(w)'
<1>1. w[2] \in Peers
  BY Zenon DEF Workers
<1>2. SUFFICES ASSUME Exported(w)', NEW t \in Times,
                      copies'[w[2]][worker'[w].metric].events[t] # None
               PROVE  \/ worker'[w].data.events[t] # None
                      \/ Arrives(own', lines', unsent', w[2], worker'[w].metric, t)
  BY Zenon DEF Brings, Covered
<1>3. worker'[w].metric \in Metrics
  BY <1>2, Zenon DEF Exported, TypeInv, MetricInv, Busy
<1>4. ASSUME worker'[w].metric = worker[w].metric, Exported(w),
             worker'[w].data.events = worker[w].data.events
      PROVE  \/ worker'[w].data.events[t] # None
             \/ Arrives(own', lines', unsent', w[2], worker'[w].metric, t)
  <2>1. Brings(w)
    BY Zenon DEF EventsInv
  <2>2. CASE Arrives(own', lines', unsent', w[2], worker'[w].metric, t)
    BY <2>2, ZenonT(30)
  <2>3. CASE copies[w[2]][worker'[w].metric].events[t] # None
    BY <1>1, <1>3, <1>4, <2>1, <2>3, CoveredStays, Zenon DEF Brings, Covered
  <2> QED
    BY <1>1, <1>2, <1>3, <2>2, <2>3, PeerEvents, Zenon DEF Covered
<1>5. CASE worker'[w] = worker[w]
  BY <1>2, <1>4, <1>5, Zenon DEF Exported
<1>6. CASE WorkerStep(w)
  <2>1. CASE ReadsEvents(w)
    <3>1. worker'[w].data.events = copies[w[2]][worker'[w].metric].events /\ copies' = copies
      BY <1>6, <2>1, WorkerForm, SMTT(30) DEF ReadsEvents, PeerCopy, Keeps, peerVars
    <3> QED
      BY <1>2, <3>1, Zenon
  <2>2. CASE ReadsRank(w)
    BY <1>4, <2>2, SMTT(30) DEF ReadsRank, Keeps, Moves, Exported
  <2>3. CASE ReadsScore(w)
    BY <1>4, <2>3, SMTT(30) DEF ReadsScore, Keeps, Moves, Exported
  <2>4. CASE ReadsError(w)
    BY <1>2, <2>4, SMTT(30) DEF ReadsError, Exported, Listed, HasMetric, Nothing
  <2>5. CASE \/ Moves(w, "connect", "list") \/ Ends(w) \/ Lists(w) \/ Passes(w)
             \/ Chooses(w) \/ Yields(w) \/ Claims(w) \/ Stores(w)
    BY <1>2, <2>5, Zenon
       DEF Exported, Moves, Ends, Lists, Passes, Chooses, Yields, Claims, Stores
  <2> QED
    BY <1>6, <2>1, <2>2, <2>3, <2>4, <2>5, OwnFields, Zenon
<1>7. CASE worker'[w] = Begin
  BY <1>2, <1>7, SMTT(30) DEF Exported, Begin
<1> QED
  BY <1>5, <1>6, <1>7, WorkerChanges, Zenon

LEMMA StepEvents ==
    ASSUME TypeInv, TypeInv', StagedInv, EventsInv, [Next]_vars
    PROVE  EventsInv'
<1>1. ASSUME NEW m \in Metrics, NEW p \in imported'[m], NEW t \in Times,
             copies'[p][m].events[t] # None
      PROVE  Covered(p, m, t)'
  <2>1. p \in Peers
    BY Zenon DEF TypeInv, TypeOK
  <2>2. CASE Covered(p, m, t)'
    BY <2>2, Zenon
  <2>3. CASE copies[p][m].events[t] # None
    <3>1. CASE p \in imported[m]
      BY <2>1, <2>3, <3>1, CoveredStays, Zenon DEF EventsInv
    <3>2. CASE p \notin imported[m]
      <4>1. PICK w \in Workers : Import(w) /\ p = w[2] /\ m = worker[w].metric /\ Listed(worker[w].data)
        <5>1. ASSUME \A w \in Workers : ~Import(w) PROVE imported' = imported
          <6>1. CASE \E q \in Metrics : CommitLine(q)
            BY <6>1, Zenon DEF CommitLine
          <6> QED
            BY <5>1, <6>1, StoreStays, Zenon
        <5>2. PICK w \in Workers : Import(w)
          BY <3>2, <5>1, Zenon
        <5>3. imported' = [imported EXCEPT ![worker[w].metric] =
                             IF Listed(worker[w].data) THEN @ \cup {w[2]} ELSE @]
          BY <5>2, ZenonT(30) DEF Import
        <5> QED
          BY <3>2, <5>2, <5>3, Zenon DEF TypeInv, TypeOK
      <4>2. worker[w].data.events[t] # None \/ Covered(p, m, t)
        BY <2>3, <4>1, Zenon DEF EventsInv, Brings, Exported, Import
      <4>3. CASE Covered(p, m, t)
        BY <2>1, <4>3, CoveredStays, Zenon
      <4>4. CASE worker[w].data.events[t] # None
        <5>1. own' = [own EXCEPT ![m] = Merged(own[m], worker[w].data)] /\ own \in [Metrics -> Copy]
          BY <4>1, ImportStore, Zenon DEF TypeInv, TypeOK
        <5>2. own'[m].events[t] # None
          BY <4>4, <5>1, Zenon DEF Merged
        <5> QED
          BY <5>2, Zenon DEF Covered, Arrives
      <4> QED
        BY <4>2, <4>3, <4>4, Zenon
    <3> QED
      BY <3>1, <3>2, Zenon
  <2> QED
    BY <1>1, <2>1, <2>2, <2>3, PeerEvents, Zenon
<1>2. \A w \in Workers : Brings(w)'
  BY StepBrings, Zenon
<1> QED
  BY <1>1, <1>2, Zenon DEF EventsInv

-----------------------------------------------------------------------------
(* Metrics that are not written. *)

LEMMA Grows ==
    ASSUME TypeInv, [Next]_vars
    PROVE  /\ written \subseteq written'
           /\ faults' \in Nat /\ faults' >= faults
<1>1. ASSUME NEW w \in Workers, WorkerStep(w)
      PROVE  written' = written /\ faults' \in {faults, faults + 1}
  <2>1. faults' \in {faults, faults + 1}
    BY <1>1, ZenonT(30)
       DEF WorkerStep, Connect, ListMetrics, Consider, Claim, ExportPart, ExportFails,
         Import, ImportFails, Released, Fault
  <2> QED
    BY <1>1, <2>1, WorkerForm, ZenonT(30)
<1>2. ASSUME LineStep \/ Close \/ CloseStore \/ UNCHANGED vars
      PROVE  written' = written /\ faults' = faults
  BY <1>2, Zenon DEF LineStep, StageLine, CommitLine, Close, CloseStore, vars
<1>3. ASSUME \/ \E p \in Peers : WriteAtPeer(p)
             \/ \E k \in Triggers : SetConfig(k) \/ TriggerStep(k)
      PROVE  written \subseteq written' /\ faults' = faults
  BY <1>3, Zenon DEF WriteAtPeer, SetConfig, TriggerStep, Wait, StartWorkers
<1>4. faults \in Nat
  BY Zenon DEF TypeInv, TypeOK
<1>5. written \subseteq written' /\ faults' \in {faults, faults + 1}
  BY <1>1, <1>2, <1>3, Zenon DEF Next
<1> QED
  BY <1>4, <1>5

LEMMA MergedOld ==
    ASSUME NEW m \in Metrics, NEW c \in {Nothing, Old(m)}
    PROVE  Merged(c, Old(m)) = Old(m)
<1>1. CASE c = Nothing
  BY <1>1, RebalanceAssumption, Zenon DEF Merged, Old, Nothing
<1>2. CASE c = Old(m)
  BY <1>2, RebalanceAssumption, Zenon DEF Merged, Old
<1> QED
  BY <1>1, <1>2, Zenon

LEMMA MergedNothing ==
    ASSUME NEW c \in Copy
    PROVE  Merged(c, Nothing) = c
BY Zenon DEF Merged, Nothing, Copy

LEMMA ListedOld ==
    ASSUME NEW m
    PROVE  Listed(Old(m)) /\ ~Listed(Nothing) /\ Old(m) # Nothing
<1>1. Old(m).score = 1 /\ Nothing.score = None /\ None # 1
  BY RebalanceAssumption DEF Old, Nothing
<1> QED
  BY <1>1, Zenon DEF Listed, HasMetric, Nothing

LEMMA StepUntouched ==
    ASSUME TypeInv, UnwrittenInv, [Next]_vars, NEW m \in Metrics, m \notin written'
    PROVE  Untouched(m)'
<1>1. Untouched(m)
  BY Grows, Zenon DEF UnwrittenInv
<1>2. ASSUME NEW p \in Peers, WriteAtPeer(p) PROVE Untouched(m)'
  <2>1. PICK e \in Writes :
          /\ copies' = [copies EXCEPT ![p][e.metric] =
                          Added(copies[p][e.metric], e.time, e.tag, Current(copies[p][e.metric]))]
          /\ \/ lines' = lines
             \/ lines' = lines \cup {Sent(e)}
          /\ written' = written \cup {e.metric}
    BY <1>2, Zenon DEF WriteAtPeer, Sent
  <2>2. e.metric # m
    BY <2>1, Zenon
  <2>3. \A q \in Peers : copies'[q][m] = copies[q][m]
    BY <2>1, <2>2, Zenon DEF TypeInv, TypeOK
  <2>4. \A l \in lines' : l.metric # m
    BY <1>1, <2>1, <2>2 DEF Untouched, Sent
  <2> QED
    BY <1>1, <1>2, <2>3, <2>4, Zenon DEF Untouched, WriteAtPeer, store
<1>3. CASE StageLine
  <2>1. staged'[m] = staged[m]
    BY <1>1, <1>3, Zenon DEF StageLine, Untouched, TypeInv, TypeOK
  <2> QED
    BY <1>1, <1>3, <2>1, Zenon DEF StageLine, peerVars, store, Untouched
<1>4. ASSUME NEW q \in Metrics, CommitLine(q) PROVE Untouched(m)'
  <2>1. q # m
    BY <1>1, <1>4, Zenon DEF CommitLine, Untouched
  <2>2. own'[m] = own[m] /\ staged'[m] = staged[m] /\ lines' \subseteq lines
    BY <1>4, <2>1, Zenon DEF CommitLine, TypeInv, TypeOK
  <2> QED
    BY <1>1, <1>4, <2>2, Zenon DEF CommitLine, Untouched
<1>5. ASSUME NEW w \in Workers, Import(w) PROVE Untouched(m)'
  <2> DEFINE d == worker[w].data
  <2>1. /\ worker[w].metric \in Metrics /\ own \in [Metrics -> Copy]
        /\ own' = [own EXCEPT ![worker[w].metric] = Merged(own[worker[w].metric], d)]
        /\ imported' = [imported EXCEPT ![worker[w].metric] =
                          IF Listed(d) THEN @ \cup {w[2]} ELSE @]
        /\ imported \in [Metrics -> SUBSET Peers]
        /\ UNCHANGED <<copies, lines, staged>>
    BY <1>5, ImportStore, ZenonT(30) DEF Import, TypeInv, TypeOK, peerVars
  <2>2. CASE worker[w].metric # m
    BY <1>1, <2>1, <2>2, Zenon DEF Untouched
  <2>3. CASE worker[w].metric = m
    <3>1. m \in Stored[w[2]] /\ d \in {Old(m), Nothing}
      BY <1>5, <2>3, Grows, ZenonT(30) DEF UnwrittenInv, Carries, Import, Busy
    <3>2. own'[m] = Merged(own[m], d) /\ own[m] \in {Nothing, Old(m)} /\ own[m] \in Copy
      BY <1>1, <2>1, <2>3, Zenon DEF Untouched
    <3>3. CASE d = Old(m)
      <4>1. own'[m] = Old(m) /\ imported'[m] = imported[m] \cup {w[2]}
        BY <2>1, <2>3, <3>2, <3>3, MergedOld, ListedOld, ZenonT(30)
      <4> QED
        BY <1>1, <2>1, <3>1, <4>1, Zenon DEF Untouched
    <3>4. CASE d = Nothing
      <4>1. own'[m] = own[m] /\ imported'[m] = imported[m]
        BY <2>1, <2>3, <3>2, <3>4, MergedNothing, ListedOld, ZenonT(30)
      <4> QED
        BY <1>1, <2>1, <4>1, Zenon DEF Untouched
    <3> QED
      BY <3>1, <3>3, <3>4, Zenon
  <2> QED
    BY <2>2, <2>3, ZenonT(30)
<1>6. CASE /\ \A p \in Peers : ~WriteAtPeer(p)
           /\ ~LineStep
           /\ \A w \in Workers : ~Import(w)
  <2>1. staged' = staged
    <3>1. ASSUME NEW w \in Workers, WorkerStep(w) PROVE staged' = staged
      BY <3>1, WorkerForm, Zenon
    <3>2. CASE \/ Close \/ CloseStore \/ UNCHANGED vars
               \/ \E k \in Triggers : SetConfig(k) \/ TriggerStep(k)
      BY <3>2, Zenon DEF Close, CloseStore, vars, SetConfig, TriggerStep, Wait, StartWorkers
    <3> QED
      BY <1>6, <3>1, <3>2, Zenon DEF Next
  <2>2. UNCHANGED <<copies, lines, own, imported>>
    BY <1>6, PeersStay, StoreStays, Zenon DEF LineStep
  <2> QED
    BY <1>1, <2>1, <2>2, Zenon DEF Untouched
<1> QED
  BY <1>2, <1>3, <1>4, <1>5, <1>6, Zenon DEF LineStep

LEMMA StepCarries ==
    ASSUME TypeInv, TypeInv', UnwrittenInv, [Next]_vars, NEW w \in Workers
    PROVE  Carries(w)'
<1>1. /\ Carries(w) /\ written \subseteq written' /\ w[2] \in Peers
      /\ faults \in Nat /\ faults' \in Nat /\ faults' >= faults
  BY Grows, Zenon DEF UnwrittenInv, Workers, TypeInv, TypeOK
<1>2. CASE worker'[w] = worker[w]
  BY <1>1, <1>2, SMTT(30) DEF Carries
<1>3. CASE worker'[w] = Begin
  BY <1>3, SMTT(30), ZenonT(30) DEF Carries, Begin, Busy
<1>4. CASE WorkerStep(w)
  <2>1. written' = written
    BY <1>4, WorkerForm, ZenonT(30)
  <2>2. ASSUME NEW m \in Metrics, m \notin written
        PROVE  copies[w[2]][m] = IF m \in Stored[w[2]] THEN Old(m) ELSE Nothing
    BY <1>1, <2>2, Zenon DEF UnwrittenInv, Untouched
  <2>3. ASSUME worker'[w].todo \subseteq worker[w].todo, worker'[w].pc \notin Busy
        PROVE  Carries(w)'
    BY <1>1, <2>1, <2>3, Zenon DEF Carries
  <2>4. CASE Moves(w, "connect", "list") \/ Ends(w) \/ Passes(w) \/ Yields(w)
    BY <2>3, <2>4, Zenon DEF Moves, Ends, Passes, Yields, Busy
  <2>5. CASE Lists(w)
    <3>1. \A q \in Metrics : q \notin written /\ Listed(copies[w[2]][q]) => q \in Stored[w[2]]
      BY <2>2, ListedOld, ZenonT(30)
    <3> QED
      BY <2>1, <2>5, <3>1, Zenon DEF Lists, Carries, Busy
  <2>6. CASE Chooses(w)
    BY <1>1, <2>1, <2>6, Zenon DEF Chooses, Carries
  <2>7. CASE worker'[w].todo = worker[w].todo /\ Keeps(w) /\ worker[w].pc \in Busy
    <3> DEFINE m == worker[w].metric
    <3>1. m \in Metrics
      BY <2>7, ZenonT(30) DEF TypeInv, MetricInv
    <3>2. CASE m \in written
      BY <1>1, <2>1, <2>7, <3>2, ZenonT(30) DEF Carries, Keeps
    <3>3. CASE m \notin written
      <4>1. m \in Stored[w[2]] /\ PeerCopy(w) = Old(m)
        BY <1>1, <2>2, <2>7, <3>1, <3>3, Zenon DEF Carries, PeerCopy
      <4>2. /\ Old(m).rank = {1} /\ Old(m).score = 1
            /\ Old(m) = [events |-> Old(m).events, rank |-> {1}, score |-> 1]
        BY ZenonT(30) DEF Old
      <4>3. CASE ReadsEvents(w)
        BY <1>1, <2>1, <2>7, <3>3, <4>1, <4>3, ZenonT(30)
           DEF ReadsEvents, Moves, Keeps, Carries
      <4>4. CASE ReadsRank(w)
        BY <1>1, <2>1, <2>7, <3>3, <4>1, <4>2, <4>4, SMTT(30), ZenonT(30)
           DEF ReadsRank, Moves, Keeps, Carries
      <4>5. CASE ReadsScore(w)
        BY <1>1, <2>1, <2>7, <3>3, <4>1, <4>2, <4>5, SMTT(30), ZenonT(30)
           DEF ReadsScore, Moves, Keeps, Carries
      <4>6. CASE ReadsError(w)
        BY <1>1, <2>1, <2>7, <3>3, <4>1, <4>6, ZenonT(30) DEF ReadsError, Keeps, Carries
      <4>7. CASE Claims(w) \/ Stores(w)
        BY <1>1, <2>1, <2>7, <3>3, <4>1, <4>7, Zenon DEF Claims, Stores, Moves, Keeps, Carries
      <4>8. CASE worker'[w].pc \notin Busy
        BY <2>3, <2>7, <4>8, Zenon
      <4> QED
        BY <1>4, <2>4, <2>5, <2>6, <4>3, <4>4, <4>5, <4>6, <4>7, OwnFields, ZenonT(30)
    <3> QED
      BY <3>2, <3>3, Zenon
  <2> QED
    BY <1>4, <2>4, <2>5, <2>6, <2>7, OwnFields, Zenon DEF ReadsEvents, ReadsRank, ReadsScore,
         ReadsError, Claims, Stores, Moves, Busy
<1> QED
  BY <1>2, <1>3, <1>4, WorkerChanges, Zenon
-----------------------------------------------------------------------------
(* What a rebalance completes. *)

Last(k) == trigger[k] # "none" /\ \A j \in Triggers : j > k => trigger[j] = "none"
TriggerInv ==
    /\ \A k \in Triggers :
          /\ trigger[k] \in {"none", "wait"} => \A p \in Peers : worker[<<k, p>>].pc = "none"
          /\ trigger[k] = "none" => \A j \in Triggers : j > k => trigger[j] = "none"
          /\ trigger[k] = "done" /\ ~closed => \A p \in Peers : worker[<<k, p>>].pc # "none"
    /\ trigger[1] # "none" => \E k \in Triggers : Last(k)
    /\ \A w \in Workers : worker[w].pc = "ended" => worker[w].todo = {}

\* The metric is here, or a worker has claimed it.
Claimed(m) ==
    \E w \in Workers :
        worker[w].metric = m /\ worker[w].pc \in {"events", "rank", "score", "import"}
Got(m) == m \in written \/ imported[m] # {} \/ Claimed(m)

\* Without faults a claim leads to an import, and a worker of the latest rebalance has
\* passed over nothing that is to be held here.
Attends(w, m) ==
    Got(m) \/ m \in worker[w].todo \/ (worker[w].pc = "claim" /\ worker[w].metric = m)
LostInv == \A w \in Workers : worker[w].lost => faults # 0
ClaimInv == faults = 0 => \A m \in rebalancing : Got(m)
LatestInv ==
    faults = 0 =>
        \A k \in Triggers : Last(k) =>
            \A p \in Peers : worker[<<k, p>>].pc \in {"next", "ended"} \cup Busy =>
                \A m \in Stored[p] \cap Owned[factor] : Attends(<<k, p>>, m)

-----------------------------------------------------------------------------
(* Triggers. *)

LEMMA TriggerChanges ==
    ASSUME TypeInv, [Next]_vars
    PROVE  /\ closed => closed'
           /\ \/ UNCHANGED <<trigger, factor>>
              \/ \E k \in Triggers : SetConfig(k)
              \/ /\ UNCHANGED <<factor, closed>>
                 /\ \E k \in Triggers :
                       /\ trigger[k] = "wait" /\ worker' = worker
                       /\ \/ trigger' = [trigger EXCEPT ![k] = "start"]
                          \/ closed /\ trigger' = [trigger EXCEPT ![k] = "done"]
              \/ /\ UNCHANGED <<factor, closed>>
                 /\ \E k \in Triggers :
                       /\ trigger[k] = "start" /\ worker' = worker
                       /\ trigger' = [trigger EXCEPT ![k] = "done"]
                       /\ closed \/ \A p \in Peers : worker[<<k, p>>].pc # "none"
<1>1. ASSUME NEW w \in Workers, WorkerStep(w) PROVE UNCHANGED <<trigger, factor, closed>>
  BY <1>1, WorkerForm, Zenon DEF lifeVars
<1>2. ASSUME \/ \E p \in Peers : WriteAtPeer(p)
             \/ LineStep \/ Close \/ CloseStore \/ UNCHANGED vars
      PROVE  UNCHANGED <<trigger, factor>> /\ (closed => closed')
  <2>1. CASE Close
    BY <2>1, Zenon DEF Close
  <2>2. CASE CloseStore
    BY <2>2, Zenon DEF CloseStore
  <2>3. CASE \E p \in Peers : WriteAtPeer(p)
    BY <2>3, SMTT(30) DEF WriteAtPeer, lifeVars
  <2>4. CASE StageLine
    BY <2>4, SMTT(30) DEF StageLine, lifeVars
  <2>5. ASSUME NEW m \in Metrics, CommitLine(m) PROVE UNCHANGED <<trigger, factor, closed>>
    BY <2>5, Zenon DEF CommitLine, lifeVars
  <2>6. CASE UNCHANGED vars
    BY <2>6, Zenon DEF vars, lifeVars
  <2> QED
    BY <1>2, <2>1, <2>2, <2>3, <2>4, <2>5, <2>6, Zenon DEF LineStep
<1>3. ASSUME NEW k \in Triggers, SetConfig(k) PROVE closed => closed'
  BY <1>3, Zenon DEF SetConfig, lifeVars
<1>4. CASE \E k \in Triggers : Wait(k)
  BY <1>4 DEF Wait, lifeVars
<1>5. CASE \E k \in Triggers : StartWorkers(k)
  BY <1>5 DEF StartWorkers, MayStart, lifeVars
<1> QED
  BY <1>1, <1>2, <1>3, <1>4, <1>5, Zenon DEF Next, TriggerStep

LEMMA NeverNoneAgain ==
    ASSUME TypeInv, NEW w \in Workers, WorkerStep(w)
    PROVE  /\ worker'[w].pc # "none"
           /\ worker'[w].pc = "ended" => worker'[w].todo = {}
BY OwnFields, Zenon
   DEF Moves, Ends, Lists, Passes, Chooses, Yields, Claims, ReadsEvents, ReadsRank,
     ReadsScore, ReadsError, Stores

LEMMA StepTriggers ==
    ASSUME TypeInv, TypeInv', TriggerInv, [Next]_vars
    PROVE  TriggerInv'
<1>1. /\ trigger \in [Triggers -> {"none", "wait", "start", "done"}]
      /\ worker \in [Workers -> WorkerState]
      /\ \A k \in Triggers : k \in Nat /\ k >= 1 /\ \A p \in Peers : <<k, p>> \in Workers
  BY SMTT(30) DEF TypeInv, TypeOK, WorkerState, Triggers, Workers
<1>2. ASSUME NEW k \in Triggers, trigger'[k] \in {"none", "wait"}
      PROVE  trigger[k] \in {"none", "wait"} /\ (trigger'[k] = "none" => trigger[k] = "none")
  BY <1>1, <1>2, TriggerChanges, Zenon DEF SetConfig
<1>3. ASSUME NEW k \in Triggers, trigger'[k] \in {"none", "wait"}, NEW p \in Peers
      PROVE  worker'[<<k, p>>].pc = "none"
  <2>1. worker[<<k, p>>].pc = "none" /\ trigger[k] # "start"
    BY <1>2, <1>3, Zenon DEF TriggerInv
  <2>2. ~WorkerStep(<<k, p>>)
    BY <1>1, <2>1, WorkerForm, Zenon DEF Running
  <2>3. \A j \in Triggers : StartWorkers(j) => j # k
    BY <2>1, Zenon DEF StartWorkers
  <2> QED
    BY <1>1, <2>1, <2>2, <2>3, WorkerChanges, Zenon
<1>4. ASSUME NEW k \in Triggers, SetConfig(k), NEW j \in Triggers
      PROVE  /\ j < k => trigger[j] # "none"
             /\ trigger[k] = "none" /\ trigger'[k] = "wait"
             /\ j # k => trigger'[j] = trigger[j]
  <2>1. j < k => j \in 1..(k - 1)
    BY <1>1
  <2> QED
    BY <1>1, <1>4, <2>1, Zenon DEF SetConfig
<1>5. ASSUME NEW k \in Triggers, trigger'[k] = "none", NEW j \in Triggers, j > k
      PROVE  trigger'[j] = "none"
  <2>1. trigger[k] = "none" /\ trigger[j] = "none"
    BY <1>2, <1>5, Zenon DEF TriggerInv
  <2>2. ~SetConfig(j)
    BY <1>1, <1>4, <1>5, <2>1, Zenon
  <2>3. CASE \E i \in Triggers : SetConfig(i)
    BY <1>4, <2>1, <2>2, <2>3, Zenon
  <2>4. CASE ~ \E i \in Triggers : SetConfig(i)
    BY <1>1, <2>1, <2>4, TriggerChanges, Zenon
  <2> QED
    BY <2>3, <2>4, Zenon
<1>6. ASSUME NEW k \in Triggers, trigger'[k] = "done", ~closed', NEW p \in Peers
      PROVE  worker'[<<k, p>>].pc # "none"
  <2>1. ~closed
    BY <1>6, TriggerChanges, Zenon
  <2>2. worker[<<k, p>>].pc # "none"
    <3>1. CASE trigger[k] = "done"
      BY <2>1, <3>1, Zenon DEF TriggerInv
    <3>2. CASE trigger[k] # "done"
      <4>1. ~ \E i \in Triggers : SetConfig(i)
        BY <1>4, <1>6, <3>2, Zenon
      <4> QED
        BY <1>1, <1>6, <2>1, <3>2, <4>1, TriggerChanges, Zenon
    <3> QED
      BY <3>1, <3>2, Zenon
  <2> QED
    BY <1>1, <2>2, WorkerChanges, NeverNoneAgain, Zenon DEF Begin
<1>7. ASSUME trigger'[1] # "none" PROVE \E k \in Triggers : Last(k)'
  <2>1. CASE \E k \in Triggers : SetConfig(k)
    <3>1. PICK k \in Triggers : SetConfig(k)
      BY <2>1, Zenon
    <3>2. \A j \in Triggers : j > k => trigger'[j] = "none"
      BY <1>1, <1>4, <3>1, Zenon DEF TriggerInv
    <3>3. trigger'[k] # "none"
      BY <1>4, <3>1, Zenon
    <3> QED
      BY <3>2, <3>3, Zenon DEF Last
  <2>2. CASE ~ \E k \in Triggers : SetConfig(k)
    <3>1. \A j \in Triggers : trigger'[j] = "none" <=> trigger[j] = "none"
      BY <1>1, <2>2, TriggerChanges, Zenon
    <3>2. 1 \in Triggers
      BY RebalanceAssumption DEF Triggers
    <3>3. PICK k \in Triggers : Last(k)
      BY <1>7, <3>1, <3>2, Zenon DEF TriggerInv
    <3> QED
      BY <3>1, <3>3, Zenon DEF Last
  <2> QED
    BY <2>1, <2>2, Zenon
<1>8. ASSUME NEW w \in Workers, worker'[w].pc = "ended" PROVE worker'[w].todo = {}
  BY <1>8, WorkerChanges, NeverNoneAgain, SMTT(30) DEF TriggerInv, Begin
<1> QED
  BY <1>3, <1>5, <1>6, <1>7, <1>8, Zenon DEF TriggerInv

-----------------------------------------------------------------------------
(* Completeness of a rebalance without faults. *)

LEMMA ImportedGrows ==
    ASSUME TypeInv, [Next]_vars, NEW m \in Metrics
    PROVE  imported[m] \subseteq imported'[m]
<1>1. ASSUME NEW w \in Workers, Import(w) PROVE imported[m] \subseteq imported'[m]
  BY <1>1, Zenon DEF Import, TypeInv, TypeOK
<1>2. ASSUME NEW q \in Metrics, CommitLine(q) PROVE imported' = imported
  BY <1>2, Zenon DEF CommitLine
<1> QED
  BY <1>1, <1>2, StoreStays, Zenon

\* A connection is lost by a fault.
LEMMA StepLost ==
    ASSUME TypeInv, LostInv, [Next]_vars
    PROVE  LostInv'
<1> SUFFICES ASSUME NEW w \in Workers, worker'[w].lost PROVE faults' # 0
  BY Zenon DEF LostInv
<1>1. CASE worker[w].lost
  <2>1. faults # 0 /\ faults \in Nat /\ faults' >= faults /\ faults' \in Nat
    BY <1>1, Grows, Zenon DEF LostInv, TypeInv, TypeOK
  <2> QED
    BY <2>1
<1>2. CASE ~worker[w].lost
  <2>1. worker[w] \in WorkerState /\ worker \in [Workers -> WorkerState] /\ ~Begin.lost
    BY Zenon DEF TypeInv, TypeOK, WorkerState, Begin
  <2>2. WorkerStep(w)
    BY <1>2, <2>1, WorkerChanges, Zenon
  <2>3. ~End(w) /\ ~NextMetric(w) /\ \A pc : ~Goes(w, pc)
    BY <1>2, <2>1, ZenonT(30) DEF End, NextMetric, Goes, Begin, WorkerState
  <2>4. ASSUME ListMetrics(w) \/ Consider(w) \/ ExportPart(w) \/ Import(w)
        PROVE  worker'[w].lost = worker[w].lost
    <3>1. CASE ListMetrics(w)
      <4> DEFINE some == {m \in Metrics : Listed(copies[w[2]][m])}
      <4>1. worker' = [worker EXCEPT ![w].pc = "next", ![w].todo = some]
        BY <2>3, <3>1, Zenon DEF ListMetrics
      <4> HIDE DEF some
      <4> QED
        BY <2>1, <4>1, ZenonT(30) DEF WorkerState
    <3>2. CASE Consider(w)
      <4>1. PICK m \in worker[w].todo :
              \/ worker' = [worker EXCEPT ![w].pc = "claim", ![w].todo = @ \ {m}, ![w].metric = m]
              \/ worker' = [worker EXCEPT ![w].todo = @ \ {m}]
        BY <2>3, <3>2, Zenon DEF Consider
      <4>2. CASE worker' = [worker EXCEPT ![w].todo = @ \ {m}]
        BY <2>1, <4>2, ZenonT(30) DEF WorkerState
      <4>3. CASE worker' = [worker EXCEPT ![w].pc = "claim", ![w].todo = @ \ {m}, ![w].metric = m]
        BY <2>1, <4>3, ZenonT(30) DEF WorkerState
      <4> QED
        BY <4>1, <4>2, <4>3, Zenon
    <3>3. CASE ExportPart(w)
      BY <2>1, <3>3, SMTT(30) DEF ExportPart, WorkerState
    <3>4. CASE Import(w)
      <4>1. worker' = [worker EXCEPT ![w].pc = "release", ![w].data = Nothing]
        BY <3>4, Zenon DEF Import
      <4> QED
        BY <2>1, <4>1, ZenonT(30) DEF WorkerState
    <3> QED
      BY <2>4, <3>1, <3>2, <3>3, <3>4, Zenon
  <2>5. ~ListMetrics(w) /\ ~Consider(w) /\ ~ExportPart(w) /\ ~Import(w)
    BY <1>2, <2>4, Zenon
  <2>6. ExportFails(w)
    BY <2>2, <2>3, <2>5, Zenon
       DEF WorkerStep, Connect, Claim, ImportFails, Released
  <2>7. Fault
    BY <1>2, <2>6, Zenon DEF ExportFails
  <2> QED
    BY <2>7 DEF Fault, TypeInv, TypeOK
<1> QED
  BY <1>1, <1>2, Zenon

LEMMA GotStays ==
    ASSUME TypeInv, UnwrittenInv, LostInv, [Next]_vars, faults' = 0, NEW m \in Metrics, Got(m)
    PROVE  Got(m)'
<1>0. \A w \in Workers : ~worker[w].lost
  BY Grows DEF LostInv, TypeInv, TypeOK
<1>1. CASE m \in written \/ imported[m] # {}
  BY <1>1, Grows, ImportedGrows, Zenon DEF Got
<1>2. ASSUME m \notin written, NEW w \in Workers, worker[w].metric = m,
             worker[w].pc \in {"events", "rank", "score", "import"}
      PROVE  Got(m)'
  <2>1. CASE worker'[w] = worker[w]
    BY <1>2, <2>1, Zenon DEF Got, Claimed
  <2>2. CASE WorkerStep(w)
    <3>1. CASE ReadsEvents(w) \/ ReadsRank(w) \/ ReadsScore(w)
      BY <1>2, <3>1, Zenon DEF ReadsEvents, ReadsRank, ReadsScore, Moves, Keeps, Got, Claimed
    <3>2. CASE Stores(w)
      <4>1. faults = 0
        BY Grows DEF TypeInv, TypeOK
      <4>2. worker[w].data = Old(m) /\ Import(w)
        <5>1. worker[w].pc = "import" /\ Import(w) /\ Carries(w)
          BY <3>2, Zenon DEF Stores, Moves, UnwrittenInv
        <5> QED
          BY <1>2, <4>1, <5>1, SMTT(30) DEF Carries, Busy
      <4>3. imported'[m] = imported[m] \cup {w[2]}
        BY <1>2, <4>2, ListedOld, ZenonT(30) DEF Import, TypeInv, TypeOK
      <4> QED
        BY <4>3, Zenon DEF Got
    <3>3. CASE \/ Moves(w, "connect", "list") \/ Ends(w) \/ Lists(w) \/ Passes(w)
               \/ Chooses(w) \/ Yields(w) \/ Claims(w) \/ ReadsError(w)
      BY <1>0, <1>2, <3>3, SMTT(30)
         DEF Moves, Ends, Lists, Passes, Chooses, Yields, Claims, ReadsError
    <3> QED
      BY <2>2, <3>1, <3>2, <3>3, OwnFields, Zenon
  <2> QED
    BY <1>2, <2>1, <2>2, WorkerChanges, Zenon
<1> QED
  BY <1>1, <1>2, Zenon DEF Got, Claimed

LEMMA StepClaims ==
    ASSUME TypeInv, UnwrittenInv, LostInv, ClaimInv, [Next]_vars
    PROVE  ClaimInv'
<1> SUFFICES ASSUME faults' = 0, NEW m \in rebalancing' PROVE Got(m)'
  BY Zenon DEF ClaimInv
<1>1. m \in Metrics /\ faults = 0
  BY StepType, Grows, SMTT(30) DEF TypeInv, TypeOK
<1>2. CASE m \in rebalancing
  BY <1>1, <1>2, GotStays, Zenon DEF ClaimInv
<1>3. CASE m \notin rebalancing
  <2>1. PICK w \in Workers : Claim(w) /\ worker[w].metric = m
    <3>1. ASSUME NEW w \in Workers, WorkerStep(w) PROVE Claim(w) \/ rebalancing' \subseteq rebalancing
      BY <3>1, ZenonT(30)
         DEF WorkerStep, Connect, ListMetrics, Consider, ExportPart, ExportFails, Import,
           ImportFails, Released, Release
    <3>2. CASE \/ \E p \in Peers : WriteAtPeer(p)
               \/ LineStep \/ Close \/ CloseStore \/ UNCHANGED vars
               \/ \E k \in Triggers : SetConfig(k) \/ TriggerStep(k)
      BY <1>3, <3>2, Zenon
         DEF WriteAtPeer, LineStep, StageLine, CommitLine, Close, CloseStore, vars,
           SetConfig, TriggerStep, Wait, StartWorkers
    <3> QED
      BY <1>3, <3>1, <3>2, ZenonT(30) DEF Next, Claim
  <2>2. worker'[w].metric = m /\ worker'[w].pc = "events"
    BY <1>3, <2>1 DEF Claim, Goes, TypeInv, TypeOK
  <2> QED
    BY <2>2, Zenon DEF Got, Claimed
<1> QED
  BY <1>2, <1>3, Zenon

LEMMA StepLatest ==
    ASSUME TypeInv, TypeInv', UnwrittenInv, LostInv, TriggerInv, ClaimInv, LatestInv, [Next]_vars
    PROVE  LatestInv'
<1> SUFFICES ASSUME faults' = 0, NEW k \in Triggers, Last(k)', NEW p \in Peers,
                    worker'[<<k, p>>].pc \in {"next", "ended"} \cup Busy,
                    NEW m \in Stored[p] \cap Owned[factor']
             PROVE  Attends(<<k, p>>, m)'
  BY Zenon DEF LatestInv
<1> DEFINE w == <<k, p>>
<1>1. w \in Workers /\ w[2] = p /\ faults = 0 /\ m \in Metrics
  BY Grows, RebalanceAssumption, SMTT(30) DEF TypeInv, TypeOK, Workers
<1>2. /\ trigger \in [Triggers -> {"none", "wait", "start", "done"}]
      /\ \A j \in Triggers : j \in Nat
  BY DEF TypeInv, TypeOK, Triggers
<1>3. ASSUME NEW j \in Triggers, SetConfig(j) PROVE FALSE
  <2>1. /\ trigger[j] = "none" /\ worker' = worker
        /\ trigger' = [trigger EXCEPT ![j] = "wait"]
    BY <1>3, Zenon DEF SetConfig
  <2>2. CASE j = k
    BY <2>1, <2>2, Zenon DEF TriggerInv, Busy
  <2>3. CASE j > k
    BY <1>2, <2>1, <2>3, Zenon DEF Last
  <2>4. CASE j < k
    <3>1. trigger[k] = "none"
      BY <1>2, <2>1, <2>4, Zenon DEF TriggerInv
    <3> QED
      BY <1>2, <2>1, <2>4, <3>1, Zenon DEF Last
  <2> QED
    BY <1>2, <2>2, <2>3, <2>4
<1>4. Last(k) /\ factor' = factor
  <2>1. factor' = factor /\ \A j \in Triggers : trigger'[j] = "none" <=> trigger[j] = "none"
    BY <1>2, <1>3, TriggerChanges, Zenon
  <2> QED
    BY <2>1, Zenon DEF Last
<1>5. worker[w].pc \in {"next", "ended"} \cup Busy => Attends(w, m)
  BY <1>1, <1>4, Zenon DEF LatestInv
<1>6. ASSUME Got(m) PROVE Attends(w, m)'
  BY <1>1, <1>6, GotStays, Zenon DEF Attends
<1>0. worker'[w].pc \in {"next", "ended"} \cup Busy
  BY Zenon
<1> SUFFICES Attends(w, m)'
  BY Zenon
<1> HIDE DEF w
<1>7. CASE worker'[w] = worker[w]
  BY <1>0, <1>5, <1>6, <1>7, ZenonT(30) DEF Attends
<1>8. CASE WorkerStep(w)
  <2>1. CASE Ends(w)
    BY <1>5, <1>6, <2>1, SMTT(30) DEF Ends, Attends
  <2>2. CASE Lists(w)
    <3>1. CASE m \in written
      BY <1>6, <3>1, Zenon DEF Got
    <3>2. CASE m \notin written
      <4>1. copies[p][m] = Old(m)
        BY <1>1, <3>2, Zenon DEF UnwrittenInv, Untouched
      <4> QED
        BY <1>1, <2>2, <4>1, ListedOld, Zenon DEF Lists, Attends
    <3> QED
      BY <3>1, <3>2, Zenon
  <2>3. CASE Passes(w)
    <3>1. PICK q \in worker[w].todo :
            /\ worker'[w].todo = worker[w].todo \ {q}
            /\ q \notin Owned[factor] \/ HasMetric(own[q])
      BY <2>3, Zenon DEF Passes
    <3>2. Got(m) \/ m \in worker[w].todo
      BY <1>5, <2>3, Zenon DEF Passes, Attends
    <3>3. CASE q = m
      <4>1. HasMetric(own[m])
        BY <1>4, <3>1, <3>3, Zenon
      <4>2. m \in written \/ imported[m] # {}
        BY <1>1, <4>1, SMTT(30) DEF UnwrittenInv, Untouched, HasMetric, Nothing
      <4> QED
        BY <1>6, <4>2, Zenon DEF Got
    <3>4. CASE q # m
      BY <1>6, <3>1, <3>2, <3>4, Zenon DEF Attends
    <3> QED
      BY <3>3, <3>4, Zenon
  <2>4. CASE Chooses(w)
    BY <1>5, <1>6, <2>4, Zenon DEF Chooses, Attends
  <2>5. CASE Yields(w)
    BY <1>1, <1>5, <1>6, <2>5, Zenon DEF Yields, Moves, Attends, ClaimInv, Busy
  <2>6. CASE Claims(w)
    <3>1. worker[w].pc = "claim" => (worker[w].metric = m => Claimed(m)')
      BY <1>1, <2>6, ZenonT(30) DEF Claims, Moves, Keeps, Claimed
    <3> QED
      BY <1>5, <1>6, <2>6, <3>1, Zenon DEF Claims, Moves, Attends, Got, Busy
  <2>7. CASE ReadsEvents(w) \/ ReadsRank(w) \/ ReadsScore(w) \/ ReadsError(w) \/ Stores(w)
    BY <1>5, <1>6, <2>7, Zenon DEF ReadsEvents, ReadsRank, ReadsScore, ReadsError, Stores, Moves,
         Attends, Busy
  <2>8. CASE Moves(w, "connect", "list")
    BY <1>0, <2>8, Zenon DEF Moves, Busy
  <2> QED
    BY <1>1, <1>8, <2>1, <2>2, <2>3, <2>4, <2>5, <2>6, <2>7, <2>8, OwnFields, Zenon
<1>9. CASE worker'[w] = Begin
  BY <1>0, <1>9, SMTT(30) DEF Begin, Busy
<1> QED
  BY <1>1, <1>7, <1>8, <1>9, WorkerChanges, Zenon DEF w

-----------------------------------------------------------------------------
ImportInv ==
    /\ TypeInv /\ StagedInv /\ EventsInv /\ UnwrittenInv
    /\ TriggerInv /\ LostInv /\ ClaimInv /\ LatestInv

LEMMA InitImport == Init => ImportInv
<1> SUFFICES ASSUME Init PROVE ImportInv
  BY Zenon
<1>1. \A w \in Workers : worker[w].pc = "none" /\ worker[w].todo = {} /\ ~worker[w].lost
  BY CopyTypes, Zenon DEF Init, Begin
<1>2. \A k \in Triggers, p \in Peers : <<k, p>> \in Workers
  BY Zenon DEF Workers
<1>3. StagedInv /\ EventsInv
  BY <1>1, Zenon DEF Init, StagedInv, EventsInv, Brings, Exported
<1>4. UnwrittenInv
  BY <1>1, ZenonT(30) DEF Init, UnwrittenInv, Untouched, Carries, Busy
<1>5. TriggerInv
  <2>1. /\ 1 \in Triggers
        /\ \A k \in Triggers : k \in Nat /\ k >= 1
    BY RebalanceAssumption DEF Triggers
  <2>2. PICK first \in {"wait", "none"} :
          trigger = [k \in Triggers |-> IF k = 1 THEN first ELSE "none"]
    BY Zenon DEF Init
  <2>3. \A k, j \in Triggers : j > k => trigger[j] = "none"
    BY <2>1, <2>2
  <2>4. \A k \in Triggers : trigger[k] # "done"
    BY <2>2, Zenon
  <2>5. trigger[1] # "none" => Last(1)
    BY <2>1, <2>3, Zenon DEF Last
  <2> QED
    BY <1>1, <1>2, <2>1, <2>3, <2>4, <2>5, Zenon DEF TriggerInv
<1>6. LostInv /\ ClaimInv /\ LatestInv
  BY <1>1, <1>2, Zenon DEF Init, LostInv, ClaimInv, LatestInv, Busy
<1> QED
  BY <1>3, <1>4, <1>5, <1>6, InitType, Zenon DEF ImportInv

LEMMA StepImport == ImportInv /\ [Next]_vars => ImportInv'
<1> SUFFICES ASSUME ImportInv, [Next]_vars PROVE ImportInv'
  BY Zenon
<1> USE DEF ImportInv
<1>1. TypeInv'
  BY StepType, Zenon
<1>2. StagedInv' /\ EventsInv'
  BY <1>1, StepStaged, StepEvents, Zenon
<1>3. UnwrittenInv'
  BY <1>1, StepUntouched, StepCarries, Zenon DEF UnwrittenInv
<1>4. TriggerInv' /\ LostInv' /\ ClaimInv' /\ LatestInv'
  BY <1>1, StepTriggers, StepLost, StepClaims, StepLatest, Zenon
<1> QED
  BY <1>1, <1>2, <1>3, <1>4, Zenon

LEMMA ImportSuffices == ImportInv => NothingMissing
<1> SUFFICES ASSUME ImportInv PROVE NothingMissing
  BY Zenon
<1> USE DEF ImportInv
<1>1. ASSUME NEW m \in Metrics, NEW p \in imported[m]
      PROVE  /\ \A t \in Times : copies[p][m].events[t] # None =>
                   \/ own[m].events[t] # None
                   \/ \E l \in lines : l.metric = m /\ l.time = t
                   \/ <<p, m, t>> \in unsent
             /\ m \notin written => own[m] = copies[p][m]
  <2>1. p \in Peers
    BY Zenon DEF TypeInv, TypeOK
  <2>2. m \notin written => own[m] = copies[p][m]
    BY <2>1, Zenon DEF UnwrittenInv, Untouched
  <2> QED
    BY <2>2, ZenonT(30) DEF EventsInv, Covered, Arrives
<1>2. ASSUME Quiet, faults = 0, ~closed, trigger[1] = "done", NEW p \in Peers,
             NEW m \in Stored[p] \cap Owned[factor]
      PROVE  m \in written \/ imported[m] # {}
  <2>1. PICK k \in Triggers : Last(k)
    BY <1>2, Zenon DEF TriggerInv
  <2>2. trigger[k] = "done"
    BY <1>2, <2>1, Zenon DEF Quiet, Last
  <2>3. <<k, p>> \in Workers
    BY Zenon DEF Workers
  <2>4. worker[<<k, p>>].pc = "ended" /\ worker[<<k, p>>].todo = {}
    BY <1>2, <2>2, <2>3, Zenon DEF TriggerInv, Quiet, Running
  <2>5. Got(m)
    BY <1>2, <2>1, <2>4, Zenon DEF LatestInv, Attends
  <2> QED
    BY <1>2, <2>5, Zenon DEF Got, Claimed, Quiet, Running
<1> QED
  BY <1>1, <1>2, Zenon DEF NothingMissing

\* An import brings every event its peer had when the events were read, what the peer writes
\* later comes as a line if the peer names this node, the copy is exactly the peer's while the
\* metric is not written, and a rebalance without faults leaves out no metric that is to be
\* held here.
THEOREM ImportsAreComplete == Spec => []NothingMissing
<1>1. Init => ImportInv
  BY InitImport, Zenon
<1>2. ImportInv /\ [Next]_vars => ImportInv'
  BY StepImport, Zenon
<1>3. ImportInv => NothingMissing
  BY ImportSuffices, Zenon
<1> QED
  BY <1>1, <1>2, <1>3, PTL DEF Spec
=============================================================================
