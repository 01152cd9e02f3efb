---------------------------- MODULE Replication ----------------------------
(***************************************************************************)
(* Replication of mutations from the primary of some metrics to their      *)
(* replicas in the Pebble mode.                                            *)
(*                                                                         *)
(* A request handler holds the mutation locks of its metrics while it      *)
(* commits locally, writes one outbox record per replica, and hands the    *)
(* records to a fanout queue; a fanout worker moves them to one queue per  *)
(* replica, whose worker sends them in batches, retrying until the replica *)
(* confirms, and then deletes them from the outbox.  A replica records a   *)
(* receipt with every mutation it applies and ignores what it has seen.    *)
(*                                                                         *)
(* The primary may crash or be closed at any moment and recovers the       *)
(* outbox when it starts; lines to a replica may be executed late, more    *)
(* than once or not at all.  A replica that restarts loses only the lines  *)
(* it was executing, which is the same as losing copies of them.           *)
(***************************************************************************)
EXTENDS Naturals, Sequences, FiniteSets, Functions

CONSTANTS
    Metrics,        \* metrics this node is the primary of
    Shards,         \* fanout queues
    ShardOf,        \* the fanout queue of a metric
    Replicas,       \* the other owners of the metrics
    Handlers,       \* client connections with a request in progress
    Needed,         \* confirmations a quorum mutation waits for
    FanoutSize,     \* capacity of a fanout queue
    QueueSize,      \* capacity of a replica's queue
    BatchSize,      \* records per line sent to a replica
    MaxItems,       \* bound on the items of a WRITE_BATCH
    MaxOps,         \* bound on committed mutations
    MaxTimeouts,    \* bound on lines whose outcome stays unknown
    MaxCrashes,     \* bound on crashes of the primary
    MaxCloses       \* bound on orderly shutdowns of the primary

ASSUME BoundsAssumption ==
    /\ {Needed, MaxOps, MaxTimeouts, MaxCrashes, MaxCloses} \subseteq Nat
    /\ {FanoutSize, QueueSize, BatchSize, MaxItems} \subseteq Nat \ {0}
ASSUME ShardAssumption == ShardOf \in [Metrics -> Shards]
\* Without replicas nothing is replicated.
ASSUME ReplicasAssumption == IsFiniteSet(Replicas) /\ Replicas # {}

VARIABLES
    log,            \* mutations committed locally, each with metric and quorum flag
    outbox,         \* per replica: pending records, by position in the log
    unsynced,       \* per replica: deleted records whose deletion is not synced
    applied,        \* per replica: mutations it has committed, with their receipts
    pc, ops, start, pending, acks,      \* per handler
    fanout, moving,                     \* per fanout shard
    queue, batch, sent,                 \* per replica: its worker
    live, stale,                        \* per replica: lines it may still execute
    recovering,                         \* per replica: records not yet requeued
    closing,                            \* c.done is closed
    published,      \* history: mutations ever put into the outbox
    acked,          \* history: mutations acknowledged to their clients
    timeouts, crashes, closes

disk == <<log, outbox, unsynced, published>>
handlerVars == <<pc, ops, start, pending, acks>>
fanoutVars == <<fanout, moving>>
workerVars == <<queue, batch, sent>>
wire == <<live, stale>>
faultVars == <<closing, timeouts, crashes, closes>>
vars == <<disk, applied, handlerVars, fanoutVars, workerVars, wire, recovering, acked, faultVars>>

-----------------------------------------------------------------------------
Metric(n) == log[n].metric
Nothing == [ops |-> {}, todo |-> {}]      \* an idle fanout worker
NoLine == [ops |-> <<>>, pos |-> 1]         \* no line outstanding

Init ==
    /\ log = <<>>
    /\ outbox = [r \in Replicas |-> {}]
    /\ unsynced = [r \in Replicas |-> {}]
    /\ applied = [r \in Replicas |-> <<>>]
    /\ pc = [h \in Handlers |-> "idle"]
    /\ ops = [h \in Handlers |-> <<>>]
    /\ start = [h \in Handlers |-> 1]
    /\ pending = [h \in Handlers |-> {}]
    /\ acks = [h \in Handlers |-> {}]
    /\ fanout = [s \in Shards |-> <<>>]
    /\ moving = [s \in Shards |-> Nothing]
    /\ queue = [r \in Replicas |-> <<>>]
    /\ batch = [r \in Replicas |-> <<>>]
    /\ sent = [r \in Replicas |-> FALSE]
    /\ live = [r \in Replicas |-> NoLine]
    /\ stale = [r \in Replicas |-> {}]
    /\ recovering = [r \in Replicas |-> {}]
    /\ closing = FALSE
    /\ published = {}
    /\ acked = {}
    /\ timeouts = 0
    /\ crashes = 0
    /\ closes = 0

-----------------------------------------------------------------------------
(* Request handlers. *)

\* Defective variant: the mutation locks are not taken.
HeldNothing(h) == {}

Held(h) == {Metric(n) : n \in Range(ops[h])}

\* Where the next items go in the log.
Positions(size) == [i \in 1..size |-> Len(log) + i]

\* executeLocal and the local part of handleWriteBatch: under the mutation locks
\* the items are committed with one synced batch, which also syncs what was
\* written before it.
Execute(h) ==
    /\ pc[h] = "idle"
    /\ \E size \in 1..MaxItems :
       \E items \in [1..size -> [metric: Metrics, quorum: BOOLEAN]] :
          /\ Len(log) + size <= MaxOps
          /\ \A i \in 1..size, g \in Handlers : items[i].metric \notin Held(g)
          /\ log' = log \o items
          /\ ops' = [ops EXCEPT ![h] = Positions(size)]
    /\ start' = [start EXCEPT ![h] = 1]
    /\ pc' = [pc EXCEPT ![h] = "replicate"]
    /\ unsynced' = [r \in Replicas |-> {}]
    /\ UNCHANGED <<outbox, published, applied, pending, acks, fanoutVars, workerVars,
                   wire, recovering, acked, faultVars>>

\* waitRecovery.  Defective variant: nobody waits.
RecoveredAtOnce == TRUE
Recovered == \A r \in Replicas : recovering[r] = {}

\* The items before the next quorum item, or that item alone.
Quorum(n) == log[n].quorum
Chunk(h) ==
    {i \in start[h]..Len(ops[h]) :
        i = start[h] \/ \A j \in start[h]..i : ~Quorum(ops[h][j])}
Items(h) == {ops[h][i] : i \in Chunk(h)}
Waits(h) == Quorum(ops[h][start[h]]) /\ Needed > 0

\* The records of one metric.  Records are handled in the order of the log, so a
\* set of them stands for the sequence.
Group(h, m) == {n \in Items(h) : Metric(n) = m}
First(S, n) == n \in S /\ \A k \in S : n <= k

\* replicateAsyncBatch, or ReplicateQuorum up to the outbox: one synced batch
\* with a record per item and replica, grouped by metric for the fanout.
PutBatch(h) ==
    /\ pc[h] = "replicate"
    /\ start[h] <= Len(ops[h])
    /\ Recovered
    /\ Waits(h) => Needed <= Cardinality(Replicas)
    /\ outbox' = [r \in Replicas |-> outbox[r] \cup Items(h)]
    /\ unsynced' = [r \in Replicas |-> {}]
    /\ published' = published \cup Items(h)
    /\ pending' = [pending EXCEPT ![h] = {Metric(n) : n \in Items(h)}]
    /\ acks' = [acks EXCEPT ![h] = {}]
    /\ pc' = [pc EXCEPT ![h] = "fanout"]
    /\ UNCHANGED <<log, applied, ops, start, fanoutVars, workerVars, wire, recovering,
                   acked, faultVars>>

\* enqueueFanout; the groups follow in map order.  After the last one the
\* handler goes on with the next items or waits for the quorum.
EnqueueFanout(h) ==
    /\ pc[h] = "fanout"
    /\ \E m \in pending[h] :
          /\ Len(fanout[ShardOf[m]]) < FanoutSize
          /\ fanout' = [fanout EXCEPT ![ShardOf[m]] = Append(@, Group(h, m))]
          /\ pending' = [pending EXCEPT ![h] = @ \ {m}]
    /\ IF pending'[h] # {} THEN UNCHANGED <<pc, start>>
       ELSE IF Waits(h) THEN pc' = [pc EXCEPT ![h] = "wait"] /\ UNCHANGED start
       ELSE /\ pc' = [pc EXCEPT ![h] = "replicate"]
            /\ \E i \in Chunk(h) :
                  i + 1 \notin Chunk(h) /\ start' = [start EXCEPT ![h] = i + 1]
    /\ UNCHANGED <<disk, applied, ops, acks, moving, workerVars, wire, recovering,
                   acked, faultVars>>

\* Defective variant: the primary counts itself.
EnoughWithSelf(h) == Cardinality(acks[h]) + 1 >= Needed
Enough(h) == Cardinality(acks[h]) >= Needed

QuorumReached(h) ==
    /\ pc[h] = "wait"
    /\ Enough(h)
    /\ pc' = [pc EXCEPT ![h] = "replicate"]
    /\ start' = [start EXCEPT ![h] = @ + 1]
    /\ acks' = [acks EXCEPT ![h] = {}]
    /\ UNCHANGED <<disk, applied, ops, pending, fanoutVars, workerVars, wire,
                   recovering, acked, faultVars>>

\* The locks are released.
Release(h) ==
    /\ pc' = [pc EXCEPT ![h] = "idle"]
    /\ ops' = [ops EXCEPT ![h] = <<>>]
    /\ start' = [start EXCEPT ![h] = 1]
    /\ pending' = [pending EXCEPT ![h] = {}]
    /\ acks' = [acks EXCEPT ![h] = {}]

\* The success response.
Reply(h) ==
    /\ pc[h] = "replicate"
    /\ start[h] > Len(ops[h])
    /\ acked' = acked \cup Range(ops[h])
    /\ Release(h)
    /\ UNCHANGED <<disk, applied, fanoutVars, workerVars, wire, recovering, faultVars>>

\* An error response for every item: too few replicas or an outbox error, the
\* quorum timeout, or a shutdown, which alone can interrupt the fanout.
Fail(h) ==
    /\ \/ pc[h] = "replicate" /\ start[h] <= Len(ops[h])
       \/ pc[h] = "fanout" /\ closing
       \/ pc[h] = "wait"
    /\ Release(h)
    /\ UNCHANGED <<disk, applied, fanoutVars, workerVars, wire, recovering, acked,
                   faultVars>>

-----------------------------------------------------------------------------
(* Fanout workers.  Once c.done is closed a worker may still choose to go on. *)

FanoutTake(s) ==
    /\ moving[s].ops = {}
    /\ fanout[s] # <<>>
    /\ moving' = [moving EXCEPT ![s] = [ops |-> Head(fanout[s]), todo |-> Replicas]]
    /\ fanout' = [fanout EXCEPT ![s] = Tail(@)]
    /\ UNCHANGED <<disk, applied, handlerVars, workerVars, wire, recovering, acked,
                   faultVars>>

\* enqueueReplicationRecord for the replicas of the first item, in ring order,
\* which depends on the metric; a full queue blocks, unless the node closes.
FanoutMove(s) ==
    /\ \E n \in moving[s].ops, r \in moving[s].todo :
          /\ First(moving[s].ops, n)
          /\ \/ /\ Len(queue[r]) < QueueSize
                /\ queue' = [queue EXCEPT ![r] = Append(@, n)]
             \/ closing /\ UNCHANGED queue
          /\ moving' = [moving EXCEPT ![s] =
                IF moving[s].todo # {r}
                THEN [ops |-> moving[s].ops, todo |-> moving[s].todo \ {r}]
                ELSE IF moving[s].ops = {n} THEN Nothing
                ELSE [ops |-> moving[s].ops \ {n}, todo |-> Replicas]]
    /\ UNCHANGED <<disk, applied, handlerVars, fanout, batch, sent, wire, recovering,
                   acked, faultVars>>

\* recoverReplicationOutbox requeues what the outbox held at the start.  It goes
\* node by node; here the nodes may alternate.
RecoverRecord(r) ==
    /\ Len(queue[r]) < QueueSize
    /\ \E n \in recovering[r] :
          /\ First(recovering[r], n)
          /\ queue' = [queue EXCEPT ![r] = Append(@, n)]
          /\ recovering' = [recovering EXCEPT ![r] = @ \ {n}]
    /\ UNCHANGED <<disk, applied, handlerVars, fanoutVars, batch, sent, wire, acked,
                   faultVars>>

\* A recovery that finds the node closing ends as if it were complete.
AbandonRecovery ==
    /\ closing
    /\ ~Recovered
    /\ recovering' = [r \in Replicas |-> {}]
    /\ UNCHANGED <<disk, applied, handlerVars, fanoutVars, workerVars, wire, acked,
                   faultVars>>

-----------------------------------------------------------------------------
(* The worker of a replica. *)

\* The batch ends when it is full or the wait timer fires.
TakeBatch(r) ==
    /\ batch[r] = <<>>
    /\ \E size \in 1..BatchSize :
          /\ size <= Len(queue[r])
          /\ batch' = [batch EXCEPT ![r] = SubSeq(queue[r], 1, size)]
          /\ queue' = [queue EXCEPT ![r] = SubSeq(@, size + 1, Len(@))]
    /\ UNCHANGED <<disk, applied, handlerVars, fanoutVars, sent, wire, recovering, acked,
                   faultVars>>

\* Defective variant: the worker does not try again after a failed attempt.
SendWithoutRetry(r) ==
    /\ timeouts = 0
    /\ batch[r] # <<>>
    /\ ~sent[r]
    /\ live[r] = NoLine
    /\ live' = [live EXCEPT ![r] = [ops |-> batch[r], pos |-> 1]]
    /\ UNCHANGED <<disk, applied, handlerVars, fanoutVars, workerVars, stale, recovering,
                   acked, faultVars>>

\* pool.Send: at most one attempt at a time is waited for.
SendLine(r) ==
    /\ batch[r] # <<>>
    /\ ~sent[r]
    /\ live[r] = NoLine
    /\ live' = [live EXCEPT ![r] = [ops |-> batch[r], pos |-> 1]]
    /\ UNCHANGED <<disk, applied, handlerVars, fanoutVars, workerVars, stale, recovering,
                   acked, faultVars>>

\* The attempt fails: the connection is evicted, so its response can no longer
\* be read, while the replica may go on with the line.
Timeout(r) ==
    /\ timeouts < MaxTimeouts
    /\ timeouts' = timeouts + 1
    /\ live[r] # NoLine
    /\ stale' = [stale EXCEPT ![r] = @ \cup {live[r]}]
    /\ live' = [live EXCEPT ![r] = NoLine]
    /\ UNCHANGED <<disk, applied, handlerVars, fanoutVars, workerVars, recovering, acked,
                   closing, crashes, closes>>

Dropped(r) ==
    /\ \E line \in stale[r] : stale' = [stale EXCEPT ![r] = @ \ {line}]
    /\ UNCHANGED <<disk, applied, handlerVars, fanoutVars, workerVars, live, recovering,
                   acked, faultVars>>

\* replicationResponseError: every item of the line has succeeded.  Defective
\* variant: any response is a success.
SucceededAnyhow(line) == TRUE
Succeeded(line) == line.pos > Len(line.ops)

\* The replica has confirmed the whole line: waiting quorum handlers are told ...
Confirmed(r) ==
    /\ live[r] # NoLine
    /\ Succeeded(live[r])
    /\ acks' = [h \in Handlers |->
          IF /\ pc[h] \in {"fanout", "wait"} /\ Waits(h)
             /\ ops[h][start[h]] \in Range(batch[r])
          THEN acks[h] \cup {r} ELSE acks[h]]
    /\ sent' = [sent EXCEPT ![r] = TRUE]
    /\ live' = [live EXCEPT ![r] = NoLine]
    /\ UNCHANGED <<disk, applied, pc, ops, start, pending, fanoutVars, queue, batch,
                   stale, recovering, acked, faultVars>>

\* ... and the records are deleted without a sync.
DeleteBatch(r) ==
    /\ sent[r]
    /\ outbox' = [outbox EXCEPT ![r] = @ \ Range(batch[r])]
    /\ unsynced' = [unsynced EXCEPT ![r] = @ \cup (outbox[r] \cap Range(batch[r]))]
    /\ batch' = [batch EXCEPT ![r] = <<>>]
    /\ sent' = [sent EXCEPT ![r] = FALSE]
    /\ UNCHANGED <<log, published, applied, handlerVars, fanoutVars, queue, wire,
                   recovering, acked, faultVars>>

\* A retry loop that finds the node closing gives the batch up.
AbandonBatch(r) ==
    /\ closing
    /\ batch[r] # <<>> /\ ~sent[r] /\ live[r] = NoLine
    /\ batch' = [batch EXCEPT ![r] = <<>>]
    /\ UNCHANGED <<disk, applied, handlerVars, fanoutVars, queue, sent, wire, recovering,
                   acked, faultVars>>

-----------------------------------------------------------------------------
(* A replica executes the next item of a line: the receipt is checked and     *)
(* committed together with the mutation.                                      *)

\* Defective variant: the receipt is not looked up.
ExecuteAgain(done, n) == Append(done, n)

ExecuteItem(done, n) == IF n \in Range(done) THEN done ELSE Append(done, n)

ExecuteLive(r) ==
    /\ live[r].pos <= Len(live[r].ops)
    /\ applied' = [applied EXCEPT ![r] = ExecuteItem(@, live[r].ops[live[r].pos])]
    /\ live' = [live EXCEPT ![r].pos = @ + 1]
    /\ UNCHANGED <<disk, handlerVars, fanoutVars, workerVars, stale, recovering, acked,
                   faultVars>>

ExecuteStale(r) ==
    /\ \E line \in stale[r] :
          /\ line.pos <= Len(line.ops)
          /\ applied' = [applied EXCEPT ![r] = ExecuteItem(@, line.ops[line.pos])]
          /\ stale' = [stale EXCEPT ![r] =
                         (@ \ {line}) \cup {[line EXCEPT !.pos = @ + 1]}]
    /\ UNCHANGED <<disk, handlerVars, fanoutVars, workerVars, live, recovering, acked,
                   faultVars>>

-----------------------------------------------------------------------------
(* Shutdown, crash and restart of the primary. *)

Close ==
    /\ ~closing
    /\ closes < MaxCloses
    /\ closing' = TRUE
    /\ closes' = closes + 1
    /\ UNCHANGED <<disk, applied, handlerVars, fanoutVars, workerVars, wire, recovering,
                   acked, timeouts, crashes>>

\* Everything in memory is gone; deletions that were not synced may be undone.
\* What the outbox holds is to be recovered.
Restart ==
    /\ \/ closing /\ UNCHANGED crashes
       \/ ~closing /\ crashes < MaxCrashes /\ crashes' = crashes + 1
    /\ \E undone \in [Replicas -> SUBSET UNION {unsynced[r] : r \in Replicas}] :
          /\ \A r \in Replicas : undone[r] \subseteq unsynced[r]
          /\ outbox' = [r \in Replicas |-> outbox[r] \cup undone[r]]
    /\ unsynced' = [r \in Replicas |-> {}]
    /\ recovering' = outbox'
    /\ pc' = [h \in Handlers |-> "idle"]
    /\ ops' = [h \in Handlers |-> <<>>]
    /\ start' = [h \in Handlers |-> 1]
    /\ pending' = [h \in Handlers |-> {}]
    /\ acks' = [h \in Handlers |-> {}]
    /\ fanout' = [s \in Shards |-> <<>>]
    /\ moving' = [s \in Shards |-> Nothing]
    /\ queue' = [r \in Replicas |-> <<>>]
    /\ batch' = [r \in Replicas |-> <<>>]
    /\ sent' = [r \in Replicas |-> FALSE]
    /\ stale' = [r \in Replicas |->
                   IF live[r] = NoLine THEN stale[r] ELSE stale[r] \cup {live[r]}]
    /\ live' = [r \in Replicas |-> NoLine]
    /\ closing' = FALSE
    /\ UNCHANGED <<log, published, applied, acked, timeouts, closes>>

-----------------------------------------------------------------------------
HandlerStep(h) ==
    Execute(h) \/ PutBatch(h) \/ EnqueueFanout(h) \/ QuorumReached(h) \/ Reply(h) \/ Fail(h)
FanoutStep(s) == FanoutTake(s) \/ FanoutMove(s)
WorkerStep(r) ==
    \/ RecoverRecord(r) \/ TakeBatch(r) \/ SendLine(r) \/ Confirmed(r)
    \/ DeleteBatch(r) \/ ExecuteLive(r)
LineFault(r) == Timeout(r) \/ Dropped(r) \/ ExecuteStale(r) \/ AbandonBatch(r)

Next ==
    \/ \E h \in Handlers : HandlerStep(h)
    \/ \E s \in Shards : FanoutStep(s)
    \/ \E r \in Replicas : WorkerStep(r) \/ LineFault(r)
    \/ AbandonRecovery
    \/ Close
    \/ Restart

Spec == Init /\ [][Next]_vars

\* Goroutines that can go on do, and a line that is retried is executed in the
\* end; nothing is assumed about clients, faults and forgotten lines.
Fairness ==
    /\ \A s \in Shards : WF_vars(FanoutTake(s)) /\ WF_vars(FanoutMove(s))
    /\ \A r \in Replicas :
          /\ WF_vars(RecoverRecord(r)) /\ WF_vars(TakeBatch(r)) /\ WF_vars(SendLine(r))
          /\ WF_vars(ExecuteLive(r)) /\ WF_vars(Confirmed(r)) /\ WF_vars(DeleteBatch(r))
    /\ \A h \in Handlers : WF_vars(EnqueueFanout(h))
LiveSpec == Spec /\ Fairness

-----------------------------------------------------------------------------
(* Correctness. *)

Ids == 1..Len(log)
Line == [ops: Seq(Ids), pos: Nat \ {0}]

\* Types of the state.
TypeOK ==
    /\ log \in Seq([metric: Metrics, quorum: BOOLEAN])
    /\ outbox \in [Replicas -> SUBSET Ids]
    /\ unsynced \in [Replicas -> SUBSET Ids]
    /\ applied \in [Replicas -> Seq(Ids)]
    /\ pc \in [Handlers -> {"idle", "replicate", "fanout", "wait"}]
    /\ ops \in [Handlers -> Seq(Ids)]
    /\ start \in [Handlers -> Nat \ {0}]
    /\ pending \in [Handlers -> SUBSET Metrics]
    /\ acks \in [Handlers -> SUBSET Replicas]
    /\ fanout \in [Shards -> Seq(SUBSET Ids)]
    /\ moving \in [Shards -> [ops: SUBSET Ids, todo: SUBSET Replicas]]
    /\ queue \in [Replicas -> Seq(Ids)]
    /\ batch \in [Replicas -> Seq(Ids)]
    /\ sent \in [Replicas -> BOOLEAN]
    /\ live \in [Replicas -> Line]
    /\ stale \in [Replicas -> SUBSET Line]
    /\ recovering \in [Replicas -> SUBSET Ids]
    /\ closing \in BOOLEAN
    /\ published \in SUBSET Ids
    /\ acked \in SUBSET Ids
    /\ timeouts \in Nat /\ crashes \in Nat /\ closes \in Nat

\* Every acknowledged mutation has reached each replica or is still in the
\* outbox that the next start recovers ("once a primary/local owner acknowledges
\* a write, pending replica delivery should survive process restart", docs v2.md;
\* putBatch before Reply, deleteBatch only after the confirmation).
AckedSurvives ==
    TypeOK /\ \A n \in acked, r \in Replicas : n \in Range(applied[r]) \cup outbox[r]

\* A mutation acknowledged with QUORUM has been applied by the needed number of
\* replicas, whatever was retried, timed out or replayed (ReplicateQuorum).
QuorumApplied ==
    \A n \in acked : log[n].quorum =>
        Needed <= Cardinality({r \in Replicas : n \in Range(applied[r])})

\* Each replica applies the published mutations of a metric in the order in
\* which the primary committed them, each once and none left out: neither
\* retries, late copies, quorum requests nor recovery let one overtake another
\* ("Quorum uses the same ordered delivery path as async replication, so a SET
\* cannot overtake an earlier increment", ReplicateQuorum).
AppliedInOrder ==
    \A r \in Replicas : \A i \in DOMAIN applied[r] :
        LET n == applied[r][i]
            before == {applied[r][j] : j \in 1..(i - 1)}
        IN /\ n \notin before
           /\ closes = 0 =>
                 {k \in published : k < n /\ Metric(k) = Metric(n)} \subseteq before

\* The outbox, the queues, the retries and the receipts together behave like one
\* log whose entries the replicas apply in order and once, and of which only
\* entries that will arrive are acknowledged (ReplicateBatch, ReplicateQuorum,
\* replicationWorker, recoverReplicationOutbox, executeMutation).
ReplicatedLogSpec == INSTANCE ReplicatedLog
ImplementsLog == ReplicatedLogSpec!Spec

\* What is in the outbox reaches every replica, unless the process is shut down
\* and not started again (fanoutWorker, replicationWorker,
\* recoverReplicationOutbox, sendReplicationLineWithRetry).
Delivered ==
    \A n \in 1..MaxOps, r \in Replicas :
        n \in published ~> (n \in Range(applied[r]) \/ closing)
=============================================================================
