------------------------- MODULE ReplicationProofs --------------------------
(***************************************************************************)
(* For every set of metrics, replicas and connections, every quorum and    *)
(* every bound: whatever crashes, is shut down, times out or is repeated,  *)
(* an acknowledged mutation is at each replica or in the outbox, and one   *)
(* acknowledged with QUORUM has been applied by enough replicas.  Replicas *)
(* apply the mutations of a metric in the order of their commits, and the  *)
(* whole implements ReplicatedLog.                                         *)
(***************************************************************************)
EXTENDS Replication, TLAPS

\* A leaf is for Zenon unless it names another prover.
USE ZenonT(90)

Has(r, n) == n \in Range(applied[r])
Reached(n) == Needed <= Cardinality({r \in Replicas : Has(r, n)})

\* What has been published is at the replica or recorded for it.
OutboxInv == \A n \in published, r \in Replicas : Has(r, n) \/ n \in outbox[r]

AckedInv == \A n \in acked : n \in published /\ (Quorum(n) => Reached(n))

\* The items that a handler has passed could be acknowledged, and the confirmations
\* it counts are for the item it waits for.
HandlerInv(h) ==
    /\ \A i \in 1..Len(ops[h]) : i < start[h] =>
          ops[h][i] \in published /\ (Quorum(ops[h][i]) => Reached(ops[h][i]))
    /\ pc[h] \in {"fanout", "wait"} => start[h] <= Len(ops[h]) /\ Items(h) \subseteq published
    /\ pc[h] = "wait" => Waits(h)
    /\ pc[h] \in {"fanout", "wait"} /\ Waits(h) => \A r \in acks[h] : Has(r, ops[h][start[h]])

\* The line that is waited for is the batch, and what it has passed is applied.
WorkerInv(r) ==
    /\ sent[r] => live[r] = NoLine /\ batch[r] # <<>> /\ Range(batch[r]) \subseteq Range(applied[r])
    /\ live[r] # NoLine => live[r].ops = batch[r] /\ batch[r] # <<>>
    /\ \A i \in 1..Len(live[r].ops) : i < live[r].pos => Has(r, live[r].ops[i])

\* What the lemmas below use of cardinalities.  It is proved at the end, so that the
\* library about finite sets is not in the way of every other step.
Counting ==
    \A S, T : S \subseteq T /\ T \subseteq Replicas =>
        /\ Cardinality(S) \in Nat /\ Cardinality(T) \in Nat
        /\ Cardinality(S) <= Cardinality(T)

IInv ==
    /\ TypeOK /\ OutboxInv /\ AckedInv
    /\ \A h \in Handlers : HandlerInv(h)
    /\ \A r \in Replicas : WorkerInv(r)

-----------------------------------------------------------------------------
(* Types. *)

\* The types of everything but the log, with the positions S of the log.
Lines(S) == [ops: Seq(S), pos: Nat \ {0}]
Typed(S) ==
    /\ outbox \in [Replicas -> SUBSET S]
    /\ unsynced \in [Replicas -> SUBSET S]
    /\ applied \in [Replicas -> Seq(S)]
    /\ ops \in [Handlers -> Seq(S)]
    /\ fanout \in [Shards -> Seq(SUBSET S)]
    /\ moving \in [Shards -> [ops: SUBSET S, todo: SUBSET Replicas]]
    /\ queue \in [Replicas -> Seq(S)]
    /\ batch \in [Replicas -> Seq(S)]
    /\ live \in [Replicas -> Lines(S)]
    /\ stale \in [Replicas -> SUBSET Lines(S)]
    /\ recovering \in [Replicas -> SUBSET S]
    /\ published \in SUBSET S
    /\ acked \in SUBSET S
Untyped ==
    /\ pc \in [Handlers -> {"idle", "replicate", "fanout", "wait"}]
    /\ start \in [Handlers -> Nat \ {0}]
    /\ pending \in [Handlers -> SUBSET Metrics]
    /\ acks \in [Handlers -> SUBSET Replicas]
    /\ sent \in [Replicas -> BOOLEAN]
    /\ closing \in BOOLEAN
    /\ timeouts \in Nat /\ crashes \in Nat /\ closes \in Nat

Item == [metric: Metrics, quorum: BOOLEAN]

LEMMA TypeParts ==
    /\ TypeOK <=> log \in Seq(Item) /\ Typed(Ids) /\ Untyped
    /\ TypeOK' <=> log' \in Seq(Item) /\ Typed(Ids)' /\ Untyped'
<1>1. TypeOK <=> log \in Seq(Item) /\ Typed(Ids) /\ Untyped
  BY DEF TypeOK, Typed, Untyped, Line, Lines, Item
<1>2. TypeOK' <=> log' \in Seq(Item) /\ Typed(Ids)' /\ Untyped'
  BY DEF TypeOK, Typed, Untyped, Line, Lines, Item
<1> QED
  BY <1>1, <1>2

LEMMA InitType == Init => TypeOK
<1> SUFFICES ASSUME Init PROVE TypeOK
  OBVIOUS
<1>1. Ids = {} /\ log \in Seq(Item)
  BY SMTT(30) DEF Init, Ids
<1>2. <<>> \in Seq({}) /\ <<>> \in Seq(SUBSET {})
  BY SMTT(30)
<1>3. NoLine \in Lines({}) /\ Nothing \in [ops: SUBSET {}, todo: SUBSET Replicas]
  BY <1>2, SMTT(30) DEF NoLine, Lines, Nothing
<1>4. Typed({})
  BY <1>2, <1>3 DEF Init, Typed
<1>5. Untyped
  <2>1. 1 \in Nat \ {0} /\ 0 \in Nat
    BY SMTT(30)
  <2> QED
    BY <2>1 DEF Init, Untyped
<1> QED
  BY <1>1, <1>4, <1>5, TypeParts

LEMMA ItemsType ==
    ASSUME TypeOK, NEW h \in Handlers
    PROVE  /\ Chunk(h) \subseteq 1..Len(ops[h]) /\ Chunk(h) \subseteq Nat
           /\ Items(h) \subseteq Ids
           /\ {Metric(n) : n \in Items(h)} \subseteq Metrics
           /\ \A m : Group(h, m) \subseteq Ids
<1>1. /\ log \in Seq(Item)
      /\ ops[h] \in Seq(Ids) /\ start[h] \in Nat \ {0}
  BY DEF TypeOK, Item
<1>2. Chunk(h) \subseteq 1..Len(ops[h])
  BY <1>1, SMTT(30) DEF Chunk
<1>3. Items(h) \subseteq Ids
  BY <1>1, <1>2, SMTT(30) DEF Items
<1>4. {Metric(n) : n \in Items(h)} \subseteq Metrics
  <2>1. ASSUME NEW n \in Ids PROVE log[n].metric \in Metrics
    <3>1. log[n] \in Item
      BY <1>1, <2>1, SMTT(30) DEF Ids
    <3> QED
      BY <3>1 DEF Item
  <2> QED
    BY <1>3, <2>1 DEF Metric
<1> QED
  BY <1>1, <1>2, <1>3, <1>4, SMTT(30) DEF Group

LEMMA StepType == TypeOK /\ [Next]_vars => TypeOK'
<1>SeqGrows. ASSUME NEW S, NEW T, S \subseteq T
             PROVE  Seq(S) \subseteq Seq(T) /\ Seq(SUBSET S) \subseteq Seq(SUBSET T)
  BY <1>SeqGrows, SMTT(30)
<1>TypedGrows. ASSUME NEW S, NEW T, S \subseteq T, Typed(S)
               PROVE  Typed(T)
  <2> USE <1>TypedGrows
  <2>1. Seq(S) \subseteq Seq(T) /\ Seq(SUBSET S) \subseteq Seq(SUBSET T) /\ SUBSET S \subseteq SUBSET T
    BY <1>SeqGrows
  <2>2. Lines(S) \subseteq Lines(T)
    BY <2>1 DEF Lines
  <2>3. /\ applied \in [Replicas -> Seq(T)] /\ ops \in [Handlers -> Seq(T)]
        /\ queue \in [Replicas -> Seq(T)] /\ batch \in [Replicas -> Seq(T)]
        /\ fanout \in [Shards -> Seq(SUBSET T)]
    BY <2>1 DEF Typed
  <2>4. /\ outbox \in [Replicas -> SUBSET T] /\ unsynced \in [Replicas -> SUBSET T]
        /\ recovering \in [Replicas -> SUBSET T] /\ published \in SUBSET T /\ acked \in SUBSET T
    BY <2>1 DEF Typed
  <2>5. live \in [Replicas -> Lines(T)] /\ stale \in [Replicas -> SUBSET Lines(T)]
    BY <2>2 DEF Typed
  <2>6. moving \in [Shards -> [ops: SUBSET T, todo: SUBSET Replicas]]
    BY <2>1 DEF Typed
  <2> QED
    BY <2>3, <2>4, <2>5, <2>6 DEF Typed
<1>ExecuteType. ASSUME TypeOK, NEW h \in Handlers, Execute(h)
                PROVE  TypeOK'
  <2> USE <1>ExecuteType
  <2>1. log \in Seq(Item) /\ Typed(Ids) /\ Untyped
    BY TypeParts
  <2>2. PICK size \in 1..MaxItems :
        \E items \in [1..size -> Item] : log' = log \o items /\ ops' = [ops EXCEPT ![h] = Positions(size)]
    BY DEF Execute, Item
  <2>3. PICK items \in [1..size -> Item] : log' = log \o items
    BY <2>2
  <2>4. size \in Nat /\ items \in Seq(Item) /\ Len(items) = size
    <3>1. MaxItems \in Nat
      BY BoundsAssumption
    <3> QED
      BY <3>1, SMTT(30)
  <2>5. log' \in Seq(Item) /\ Len(log') = Len(log) + size /\ Len(log) \in Nat
    <3> HIDE DEF Item
    <3>1. /\ log \o items \in Seq(Item) /\ Len(log \o items) = Len(log) + Len(items)
          /\ Len(log) \in Nat
      BY <2>1, <2>4, SMTT(30)
    <3> QED
      BY <2>3, <2>4, <3>1
  <2>6. Ids \subseteq Ids'
    BY <2>4, <2>5, SMTT(30) DEF Ids
  <2>7. Positions(size) \in Seq(Ids')
    <3>1. Positions(size) \in [1..size -> Ids']
      BY <2>4, <2>5, SMTT(30) DEF Positions, Ids
    <3> QED
      BY <2>4, <3>1, SMTT(30)
  <2>8. Typed(Ids')
    BY <2>1, <2>6, <1>TypedGrows
  <2> HIDE DEF Ids, Positions
  <2>9. Typed(Ids)'
    <3>1. unsynced' \in [Replicas -> SUBSET Ids'] /\ ops' \in [Handlers -> Seq(Ids')]
      BY <2>2, <2>7, <2>8 DEF Execute, Typed
    <3> QED
      BY <2>8, <3>1 DEF Execute, Typed, fanoutVars, workerVars, wire
  <2>10. Untyped'
    BY <2>1, SMTT(30) DEF Untyped, Execute, workerVars, faultVars
  <2> QED
    BY <2>5, <2>9, <2>10, TypeParts
<1>HandlerType. ASSUME TypeOK, NEW h \in Handlers, HandlerStep(h)
                PROVE  TypeOK'
  <2> USE <1>HandlerType
  <2>1. /\ log \in Seq(Item) /\ Typed(Ids) /\ Untyped
        /\ ShardOf \in [Metrics -> Shards]
    BY TypeParts, ShardAssumption
  <2>2. /\ Items(h) \subseteq Ids /\ {Metric(n) : n \in Items(h)} \subseteq Metrics
        /\ Chunk(h) \subseteq Nat /\ \A m : Group(h, m) \subseteq Ids
    BY ItemsType
  <2>3. ASSUME UNCHANGED log, Typed(Ids)', Untyped' PROVE TypeOK'
    BY <2>1, <2>3, TypeParts DEF Ids
  <2>4. ASSUME UNCHANGED log PROVE Ids' = Ids
    BY <2>4 DEF Ids
  <2> HIDE DEF Ids, Items, Chunk, Group, Metric
  <2>5. CASE PutBatch(h)
    <3>1. Ids' = Ids
      BY <2>4, <2>5 DEF PutBatch
    <3>2. Typed(Ids)'
      BY <2>1, <2>2, <2>5, <3>1 DEF PutBatch, Typed, fanoutVars, workerVars, wire
    <3>3. Untyped'
      BY <2>1, <2>2, <2>5 DEF PutBatch, Untyped, workerVars, faultVars
    <3> QED
      BY <2>3, <2>5, <3>2, <3>3 DEF PutBatch
  <2>6. CASE EnqueueFanout(h)
    <3>1. Ids' = Ids /\ UNCHANGED log
      BY <2>4, <2>6 DEF EnqueueFanout, disk
    <3>2. PICK m \in pending[h] :
            /\ fanout' = [fanout EXCEPT ![ShardOf[m]] = Append(@, Group(h, m))]
            /\ pending' = [pending EXCEPT ![h] = @ \ {m}]
      BY <2>6 DEF EnqueueFanout
    <3>3. ShardOf[m] \in Shards
      BY <2>1 DEF Untyped
    <3>4. fanout' \in [Shards -> Seq(SUBSET Ids)]
      BY <2>1, <2>2, <3>2, <3>3, SMTT(30) DEF Typed
    <3>5. Typed(Ids)'
      BY <2>1, <2>6, <3>1, <3>4 DEF EnqueueFanout, Typed, disk, workerVars, wire
    <3>6. pending' \in [Handlers -> SUBSET Metrics]
      BY <2>1, <3>2 DEF Untyped
    <3>7. pc' \in [Handlers -> {"idle", "replicate", "fanout", "wait"}]
      <4>1. pc \in [Handlers -> {"idle", "replicate", "fanout", "wait"}]
        BY <2>1 DEF Untyped
      <4>2. \/ pc' = pc \/ pc' = [pc EXCEPT ![h] = "wait"]
            \/ pc' = [pc EXCEPT ![h] = "replicate"]
        BY <2>6 DEF EnqueueFanout
      <4> QED
        BY <4>1, <4>2
    <3>8. start' \in [Handlers -> Nat \ {0}]
      BY <2>1, <2>2, <2>6, SMTT(30) DEF Untyped, EnqueueFanout
    <3>9. Untyped'
      BY <2>1, <2>6, <3>6, <3>7, <3>8 DEF EnqueueFanout, Untyped, workerVars, faultVars
    <3> QED
      BY <2>3, <3>1, <3>5, <3>9
  <2>7. CASE QuorumReached(h)
    <3>1. Ids' = Ids /\ UNCHANGED log
      BY <2>4, <2>7 DEF QuorumReached, disk
    <3>2. Typed(Ids)'
      BY <2>1, <2>7, <3>1 DEF QuorumReached, Typed, disk, fanoutVars, workerVars, wire
    <3>3. Untyped'
      BY <2>1, <2>7, SMTT(30) DEF QuorumReached, Untyped, workerVars, faultVars
    <3> QED
      BY <2>3, <3>1, <3>2, <3>3
  <2>8. ASSUME Release(h), ops[h] \in Seq(Ids),
               UNCHANGED <<disk, applied, fanoutVars, workerVars, wire, recovering, faultVars>>,
               acked' \in SUBSET Ids
        PROVE  TypeOK'
    <3>1. Ids' = Ids /\ UNCHANGED log
      BY <2>4, <2>8 DEF disk
    <3>2. ops' \in [Handlers -> Seq(Ids)]
      BY <2>1, <2>8, SMTT(30) DEF Release, Typed
    <3>3. Typed(Ids)'
      BY <2>1, <2>8, <3>1, <3>2 DEF Typed, disk, fanoutVars, workerVars, wire
    <3>4. Untyped'
      BY <2>1, <2>8, SMTT(30) DEF Release, Untyped, workerVars, faultVars
    <3> QED
      BY <2>3, <3>1, <3>3, <3>4
  <2>9. ops[h] \in Seq(Ids) /\ Range(ops[h]) \subseteq Ids
    BY <2>1, SMTT(30) DEF Typed, Range
  <2>10. CASE Reply(h) \/ Fail(h)
    <3>1. acked' \in SUBSET Ids
      BY <2>1, <2>9, <2>10 DEF Reply, Fail, Typed
    <3> QED
      BY <2>8, <2>9, <2>10, <3>1 DEF Reply, Fail
  <2> QED
    BY <2>5, <2>6, <2>7, <2>10, <1>ExecuteType DEF HandlerStep
<1>FanoutType. ASSUME TypeOK, NEW s \in Shards, FanoutStep(s)
               PROVE  TypeOK'
  <2> USE <1>FanoutType
  <2>1. log \in Seq(Item) /\ Typed(Ids) /\ Untyped
    BY TypeParts
  <2>2. UNCHANGED log
    BY DEF FanoutStep, FanoutTake, FanoutMove, disk
  <2>3. Ids' = Ids
    BY <2>2 DEF Ids
  <2> HIDE DEF Ids
  <2>4. Untyped'
    BY <2>1 DEF FanoutStep, FanoutTake, FanoutMove, Untyped, handlerVars, workerVars, faultVars
  <2>5. CASE FanoutTake(s)
    <3>1. Head(fanout[s]) \in SUBSET Ids /\ Tail(fanout[s]) \in Seq(SUBSET Ids)
      BY <2>1, <2>5, SMTT(30) DEF FanoutTake, Typed
    <3>2. /\ fanout' \in [Shards -> Seq(SUBSET Ids)]
          /\ moving' \in [Shards -> [ops: SUBSET Ids, todo: SUBSET Replicas]]
      BY <2>1, <2>5, <3>1 DEF FanoutTake, Typed
    <3> QED
      BY <2>1, <2>2, <2>3, <2>4, <2>5, <3>2, TypeParts
         DEF FanoutTake, Typed, disk, handlerVars, workerVars, wire
  <2>6. CASE FanoutMove(s)
    <3>1. PICK n \in moving[s].ops, r \in moving[s].todo :
            /\ queue' = [queue EXCEPT ![r] = Append(@, n)] \/ UNCHANGED queue
            /\ moving' = [moving EXCEPT ![s] =
                  IF moving[s].todo # {r}
                  THEN [ops |-> moving[s].ops, todo |-> moving[s].todo \ {r}]
                  ELSE IF moving[s].ops = {n} THEN Nothing
                  ELSE [ops |-> moving[s].ops \ {n}, todo |-> Replicas]]
      BY <2>6 DEF FanoutMove
    <3>2. moving[s].ops \subseteq Ids /\ moving[s].todo \subseteq Replicas /\ n \in Ids /\ r \in Replicas
      BY <2>1 DEF Typed
    <3>3. queue' \in [Replicas -> Seq(Ids)]
      <4>1. queue \in [Replicas -> Seq(Ids)] /\ Append(queue[r], n) \in Seq(Ids)
        BY <2>1, <3>2, SMTT(30) DEF Typed
      <4> QED
        BY <3>1, <3>2, <4>1
    <3>4. moving' \in [Shards -> [ops: SUBSET Ids, todo: SUBSET Replicas]]
      <4> DEFINE next == IF moving[s].todo # {r}
                         THEN [ops |-> moving[s].ops, todo |-> moving[s].todo \ {r}]
                         ELSE IF moving[s].ops = {n} THEN Nothing
                         ELSE [ops |-> moving[s].ops \ {n}, todo |-> Replicas]
      <4>1. moving[s] \in [ops: SUBSET Ids, todo: SUBSET Replicas]
        BY <2>1 DEF Typed
      <4>2. next \in [ops: SUBSET Ids, todo: SUBSET Replicas]
        BY <3>2, <4>1 DEF Nothing
      <4>3. moving' = [moving EXCEPT ![s] = next]
        BY <3>1
      <4> HIDE DEF next
      <4> QED
        BY <2>1, <4>2, <4>3 DEF Typed
    <3> QED
      BY <2>1, <2>2, <2>3, <2>4, <2>6, <3>3, <3>4, TypeParts
         DEF FanoutMove, Typed, disk, handlerVars, wire
  <2> QED
    BY <2>5, <2>6 DEF FanoutStep
\* What a step of a replica's worker, of a line or of the recovery leaves alone.
<1>WorkerType. ASSUME TypeOK, NEW r \in Replicas, WorkerStep(r) \/ LineFault(r)
               PROVE  TypeOK'
  <2> USE <1>WorkerType
  <2>1. log \in Seq(Item) /\ Typed(Ids) /\ Untyped
    BY TypeParts
  <2>2. UNCHANGED <<log, pc, ops, start, pending, fanout, moving, published, acked, closing,
                    crashes, closes>>
    BY DEF WorkerStep, LineFault, RecoverRecord, TakeBatch, SendLine, Confirmed, DeleteBatch,
           ExecuteLive, Timeout, Dropped, ExecuteStale, AbandonBatch, disk, handlerVars,
           fanoutVars, faultVars
  <2>3. Ids' = Ids
    BY <2>2 DEF Ids
  <2> HIDE DEF Ids
  <2>4. queue[r] \in Seq(Ids) /\ batch[r] \in Seq(Ids) /\ live[r] \in Lines(Ids)
    BY <2>1 DEF Typed
  <2>5. NoLine \in Lines(Ids)
    BY SMTT(30) DEF NoLine, Lines
  <2>6. ASSUME outbox' \in [Replicas -> SUBSET Ids], unsynced' \in [Replicas -> SUBSET Ids],
               applied' \in [Replicas -> Seq(Ids)], queue' \in [Replicas -> Seq(Ids)],
               batch' \in [Replicas -> Seq(Ids)], live' \in [Replicas -> Lines(Ids)],
               stale' \in [Replicas -> SUBSET Lines(Ids)], recovering' \in [Replicas -> SUBSET Ids]
        PROVE  Typed(Ids)'
    BY <2>1, <2>2, <2>3, <2>6 DEF Typed
  <2>7. ASSUME acks' \in [Handlers -> SUBSET Replicas], sent' \in [Replicas -> BOOLEAN],
               timeouts' \in Nat
        PROVE  Untyped'
    BY <2>1, <2>2, <2>7 DEF Untyped
  <2>8. ASSUME Typed(Ids)', Untyped' PROVE TypeOK'
    BY <2>1, <2>2, <2>8, TypeParts
  <2>9. CASE RecoverRecord(r)
    <3>1. queue' \in [Replicas -> Seq(Ids)] /\ recovering' \in [Replicas -> SUBSET Ids]
      BY <2>1, <2>4, <2>9, SMTT(30) DEF RecoverRecord, Typed
    <3> QED
      BY <2>1, <2>6, <2>7, <2>8, <2>9, <3>1
         DEF RecoverRecord, Typed, Untyped, disk, handlerVars, wire, faultVars
  <2>10. CASE TakeBatch(r)
    <3>1. PICK size \in 1..BatchSize :
            /\ size <= Len(queue[r])
            /\ batch' = [batch EXCEPT ![r] = SubSeq(queue[r], 1, size)]
            /\ queue' = [queue EXCEPT ![r] = SubSeq(@, size + 1, Len(@))]
      BY <2>10 DEF TakeBatch
    <3>2. BatchSize \in Nat
      BY BoundsAssumption
    <3>3. SubSeq(queue[r], 1, size) \in Seq(Ids) /\ SubSeq(queue[r], size + 1, Len(queue[r])) \in Seq(Ids)
      BY <2>4, <3>1, <3>2, SMTT(30)
    <3>4. batch' \in [Replicas -> Seq(Ids)] /\ queue' \in [Replicas -> Seq(Ids)]
      BY <2>1, <3>1, <3>3 DEF Typed
    <3> QED
      BY <2>1, <2>6, <2>7, <2>8, <2>10, <3>4
         DEF TakeBatch, Typed, Untyped, disk, handlerVars, wire, faultVars
  <2>11. CASE SendLine(r) \/ Timeout(r) \/ Dropped(r)
    <3>1. [ops |-> batch[r], pos |-> 1] \in Lines(Ids)
      BY <2>4, SMTT(30) DEF Lines
    <3>2. live' \in [Replicas -> Lines(Ids)]
      BY <2>1, <2>5, <2>11, <3>1 DEF SendLine, Timeout, Dropped, Typed
    <3>3. stale' \in [Replicas -> SUBSET Lines(Ids)]
      <4> HIDE DEF Lines
      <4>1. stale \in [Replicas -> SUBSET Lines(Ids)]
        BY <2>1 DEF Typed
      <4>2. CASE SendLine(r)
        BY <4>1, <4>2 DEF SendLine
      <4>3. CASE Timeout(r)
        BY <2>4, <4>1, <4>3 DEF Timeout
      <4>4. CASE Dropped(r)
        BY <4>1, <4>4 DEF Dropped
      <4> QED
        BY <2>11, <4>2, <4>3, <4>4
    <3>4. timeouts' \in Nat
      BY <2>1, <2>11, SMTT(30) DEF SendLine, Timeout, Dropped, Untyped, faultVars
    <3>5. UNCHANGED <<outbox, unsynced, applied, queue, batch, recovering, acks, sent>>
      BY <2>11 DEF SendLine, Timeout, Dropped, disk, workerVars, handlerVars
    <3> QED
      BY <2>1, <2>6, <2>7, <2>8, <3>2, <3>3, <3>4, <3>5 DEF Typed, Untyped
  <2>12. CASE Confirmed(r)
    <3>1. live' \in [Replicas -> Lines(Ids)]
      BY <2>1, <2>5, <2>12 DEF Confirmed, Typed
    <3>2. acks' \in [Handlers -> SUBSET Replicas]
      BY <2>1, <2>12 DEF Confirmed, Untyped
    <3>3. sent' \in [Replicas -> BOOLEAN]
      BY <2>1, <2>12 DEF Confirmed, Untyped
    <3>4. UNCHANGED <<outbox, unsynced, applied, queue, batch, stale, recovering, timeouts>>
      BY <2>12 DEF Confirmed, disk, faultVars
    <3> QED
      BY <2>1, <2>6, <2>7, <2>8, <3>1, <3>2, <3>3, <3>4 DEF Typed, Untyped
  <2>13. CASE DeleteBatch(r) \/ AbandonBatch(r)
    <3>1. outbox' \in [Replicas -> SUBSET Ids] /\ unsynced' \in [Replicas -> SUBSET Ids]
      <4>1. outbox \in [Replicas -> SUBSET Ids] /\ unsynced \in [Replicas -> SUBSET Ids]
        BY <2>1 DEF Typed
      <4>2. CASE DeleteBatch(r)
        BY <4>1, <4>2 DEF DeleteBatch
      <4>3. CASE AbandonBatch(r)
        BY <4>1, <4>3 DEF AbandonBatch, disk
      <4> QED
        BY <2>13, <4>2, <4>3
    <3>2. batch' \in [Replicas -> Seq(Ids)]
      <4>1. batch \in [Replicas -> Seq(Ids)] /\ <<>> \in Seq(Ids)
        BY <2>1, SMTT(30) DEF Typed
      <4>2. batch' = [batch EXCEPT ![r] = <<>>]
        BY <2>13 DEF DeleteBatch, AbandonBatch
      <4> QED
        BY <4>1, <4>2
    <3>3. sent' \in [Replicas -> BOOLEAN]
      BY <2>1, <2>13 DEF DeleteBatch, AbandonBatch, Untyped
    <3>4. UNCHANGED <<applied, queue, live, stale, recovering, acks, timeouts>>
      BY <2>13 DEF DeleteBatch, AbandonBatch, wire, handlerVars, faultVars
    <3> QED
      BY <2>1, <2>6, <2>7, <2>8, <3>1, <3>2, <3>3, <3>4 DEF Typed, Untyped
  <2>14. ASSUME NEW line \in Lines(Ids), line.pos <= Len(line.ops)
         PROVE  /\ ExecuteItem(applied[r], line.ops[line.pos]) \in Seq(Ids)
                /\ [line EXCEPT !.pos = @ + 1] \in Lines(Ids)
    <3>1. line.ops[line.pos] \in Ids /\ applied[r] \in Seq(Ids)
      BY <2>1, <2>14, SMTT(30) DEF Lines, Typed
    <3>2. ExecuteItem(applied[r], line.ops[line.pos]) \in Seq(Ids)
      BY <3>1, SMTT(30) DEF ExecuteItem
    <3> QED
      BY <3>2, SMTT(30) DEF Lines
  <2>15. CASE ExecuteLive(r)
    <3>1. applied' \in [Replicas -> Seq(Ids)] /\ live' \in [Replicas -> Lines(Ids)]
      BY <2>1, <2>4, <2>14, <2>15 DEF ExecuteLive, Typed
    <3>2. UNCHANGED <<outbox, unsynced, queue, batch, stale, recovering, acks, sent, timeouts>>
      BY <2>15 DEF ExecuteLive, disk, workerVars, handlerVars, faultVars
    <3> QED
      BY <2>1, <2>6, <2>7, <2>8, <3>1, <3>2 DEF Typed, Untyped
  <2>16. CASE ExecuteStale(r)
    <3>1. PICK line \in stale[r] :
            /\ line.pos <= Len(line.ops)
            /\ applied' = [applied EXCEPT ![r] = ExecuteItem(@, line.ops[line.pos])]
            /\ stale' = [stale EXCEPT ![r] = (@ \ {line}) \cup {[line EXCEPT !.pos = @ + 1]}]
      BY <2>16 DEF ExecuteStale
    <3>2. line \in Lines(Ids)
      BY <2>1 DEF Typed
    <3>3. /\ ExecuteItem(applied[r], line.ops[line.pos]) \in Seq(Ids)
          /\ [line EXCEPT !.pos = @ + 1] \in Lines(Ids)
      BY <2>14, <3>1, <3>2
    <3> HIDE DEF Lines
    <3>4. applied' \in [Replicas -> Seq(Ids)] /\ stale' \in [Replicas -> SUBSET Lines(Ids)]
      BY <2>1, <3>1, <3>3 DEF Typed
    <3>5. UNCHANGED <<outbox, unsynced, queue, batch, live, recovering, acks, sent, timeouts>>
      BY <2>16 DEF ExecuteStale, disk, workerVars, handlerVars, faultVars
    <3> QED
      BY <2>1, <2>6, <2>7, <2>8, <3>4, <3>5 DEF Typed, Untyped
  <2> QED
    BY <2>9, <2>10, <2>11, <2>12, <2>13, <2>15, <2>16 DEF WorkerStep, LineFault
<1>RestartType. ASSUME TypeOK, AbandonRecovery \/ Close \/ Restart \/ UNCHANGED vars
                PROVE  TypeOK'
  <2> USE <1>RestartType
  <2>1. log \in Seq(Item) /\ Typed(Ids) /\ Untyped
    BY TypeParts
  <2>2. UNCHANGED log
    BY DEF AbandonRecovery, Close, Restart, vars, disk
  <2>3. Ids' = Ids
    BY <2>2 DEF Ids
  <2> HIDE DEF Ids
  <2>4. ASSUME Typed(Ids)', Untyped' PROVE TypeOK'
    BY <2>1, <2>2, <2>4, TypeParts
  <2>5. CASE AbandonRecovery \/ Close \/ UNCHANGED vars
    <3>1. Typed(Ids)'
      BY <2>1, <2>3, <2>5 DEF AbandonRecovery, Close, vars, Typed, disk, handlerVars, fanoutVars,
           workerVars, wire
    <3>2. Untyped'
      <4>1. UNCHANGED <<pc, start, pending, acks, sent, timeouts, crashes>>
        BY <2>5 DEF AbandonRecovery, Close, vars, handlerVars, workerVars, faultVars
      <4>2. (closing' = closing \/ closing' = TRUE) /\ (closes' = closes \/ closes' = closes + 1)
        BY <2>5 DEF AbandonRecovery, Close, vars, faultVars
      <4>3. closes' \in Nat
        BY <2>1, <4>2, SMTT(30) DEF Untyped
      <4> QED
        BY <2>1, <4>1, <4>2, <4>3 DEF Untyped
    <3> QED
      BY <2>4, <3>1, <3>2
  <2>6. CASE Restart
    <3>1. outbox' \in [Replicas -> SUBSET Ids] /\ unsynced' \in [Replicas -> SUBSET Ids]
      BY <2>1, <2>6 DEF Restart, Typed
    <3>2. /\ NoLine \in Lines(Ids) /\ <<>> \in Seq(Ids) /\ <<>> \in Seq(SUBSET Ids)
          /\ Nothing \in [ops: SUBSET Ids, todo: SUBSET Replicas]
      BY SMTT(30) DEF NoLine, Lines, Nothing
    <3>3. live' \in [Replicas -> Lines(Ids)] /\ stale' \in [Replicas -> SUBSET Lines(Ids)]
      BY <2>1, <2>6, <3>2, SMTT(30) DEF Restart, Typed
    <3> HIDE DEF Lines, NoLine, Nothing
    <3>4. Typed(Ids)'
      BY <2>1, <2>3, <2>6, <3>1, <3>2, <3>3 DEF Restart, Typed
    <3>5. pc' \in [Handlers -> {"idle", "replicate", "fanout", "wait"}]
      BY <2>6 DEF Restart
    <3>6. closing' \in BOOLEAN /\ sent' \in [Replicas -> BOOLEAN]
      BY <2>6 DEF Restart
    <3>7. /\ start' \in [Handlers -> Nat \ {0}] /\ crashes' \in Nat
          /\ pending' \in [Handlers -> SUBSET Metrics] /\ acks' \in [Handlers -> SUBSET Replicas]
      BY <2>1, <2>6, SMTT(30) DEF Restart, Untyped
    <3>8. Untyped'
      BY <2>1, <2>6, <3>5, <3>6, <3>7 DEF Restart, Untyped
    <3> QED
      BY <2>4, <3>4, <3>8
  <2> QED
    BY <2>5, <2>6
<1> QED
  BY <1>HandlerType, <1>FanoutType, <1>WorkerType, <1>RestartType DEF Next

\* A step between states of the right types.
Step == TypeOK /\ TypeOK' /\ [Next]_vars

-----------------------------------------------------------------------------
(* What is committed, published and applied stays so. *)

LEMMA ItemApplied ==
    ASSUME NEW S, NEW done \in Seq(S), NEW n \in S
    PROVE  Range(ExecuteItem(done, n)) = Range(done) \cup {n}
<1>1. CASE n \in Range(done)
  BY <1>1 DEF ExecuteItem
<1>2. CASE n \notin Range(done)
  <2>1. /\ Append(done, n) \in Seq(S) /\ Len(Append(done, n)) = Len(done) + 1
        /\ \A i \in 1..Len(done) : Append(done, n)[i] = done[i]
        /\ Append(done, n)[Len(done) + 1] = n
    BY SMTT(30)
  <2>2. DOMAIN done = 1..Len(done) /\ Len(done) \in Nat
    BY SMTT(30)
  <2>3. DOMAIN Append(done, n) = 1..(Len(done) + 1)
    BY <2>1, SMTT(30)
  <2>4. Range(Append(done, n)) = Range(done) \cup {n}
    BY <2>1, <2>2, <2>3, SMTT(30) DEF Range
  <2> QED
    BY <1>2, <2>4 DEF ExecuteItem
<1> QED
  BY <1>1, <1>2

\* Only a replica's own execution of an item changes what it has applied.
LEMMA AppliedChanges ==
    ASSUME Step, NEW r \in Replicas
    PROVE  \/ applied'[r] = applied[r]
           \/ /\ ExecuteLive(r)
              /\ live[r].ops[live[r].pos] \in Ids
              /\ Range(applied'[r]) = Range(applied[r]) \cup {live[r].ops[live[r].pos]}
           \/ /\ ExecuteStale(r)
              /\ Range(applied[r]) \subseteq Range(applied'[r])
<1> TypeOK /\ TypeOK' /\ [Next]_vars
  BY DEF Step
<1>1. applied \in [Replicas -> Seq(Ids)] /\ live \in [Replicas -> Line] /\ stale \in [Replicas -> SUBSET Line]
  BY DEF TypeOK
<1>2. ASSUME NEW line \in Line, line.pos <= Len(line.ops)
      PROVE  line.ops[line.pos] \in Ids
  BY <1>2, SMTT(30) DEF Line
<1>3. CASE ExecuteLive(r)
  <2>1. live[r].ops[live[r].pos] \in Ids
    BY <1>1, <1>2, <1>3 DEF ExecuteLive
  <2>2. applied'[r] = ExecuteItem(applied[r], live[r].ops[live[r].pos])
    BY <1>1, <1>3 DEF ExecuteLive
  <2> QED
    BY <1>1, <1>3, <2>1, <2>2, ItemApplied, SMTT(30)
<1>4. CASE ExecuteStale(r)
  <2>1. PICK line \in stale[r] :
          /\ line.pos <= Len(line.ops)
          /\ applied' = [applied EXCEPT ![r] = ExecuteItem(@, line.ops[line.pos])]
    BY <1>4 DEF ExecuteStale
  <2>2. line.ops[line.pos] \in Ids
    BY <1>1, <1>2, <2>1
  <2>3. applied'[r] = ExecuteItem(applied[r], line.ops[line.pos])
    BY <1>1, <2>1
  <2> QED
    BY <1>1, <1>4, <2>2, <2>3, ItemApplied, SMTT(30)
<1>5. ASSUME NEW q \in Replicas, q # r, ExecuteLive(q) \/ ExecuteStale(q)
      PROVE  applied'[r] = applied[r]
  BY <1>1, <1>5 DEF ExecuteLive, ExecuteStale
<1>6. ASSUME NEW h \in Handlers, HandlerStep(h) PROVE applied' = applied
  BY <1>6 DEF HandlerStep, Execute, PutBatch, EnqueueFanout, QuorumReached, Reply, Fail
<1>7. ASSUME NEW q \in Shards, FanoutStep(q) PROVE applied' = applied
  BY <1>7 DEF FanoutStep, FanoutTake, FanoutMove
<1>8. ASSUME NEW q \in Replicas, WorkerStep(q) \/ LineFault(q)
      PROVE  ExecuteLive(q) \/ ExecuteStale(q) \/ applied' = applied
  BY <1>8 DEF WorkerStep, LineFault, RecoverRecord, TakeBatch, SendLine, Confirmed, DeleteBatch,
       Timeout, Dropped, AbandonBatch
<1>9. CASE AbandonRecovery \/ Close \/ Restart \/ UNCHANGED vars
  BY <1>9 DEF AbandonRecovery, Close, Restart, vars
<1> QED
  BY <1>3, <1>4, <1>5, <1>6, <1>7, <1>8, <1>9 DEF Next

LEMMA HasStays ==
    ASSUME Step, NEW r \in Replicas, NEW n, Has(r, n)
    PROVE  Has(r, n)'
BY AppliedChanges DEF Has

\* The log grows at its end, and what is published stays published.
LEMMA LogGrows ==
    ASSUME Step
    PROVE  /\ Ids \subseteq Ids' /\ \A n \in Ids : log'[n] = log[n]
           /\ published \subseteq published'
<1> TypeOK /\ TypeOK' /\ [Next]_vars
  BY DEF Step
<1>1. ASSUME NEW h \in Handlers, Execute(h)
      PROVE  Ids \subseteq Ids' /\ (\A n \in Ids : log'[n] = log[n]) /\ published' = published
  <2>1. PICK size \in 1..MaxItems : \E items \in [1..size -> Item] : log' = log \o items
    BY <1>1 DEF Execute, Item
  <2>2. PICK items \in [1..size -> Item] : log' = log \o items
    BY <2>1
  <2>3. MaxItems \in Nat
    BY BoundsAssumption
  <2>4. log \in Seq(Item)
    BY DEF TypeOK, Item
  <2> HIDE DEF Item
  <2>5. /\ Len(log') = Len(log) + Len(items) /\ Len(log) \in Nat /\ Len(items) \in Nat
        /\ \A i \in 1..(Len(log) + Len(items)) :
              log'[i] = IF i <= Len(log) THEN log[i] ELSE items[i - Len(log)]
    <3>1. items \in Seq(Item)
      BY <2>3, SMTT(30)
    <3> QED
      BY <2>2, <2>4, <3>1, SMTT(30)
  <2> QED
    BY <1>1, <2>5, SMTT(30) DEF Execute, Ids
<1>2. ASSUME NEW h \in Handlers, HandlerStep(h)
      PROVE  Execute(h) \/ (log' = log /\ published \subseteq published')
  BY <1>2 DEF HandlerStep, PutBatch, EnqueueFanout, QuorumReached, Reply, Fail, disk
<1>3. ASSUME NEW s \in Shards, FanoutStep(s) PROVE UNCHANGED <<log, published>>
  BY <1>3 DEF FanoutStep, FanoutTake, FanoutMove, disk
<1>4. ASSUME NEW r \in Replicas, WorkerStep(r) \/ LineFault(r) PROVE UNCHANGED <<log, published>>
  BY <1>4 DEF WorkerStep, LineFault, RecoverRecord, TakeBatch, SendLine, Confirmed, DeleteBatch,
       ExecuteLive, Timeout, Dropped, ExecuteStale, AbandonBatch, disk
<1>5. CASE AbandonRecovery \/ Close \/ Restart \/ UNCHANGED vars
  BY <1>5 DEF AbandonRecovery, Close, Restart, vars, disk, Ids
<1> QED
  BY <1>1, <1>2, <1>3, <1>4, <1>5 DEF Next, Ids

\* What a handler sends next depends only on its own request.
LEMMA ChunkStays ==
    ASSUME Step, NEW h \in Handlers,
           ops'[h] = ops[h], start'[h] = start[h]
    PROVE  /\ Chunk(h)' = Chunk(h) /\ Items(h)' = Items(h)
           /\ start[h] <= Len(ops[h]) => Waits(h)' = Waits(h)
           /\ \A i \in 1..Len(ops[h]) : Quorum(ops[h][i])' = Quorum(ops[h][i])
<1> TypeOK /\ TypeOK' /\ [Next]_vars
  BY DEF Step
<1>1. ops[h] \in Seq(Ids) /\ start[h] \in Nat \ {0}
  BY DEF TypeOK
<1>2. \A i \in 1..Len(ops[h]) : ops[h][i] \in Ids
  BY <1>1, SMTT(30)
<1>3. \A i \in 1..Len(ops[h]) : log'[ops[h][i]] = log[ops[h][i]]
  BY <1>2, LogGrows
<1>4. \A i \in 1..Len(ops[h]) : log'[ops[h][i]].quorum = log[ops[h][i]].quorum
  BY <1>3
<1>5. \A i \in start[h]..Len(ops[h]) : \A j \in start[h]..i : j \in 1..Len(ops[h])
  BY <1>1, SMTT(30)
<1>6. Chunk(h)' = Chunk(h)
  BY <1>4, <1>5 DEF Chunk, Quorum
<1>7. Items(h)' = Items(h)
  BY <1>6 DEF Items
<1>8. start[h] <= Len(ops[h]) => Waits(h)' = Waits(h)
  <2>1. start[h] <= Len(ops[h]) => start[h] \in 1..Len(ops[h])
    BY <1>1, SMTT(30)
  <2> QED
    BY <1>4, <2>1 DEF Waits, Quorum
<1> QED
  BY <1>4, <1>6, <1>7, <1>8 DEF Quorum

-----------------------------------------------------------------------------
(* The outbox and the acknowledgements. *)

LEMMA InitInv == Init => IInv
<1> SUFFICES ASSUME Init PROVE IInv
  OBVIOUS
<1>1. OutboxInv /\ AckedInv
  BY DEF Init, OutboxInv, AckedInv
<1>2. ASSUME NEW h \in Handlers PROVE HandlerInv(h)
  BY SMTT(30) DEF Init, HandlerInv
<1>3. ASSUME NEW r \in Replicas PROVE WorkerInv(r)
  BY SMTT(30) DEF Init, WorkerInv, NoLine
<1> QED
  BY <1>1, <1>2, <1>3, InitType DEF IInv

\* The worker of a replica, the outbox, the request handlers and what they have answered.
LEMMA StepInv == Counting /\ IInv /\ [Next]_vars => IInv'
<1>StepWorker. ASSUME Step, NEW r \in Replicas, WorkerInv(r)
               PROVE  WorkerInv(r)'
  <2> USE <1>StepWorker
  <2> TypeOK /\ TypeOK' /\ [Next]_vars
    BY DEF Step
  <2>1. /\ live \in [Replicas -> Line] /\ batch \in [Replicas -> Seq(Ids)] /\ sent \in [Replicas -> BOOLEAN]
        /\ queue \in [Replicas -> Seq(Ids)]
    BY DEF TypeOK
  <2>2. \A n : Has(r, n) => Has(r, n)'
    BY HasStays
  <2>3. Range(batch[r]) \subseteq Range(applied[r]) => Range(batch[r]) \subseteq Range(applied'[r])
    BY <2>2 DEF Has
  <2>4. NoLine.ops = <<>> /\ Len(NoLine.ops) = 0
    BY DEF NoLine
  <2>5. CASE live'[r] = live[r] /\ batch'[r] = batch[r] /\ sent'[r] = sent[r]
    BY <2>2, <2>3, <2>5 DEF WorkerInv
  <2>6. CASE live'[r] = NoLine /\ ~sent'[r]
    BY <2>4, <2>6, SMTT(30) DEF WorkerInv
  <2>7. CASE TakeBatch(r)
    <3>1. batch[r] = <<>> /\ UNCHANGED <<live, sent>>
      BY <2>7 DEF TakeBatch, wire
    <3>2. live[r] = NoLine /\ ~sent[r]
      BY <3>1 DEF WorkerInv
    <3> QED
      BY <2>6, <3>1, <3>2
  <2>8. CASE SendLine(r)
    <3>1. /\ live'[r] = [ops |-> batch[r], pos |-> 1] /\ batch[r] # <<>> /\ ~sent[r]
          /\ UNCHANGED <<batch, sent>>
      BY <2>1, <2>8 DEF SendLine, workerVars
    <3>2. \A i \in 1..Len(batch[r]) : ~(i < 1)
      BY <2>1, SMTT(30)
    <3> QED
      BY <3>1, <3>2, SMTT(30) DEF WorkerInv
  <2>9. CASE Timeout(r) \/ AbandonBatch(r)
    <3>1. live'[r] = NoLine /\ sent' = sent
      BY <2>1, <2>9 DEF Timeout, AbandonBatch, wire, workerVars
    <3>2. ~sent[r]
      BY <2>9 DEF Timeout, AbandonBatch, WorkerInv
    <3> QED
      BY <2>6, <3>1, <3>2
  <2>10. CASE Confirmed(r)
    <3>1. /\ live[r] # NoLine /\ live[r].pos > Len(live[r].ops) /\ live'[r] = NoLine
          /\ UNCHANGED <<batch, applied>>
      BY <2>1, <2>10 DEF Confirmed, Succeeded
    <3>2. live[r].ops = batch[r] /\ batch[r] # <<>>
      BY <3>1 DEF WorkerInv
    <3>3. \A i \in 1..Len(batch[r]) : Has(r, batch[r][i])
      <4>1. live[r].pos \in Nat /\ Len(batch[r]) \in Nat
        BY <2>1, SMTT(30) DEF Line
      <4>2. \A i \in 1..Len(batch[r]) : i < live[r].pos
        BY <3>1, <3>2, <4>1, SMTT(30)
      <4> QED
        BY <3>2, <4>2 DEF WorkerInv
    <3>4. Range(batch[r]) \subseteq Range(applied[r])
      <4>1. DOMAIN batch[r] = 1..Len(batch[r])
        BY <2>1, SMTT(30)
      <4> QED
        BY <3>3, <4>1 DEF Range, Has
    <3> QED
      BY <2>4, <3>1, <3>2, <3>4, SMTT(30) DEF WorkerInv
  <2>11. CASE DeleteBatch(r)
    <3>1. ~sent'[r] /\ live'[r] = live[r]
      BY <2>1, <2>11 DEF DeleteBatch, wire
    <3>2. live[r] = NoLine
      BY <2>11 DEF DeleteBatch, WorkerInv
    <3> QED
      BY <2>6, <3>1, <3>2
  <2>12. CASE ExecuteLive(r)
    <3>1. /\ live[r].pos <= Len(live[r].ops) /\ UNCHANGED <<batch, sent>>
          /\ live'[r].ops = live[r].ops /\ live'[r].pos = live[r].pos + 1
      BY <2>1, <2>12 DEF ExecuteLive, workerVars, Line
    <3>2. live[r] # NoLine
      BY <2>1, <2>4, <3>1, SMTT(30) DEF Line
    <3>3. live[r].ops[live[r].pos] \in Range(applied'[r])
      <4>1. /\ applied[r] \in Seq(Ids) /\ live[r].ops[live[r].pos] \in Ids
            /\ applied'[r] = ExecuteItem(applied[r], live[r].ops[live[r].pos])
        <5>1. applied \in [Replicas -> Seq(Ids)]
          BY DEF TypeOK
        <5>2. live[r].ops \in Seq(Ids) /\ live[r].pos \in Nat \ {0}
          BY <2>1 DEF Line
        <5>3. live[r].ops[live[r].pos] \in Ids
          BY <3>1, <5>2, SMTT(30)
        <5> QED
          BY <2>12, <5>1, <5>3 DEF ExecuteLive
      <4> QED
        BY <4>1, ItemApplied, SMTT(30)
    <3>4. ASSUME NEW i \in 1..Len(live[r].ops), i < live[r].pos + 1
          PROVE  live[r].ops[i] \in Range(applied'[r])
      <4>1. i < live[r].pos \/ i = live[r].pos
        BY <2>1, <3>4, SMTT(30) DEF Line
      <4> QED
        BY <2>2, <3>3, <4>1 DEF WorkerInv, Has
    <3>5. live'[r] # NoLine => live'[r].ops = batch'[r] /\ batch'[r] # <<>>
      BY <3>1, <3>2 DEF WorkerInv
    <3>6. ~sent'[r]
      BY <3>1, <3>2 DEF WorkerInv
    <3> QED
      BY <3>1, <3>4, <3>5, <3>6 DEF WorkerInv, Has
  <2>13. ASSUME NEW q \in Replicas, q # r, WorkerStep(q) \/ LineFault(q)
         PROVE  live'[r] = live[r] /\ batch'[r] = batch[r] /\ sent'[r] = sent[r]
    BY <2>1, <2>13 DEF WorkerStep, LineFault, RecoverRecord, TakeBatch, SendLine, Confirmed,
         DeleteBatch, ExecuteLive, Timeout, Dropped, ExecuteStale, AbandonBatch, wire, workerVars
  <2>14. CASE RecoverRecord(r) \/ Dropped(r) \/ ExecuteStale(r)
    BY <2>5, <2>14 DEF RecoverRecord, Dropped, ExecuteStale, wire, workerVars
  <2>15. ASSUME NEW h \in Handlers, HandlerStep(h) PROVE UNCHANGED <<live, batch, sent>>
    BY <2>15 DEF HandlerStep, Execute, PutBatch, EnqueueFanout, QuorumReached, Reply, Fail, wire, workerVars
  <2>16. ASSUME NEW s \in Shards, FanoutStep(s) PROVE UNCHANGED <<live, batch, sent>>
    BY <2>16 DEF FanoutStep, FanoutTake, FanoutMove, wire, workerVars
  <2>17. CASE AbandonRecovery \/ Close \/ UNCHANGED vars
    BY <2>5, <2>17 DEF AbandonRecovery, Close, vars, wire, workerVars
  <2>18. CASE Restart
    BY <2>6, <2>18 DEF Restart
  <2>19. CASE WorkerStep(r) \/ LineFault(r)
    BY <2>7, <2>8, <2>9, <2>10, <2>11, <2>12, <2>14, <2>19 DEF WorkerStep, LineFault
  <2> QED
    BY <2>5, <2>13, <2>15, <2>16, <2>17, <2>18, <2>19 DEF Next
<1>StepOutbox. ASSUME Step, OutboxInv, \A r \in Replicas : WorkerInv(r)
               PROVE  OutboxInv'
  <2> USE <1>StepOutbox
  <2> TypeOK /\ TypeOK' /\ [Next]_vars
    BY DEF Step
  <2> SUFFICES ASSUME NEW n \in published', NEW r \in Replicas
               PROVE  Has(r, n)' \/ n \in outbox'[r]
    BY DEF OutboxInv
  <2>1. outbox \in [Replicas -> SUBSET Ids] /\ unsynced \in [Replicas -> SUBSET Ids]
    BY DEF TypeOK
  <2>2. Has(r, n) => Has(r, n)'
    BY HasStays
  <2>3. n \in published => Has(r, n) \/ n \in outbox[r]
    BY DEF OutboxInv
  <2>4. CASE n \in published /\ outbox[r] \subseteq outbox'[r]
    BY <2>2, <2>3, <2>4
  <2>5. ASSUME NEW h \in Handlers, PutBatch(h) PROVE Has(r, n)' \/ n \in outbox'[r]
    <3>1. published' = published \cup Items(h) /\ outbox'[r] = outbox[r] \cup Items(h)
      BY <2>1, <2>5 DEF PutBatch
    <3> QED
      BY <2>4, <3>1
  <2>6. ASSUME NEW h \in Handlers, HandlerStep(h), ~PutBatch(h) PROVE UNCHANGED <<published, outbox>>
    BY <2>6 DEF HandlerStep, Execute, EnqueueFanout, QuorumReached, Reply, Fail, disk
  <2>7. ASSUME NEW s \in Shards, FanoutStep(s) PROVE UNCHANGED <<published, outbox>>
    BY <2>7 DEF FanoutStep, FanoutTake, FanoutMove, disk
  <2>8. CASE DeleteBatch(r)
    <3>1. /\ published' = published /\ outbox'[r] = outbox[r] \ Range(batch[r])
      BY <2>1, <2>8 DEF DeleteBatch
    <3>2. Range(batch[r]) \subseteq Range(applied[r])
      BY <2>8 DEF DeleteBatch, WorkerInv
    <3> QED
      BY <2>2, <2>3, <3>1, <3>2 DEF Has
  <2>9. ASSUME NEW q \in Replicas, WorkerStep(q) \/ LineFault(q), ~(q = r /\ DeleteBatch(r))
        PROVE  published' = published /\ outbox'[r] = outbox[r]
    <3>1. CASE DeleteBatch(q)
      BY <2>1, <2>9, <3>1 DEF DeleteBatch
    <3>2. CASE ~DeleteBatch(q)
      BY <2>9, <3>2 DEF WorkerStep, LineFault, RecoverRecord, TakeBatch, SendLine, Confirmed,
           ExecuteLive, Timeout, Dropped, ExecuteStale, AbandonBatch, disk
    <3> QED
      BY <3>1, <3>2
  <2>10. CASE AbandonRecovery \/ Close \/ UNCHANGED vars
    BY <2>4, <2>10 DEF AbandonRecovery, Close, vars, disk
  <2>11. CASE Restart
    BY <2>1, <2>4, <2>11 DEF Restart
  <2> QED
    BY <2>4, <2>5, <2>6, <2>7, <2>8, <2>9, <2>10, <2>11 DEF Next
<1>ReachedStays. ASSUME Counting, Step, NEW n, Reached(n)
                 PROVE  Reached(n)'
  <2> USE <1>ReachedStays
  <2> TypeOK /\ TypeOK' /\ [Next]_vars
    BY DEF Step
  <2> DEFINE R == {r \in Replicas : Has(r, n)}
             T == {r \in Replicas : Has(r, n)'}
  <2>1. R \subseteq T /\ T \subseteq Replicas
    BY HasStays
  <2>3. Cardinality(R) <= Cardinality(T) /\ Cardinality(R) \in Nat /\ Cardinality(T) \in Nat
    BY <2>1 DEF Counting
  <2>4. Needed \in Nat /\ Needed <= Cardinality(R)
    BY BoundsAssumption DEF Reached
  <2>5. Needed <= Cardinality(T)
    BY <2>3, <2>4, SMTT(30)
  <2> QED
    BY <2>5 DEF Reached
\* A handler keeps what it knows while others go on.
<1>HandlerStays. ASSUME Counting, Step, NEW h \in Handlers, HandlerInv(h),
                        ops'[h] = ops[h], start'[h] = start[h], pc'[h] = pc[h],
                        \A r \in acks'[h] : r \in acks[h] \/
                            (pc[h] \in {"fanout", "wait"} /\ Waits(h) =>
                                ops[h][start[h]] \in Range(applied'[r]))
                 PROVE  HandlerInv(h)'
  <2> USE <1>HandlerStays
  <2> TypeOK /\ TypeOK' /\ [Next]_vars
    BY DEF Step
  <2>1. /\ Chunk(h)' = Chunk(h) /\ Items(h)' = Items(h)
        /\ start[h] <= Len(ops[h]) => Waits(h)' = Waits(h)
        /\ \A i \in 1..Len(ops[h]) : Quorum(ops[h][i])' = Quorum(ops[h][i])
    BY ChunkStays
  <2>2. published \subseteq published'
    BY LogGrows
  <2>3. \A n : Reached(n) => Reached(n)'
    BY <1>ReachedStays
  <2>4. acks \in [Handlers -> SUBSET Replicas] /\ acks' \in [Handlers -> SUBSET Replicas]
    BY DEF TypeOK
  <2>5. \A r \in Replicas : Range(applied[r]) \subseteq Range(applied'[r])
    BY HasStays DEF Has
  <2> QED
    BY <2>1, <2>2, <2>3, <2>4, <2>5 DEF HandlerInv, Has
\* The item that a quorum handler waits for has been applied by those that confirmed it.
<1>AcksCount. ASSUME Counting, TypeOK, NEW h \in Handlers, NEW n, Enough(h), \A r \in acks[h] : Has(r, n)
              PROVE  Reached(n)
  <2> USE <1>AcksCount
  <2> DEFINE R == {r \in Replicas : Has(r, n)}
  <2>1. acks[h] \subseteq R /\ R \subseteq Replicas
    BY DEF TypeOK
  <2>3. Cardinality(acks[h]) <= Cardinality(R) /\ Cardinality(acks[h]) \in Nat /\ Cardinality(R) \in Nat
    BY <2>1 DEF Counting
  <2>4. Needed \in Nat /\ Cardinality(acks[h]) >= Needed
    BY BoundsAssumption DEF Enough
  <2>5. Needed <= Cardinality(R)
    BY <2>3, <2>4, SMTT(30)
  <2> QED
    BY <2>5 DEF Reached
\* Without a quorum to wait for, the items of a chunk need no confirmation.
<1>ChunkReached. ASSUME Counting, TypeOK, NEW h \in Handlers, ~Waits(h), NEW i \in Chunk(h), NEW k \in start[h]..i
                 PROVE  /\ k \in Chunk(h) /\ k \in 1..Len(ops[h])
                        /\ Quorum(ops[h][k]) => Reached(ops[h][k])
  <2> USE <1>ChunkReached
  <2>1. ops[h] \in Seq(Ids) /\ start[h] \in Nat \ {0} /\ Needed \in Nat
    BY BoundsAssumption DEF TypeOK
  <2>2. i \in start[h]..Len(ops[h]) /\ (i = start[h] \/ \A j \in start[h]..i : ~Quorum(ops[h][j]))
    BY DEF Chunk
  <2>3. k \in start[h]..Len(ops[h]) /\ k \in 1..Len(ops[h])
    BY <2>1, <2>2, SMTT(30)
  <2>4. k = start[h] \/ \A j \in start[h]..k : ~Quorum(ops[h][j])
    BY <2>1, <2>2, SMTT(30)
  <2>5. k \in Chunk(h)
    BY <2>3, <2>4 DEF Chunk
  <2>6. ASSUME Quorum(ops[h][k]) PROVE Reached(ops[h][k])
    <3>1. k = start[h]
      BY <2>1, <2>2, <2>3, <2>6, SMTT(30)
    <3>2. Needed = 0
      BY <2>1, <2>6, <3>1, SMTT(30) DEF Waits
    <3>3. Cardinality({r \in Replicas : Has(r, ops[h][k])}) \in Nat
      BY DEF Counting
    <3> QED
      BY <3>2, <3>3, SMTT(30) DEF Reached
  <2> QED
    BY <2>3, <2>5, <2>6
<1>StepOwn. ASSUME Counting, Step, NEW h \in Handlers, HandlerInv(h), HandlerStep(h)
            PROVE  HandlerInv(h)'
  <2> USE <1>StepOwn
  <2> TypeOK /\ TypeOK' /\ [Next]_vars
    BY DEF Step
  <2>1. /\ ops \in [Handlers -> Seq(Ids)] /\ start \in [Handlers -> Nat \ {0}]
        /\ acks \in [Handlers -> SUBSET Replicas]
        /\ pc \in [Handlers -> {"idle", "replicate", "fanout", "wait"}]
    BY DEF TypeOK
  <2>2. CASE start'[h] = 1 /\ pc'[h] \in {"idle", "replicate"}
    BY <2>2, SMTT(30) DEF HandlerInv
  <2>3. CASE Execute(h) \/ Reply(h) \/ Fail(h)
    BY <2>1, <2>2, <2>3 DEF Execute, Reply, Fail, Release
  \* Items that the handler has passed before.
  <2>4. ASSUME ops' = ops, UNCHANGED log
        PROVE  \A i \in 1..Len(ops[h]) : i < start[h] =>
                  ops'[h][i] \in published' /\ (Quorum(ops[h][i])' => Reached(ops[h][i])')
    <3>1. published \subseteq published' /\ \A n : Reached(n) => Reached(n)'
      BY LogGrows, <1>ReachedStays
    <3> QED
      BY <2>4, <3>1 DEF HandlerInv, Quorum
  <2>5. CASE PutBatch(h)
    <3>1. /\ ops' = ops /\ start' = start /\ UNCHANGED log /\ acks'[h] = {}
          /\ pc'[h] = "fanout" /\ start[h] <= Len(ops[h]) /\ Items(h) \subseteq published'
      BY <2>1, <2>5 DEF PutBatch
    <3>2. Items(h)' = Items(h)
      BY <3>1, ChunkStays
    <3> QED
      BY <2>4, <3>1, <3>2 DEF HandlerInv
  <2>6. CASE EnqueueFanout(h)
    <3>1. /\ pc[h] = "fanout" /\ start[h] <= Len(ops[h]) /\ Items(h) \subseteq published
          /\ ops' = ops /\ acks' = acks /\ UNCHANGED <<log, published, applied>>
      BY <2>6 DEF EnqueueFanout, HandlerInv, disk
    <3>2. CASE pc' = pc /\ start' = start
      BY <2>1, <3>1, <3>2, <1>HandlerStays
    <3>3. CASE Waits(h) /\ pc' = [pc EXCEPT ![h] = "wait"] /\ start' = start
      <4>1. Items(h)' = Items(h) /\ Waits(h)'
        BY <3>1, <3>3, ChunkStays
      <4>2. pc'[h] = "wait"
        BY <2>1, <3>3
      <4>3. \A r \in acks[h] : Has(r, ops[h][start[h]])
        BY <3>1, <3>3 DEF HandlerInv
      <4> QED
        BY <2>4, <3>1, <3>3, <4>1, <4>2, <4>3 DEF HandlerInv, Has
    <3>4. ASSUME ~Waits(h), pc' = [pc EXCEPT ![h] = "replicate"], NEW i \in Chunk(h),
                 start' = [start EXCEPT ![h] = i + 1]
          PROVE  HandlerInv(h)'
      <4>1. pc'[h] = "replicate" /\ start'[h] = i + 1 /\ i \in Nat
        BY <2>1, <3>4, ItemsType
      <4>2. ASSUME NEW k \in 1..Len(ops[h]), k < i + 1
            PROVE  ops[h][k] \in published /\ (Quorum(ops[h][k]) => Reached(ops[h][k]))
        <5>1. CASE k < start[h]
          BY <5>1 DEF HandlerInv
        <5>2. CASE ~(k < start[h])
          <6>1. k \in start[h]..i
            BY <2>1, <4>1, <4>2, <5>2, SMTT(30)
          <6>2. k \in Chunk(h) /\ (Quorum(ops[h][k]) => Reached(ops[h][k]))
            BY <3>4, <6>1, <1>ChunkReached
          <6>3. ops[h][k] \in Items(h)
            BY <6>2 DEF Items
          <6> QED
            BY <3>1, <6>2, <6>3
        <5> QED
          BY <5>1, <5>2
      <4>3. \A n : (Quorum(n)' <=> Quorum(n)) /\ (Reached(n)' <=> Reached(n))
        BY <3>1 DEF Quorum, Reached, Has
      <4> QED
        BY <3>1, <4>1, <4>2, <4>3 DEF HandlerInv
    <3> QED
      BY <2>6, <3>2, <3>3, <3>4 DEF EnqueueFanout
  <2>7. CASE QuorumReached(h)
    <3>1. /\ pc[h] = "wait" /\ Enough(h) /\ Waits(h)
          /\ start[h] <= Len(ops[h]) /\ Items(h) \subseteq published
          /\ \A r \in acks[h] : Has(r, ops[h][start[h]])
      BY <2>7 DEF QuorumReached, HandlerInv
    <3>2. /\ pc'[h] = "replicate" /\ start'[h] = start[h] + 1
          /\ ops' = ops /\ UNCHANGED <<log, published, applied>>
      BY <2>1, <2>7 DEF QuorumReached, disk
    <3>3. Reached(ops[h][start[h]])
      BY <3>1, <1>AcksCount
    <3>4. ops[h][start[h]] \in published
      <4>1. start[h] \in Chunk(h)
        BY <2>1, <3>1, SMTT(30) DEF Chunk
      <4> QED
        BY <3>1, <4>1 DEF Items
    <3>5. \A i \in 1..Len(ops[h]) : i < start[h] + 1 => i < start[h] \/ i = start[h]
      BY <2>1, SMTT(30)
    <3>6. \A n : (Quorum(n)' <=> Quorum(n)) /\ (Reached(n)' <=> Reached(n))
      BY <3>2 DEF Quorum, Reached, Has
    <3> QED
      BY <3>2, <3>3, <3>4, <3>5, <3>6 DEF HandlerInv
  <2> QED
    BY <2>3, <2>5, <2>6, <2>7 DEF HandlerStep
<1>StepHandler. ASSUME Counting, Step, NEW h \in Handlers, HandlerInv(h),
                       \A r \in Replicas : WorkerInv(r)
                PROVE  HandlerInv(h)'
  <2> USE <1>StepHandler
  <2> TypeOK /\ TypeOK' /\ [Next]_vars
    BY DEF Step
  <2>1. /\ ops \in [Handlers -> Seq(Ids)] /\ start \in [Handlers -> Nat \ {0}]
        /\ acks \in [Handlers -> SUBSET Replicas] /\ live \in [Replicas -> Line]
        /\ pc \in [Handlers -> {"idle", "replicate", "fanout", "wait"}]
        /\ batch \in [Replicas -> Seq(Ids)]
    BY DEF TypeOK
  <2>2. CASE ops'[h] = ops[h] /\ start'[h] = start[h] /\ pc'[h] = pc[h] /\ acks'[h] = acks[h]
    BY <2>2, <1>HandlerStays
  <2>3. ASSUME NEW g \in Handlers, g # h, HandlerStep(g)
        PROVE  ops'[h] = ops[h] /\ start'[h] = start[h] /\ pc'[h] = pc[h] /\ acks'[h] = acks[h]
    <3>1. CASE Execute(g) \/ PutBatch(g) \/ QuorumReached(g)
      BY <2>1, <2>3, <3>1 DEF Execute, PutBatch, QuorumReached
    <3>2. CASE EnqueueFanout(g)
      BY <2>1, <2>3, <3>2 DEF EnqueueFanout
    <3>3. CASE Reply(g) \/ Fail(g)
      BY <2>1, <2>3, <3>3 DEF Reply, Fail, Release
    <3> QED
      BY <2>3, <3>1, <3>2, <3>3 DEF HandlerStep
  <2>4. ASSUME NEW s \in Shards, FanoutStep(s) PROVE UNCHANGED handlerVars
    BY <2>4 DEF FanoutStep, FanoutTake, FanoutMove
  <2>5. ASSUME NEW r \in Replicas, Confirmed(r) PROVE HandlerInv(h)'
    <3>1. /\ live[r] # NoLine /\ live[r].pos > Len(live[r].ops)
          /\ UNCHANGED <<pc, ops, start, applied>>
          /\ \A q \in acks'[h] : q \in acks[h] \/
                (q = r /\ Waits(h) /\ ops[h][start[h]] \in Range(batch[r]))
      BY <2>1, <2>5 DEF Confirmed, Succeeded
    <3>2. live[r].ops = batch[r]
      BY <3>1 DEF WorkerInv
    <3>3. DOMAIN batch[r] = 1..Len(batch[r])
      BY <2>1, SMTT(30)
    <3>4. live[r].pos \in Nat /\ Len(batch[r]) \in Nat
      BY <2>1, SMTT(30) DEF Line
    <3>5. \A i \in 1..Len(batch[r]) : i < live[r].pos
      BY <3>1, <3>2, <3>4, SMTT(30)
    <3>6. \A i \in 1..Len(batch[r]) : batch[r][i] \in Range(applied[r])
      BY <3>2, <3>5 DEF WorkerInv, Has
    <3>7. Range(batch[r]) \subseteq Range(applied[r])
      BY <3>3, <3>6 DEF Range
    <3> QED
      BY <3>1, <3>7, <1>HandlerStays
  <2>6. ASSUME NEW r \in Replicas, WorkerStep(r) \/ LineFault(r), ~Confirmed(r)
        PROVE  UNCHANGED handlerVars
    BY <2>6 DEF WorkerStep, LineFault, RecoverRecord, TakeBatch, SendLine, DeleteBatch,
         ExecuteLive, Timeout, Dropped, ExecuteStale, AbandonBatch
  <2>7. CASE AbandonRecovery \/ Close \/ UNCHANGED vars
    BY <2>2, <2>7 DEF AbandonRecovery, Close, vars, handlerVars
  <2>8. CASE Restart
    <3>1. start'[h] = 1 /\ pc'[h] = "idle"
      BY <2>8 DEF Restart
    <3> QED
      BY <3>1, SMTT(30) DEF HandlerInv
  <2>9. CASE UNCHANGED handlerVars
    BY <2>2, <2>9 DEF handlerVars
  <2> QED
    BY <2>2, <2>3, <2>4, <2>5, <2>6, <2>7, <2>8, <2>9, <1>StepOwn DEF Next
<1>StepAcked. ASSUME Counting, Step, AckedInv, \A h \in Handlers : HandlerInv(h)
              PROVE  AckedInv'
  <2> USE <1>StepAcked
  <2> TypeOK /\ TypeOK' /\ [Next]_vars
    BY DEF Step
  <2>1. acked \subseteq Ids /\ \A n \in Ids : Quorum(n)' <=> Quorum(n)
    BY LogGrows DEF TypeOK, Quorum
  <2>2. published \subseteq published' /\ \A n : Reached(n) => Reached(n)'
    BY LogGrows, <1>ReachedStays
  <2>3. CASE acked' = acked
    BY <2>1, <2>2, <2>3 DEF AckedInv
  <2>4. ASSUME NEW h \in Handlers, Reply(h) PROVE AckedInv'
    <3>1. /\ acked' = acked \cup Range(ops[h]) /\ start[h] > Len(ops[h])
          /\ UNCHANGED <<log, published, applied>>
      BY <2>4 DEF Reply, disk
    <3>2. ops[h] \in Seq(Ids) /\ DOMAIN ops[h] = 1..Len(ops[h]) /\ start[h] \in Nat
      BY SMTT(30) DEF TypeOK
    <3>3. \A i \in 1..Len(ops[h]) : i < start[h]
      BY <3>1, <3>2, SMTT(30)
    <3>4. \A n \in Range(ops[h]) : n \in published /\ (Quorum(n) => Reached(n))
      BY <3>2, <3>3 DEF Range, HandlerInv
    <3>5. \A n : (Quorum(n)' <=> Quorum(n)) /\ (Reached(n)' <=> Reached(n))
      BY <3>1 DEF Quorum, Reached, Has
    <3> QED
      BY <3>1, <3>4, <3>5 DEF AckedInv
  <2>5. ASSUME NEW h \in Handlers, HandlerStep(h), ~Reply(h) PROVE acked' = acked
    BY <2>5 DEF HandlerStep, Execute, PutBatch, EnqueueFanout, QuorumReached, Fail
  <2>6. ASSUME NEW s \in Shards, FanoutStep(s) PROVE acked' = acked
    BY <2>6 DEF FanoutStep, FanoutTake, FanoutMove
  <2>7. ASSUME NEW r \in Replicas, WorkerStep(r) \/ LineFault(r) PROVE acked' = acked
    BY <2>7 DEF WorkerStep, LineFault, RecoverRecord, TakeBatch, SendLine, Confirmed, DeleteBatch,
         ExecuteLive, Timeout, Dropped, ExecuteStale, AbandonBatch
  <2>8. CASE AbandonRecovery \/ Close \/ Restart \/ UNCHANGED vars
    BY <2>3, <2>8 DEF AbandonRecovery, Close, Restart, vars
  <2> QED
    BY <2>3, <2>4, <2>5, <2>6, <2>7, <2>8 DEF Next
<1> SUFFICES ASSUME Counting, IInv, [Next]_vars PROVE IInv'
  OBVIOUS
<1> USE DEF IInv
<1>1. TypeOK'
  BY StepType
<1>s. Step
  BY <1>1 DEF Step
<1>2. OutboxInv'
  BY <1>s, <1>StepOutbox
<1>3. AckedInv'
  BY <1>s, <1>StepAcked
<1>4. \A h \in Handlers : HandlerInv(h)'
  BY <1>s, <1>StepHandler
<1>5. \A r \in Replicas : WorkerInv(r)'
  BY <1>s, <1>StepWorker
<1> QED
  BY <1>1, <1>2, <1>3, <1>4, <1>5

-----------------------------------------------------------------------------
(* Order.  The records on their way to a replica stand in the order of the log, *)
(* metric by metric, from the lines it executes back to the request handlers.   *)

\* The mutations that a replica has to apply before n.
earlier == [n \in published |-> {k \in published : k < n /\ Metric(k) = Metric(n)}]

\* From position a on, each element of q follows what is earlier, apart from S.
Span(q, a, b) == {q[j] : j \in a..(b - 1)}
InOrder(E, q, a, S) == \A i \in a..Len(q) : E[q[i]] \subseteq S \cup Span(q, a, i)

Worker(r) == Range(applied[r]) \cup Range(batch[r]) \cup Range(queue[r])
Way(s) == moving[s].ops \cup UNION Range(fanout[s])

\* Only published records are on their way, each through the queue of its metric.
PublishedInv ==
    /\ \A r \in Replicas :
          /\ Worker(r) \subseteq published /\ recovering[r] \subseteq published
          /\ outbox[r] \subseteq published /\ unsynced[r] \subseteq published
          /\ Range(live[r].ops) \subseteq published
          /\ \A line \in stale[r] : Range(line.ops) \subseteq published
    /\ \A s \in Shards : \A n \in Way(s) : n \in published /\ ShardOf[Metric(n)] = s

\* A handler is alone with the metrics of its request, and publishes in the order of the log.
LockInv ==
    /\ \A h \in Handlers :
          /\ \A i, j \in DOMAIN ops[h] : i < j => ops[h][i] < ops[h][j]
          /\ \A i \in DOMAIN ops[h], n \in Ids :
                n > ops[h][i] /\ Metric(n) = Metric(ops[h][i]) => n \in Range(ops[h])
          /\ pc[h] # "fanout" => pending[h] = {}
          /\ \A i \in DOMAIN ops[h] :
                i >= start[h] /\ ~(pc[h] \in {"fanout", "wait"} /\ i \in Chunk(h))
                    => ops[h][i] \notin published
    /\ \A g, h \in Handlers : g # h => Held(g) \cap Held(h) = {}

AppliedOrder(r) ==
    /\ \A i, j \in DOMAIN applied[r] : i < j => applied[r][i] # applied[r][j]
    /\ closes = 0 => InOrder(earlier, applied[r], 1, {})
LinesOrder(r) ==
    /\ InOrder(earlier, live[r].ops, live[r].pos, Range(applied[r]))
    /\ \A line \in stale[r] : InOrder(earlier, line.ops, line.pos, Range(applied[r]))
BatchOrder(r) == InOrder(earlier, batch[r], 1, Range(applied[r]))
QueueOrder(r) == InOrder(earlier, queue[r], 1, Range(applied[r]) \cup Range(batch[r]))
RecoveryOrder(r) == \A n \in recovering[r] : earlier[n] \subseteq Worker(r) \cup recovering[r]
MovingOrder(r, s) ==
    \A n \in moving[s].ops :
        /\ earlier[n] \subseteq Worker(r) \cup moving[s].ops
        /\ First(moving[s].ops, n) /\ r \notin moving[s].todo => n \in Worker(r)
FanoutOrder(r, s) ==
    \A i \in DOMAIN fanout[s] : \A n \in fanout[s][i] :
        earlier[n] \subseteq Worker(r) \cup moving[s].ops \cup UNION {fanout[s][j] : j \in 1..i}
HandlerOrder(r, h) ==
    pc[h] = "fanout" => \A m \in pending[h] : \A n \in Group(h, m) :
        earlier[n] \subseteq Worker(r) \cup Way(ShardOf[m]) \cup Group(h, m)

\* A published record is somewhere on its way, or was applied.
InHand(k) == \E h \in Handlers : pc[h] = "fanout" /\ Metric(k) \in pending[h] /\ k \in Items(h)
Underway(r) ==
    \A k \in published :
        k \in Worker(r) \cup recovering[r] \cup Way(ShardOf[Metric(k)]) \/ InHand(k)

Delivery(r) ==
    /\ LinesOrder(r) /\ BatchOrder(r) /\ QueueOrder(r) /\ RecoveryOrder(r) /\ Underway(r)
    /\ \A s \in Shards : MovingOrder(r, s) /\ FanoutOrder(r, s)
    /\ \A h \in Handlers : HandlerOrder(r, h)

OrderInv ==
    /\ PublishedInv /\ LockInv
    /\ closing => closes # 0
    /\ \A r \in Replicas : AppliedOrder(r) /\ (closes = 0 => Delivery(r))

\* The arithmetic of positions that the provers do not find among many other facts.
LEMMA PositionFacts ==
    /\ 1 \in Nat \ {0} /\ DOMAIN <<>> = {}
    /\ \A n \in Nat :
          /\ n + 1 \in 1..(n + 1)
          /\ \A i \in 1..n : i \in 1..(n + 1) /\ \A j \in 1..i : j \in 1..n
          /\ \A i \in 1..(n + 1) : i \in 1..n \/ i = n + 1
          /\ \A i \in 1..(n - 1) : \A j \in 1..(i + 1) : j \in 1..n /\ (j # 1 => j - 1 \in 1..i)
    /\ \A i, j \in Nat : i < j \/ j < i \/ i = j
    /\ \A i, j \in Nat : i <= j /\ j <= i => i = j
    /\ \A i \in Nat : ~(i < i)
    /\ \A m, n \in Nat : \A i \in 1..m : i <= n => i \in 1..n
    /\ \A a, n \in Nat : \A i \in a..n, j \in 1..n : i + 1 <= j =>
          a <= j /\ j # a /\ i + 1 \in a..n /\ \A k \in a..(i + 1) : k \in a..j
  BY SMTT(30)

LEMMA IdsNat == Ids \subseteq Nat
  BY SMTT(30) DEF Ids

LEMMA SequenceFacts ==
    ASSUME NEW V, NEW q \in Seq(V)
    PROVE  /\ Len(q) \in Nat /\ DOMAIN q = 1..Len(q) /\ \A i \in 1..Len(q) : q[i] \in V
           /\ \A n \in V : /\ Append(q, n) \in Seq(V) /\ Len(Append(q, n)) = Len(q) + 1
                          /\ DOMAIN Append(q, n) = 1..(Len(q) + 1) /\ Append(q, n)[Len(q) + 1] = n
                          /\ \A i \in 1..Len(q) : Append(q, n)[i] = q[i]
<1>1. Len(q) \in Nat /\ DOMAIN q = 1..Len(q) /\ \A i \in 1..Len(q) : q[i] \in V
  BY SMTT(30)
<1>2. ASSUME NEW n \in V
      PROVE  /\ Append(q, n) \in Seq(V) /\ Len(Append(q, n)) = Len(q) + 1
             /\ DOMAIN Append(q, n) = 1..(Len(q) + 1) /\ Append(q, n)[Len(q) + 1] = n
             /\ \A i \in 1..Len(q) : Append(q, n)[i] = q[i]
  <2>1. Append(q, n) \in Seq(V) /\ Len(Append(q, n)) = Len(q) + 1
    BY SMTT(30)
  <2>2. DOMAIN Append(q, n) = 1..(Len(q) + 1)
    BY <2>1, SMTT(30)
  <2>3. Append(q, n)[Len(q) + 1] = n /\ \A i \in 1..Len(q) : Append(q, n)[i] = q[i]
    BY SMTT(30)
  <2> QED
    BY <2>1, <2>2, <2>3
<1> QED
  BY <1>1, <1>2

-----------------------------------------------------------------------------
(* The mutation locks. *)

LockOf(h) ==
    /\ \A i, j \in DOMAIN ops[h] : i < j => ops[h][i] < ops[h][j]
    /\ \A i \in DOMAIN ops[h], n \in Ids :
          n > ops[h][i] /\ Metric(n) = Metric(ops[h][i]) => n \in Range(ops[h])
    /\ pc[h] # "fanout" => pending[h] = {}
    /\ \A i \in DOMAIN ops[h] :
          i >= start[h] /\ ~(pc[h] \in {"fanout", "wait"} /\ i \in Chunk(h))
              => ops[h][i] \notin published

LEMMA LockParts ==
    /\ LockInv <=> /\ \A h \in Handlers : LockOf(h)
                   /\ \A g, h \in Handlers : g # h => Held(g) \cap Held(h) = {}
    /\ LockInv' <=> /\ \A h \in Handlers : LockOf(h)'
                    /\ \A g, h \in Handlers : g # h => Held(g)' \cap Held(h)' = {}
<1>1. LockInv <=> /\ \A h \in Handlers : LockOf(h)
                  /\ \A g, h \in Handlers : g # h => Held(g) \cap Held(h) = {}
  BY DEF LockInv, LockOf
<1>2. LockInv' <=> /\ \A h \in Handlers : LockOf(h)'
                   /\ \A g, h \in Handlers : g # h => Held(g)' \cap Held(h)' = {}
  BY DEF LockInv, LockOf
<1> QED
  BY <1>1, <1>2

LEMMA HeldIs ==
    ASSUME TypeOK, NEW h \in Handlers
    PROVE  /\ \A m \in Held(h) : \E i \in DOMAIN ops[h] : m = Metric(ops[h][i])
           /\ \A i \in DOMAIN ops[h] : Metric(ops[h][i]) \in Held(h)
           /\ \A i \in DOMAIN ops[h] : ops[h][i] \in Ids
           /\ Items(h) \subseteq Range(ops[h]) /\ DOMAIN ops[h] = 1..Len(ops[h])
<1>1. ops[h] \in Seq(Ids)
  BY DEF TypeOK
<1>2. DOMAIN ops[h] = 1..Len(ops[h]) /\ \A i \in DOMAIN ops[h] : ops[h][i] \in Ids
  BY <1>1, SMTT(30)
<1>3. Chunk(h) \subseteq 1..Len(ops[h])
  BY ItemsType
<1> QED
  BY <1>2, <1>3 DEF Held, Range, Items

\* The metrics a handler holds, and its place among them, while others go on.
LEMMA HeldStays ==
    ASSUME Step, NEW h \in Handlers, ops'[h] = ops[h]
    PROVE  Held(h)' = Held(h)
<1>1. \A i \in DOMAIN ops[h] : Metric(ops[h][i])' = Metric(ops[h][i])
  BY HeldIs, LogGrows DEF Step, Metric
<1> QED
  BY <1>1 DEF Held, Range

LEMMA StepLock ==
    ASSUME Step, LockInv, \A h \in Handlers : HandlerInv(h)
    PROVE  LockInv'
\* The positions that an execution appends to the log.
<1>Executed. ASSUME Step, NEW h \in Handlers, Execute(h)
             PROVE  \E size \in Nat : \E items \in [1..size -> Item] :
                       /\ \A i \in 1..size, g \in Handlers : items[i].metric \notin Held(g)
                       /\ Len(log) \in Nat /\ Ids' = 1..(Len(log) + size) /\ Ids = 1..Len(log)
                       /\ \A i \in 1..size : log'[Len(log) + i].metric = items[i].metric
                       /\ DOMAIN ops'[h] = 1..size /\ \A i \in 1..size : ops'[h][i] = Len(log) + i
  <2> USE <1>Executed
  <2>1. PICK size \in 1..MaxItems : \E items \in [1..size -> Item] :
            /\ \A i \in 1..size, g \in Handlers : items[i].metric \notin Held(g)
            /\ log' = log \o items
            /\ ops' = [ops EXCEPT ![h] = Positions(size)]
    BY DEF Execute, Item
  <2>2. PICK items \in [1..size -> Item] :
            /\ \A i \in 1..size, g \in Handlers : items[i].metric \notin Held(g)
            /\ log' = log \o items
            /\ ops' = [ops EXCEPT ![h] = Positions(size)]
    BY <2>1
  <2>3. size \in Nat /\ size \in 1..MaxItems
    <3>1. MaxItems \in Nat
      BY BoundsAssumption
    <3> QED
      BY <3>1, SMTT(30)
  <2>4. log \in Seq(Item) /\ ops \in [Handlers -> Seq(Ids)]
    BY DEF Step, TypeOK, Item
  <2>5. ops'[h] = [i \in 1..size |-> Len(log) + i]
    BY <2>2, <2>4 DEF Positions
  <2>6. DOMAIN ops'[h] = 1..size /\ \A i \in 1..size : ops'[h][i] = Len(log) + i
    BY <2>5
  <2> HIDE DEF Item
  <2>7. items \in Seq(Item) /\ Len(items) = size
    BY <2>3, SMTT(30)
  <2>8. /\ Len(log) \in Nat /\ Len(log') = Len(log) + size
        /\ \A i \in 1..size : log'[Len(log) + i] = items[i]
    <3>1. /\ Len(log') = Len(log) + Len(items) /\ Len(log) \in Nat
          /\ \A i \in 1..(Len(log) + Len(items)) :
                log'[i] = IF i <= Len(log) THEN log[i] ELSE items[i - Len(log)]
      <4>1. log' = log \o items /\ log \in Seq(Item) /\ items \in Seq(Item)
        BY <2>2, <2>4, <2>7
      <4> QED
        BY <4>1, SMTT(30)
    <3>2. ASSUME NEW i \in 1..size PROVE log'[Len(log) + i] = items[i]
      <4>1. /\ Len(log) + i \in 1..(Len(log) + Len(items)) /\ ~(Len(log) + i <= Len(log))
            /\ (Len(log) + i) - Len(log) = i
        BY <2>7, <3>1, SMTT(30)
      <4> QED
        BY <3>1, <4>1
    <3> QED
      BY <2>7, <3>1, <3>2
  <2>9. Ids' = 1..(Len(log) + size) /\ Ids = 1..Len(log)
    BY <2>8 DEF Ids
  <2>10. \A i \in 1..size : log'[Len(log) + i].metric = items[i].metric
    BY <2>8
  <2> QED
    BY <2>2, <2>3, <2>6, <2>8, <2>9, <2>10
<1>ExecuteLock. ASSUME Step, LockInv, NEW h \in Handlers, Execute(h)
                PROVE  LockInv'
  <2> USE <1>ExecuteLock
  <2> TypeOK /\ TypeOK' /\ [Next]_vars
    BY DEF Step
  <2>1. PICK size \in Nat : \E items \in [1..size -> Item] :
                /\ \A i \in 1..size, g \in Handlers : items[i].metric \notin Held(g)
                /\ Len(log) \in Nat /\ Ids' = 1..(Len(log) + size) /\ Ids = 1..Len(log)
                /\ \A i \in 1..size : log'[Len(log) + i].metric = items[i].metric
                /\ DOMAIN ops'[h] = 1..size /\ \A i \in 1..size : ops'[h][i] = Len(log) + i
    BY <1>Executed
  <2>2. PICK items \in [1..size -> Item] :
                /\ \A i \in 1..size, g \in Handlers : items[i].metric \notin Held(g)
                /\ Len(log) \in Nat /\ Ids' = 1..(Len(log) + size) /\ Ids = 1..Len(log)
                /\ \A i \in 1..size : log'[Len(log) + i].metric = items[i].metric
                /\ DOMAIN ops'[h] = 1..size /\ \A i \in 1..size : ops'[h][i] = Len(log) + i
    BY <2>1
  <2>3. /\ pc[h] = "idle" /\ pc'[h] = "replicate" /\ UNCHANGED <<published, pending>>
        /\ \A g \in Handlers : g # h => ops'[g] = ops[g] /\ start'[g] = start[g] /\ pc'[g] = pc[g]
    <3>1. /\ ops \in [Handlers -> Seq(Ids)] /\ start \in [Handlers -> Nat \ {0}]
          /\ pc \in [Handlers -> {"idle", "replicate", "fanout", "wait"}]
      BY DEF TypeOK
    <3> QED
      BY <3>1 DEF Execute
  <2>4. /\ \A g \in Handlers : LockOf(g)
        /\ \A f, g \in Handlers : f # g => Held(f) \cap Held(g) = {}
    BY LockParts
  <2>5. published \subseteq Ids /\ \A n \in Ids : log'[n].metric = log[n].metric
    BY LogGrows DEF TypeOK
  <2>6. LockOf(h)'
    <3>1. \A i, j \in DOMAIN ops'[h] : i < j => ops'[h][i] < ops'[h][j]
      BY <2>2, SMTT(30)
    <3>2. ASSUME NEW i \in DOMAIN ops'[h], NEW n \in Ids', n > ops'[h][i] PROVE n \in Range(ops'[h])
      <4>1. n - Len(log) \in 1..size /\ n = Len(log) + (n - Len(log))
        BY <2>2, <3>2, SMTT(30)
      <4>2. ops'[h][n - Len(log)] = n
        BY <2>2, <4>1
      <4> QED
        BY <2>2, <4>1, <4>2 DEF Range
    <3>3. pending'[h] = {}
      BY <2>3, <2>4 DEF LockOf
    <3>4. \A i \in DOMAIN ops'[h] : ops'[h][i] \notin published'
      BY <2>2, <2>3, <2>5, SMTT(30)
    <3> QED
      BY <3>1, <3>2, <3>3, <3>4 DEF LockOf
  <2>7. ASSUME NEW g \in Handlers, g # h PROVE LockOf(g)'
    <3>1. ops'[g] = ops[g] /\ start'[g] = start[g] /\ pc'[g] = pc[g] /\ pending'[g] = pending[g]
      BY <2>3, <2>7
    <3>2. Chunk(g)' = Chunk(g)
      BY <3>1, ChunkStays
    <3>3. \A i \in DOMAIN ops[g] : ops[g][i] \in Ids /\ log[ops[g][i]].metric \in Held(g)
      BY HeldIs DEF Metric
    <3>4. ASSUME NEW n \in Ids', n \notin Ids PROVE log'[n].metric \notin Held(g)
      <4>1. PICK i \in 1..size : n = Len(log) + i
        <5>1. n - Len(log) \in 1..size /\ n = Len(log) + (n - Len(log))
          BY <2>2, <3>4, SMTT(30)
        <5> QED
          BY <5>1
      <4> QED
        BY <2>2, <4>1
    <3>5. ASSUME NEW i \in DOMAIN ops[g], NEW n \in Ids', n > ops[g][i],
                 log'[n].metric = log'[ops[g][i]].metric
          PROVE  n \in Range(ops[g])
      <4>1. log'[ops[g][i]].metric = log[ops[g][i]].metric
        BY <2>5, <3>3
      <4>2. n \in Ids
        BY <3>3, <3>4, <3>5, <4>1
      <4>3. log'[n].metric = log[n].metric
        BY <2>5, <4>2
      <4>4. Metric(n) = Metric(ops[g][i])
        BY <3>5, <4>1, <4>3 DEF Metric
      <4> QED
        BY <2>4, <3>5, <4>2, <4>4 DEF LockOf
    <3>6. \A i \in DOMAIN ops'[g], n \in Ids' :
              n > ops'[g][i] /\ Metric(n)' = Metric(ops[g][i])' => n \in Range(ops'[g])
      BY <3>1, <3>5 DEF Metric
    <3> QED
      BY <2>3, <2>4, <3>1, <3>2, <3>6 DEF LockOf
  <2>8. ASSUME NEW g \in Handlers, g # h PROVE Held(g)' = Held(g) /\ Held(g)' \cap Held(h)' = {}
    <3>1. Held(g)' = Held(g)
      BY <2>3, <2>8, HeldStays
    <3>2. ASSUME NEW m \in Held(h)' PROVE m \notin Held(g)
      <4>1. PICK n \in Range(ops'[h]) : m = log'[n].metric
        BY <3>2 DEF Held, Metric
      <4>2. PICK i \in 1..size : n = Len(log) + i
        BY <2>2, <4>1 DEF Range
      <4>3. m = items[i].metric
        BY <2>2, <4>1, <4>2
      <4> QED
        BY <2>2, <4>3
    <3> QED
      BY <3>1, <3>2
  <2>9. ASSUME NEW f \in Handlers, NEW g \in Handlers, f # g PROVE Held(f)' \cap Held(g)' = {}
    <3>1. CASE f = h
      BY <2>8, <2>9, <3>1
    <3>2. CASE g = h
      BY <2>8, <2>9, <3>2
    <3>3. CASE f # h /\ g # h
      BY <2>4, <2>8, <2>9, <3>3
    <3> QED
      BY <3>1, <3>2, <3>3
  <2> QED
    BY <2>6, <2>7, <2>9, LockParts
<1>LockKept. ASSUME Step, NEW h \in Handlers, LockOf(h), log' = log,
                    ops'[h] = ops[h], start'[h] = start[h], pc'[h] = pc[h], pending'[h] = pending[h],
                    \A n \in Range(ops[h]) : n \in published' => n \in published
             PROVE  LockOf(h)'
  <2> USE <1>LockKept
  <2>1. Chunk(h)' = Chunk(h)
    BY ChunkStays
  <2>2. Ids' = Ids /\ \A n : log'[n].metric = log[n].metric
    BY DEF Ids
  <2>3. \A i \in DOMAIN ops[h] : ops[h][i] \in published' => ops[h][i] \in published
    BY DEF Range
  <2>4. \A i \in DOMAIN ops'[h], n \in Ids' :
            n > ops'[h][i] /\ Metric(n)' = Metric(ops[h][i])' => n \in Range(ops'[h])
    BY <2>2 DEF LockOf, Metric
  <2> QED
    BY <2>1, <2>3, <2>4 DEF LockOf
\* What a handler publishes, it alone could publish.
<1>OwnItems. ASSUME TypeOK, LockInv, NEW g \in Handlers, NEW h \in Handlers, g # h, NEW n \in Range(ops[h])
             PROVE  n \notin Items(g)
  <2> USE <1>OwnItems
  <2>1. Metric(n) \in Held(h)
    BY DEF Held
  <2>2. \A k \in Items(g) : Metric(k) \in Held(g)
    BY HeldIs DEF Held
  <2> QED
    BY <2>1, <2>2, LockParts
<1>OwnLock. ASSUME Step, LockInv, NEW h \in Handlers, HandlerInv(h), HandlerStep(h), ~Execute(h)
            PROVE  LockOf(h)' /\ Held(h)' \subseteq Held(h)
  <2> USE <1>OwnLock
  <2> TypeOK /\ TypeOK' /\ [Next]_vars
    BY DEF Step
  <2>1. /\ ops \in [Handlers -> Seq(Ids)] /\ start \in [Handlers -> Nat \ {0}]
        /\ pc \in [Handlers -> {"idle", "replicate", "fanout", "wait"}]
        /\ pending \in [Handlers -> SUBSET Metrics]
    BY DEF TypeOK
  <2>2. LockOf(h) /\ DOMAIN ops[h] = 1..Len(ops[h]) /\ Len(ops[h]) \in Nat
    BY <2>1, LockParts, SMTT(30)
  <2>3. CASE Reply(h) \/ Fail(h)
    <3>1. ops'[h] = <<>> /\ pending'[h] = {}
      BY <2>1, <2>3 DEF Reply, Fail, Release
    <3>2. DOMAIN ops'[h] = {} /\ Range(ops'[h]) = {}
      BY <3>1, SMTT(30) DEF Range
    <3> QED
      BY <3>1, <3>2 DEF LockOf, Held
  \* The others keep the request.
  <2>4. ASSUME ops' = ops, log' = log
        PROVE  /\ Held(h)' = Held(h)
               /\ \A i \in DOMAIN ops'[h], n \in Ids' :
                     n > ops'[h][i] /\ Metric(n)' = Metric(ops[h][i])' => n \in Range(ops'[h])
    <3>1. Ids' = Ids /\ \A n : log'[n].metric = log[n].metric
      BY <2>4 DEF Ids
    <3> QED
      BY <2>2, <2>4, <3>1, HeldStays DEF LockOf, Metric
  <2>5. CASE PutBatch(h)
    <3>1. /\ ops' = ops /\ start' = start /\ log' = log /\ pc[h] = "replicate" /\ pc'[h] = "fanout"
          /\ published' = published \cup Items(h)
      BY <2>1, <2>5 DEF PutBatch
    <3>2. Chunk(h)' = Chunk(h) /\ Chunk(h) \subseteq DOMAIN ops[h]
      BY <2>2, <3>1, ChunkStays, ItemsType
    <3>3. ASSUME NEW i \in DOMAIN ops[h], NEW j \in DOMAIN ops[h], ops[h][i] = ops[h][j] PROVE i = j
      <4>1. i < j => ops[h][i] < ops[h][j]
        BY <2>2 DEF LockOf
      <4>2. j < i => ops[h][j] < ops[h][i]
        BY <2>2 DEF LockOf
      <4>3. ops[h][i] \in Nat /\ i \in Nat /\ j \in Nat
        BY <2>1, <2>2, SMTT(30) DEF Ids
      <4> QED
        BY <3>3, <4>1, <4>2, <4>3, PositionFacts
    <3>4. \A i \in DOMAIN ops[h] : i \notin Chunk(h) => ops[h][i] \notin Items(h)
      BY <3>2, <3>3 DEF Items
    <3>5. \A i \in DOMAIN ops[h] : i >= start[h] /\ i \notin Chunk(h) => ops[h][i] \notin published'
      BY <2>2, <3>1, <3>4 DEF LockOf
    <3> QED
      BY <2>2, <2>4, <3>1, <3>2, <3>5 DEF LockOf
  <2>6. CASE EnqueueFanout(h)
    <3>1. /\ ops' = ops /\ log' = log /\ published' = published /\ pc[h] = "fanout"
      BY <2>6 DEF EnqueueFanout, disk
    <3>2. CASE pc' = pc /\ start' = start
      <4>1. Chunk(h)' = Chunk(h)
        BY <3>1, <3>2, ChunkStays
      <4> QED
        BY <2>2, <2>4, <3>1, <3>2, <4>1 DEF LockOf
    <3>3. CASE pending'[h] = {} /\ pc' = [pc EXCEPT ![h] = "wait"] /\ start' = start
      <4>1. Chunk(h)' = Chunk(h) /\ pc'[h] = "wait"
        BY <2>1, <3>1, <3>3, ChunkStays
      <4> QED
        BY <2>2, <2>4, <3>1, <3>3, <4>1 DEF LockOf
    <3>4. ASSUME pending'[h] = {}, pc' = [pc EXCEPT ![h] = "replicate"], NEW i \in Chunk(h),
                 i + 1 \notin Chunk(h), start' = [start EXCEPT ![h] = i + 1]
          PROVE  LockOf(h)' /\ Held(h)' \subseteq Held(h)
      <4>1. pc'[h] = "replicate" /\ start'[h] = i + 1
        BY <2>1, <3>4
      <4>2. ASSUME NEW j \in DOMAIN ops[h], j >= i + 1 PROVE j >= start[h] /\ j \notin Chunk(h)
        <5>1. i \in start[h]..Len(ops[h]) /\ start[h] \in Nat /\ i + 1 <= j
          BY <2>1, <2>2, <4>2 DEF Chunk
        <5>2. /\ j >= start[h] /\ j # start[h]
              /\ i + 1 \in start[h]..Len(ops[h]) /\ \A k \in start[h]..(i + 1) : k \in start[h]..j
          BY <2>2, <5>1, PositionFacts
        <5>3. ASSUME j \in Chunk(h) PROVE FALSE
          <6>1. \A k \in start[h]..j : ~Quorum(ops[h][k])
            BY <5>2, <5>3 DEF Chunk
          <6>2. i + 1 \in Chunk(h)
            BY <5>2, <6>1 DEF Chunk
          <6> QED
            BY <3>4, <6>2
        <5> QED
          BY <5>2, <5>3
      <4>3. \A j \in DOMAIN ops[h] : j >= i + 1 => ops[h][j] \notin published
        BY <2>2, <4>2 DEF LockOf
      <4> QED
        BY <2>2, <2>4, <3>1, <3>4, <4>1, <4>3 DEF LockOf
    <3> QED
      BY <2>6, <3>2, <3>3, <3>4 DEF EnqueueFanout
  <2>7. CASE QuorumReached(h)
    <3>1. /\ pc[h] = "wait" /\ Waits(h) /\ UNCHANGED <<ops, log, published, pending>>
          /\ pc'[h] = "replicate" /\ start'[h] = start[h] + 1
      BY <2>1, <2>7 DEF QuorumReached, HandlerInv, disk
    <3>2. ASSUME NEW j \in DOMAIN ops[h], j >= start[h] + 1 PROVE j >= start[h] /\ j \notin Chunk(h)
      <4>1. j >= start[h] /\ j # start[h] /\ start[h] \in start[h]..j
        BY <2>1, <2>2, <3>2, SMTT(30)
      <4> QED
        BY <3>1, <4>1 DEF Chunk, Waits
    <3>3. \A j \in DOMAIN ops[h] : j >= start[h] + 1 => ops[h][j] \notin published
      BY <2>2, <3>2 DEF LockOf
    <3> QED
      BY <2>2, <2>4, <3>1, <3>3 DEF LockOf
  <2> QED
    BY <2>3, <2>5, <2>6, <2>7 DEF HandlerStep
<1> TypeOK /\ TypeOK' /\ [Next]_vars
  BY DEF Step
<1>1. /\ ops \in [Handlers -> Seq(Ids)] /\ start \in [Handlers -> Nat \ {0}]
      /\ pc \in [Handlers -> {"idle", "replicate", "fanout", "wait"}]
      /\ pending \in [Handlers -> SUBSET Metrics]
  BY DEF TypeOK
<1>2. /\ \A h \in Handlers : LockOf(h)
      /\ \A g, h \in Handlers : g # h => Held(g) \cap Held(h) = {}
  BY LockParts
<1>3. ASSUME \A h \in Handlers : LockOf(h)' /\ Held(h)' \subseteq Held(h) PROVE LockInv'
  BY <1>2, <1>3, LockParts
<1>4. ASSUME NEW g \in Handlers, HandlerStep(g), ~Execute(g) PROVE LockInv'
  <2>1. ASSUME NEW h \in Handlers, h # g PROVE LockOf(h)' /\ Held(h)' \subseteq Held(h)
    <3>1. log' = log /\ ops'[h] = ops[h] /\ start'[h] = start[h] /\ pc'[h] = pc[h] /\ pending'[h] = pending[h]
      <4>1. CASE PutBatch(g) \/ QuorumReached(g)
        BY <1>1, <2>1, <4>1 DEF PutBatch, QuorumReached, disk
      <4>2. CASE EnqueueFanout(g)
        BY <1>1, <2>1, <4>2 DEF EnqueueFanout, disk
      <4>3. CASE Reply(g) \/ Fail(g)
        BY <1>1, <2>1, <4>3 DEF Reply, Fail, Release, disk
      <4> QED
        BY <1>4, <4>1, <4>2, <4>3 DEF HandlerStep
    <3>2. ASSUME NEW n \in Range(ops[h]), n \in published' PROVE n \in published
      <4>1. PutBatch(g) \/ published' = published
        BY <1>4 DEF HandlerStep, EnqueueFanout, QuorumReached, Reply, Fail, disk
      <4>2. n \notin Items(g)
        BY <2>1, <1>OwnItems
      <4> QED
        BY <3>2, <4>1, <4>2 DEF PutBatch
    <3> QED
      BY <1>2, <3>1, <3>2, <1>LockKept, HeldStays
  <2> QED
    BY <1>3, <1>4, <2>1, <1>OwnLock
<1>5. CASE UNCHANGED <<log, published, pc, ops, start, pending>>
  BY <1>2, <1>3, <1>5, <1>LockKept, HeldStays
<1>6. ASSUME NEW s \in Shards, FanoutStep(s) PROVE UNCHANGED <<log, published, pc, ops, start, pending>>
  BY <1>6 DEF FanoutStep, FanoutTake, FanoutMove, disk, handlerVars
<1>7. ASSUME NEW r \in Replicas, WorkerStep(r) \/ LineFault(r)
      PROVE  UNCHANGED <<log, published, pc, ops, start, pending>>
  BY <1>7 DEF WorkerStep, LineFault, RecoverRecord, TakeBatch, SendLine, Confirmed, DeleteBatch,
       ExecuteLive, Timeout, Dropped, ExecuteStale, AbandonBatch, disk, handlerVars
<1>8. CASE AbandonRecovery \/ Close \/ UNCHANGED vars
  BY <1>5, <1>8 DEF AbandonRecovery, Close, vars, disk, handlerVars
<1>9. CASE Restart
  <2>1. ASSUME NEW h \in Handlers PROVE LockOf(h)' /\ Held(h)' \subseteq Held(h)
    <3>1. ops'[h] = <<>> /\ pending'[h] = {}
      BY <1>9 DEF Restart
    <3>2. DOMAIN ops'[h] = {} /\ Range(ops'[h]) = {}
      BY <3>1, SMTT(30) DEF Range
    <3> QED
      BY <3>1, <3>2 DEF LockOf, Held
  <2> QED
    BY <1>3, <2>1
<1> QED
  BY <1>4, <1>5, <1>6, <1>7, <1>8, <1>9, <1>ExecuteLock DEF Next

LEMMA StepClosing ==
    ASSUME Step, closing => closes # 0
    PROVE  /\ closing' => closes' # 0
           /\ closes' = 0 => closes = 0 /\ ~closing
<1> closes \in Nat /\ [Next]_vars
  BY DEF Step, TypeOK
<1>1. ASSUME NEW h \in Handlers, HandlerStep(h) PROVE closing' = closing /\ closes' = closes
  BY <1>1 DEF HandlerStep, Execute, PutBatch, EnqueueFanout, QuorumReached, Reply, Fail, faultVars
<1>2. ASSUME NEW s \in Shards, FanoutStep(s) PROVE closing' = closing /\ closes' = closes
  BY <1>2 DEF FanoutStep, FanoutTake, FanoutMove, faultVars
<1>3. ASSUME NEW r \in Replicas, WorkerStep(r) \/ LineFault(r) PROVE closing' = closing /\ closes' = closes
  BY <1>3 DEF WorkerStep, LineFault, RecoverRecord, TakeBatch, SendLine, Confirmed, DeleteBatch,
       ExecuteLive, Timeout, Dropped, ExecuteStale, AbandonBatch, faultVars
<1>4. ASSUME AbandonRecovery \/ UNCHANGED vars PROVE closing' = closing /\ closes' = closes
  BY <1>4 DEF AbandonRecovery, vars, faultVars
<1>5. CASE Close
  <2>1. ~closing /\ closes' = closes + 1
    BY <1>5 DEF Close
  <2> QED
    BY <2>1, SMTT(30)
<1>6. CASE Restart
  BY <1>6 DEF Restart
<1>7. CASE closing' = closing /\ closes' = closes
  BY <1>7
<1> QED
  BY <1>1, <1>2, <1>3, <1>4, <1>5, <1>6, <1>7 DEF Next

-----------------------------------------------------------------------------
(* Sequences of records. *)

LEMMA LineFacts ==
    ASSUME NEW line \in Line
    PROVE  /\ line.ops \in Seq(Ids) /\ line.pos \in Nat \ {0} /\ line.pos + 1 \in Nat \ {0} /\ line.pos \in Nat
           /\ line.pos <= Len(line.ops) => line.pos \in DOMAIN line.ops /\ line.ops[line.pos] \in Ids
<1>1. line.ops \in Seq(Ids) /\ line.pos \in Nat \ {0}
  BY DEF Line
<1> QED
  BY <1>1, SMTT(30)

\* More may have been passed, and what is earlier than the elements does not change.
LEMMA InOrderKept ==
    ASSUME NEW E, NEW F, NEW q, NEW a, NEW S, NEW T, InOrder(E, q, a, S), S \subseteq T,
           \A i \in a..Len(q) : F[q[i]] = E[q[i]]
    PROVE  InOrder(F, q, a, T)
BY DEF InOrder

\* The first element has been passed.
LEMMA InOrderNext ==
    ASSUME NEW E, NEW V, NEW q \in Seq(V), NEW a \in Nat, NEW S, InOrder(E, q, a, S)
    PROVE  InOrder(E, q, a + 1, S \cup {q[a]})
<1> SUFFICES ASSUME NEW i \in (a + 1)..Len(q)
             PROVE  E[q[i]] \subseteq (S \cup {q[a]}) \cup Span(q, a + 1, i)
  BY DEF InOrder
<1>1. i \in a..Len(q) /\ \A j \in a..(i - 1) : j = a \/ j \in (a + 1)..(i - 1)
  BY SMTT(30)
<1>2. E[q[i]] \subseteq S \cup Span(q, a, i)
  BY <1>1 DEF InOrder
<1>3. Span(q, a, i) \subseteq {q[a]} \cup Span(q, a + 1, i)
  BY <1>1 DEF Span
<1> QED
  BY <1>2, <1>3

LEMMA InOrderAppend ==
    ASSUME NEW E, NEW V, NEW q \in Seq(V), NEW n \in V, NEW S, InOrder(E, q, 1, S),
           E[n] \subseteq S \cup Range(q)
    PROVE  InOrder(E, Append(q, n), 1, S)
<1> DEFINE p == Append(q, n)
<1> SUFFICES ASSUME NEW i \in 1..Len(p)
             PROVE  E[p[i]] \subseteq S \cup Span(p, 1, i)
  BY DEF InOrder
<1>1. /\ Len(p) = Len(q) + 1 /\ p[Len(q) + 1] = n /\ \A j \in 1..Len(q) : p[j] = q[j]
      /\ Len(q) \in Nat /\ DOMAIN q = 1..Len(q)
  BY SMTT(30)
<1> HIDE DEF p
<1>2. CASE i \in 1..Len(q)
  <2>1. \A j \in 1..(i - 1) : p[j] = q[j]
    BY <1>1, <1>2, SMTT(30)
  <2>2. Span(p, 1, i) = Span(q, 1, i)
    BY <2>1 DEF Span
  <2>3. E[q[i]] \subseteq S \cup Span(q, 1, i)
    BY <1>2 DEF InOrder
  <2> QED
    BY <1>1, <1>2, <2>2, <2>3
<1>3. CASE i = Len(q) + 1
  <2>1. \A j \in 1..Len(q) : j \in 1..(i - 1)
    BY <1>1, <1>3, SMTT(30)
  <2>2. Range(q) \subseteq Span(p, 1, i)
    BY <1>1, <2>1 DEF Span, Range
  <2> QED
    BY <1>1, <1>3, <2>2
<1> QED
  BY <1>1, <1>2, <1>3, SMTT(30)

LEMMA Cut ==
    ASSUME NEW V, NEW q \in Seq(V), NEW n \in 1..Len(q)
    PROVE  /\ Len(q) \in Nat /\ DOMAIN q = 1..Len(q)
           /\ SubSeq(q, 1, n) \in Seq(V) /\ Len(SubSeq(q, 1, n)) = n
           /\ DOMAIN SubSeq(q, 1, n) = 1..n
           /\ \A j \in 1..n : SubSeq(q, 1, n)[j] = q[j]
           /\ SubSeq(q, n + 1, Len(q)) \in Seq(V) /\ Len(SubSeq(q, n + 1, Len(q))) = Len(q) - n
           /\ DOMAIN SubSeq(q, n + 1, Len(q)) = 1..(Len(q) - n)
           /\ \A j \in 1..(Len(q) - n) : SubSeq(q, n + 1, Len(q))[j] = q[n + j]
<1>1. Len(q) \in Nat /\ DOMAIN q = 1..Len(q)
  BY SMTT(30)
<1>2. SubSeq(q, 1, n) \in Seq(V) /\ Len(SubSeq(q, 1, n)) = n
  BY SMTT(30)
<1>3. \A j \in 1..n : SubSeq(q, 1, n)[j] = q[j]
  BY SMTT(30)
<1>4. SubSeq(q, n + 1, Len(q)) \in Seq(V) /\ Len(SubSeq(q, n + 1, Len(q))) = Len(q) - n
  BY SMTT(30)
<1>5. \A j \in 1..(Len(q) - n) : SubSeq(q, n + 1, Len(q))[j] = q[n + j]
  BY SMTT(30)
<1>6. DOMAIN SubSeq(q, 1, n) = 1..n
  BY <1>2, SMTT(30)
<1>7. DOMAIN SubSeq(q, n + 1, Len(q)) = 1..(Len(q) - n)
  BY <1>4, SMTT(30)
<1> QED
  BY <1>1, <1>2, <1>3, <1>4, <1>5, <1>6, <1>7

LEMMA CutRange ==
    ASSUME NEW V, NEW q \in Seq(V), NEW n \in 1..Len(q)
    PROVE  /\ Range(q) \subseteq Range(SubSeq(q, 1, n)) \cup Range(SubSeq(q, n + 1, Len(q)))
           /\ Range(SubSeq(q, 1, n)) \subseteq Range(q)
           /\ Range(SubSeq(q, n + 1, Len(q))) \subseteq Range(q)
<1> DEFINE p == SubSeq(q, 1, n)
           t == SubSeq(q, n + 1, Len(q))
<1>1. /\ DOMAIN q = 1..Len(q) /\ DOMAIN p = 1..n /\ DOMAIN t = 1..(Len(q) - n) /\ Len(q) \in Nat
      /\ \A j \in 1..n : p[j] = q[j]
      /\ \A j \in 1..(Len(q) - n) : t[j] = q[n + j]
  BY Cut, SMTT(30)
<1> HIDE DEF p, t
<1>2. \A j \in 1..Len(q) : j \in 1..n \/ (j - n \in 1..(Len(q) - n) /\ n + (j - n) = j)
  BY <1>1, SMTT(30)
<1>3. \A j \in 1..(Len(q) - n) : n + j \in 1..Len(q)
  BY <1>1, SMTT(30)
<1>4. \A j \in 1..n : j \in 1..Len(q)
  BY <1>1, SMTT(30)
<1>5. Range(q) \subseteq Range(p) \cup Range(t)
  <2> SUFFICES ASSUME NEW j \in 1..Len(q) PROVE q[j] \in Range(p) \cup Range(t)
    BY <1>1 DEF Range
  <2>1. CASE j \in 1..n
    BY <1>1, <2>1 DEF Range
  <2>2. CASE j - n \in 1..(Len(q) - n) /\ n + (j - n) = j
    <3>1. t[j - n] = q[j]
      BY <1>1, <2>2
    <3> QED
      BY <1>1, <2>2, <3>1 DEF Range
  <2> QED
    BY <1>2, <2>1, <2>2
<1>6. Range(p) \subseteq Range(q) /\ Range(t) \subseteq Range(q)
  BY <1>1, <1>3, <1>4 DEF Range
<1> QED
  BY <1>5, <1>6 DEF p, t

\* The worker takes the first records of its queue.
LEMMA InOrderCut ==
    ASSUME NEW E, NEW V, NEW q \in Seq(V), NEW n \in 1..Len(q), NEW S, InOrder(E, q, 1, S)
    PROVE  /\ InOrder(E, SubSeq(q, 1, n), 1, S)
           /\ InOrder(E, SubSeq(q, n + 1, Len(q)), 1, S \cup Range(SubSeq(q, 1, n)))
<1> DEFINE p == SubSeq(q, 1, n)
           t == SubSeq(q, n + 1, Len(q))
<1>1. /\ Len(q) \in Nat /\ Len(p) = n /\ Len(t) = Len(q) - n
      /\ DOMAIN p = 1..n
      /\ \A j \in 1..n : p[j] = q[j]
      /\ \A j \in 1..(Len(q) - n) : t[j] = q[n + j]
  BY Cut, SMTT(30)
<1> HIDE DEF p, t
<1>2. ASSUME NEW i \in 1..Len(p) PROVE E[p[i]] \subseteq S \cup Span(p, 1, i)
  <2>1. i \in 1..Len(q) /\ i \in 1..n /\ \A j \in 1..(i - 1) : p[j] = q[j]
    BY <1>1, SMTT(30)
  <2>2. Span(p, 1, i) = Span(q, 1, i)
    BY <2>1 DEF Span
  <2>3. E[q[i]] \subseteq S \cup Span(q, 1, i)
    BY <2>1 DEF InOrder
  <2> QED
    BY <1>1, <2>1, <2>2, <2>3
<1>3. ASSUME NEW i \in 1..Len(t) PROVE E[t[i]] \subseteq (S \cup Range(p)) \cup Span(t, 1, i)
  <2>1. /\ n + i \in 1..Len(q) /\ i \in 1..(Len(q) - n)
        /\ \A j \in 1..((n + i) - 1) : j \in 1..n \/
              (j - n \in 1..(i - 1) /\ j - n \in 1..(Len(q) - n) /\ n + (j - n) = j)
    BY <1>1, SMTT(30)
  <2>2. E[q[n + i]] \subseteq S \cup Span(q, 1, n + i)
    BY <2>1 DEF InOrder
  <2>3. ASSUME NEW j \in 1..((n + i) - 1) PROVE q[j] \in Range(p) \cup Span(t, 1, i)
    <3>1. CASE j \in 1..n
      BY <1>1, <3>1 DEF Range
    <3>2. CASE j - n \in 1..(i - 1) /\ j - n \in 1..(Len(q) - n) /\ n + (j - n) = j
      <4>1. t[j - n] = q[j]
        BY <1>1, <3>2
      <4> QED
        BY <3>2, <4>1 DEF Span
    <3> QED
      BY <2>1, <3>1, <3>2
  <2>4. Span(q, 1, n + i) \subseteq Range(p) \cup Span(t, 1, i)
    BY <2>3 DEF Span
  <2> QED
    BY <1>1, <2>1, <2>2, <2>4
<1> QED
  BY <1>2, <1>3 DEF InOrder, p, t

LEMMA AppendRange ==
    ASSUME NEW V, NEW q \in Seq(V), NEW n \in V
    PROVE  /\ \A k \in Range(Append(q, n)) : k \in Range(q) \/ k = n
           /\ Range(q) \subseteq Range(Append(q, n)) /\ n \in Range(Append(q, n))
<1>1. /\ Len(Append(q, n)) = Len(q) + 1
      /\ \A i \in 1..Len(q) : Append(q, n)[i] = q[i]
      /\ Append(q, n)[Len(q) + 1] = n
      /\ DOMAIN q = 1..Len(q) /\ Len(q) \in Nat
  BY SMTT(30)
<1>2. DOMAIN Append(q, n) = 1..(Len(q) + 1)
  BY <1>1, SMTT(30)
<1> QED
  BY <1>1, <1>2, SMTT(30) DEF Range

-----------------------------------------------------------------------------
(* What is published. *)

\* The next records to publish are behind all published ones of their metrics.
LEMMA Fresh ==
    ASSUME TypeOK, LockInv, NEW h \in Handlers, pc[h] = "replicate", NEW k \in Items(h),
           NEW n \in published, Metric(n) = Metric(k)
    PROVE  n < k
<1>1. ops[h] \in Seq(Ids) /\ start[h] \in Nat \ {0} /\ published \subseteq Ids /\ Ids \subseteq Nat
  BY SMTT(30) DEF TypeOK, Ids
<1>2. DOMAIN ops[h] = 1..Len(ops[h]) /\ Len(ops[h]) \in Nat
  BY <1>1, SMTT(30)
<1>3. PICK i \in Chunk(h) : k = ops[h][i]
  BY DEF Items
<1>4. i \in DOMAIN ops[h] /\ i >= start[h]
  BY <1>1, <1>2, <1>3, SMTT(30) DEF Chunk
<1>5. k \notin published /\ k \in Ids
  BY <1>1, <1>2, <1>3, <1>4, SMTT(30) DEF LockInv
<1>6. ASSUME n > k PROVE FALSE
  <2>1. n \in Range(ops[h])
    BY <1>1, <1>3, <1>4, <1>6 DEF LockInv
  <2>2. PICK j \in DOMAIN ops[h] : n = ops[h][j]
    BY <2>1 DEF Range
  <2>3. j > i
    <3>1. j < i => ops[h][j] < ops[h][i]
      BY <1>4, <2>2 DEF LockInv
    <3> QED
      BY <1>1, <1>2, <1>3, <1>4, <1>5, <1>6, <2>2, <3>1, SMTT(30)
  <2>4. j >= start[h]
    BY <1>1, <1>2, <1>4, <2>3, SMTT(30)
  <2>5. ops[h][j] \notin published
    BY <2>4 DEF LockInv
  <2> QED
    BY <2>2, <2>5
<1>7. n \in Nat /\ k \in Nat /\ n # k
  BY <1>1, <1>5
<1> QED
  BY <1>6, <1>7, SMTT(30)

LEMMA Publishing ==
    ASSUME Step
    PROVE  \/ published' = published
           \/ \E h \in Handlers : PutBatch(h)
<1>1. [Next]_vars
  BY DEF Step
<1>2. ASSUME NEW h \in Handlers, HandlerStep(h) PROVE PutBatch(h) \/ published' = published
  BY <1>2 DEF HandlerStep, Execute, EnqueueFanout, QuorumReached, Reply, Fail, disk
<1>3. ASSUME NEW s \in Shards, FanoutStep(s) PROVE published' = published
  BY <1>3 DEF FanoutStep, FanoutTake, FanoutMove, disk
<1>4. ASSUME NEW r \in Replicas, WorkerStep(r) \/ LineFault(r) PROVE published' = published
  BY <1>4 DEF WorkerStep, LineFault, RecoverRecord, TakeBatch, SendLine, Confirmed, DeleteBatch,
       ExecuteLive, Timeout, Dropped, ExecuteStale, AbandonBatch, disk
<1>5. CASE AbandonRecovery \/ Close \/ Restart \/ UNCHANGED vars
  BY <1>5 DEF AbandonRecovery, Close, Restart, vars, disk
<1> QED
  BY <1>1, <1>2, <1>3, <1>4, <1>5 DEF Next

\* Nothing is published before what already is.
LEMMA EarlierStays ==
    ASSUME Step, LockInv, NEW n \in published
    PROVE  n \in published' /\ earlier'[n] = earlier[n]
<1>1. /\ TypeOK /\ published \subseteq published' /\ published \subseteq Ids
      /\ \A k \in published : Metric(k)' = Metric(k)
  BY LogGrows DEF Step, TypeOK, Metric
<1>2. ASSUME NEW k \in published' \ published, Metric(k)' = Metric(n)'
      PROVE  ~(k < n)
  <2>1. PICK h \in Handlers : PutBatch(h)
    BY <1>2, Publishing
  <2>2. k \in Items(h) /\ pc[h] = "replicate" /\ log' = log
    BY <1>2, <2>1 DEF PutBatch
  <2>3. n < k
    BY <1>1, <1>2, <2>2, Fresh DEF Metric
  <2>4. n \in Nat /\ k \in Nat
    BY <1>1, <2>2, ItemsType, SMTT(30) DEF Ids
  <2> QED
    BY <2>3, <2>4, SMTT(30)
<1>3. {k \in published' : k < n /\ Metric(k)' = Metric(n)'}
        = {k \in published : k < n /\ Metric(k) = Metric(n)}
  BY <1>1, <1>2
<1> QED
  BY <1>1, <1>3 DEF earlier

PublishedTo(r) ==
    /\ Worker(r) \subseteq published /\ recovering[r] \subseteq published
    /\ outbox[r] \subseteq published /\ unsynced[r] \subseteq published
    /\ Range(live[r].ops) \subseteq published
    /\ \A line \in stale[r] : Range(line.ops) \subseteq published
PublishedOn(s) == \A n \in Way(s) : n \in published /\ ShardOf[Metric(n)] = s

\* The parts of a replica's state that records move between.
lane(r) == <<applied[r], batch[r], queue[r], recovering[r], outbox[r], unsynced[r], live[r], stale[r]>>

\* What a step of another actor leaves alone.
LEMMA LaneStays ==
    ASSUME Step, NEW r \in Replicas
    PROVE  /\ \A h \in Handlers : HandlerStep(h) =>
                  \/ UNCHANGED lane(r)
                  \/ Execute(h) \/ PutBatch(h)
           /\ \A s \in Shards : FanoutStep(s) => UNCHANGED lane(r) \/ FanoutMove(s)
           /\ \A q \in Replicas : q # r /\ (WorkerStep(q) \/ LineFault(q)) => UNCHANGED lane(r)
           /\ Close \/ UNCHANGED vars => UNCHANGED lane(r)
<1>1. /\ queue \in [Replicas -> Seq(Ids)] /\ batch \in [Replicas -> Seq(Ids)]
      /\ live \in [Replicas -> Line] /\ stale \in [Replicas -> SUBSET Line]
      /\ applied \in [Replicas -> Seq(Ids)] /\ recovering \in [Replicas -> SUBSET Ids]
      /\ outbox \in [Replicas -> SUBSET Ids] /\ unsynced \in [Replicas -> SUBSET Ids]
  BY DEF Step, TypeOK
<1> USE DEF lane, disk, wire, workerVars
<1>2. ASSUME NEW h \in Handlers, HandlerStep(h), ~Execute(h), ~PutBatch(h) PROVE UNCHANGED lane(r)
  BY <1>2 DEF HandlerStep, EnqueueFanout, QuorumReached, Reply, Fail
<1>3. ASSUME NEW s \in Shards, FanoutTake(s) PROVE UNCHANGED lane(r)
  BY <1>3 DEF FanoutTake
<1>4. ASSUME NEW q \in Replicas, q # r, RecoverRecord(q) \/ TakeBatch(q) \/ SendLine(q) PROVE UNCHANGED lane(r)
  BY <1>1, <1>4 DEF RecoverRecord, TakeBatch, SendLine
<1>5. ASSUME NEW q \in Replicas, q # r, Confirmed(q) \/ DeleteBatch(q) \/ ExecuteLive(q) PROVE UNCHANGED lane(r)
  BY <1>1, <1>5 DEF Confirmed, DeleteBatch, ExecuteLive
<1>6. ASSUME NEW q \in Replicas, q # r, Timeout(q) \/ Dropped(q) \/ ExecuteStale(q) \/ AbandonBatch(q)
      PROVE  UNCHANGED lane(r)
  BY <1>1, <1>6 DEF Timeout, Dropped, ExecuteStale, AbandonBatch
<1>7. CASE Close \/ UNCHANGED vars
  BY <1>7 DEF Close, vars
<1>8. \A q \in Replicas : q # r /\ (WorkerStep(q) \/ LineFault(q)) => UNCHANGED lane(r)
  BY <1>4, <1>5, <1>6 DEF WorkerStep, LineFault
<1>9. \A h \in Handlers : HandlerStep(h) => UNCHANGED lane(r) \/ Execute(h) \/ PutBatch(h)
  BY <1>2
<1>10. \A s \in Shards : FanoutStep(s) => UNCHANGED lane(r) \/ FanoutMove(s)
  BY <1>3 DEF FanoutStep
<1>11. Close \/ UNCHANGED vars => UNCHANGED lane(r)
  BY <1>7
<1> HIDE DEF lane
<1> QED
  BY <1>8, <1>9, <1>10, <1>11

LEMMA StepPublishedTo ==
    ASSUME Step, NEW r \in Replicas, PublishedTo(r), \A s \in Shards : PublishedOn(s)
    PROVE  PublishedTo(r)'
<1> TypeOK /\ TypeOK' /\ [Next]_vars
  BY DEF Step
<1>1. /\ queue \in [Replicas -> Seq(Ids)] /\ batch \in [Replicas -> Seq(Ids)]
      /\ live \in [Replicas -> Line] /\ stale \in [Replicas -> SUBSET Line]
      /\ applied \in [Replicas -> Seq(Ids)] /\ recovering \in [Replicas -> SUBSET Ids]
      /\ outbox \in [Replicas -> SUBSET Ids] /\ unsynced \in [Replicas -> SUBSET Ids]
      /\ moving \in [Shards -> [ops: SUBSET Ids, todo: SUBSET Replicas]]
  BY DEF TypeOK
<1>2. published \subseteq published' /\ published \subseteq Ids
  BY LogGrows DEF TypeOK
<1>3. CASE UNCHANGED lane(r)
  BY <1>2, <1>3 DEF PublishedTo, Worker, lane
<1>4. ASSUME NEW h \in Handlers, Execute(h) \/ PutBatch(h) PROVE PublishedTo(r)'
  <2>1. /\ UNCHANGED <<applied, batch, queue, recovering, live, stale>>
        /\ unsynced'[r] = {} /\ outbox'[r] \subseteq outbox[r] \cup published'
    <3>1. CASE Execute(h)
      BY <1>1, <3>1 DEF Execute, wire, workerVars
    <3>2. CASE PutBatch(h)
      BY <1>1, <3>2 DEF PutBatch, wire, workerVars
    <3> QED
      BY <1>4, <3>1, <3>2
  <2> QED
    BY <1>2, <2>1 DEF PublishedTo, Worker
<1>5. ASSUME NEW s \in Shards, FanoutMove(s) PROVE PublishedTo(r)'
  <2>1. /\ UNCHANGED <<applied, batch, recovering, live, stale, outbox, unsynced>>
        /\ queue'[r] = queue[r] \/ \E n \in moving[s].ops : queue'[r] = Append(queue[r], n)
    BY <1>1, <1>5 DEF FanoutMove, wire, disk
  <2>2. Range(queue'[r]) \subseteq published
    <3>1. ASSUME NEW n \in moving[s].ops PROVE Range(Append(queue[r], n)) \subseteq Range(queue[r]) \cup published
      <4>1. n \in Ids /\ n \in published
        BY <1>1, <1>2 DEF PublishedOn, Way
      <4> QED
        BY <1>1, <4>1, AppendRange, SMTT(30)
    <3> QED
      BY <2>1, <3>1 DEF PublishedTo, Worker
  <2> QED
    BY <1>2, <2>1, <2>2 DEF PublishedTo, Worker
<1>6. CASE RecoverRecord(r)
  <2>1. /\ UNCHANGED <<applied, batch, live, stale, outbox, unsynced>>
        /\ recovering'[r] \subseteq recovering[r]
        /\ \E n \in recovering[r] : queue'[r] = Append(queue[r], n)
    BY <1>1, <1>6 DEF RecoverRecord, wire, disk
  <2>2. PICK n \in recovering[r] : queue'[r] = Append(queue[r], n)
    BY <2>1
  <2>3. n \in Ids /\ n \in published
    BY <1>1, <2>2 DEF PublishedTo
  <2>4. Range(queue'[r]) \subseteq Range(queue[r]) \cup {n}
    BY <1>1, <2>2, <2>3, AppendRange, SMTT(30)
  <2> QED
    BY <1>2, <2>1, <2>3, <2>4 DEF PublishedTo, Worker
<1>7. CASE TakeBatch(r)
  <2>1. /\ UNCHANGED <<applied, live, stale, outbox, unsynced, recovering>>
        /\ \E size \in 1..BatchSize : /\ size <= Len(queue[r])
                                      /\ batch'[r] = SubSeq(queue[r], 1, size)
                                      /\ queue'[r] = SubSeq(queue[r], size + 1, Len(queue[r]))
    BY <1>1, <1>7 DEF TakeBatch, wire, disk
  <2>2. PICK size \in 1..BatchSize : /\ size <= Len(queue[r])
                                     /\ batch'[r] = SubSeq(queue[r], 1, size)
                                     /\ queue'[r] = SubSeq(queue[r], size + 1, Len(queue[r]))
    BY <2>1
  <2>3. size \in 1..Len(queue[r]) /\ queue[r] \in Seq(Ids)
    BY <1>1, <2>2, BoundsAssumption, SMTT(30)
  <2>4. Range(batch'[r]) \subseteq Range(queue[r]) /\ Range(queue'[r]) \subseteq Range(queue[r])
    BY <2>2, <2>3, CutRange
  <2> QED
    BY <1>2, <2>1, <2>4 DEF PublishedTo, Worker
<1>8. CASE SendLine(r)
  <2>1. /\ UNCHANGED <<applied, batch, queue, stale, outbox, unsynced, recovering>>
        /\ live'[r].ops = batch[r]
    BY <1>1, <1>8 DEF SendLine, workerVars, disk
  <2> QED
    BY <1>2, <2>1 DEF PublishedTo, Worker
<1>9. CASE Timeout(r) \/ Dropped(r) \/ Confirmed(r)
  <2>1. /\ UNCHANGED <<applied, batch, queue, outbox, unsynced, recovering>>
        /\ live'[r] = live[r] \/ live'[r] = NoLine
        /\ stale'[r] \subseteq stale[r] \cup {live[r]}
    BY <1>1, <1>9 DEF Timeout, Dropped, Confirmed, workerVars, disk
  <2>2. Range(NoLine.ops) = {}
    BY SMTT(30) DEF NoLine, Range
  <2>3. Range(live'[r].ops) \subseteq published
    BY <2>1, <2>2 DEF PublishedTo
  <2> QED
    BY <1>2, <2>1, <2>3 DEF PublishedTo, Worker
<1>10. CASE DeleteBatch(r) \/ AbandonBatch(r)
  <2>1. /\ UNCHANGED <<applied, live, stale, queue, recovering>>
        /\ outbox'[r] \subseteq outbox[r] /\ unsynced'[r] \subseteq unsynced[r] \cup outbox[r]
        /\ batch'[r] = <<>>
    <3>1. CASE DeleteBatch(r)
      BY <1>1, <3>1 DEF DeleteBatch, wire
    <3>2. CASE AbandonBatch(r)
      BY <1>1, <3>2 DEF AbandonBatch, wire, disk
    <3> QED
      BY <1>10, <3>1, <3>2
  <2>2. Range(<<>>) = {}
    BY SMTT(30) DEF Range
  <2> QED
    BY <1>2, <2>1, <2>2 DEF PublishedTo, Worker
<1>11. ASSUME NEW line \in Line, Range(line.ops) \subseteq published, line.pos <= Len(line.ops),
              applied'[r] = ExecuteItem(applied[r], line.ops[line.pos])
       PROVE  Range(applied'[r]) \subseteq published
  <2>1. line.pos \in DOMAIN line.ops /\ line.ops[line.pos] \in Ids
    BY <1>11, SMTT(30) DEF Line
  <2>2. line.ops[line.pos] \in published
    BY <1>11, <2>1 DEF Range
  <2>3. Range(applied'[r]) = Range(applied[r]) \cup {line.ops[line.pos]}
    BY <1>1, <1>11, <2>1, ItemApplied, SMTT(30)
  <2> QED
    BY <2>2, <2>3 DEF PublishedTo, Worker
<1>12. CASE ExecuteLive(r)
  <2>1. /\ UNCHANGED <<batch, queue, stale, outbox, unsynced, recovering>>
        /\ live'[r].ops = live[r].ops
        /\ live[r].pos <= Len(live[r].ops)
        /\ applied'[r] = ExecuteItem(applied[r], live[r].ops[live[r].pos])
    <3>1. live[r] \in Line
      BY <1>1
    <3> QED
      BY <1>1, <1>12, <3>1 DEF ExecuteLive, workerVars, disk, Line
  <2>2. Range(applied'[r]) \subseteq published
    BY <1>1, <1>11, <2>1 DEF PublishedTo
  <2> QED
    BY <1>2, <2>1, <2>2 DEF PublishedTo, Worker
<1>13. CASE ExecuteStale(r)
  <2>1. PICK line \in stale[r] :
          /\ line.pos <= Len(line.ops)
          /\ applied' = [applied EXCEPT ![r] = ExecuteItem(@, line.ops[line.pos])]
          /\ stale' = [stale EXCEPT ![r] = (@ \ {line}) \cup {[line EXCEPT !.pos = @ + 1]}]
    BY <1>13 DEF ExecuteStale
  <2>2. /\ UNCHANGED <<batch, queue, live, outbox, unsynced, recovering>>
    BY <1>13 DEF ExecuteStale, workerVars, disk
  <2>3. line \in Line /\ applied'[r] = ExecuteItem(applied[r], line.ops[line.pos])
    BY <1>1, <2>1
  <2>4. Range(applied'[r]) \subseteq published
    BY <1>11, <2>1, <2>3 DEF PublishedTo
  <2>5. \A l \in stale'[r] : l \in stale[r] \/ l.ops = line.ops
    BY <1>1, <2>1, <2>3 DEF Line
  <2> QED
    BY <1>2, <2>1, <2>2, <2>4, <2>5 DEF PublishedTo, Worker
<1>14. CASE AbandonRecovery
  BY <1>2, <1>14 DEF AbandonRecovery, PublishedTo, Worker, wire, workerVars, disk
<1>15. CASE Restart
  <2>1. /\ applied' = applied /\ batch'[r] = <<>> /\ queue'[r] = <<>>
        /\ recovering'[r] = outbox'[r] /\ unsynced'[r] = {} /\ outbox'[r] \subseteq outbox[r] \cup unsynced[r]
        /\ live'[r] = NoLine /\ stale'[r] \subseteq stale[r] \cup {live[r]}
    BY <1>1, <1>15 DEF Restart
  <2>2. Range(NoLine.ops) = {} /\ Range(<<>>) = {}
    BY SMTT(30) DEF NoLine, Range
  <2> QED
    BY <1>2, <2>1, <2>2 DEF PublishedTo, Worker
<1>16. CASE WorkerStep(r) \/ LineFault(r)
  BY <1>6, <1>7, <1>8, <1>9, <1>10, <1>12, <1>13, <1>16 DEF WorkerStep, LineFault
<1> QED
  BY <1>3, <1>4, <1>5, <1>14, <1>15, <1>16, LaneStays DEF Next

-----------------------------------------------------------------------------
(* The queue, the batch and the lines of a replica. *)

core(r) == <<applied[r], batch[r], queue[r], recovering[r], live[r], stale[r]>>

LEMMA CoreStays ==
    ASSUME Step, NEW r \in Replicas
    PROVE  \/ UNCHANGED core(r)
           \/ \E s \in Shards : FanoutMove(s)
           \/ WorkerStep(r) \/ LineFault(r) \/ AbandonRecovery \/ Restart
<1> [Next]_vars
  BY DEF Step
<1>1. CASE UNCHANGED lane(r)
  BY <1>1 DEF lane, core
<1>2. ASSUME NEW h \in Handlers, Execute(h) \/ PutBatch(h) PROVE UNCHANGED core(r)
  BY <1>2 DEF Execute, PutBatch, wire, workerVars, core
<1> QED
  BY <1>1, <1>2, LaneStays DEF Next

\* A fanout worker adds its first record to the queue of one replica.
LEMMA Moved ==
    ASSUME Step, ~closing, NEW s \in Shards, FanoutMove(s), NEW r \in Replicas
    PROVE  /\ UNCHANGED <<applied[r], batch[r], recovering[r], live[r], stale[r]>>
           /\ \/ queue'[r] = queue[r]
              \/ \E n \in moving[s].ops : First(moving[s].ops, n) /\ queue'[r] = Append(queue[r], n)
<1>1. queue \in [Replicas -> Seq(Ids)]
  BY DEF Step, TypeOK
<1> QED
  BY <1>1 DEF FanoutMove, wire

LEMMA WorkerGrows ==
    ASSUME Step, NEW r \in Replicas, WorkerInv(r), ~closing
    PROVE  Restart \/ Worker(r) \subseteq Worker(r)'
<1> TypeOK /\ TypeOK' /\ [Next]_vars
  BY DEF Step
<1>1. /\ queue \in [Replicas -> Seq(Ids)] /\ batch \in [Replicas -> Seq(Ids)]
      /\ recovering \in [Replicas -> SUBSET Ids]
      /\ moving \in [Shards -> [ops: SUBSET Ids, todo: SUBSET Replicas]]
  BY DEF TypeOK
<1>2. Range(applied[r]) \subseteq Range(applied'[r])
  BY HasStays DEF Has
<1>3. ASSUME batch'[r] = batch[r], queue'[r] = queue[r] PROVE Worker(r) \subseteq Worker(r)'
  BY <1>2, <1>3 DEF Worker
<1>4. ASSUME batch'[r] = batch[r], NEW n \in Ids, queue'[r] = Append(queue[r], n)
      PROVE  Worker(r) \subseteq Worker(r)'
  <2>1. Range(queue[r]) \subseteq Range(queue'[r])
    BY <1>1, <1>4, AppendRange
  <2> QED
    BY <1>2, <1>4, <2>1 DEF Worker
<1>5. ASSUME NEW s \in Shards, FanoutMove(s) PROVE Worker(r) \subseteq Worker(r)'
  <2>1. moving[s].ops \subseteq Ids
    BY <1>1
  <2>2. /\ batch'[r] = batch[r]
        /\ queue'[r] = queue[r] \/ \E n \in moving[s].ops : queue'[r] = Append(queue[r], n)
    BY <1>5, Moved
  <2> QED
    BY <1>3, <1>4, <2>1, <2>2
<1>6. CASE RecoverRecord(r)
  <2>1. batch'[r] = batch[r] /\ \E n \in recovering[r] : queue'[r] = Append(queue[r], n)
    BY <1>1, <1>6 DEF RecoverRecord
  <2>2. recovering[r] \subseteq Ids
    BY <1>1
  <2> QED
    BY <1>4, <2>1, <2>2
<1>7. CASE TakeBatch(r)
  <2>1. PICK size \in 1..BatchSize : /\ size <= Len(queue[r])
                                     /\ batch'[r] = SubSeq(queue[r], 1, size)
                                     /\ queue'[r] = SubSeq(queue[r], size + 1, Len(queue[r]))
    BY <1>1, <1>7 DEF TakeBatch
  <2>2. size \in 1..Len(queue[r]) /\ queue[r] \in Seq(Ids)
    <3>1. queue[r] \in Seq(Ids) /\ BatchSize \in Nat
      BY <1>1, BoundsAssumption
    <3>2. Len(queue[r]) \in Nat
      BY <3>1, SequenceFacts
    <3> QED
      BY <2>1, <3>1, <3>2, PositionFacts
  <2>3. Range(queue[r]) \subseteq Range(batch'[r]) \cup Range(queue'[r])
    BY <2>1, <2>2, CutRange
  <2>4. Range(batch[r]) = {}
    BY <1>7, SMTT(30) DEF TakeBatch, Range
  <2> QED
    BY <1>2, <2>3, <2>4 DEF Worker
<1>8. CASE DeleteBatch(r)
  <2>1. queue'[r] = queue[r] /\ sent[r]
    BY <1>8 DEF DeleteBatch
  <2>2. Range(batch[r]) \subseteq Range(applied[r])
    BY <2>1 DEF WorkerInv
  <2> QED
    BY <1>2, <2>1, <2>2 DEF Worker
<1>9. CASE SendLine(r) \/ Confirmed(r) \/ ExecuteLive(r) \/ Timeout(r) \/ Dropped(r) \/ ExecuteStale(r)
  BY <1>3, <1>9 DEF SendLine, Confirmed, ExecuteLive, Timeout, Dropped, ExecuteStale, workerVars
<1>10. ~AbandonRecovery /\ ~AbandonBatch(r)
  BY DEF AbandonRecovery, AbandonBatch
<1>11. CASE UNCHANGED core(r)
  BY <1>3, <1>11 DEF core
<1> QED
  BY <1>5, <1>6, <1>7, <1>8, <1>9, <1>10, <1>11, CoreStays DEF WorkerStep, LineFault

LEMMA InOrderLater ==
    ASSUME Step, LockInv, NEW q \in Seq(Ids), Range(q) \subseteq published, NEW a \in Nat \ {0},
           NEW S, NEW T, InOrder(earlier, q, a, S), S \subseteq T
    PROVE  InOrder(earlier', q, a, T)
<1>1. \A i \in a..Len(q) : i \in DOMAIN q
  BY SMTT(30)
<1>2. \A i \in a..Len(q) : q[i] \in published
  BY <1>1 DEF Range
<1>3. \A i \in a..Len(q) : earlier'[q[i]] = earlier[q[i]]
  BY <1>2, EarlierStays
<1> QED
  BY <1>3, InOrderKept

LEMMA EmptyOrder ==
    ASSUME NEW E, NEW S
    PROVE  InOrder(E, <<>>, 1, S)
<1>1. 1..Len(<<>>) = {}
  BY SMTT(30)
<1> QED
  BY <1>1 DEF InOrder

LEMMA LineReady ==
    ASSUME TypeOK, NEW line \in Line, NEW E, NEW S, InOrder(E, line.ops, line.pos, S), line.pos <= Len(line.ops)
    PROVE  E[line.ops[line.pos]] \subseteq S
<1>1. line.ops \in Seq(Ids) /\ line.pos \in Nat \ {0}
  BY DEF Line
<1>2. line.pos \in line.pos..Len(line.ops) /\ line.pos..(line.pos - 1) = {}
  BY <1>1, SMTT(30)
<1> QED
  BY <1>2 DEF InOrder, Span

\* Whatever a replica may still execute, it can execute when it comes to it.
LEMMA StepLines ==
    ASSUME Step, LockInv, NEW r \in Replicas, PublishedTo(r), ~closing, LinesOrder(r), BatchOrder(r)
    PROVE  LinesOrder(r)'
<1>LineLater. ASSUME NEW line \in Line, Range(line.ops) \subseteq published,
                     InOrder(earlier, line.ops, line.pos, Range(applied[r]))
              PROVE  InOrder(earlier', line.ops, line.pos, Range(applied'[r]))
  <2> USE <1>LineLater
  <2>1. line.ops \in Seq(Ids) /\ line.pos \in Nat \ {0}
    BY DEF Line
  <2>2. Range(applied[r]) \subseteq Range(applied'[r])
    BY HasStays DEF Has
  <2> QED
    BY <2>1, <2>2, InOrderLater
\* The replica executes an item of the line.
<1>LineNext. ASSUME NEW line \in Line, Range(line.ops) \subseteq published,
                    InOrder(earlier, line.ops, line.pos, Range(applied[r])),
                    Range(applied'[r]) = Range(applied[r]) \cup {line.ops[line.pos]}
             PROVE  InOrder(earlier', line.ops, line.pos + 1, Range(applied'[r]))
  <2> USE <1>LineNext
  <2>1. line.ops \in Seq(Ids) /\ line.pos \in Nat /\ line.pos + 1 \in Nat \ {0}
    BY LineFacts
  <2>2. InOrder(earlier, line.ops, line.pos + 1, Range(applied[r]) \cup {line.ops[line.pos]})
    BY <2>1, InOrderNext
  <2> QED
    BY <2>1, <2>2, InOrderLater
<1> TypeOK /\ TypeOK' /\ [Next]_vars
  BY DEF Step
<1>1. /\ applied \in [Replicas -> Seq(Ids)] /\ batch \in [Replicas -> Seq(Ids)]
      /\ live \in [Replicas -> Line] /\ stale \in [Replicas -> SUBSET Line]
  BY DEF TypeOK
<1>2. /\ live[r] \in Line /\ Range(live[r].ops) \subseteq published
      /\ InOrder(earlier, live[r].ops, live[r].pos, Range(applied[r]))
  BY <1>1 DEF PublishedTo, LinesOrder
<1>3. ASSUME NEW line \in stale[r]
      PROVE  /\ line \in Line /\ Range(line.ops) \subseteq published
             /\ InOrder(earlier, line.ops, line.pos, Range(applied[r]))
  BY <1>1 DEF PublishedTo, LinesOrder
<1>4. InOrder(earlier', live[r].ops, live[r].pos, Range(applied'[r]))
  BY <1>2, <1>LineLater
<1>5. \A line \in stale[r] : InOrder(earlier', line.ops, line.pos, Range(applied'[r]))
  BY <1>3, <1>LineLater
<1>6. InOrder(earlier', NoLine.ops, NoLine.pos, Range(applied'[r]))
  <2>1. NoLine.ops = <<>> /\ NoLine.pos = 1
    BY DEF NoLine
  <2> QED
    BY <2>1, EmptyOrder
<1>7. ASSUME live'[r] = live[r] \/ live'[r] = NoLine,
             \A line \in stale'[r] : line \in stale[r] \/ line = live[r]
      PROVE  LinesOrder(r)'
  BY <1>4, <1>5, <1>6, <1>7 DEF LinesOrder
<1>8. CASE UNCHANGED core(r)
  BY <1>7, <1>8 DEF core
<1>9. ASSUME NEW s \in Shards, FanoutMove(s) PROVE LinesOrder(r)'
  <2>1. live'[r] = live[r] /\ stale'[r] = stale[r]
    BY <1>9, Moved
  <2> QED
    BY <1>7, <2>1
<1>10. CASE RecoverRecord(r) \/ TakeBatch(r) \/ DeleteBatch(r) \/ AbandonBatch(r) \/ AbandonRecovery
  <2>1. live' = live /\ stale' = stale
    BY <1>10 DEF RecoverRecord, TakeBatch, DeleteBatch, AbandonBatch, AbandonRecovery, wire
  <2> QED
    BY <1>7, <2>1
<1>11. CASE Timeout(r) \/ Dropped(r) \/ Confirmed(r) \/ Restart
  <2>1. /\ live'[r] = live[r] \/ live'[r] = NoLine
        /\ \A line \in stale'[r] : line \in stale[r] \/ line = live[r]
    <3>1. CASE Timeout(r) \/ Dropped(r) \/ Confirmed(r)
      BY <1>1, <3>1 DEF Timeout, Dropped, Confirmed
    <3>2. CASE Restart
      BY <3>2 DEF Restart
    <3> QED
      BY <1>11, <3>1, <3>2
  <2> QED
    BY <1>7, <2>1
<1>12. CASE SendLine(r)
  <2>1. live'[r].ops = batch[r] /\ live'[r].pos = 1 /\ stale' = stale
    BY <1>1, <1>12 DEF SendLine
  <2>2. /\ batch[r] \in Seq(Ids) /\ Range(batch[r]) \subseteq published
        /\ InOrder(earlier, batch[r], 1, Range(applied[r])) /\ Range(applied[r]) \subseteq Range(applied'[r])
    BY <1>1, HasStays DEF PublishedTo, Worker, BatchOrder, Has
  <2>3. InOrder(earlier', batch[r], 1, Range(applied'[r]))
    <3>1. 1 \in Nat \ {0}
      BY PositionFacts
    <3> QED
      BY <2>2, <3>1, InOrderLater
  <2> QED
    BY <1>5, <2>1, <2>3 DEF LinesOrder
<1>13. ASSUME NEW line \in Line, line.pos <= Len(line.ops), Range(line.ops) \subseteq published,
              InOrder(earlier, line.ops, line.pos, Range(applied[r])),
              applied'[r] = ExecuteItem(applied[r], line.ops[line.pos])
       PROVE  InOrder(earlier', line.ops, line.pos + 1, Range(applied'[r]))
  <2>1. line.ops[line.pos] \in Ids
    BY <1>13, LineFacts
  <2>2. Range(applied'[r]) = Range(applied[r]) \cup {line.ops[line.pos]}
    <3>1. applied[r] \in Seq(Ids)
      BY <1>1
    <3>2. \A q \in Seq(Ids), n \in Ids : Range(ExecuteItem(q, n)) = Range(q) \cup {n}
      BY ItemApplied
    <3> QED
      BY <1>13, <2>1, <3>1, <3>2
  <2> QED
    BY <1>13, <2>2, <1>LineNext
<1>14. CASE ExecuteLive(r)
  <2>1. /\ live[r].pos <= Len(live[r].ops) /\ stale' = stale
        /\ applied'[r] = ExecuteItem(applied[r], live[r].ops[live[r].pos])
        /\ live' = [live EXCEPT ![r].pos = @ + 1]
    BY <1>1, <1>14 DEF ExecuteLive
  <2>2. live'[r].ops = live[r].ops /\ live'[r].pos = live[r].pos + 1
    BY <1>1, <1>2, <2>1 DEF Line
  <2>3. InOrder(earlier', live[r].ops, live[r].pos + 1, Range(applied'[r]))
    BY <1>2, <1>13, <2>1
  <2> QED
    BY <1>5, <2>1, <2>2, <2>3 DEF LinesOrder
<1>15. CASE ExecuteStale(r)
  <2>1. PICK line \in stale[r] :
          /\ line.pos <= Len(line.ops)
          /\ applied' = [applied EXCEPT ![r] = ExecuteItem(@, line.ops[line.pos])]
          /\ stale' = [stale EXCEPT ![r] = (@ \ {line}) \cup {[line EXCEPT !.pos = @ + 1]}]
    BY <1>15 DEF ExecuteStale
  <2> DEFINE next == [line EXCEPT !.pos = @ + 1]
  <2>2. /\ live' = live /\ applied'[r] = ExecuteItem(applied[r], line.ops[line.pos])
        /\ \A l \in stale'[r] : l \in stale[r] \/ l = next
    BY <1>1, <1>15, <2>1 DEF ExecuteStale
  <2>3. next.ops = line.ops /\ next.pos = line.pos + 1
    BY <1>3 DEF Line
  <2> HIDE DEF next
  <2>4. InOrder(earlier', next.ops, next.pos, Range(applied'[r]))
    BY <1>3, <1>13, <2>1, <2>2, <2>3
  <2> QED
    BY <1>4, <1>5, <2>2, <2>4 DEF LinesOrder
<1> QED
  BY <1>8, <1>9, <1>10, <1>11, <1>12, <1>14, <1>15, CoreStays DEF WorkerStep, LineFault

LEMMA StepQueue ==
    ASSUME Step, LockInv, NEW r \in Replicas, PublishedTo(r), \A s \in Shards : PublishedOn(s),
           WorkerInv(r), ~closing, BatchOrder(r), QueueOrder(r), RecoveryOrder(r),
           \A s \in Shards : MovingOrder(r, s)
    PROVE  BatchOrder(r)' /\ QueueOrder(r)'
\* The first of some records waits for none of the others.
<1>FirstReady. ASSUME TypeOK, NEW n \in published, NEW T, T \subseteq Ids, First(T, n), NEW W,
                      earlier[n] \subseteq W \cup T
               PROVE  earlier[n] \subseteq W
  <2> USE <1>FirstReady
  <2> SUFFICES ASSUME NEW k \in earlier[n], k \in T PROVE FALSE
    OBVIOUS
  <2>1. k < n /\ k \in published
    BY DEF earlier
  <2>2. n <= k /\ n \in Nat /\ k \in Nat
    BY <2>1, IdsNat DEF First, TypeOK
  <2> QED
    BY <2>1, <2>2, SMTT(30)
\* A record enters the queue after what is earlier.
<1>QueueAppend. ASSUME NEW n \in published,
                       earlier[n] \subseteq Worker(r), applied'[r] = applied[r], batch'[r] = batch[r],
                       queue'[r] = Append(queue[r], n)
                PROVE  QueueOrder(r)'
  <2> USE <1>QueueAppend
  <2> DEFINE S == Range(applied[r]) \cup Range(batch[r])
  <2>1. /\ queue[r] \in Seq(Ids) /\ n \in Ids /\ queue'[r] \in Seq(Ids') /\ published \subseteq Ids
        /\ InOrder(earlier, queue[r], 1, S) /\ earlier[n] \subseteq S \cup Range(queue[r])
    BY DEF Step, TypeOK, QueueOrder, Worker
  <2> HIDE DEF S
  <2>2. InOrder(earlier, Append(queue[r], n), 1, S)
    BY <2>1, InOrderAppend
  <2>3. Range(Append(queue[r], n)) \subseteq published
    <3>1. \A k \in Range(Append(queue[r], n)) : k \in Range(queue[r]) \/ k = n
      BY <2>1, AppendRange
    <3> QED
      BY <3>1 DEF PublishedTo, Worker
  <2>4. Append(queue[r], n) \in Seq(Ids) /\ 1 \in Nat \ {0} /\ S \subseteq S
    BY <2>1, SequenceFacts, PositionFacts
  <2>5. InOrder(earlier', Append(queue[r], n), 1, S)
    BY <2>2, <2>3, <2>4, InOrderLater
  <2> QED
    BY <2>5 DEF QueueOrder, S
<1> TypeOK /\ TypeOK' /\ [Next]_vars
  BY DEF Step
<1>1. /\ queue \in [Replicas -> Seq(Ids)] /\ batch \in [Replicas -> Seq(Ids)]
      /\ recovering \in [Replicas -> SUBSET Ids]
      /\ moving \in [Shards -> [ops: SUBSET Ids, todo: SUBSET Replicas]]
  BY DEF TypeOK
<1>2. /\ Range(applied[r]) \subseteq Range(applied'[r])
      /\ Range(batch[r]) \subseteq published /\ Range(queue[r]) \subseteq published
  BY HasStays DEF Has, PublishedTo, Worker
<1>3. batch[r] \in Seq(Ids) /\ queue[r] \in Seq(Ids) /\ 1 \in Nat \ {0}
  BY <1>1, PositionFacts
<1>4. ASSUME batch'[r] = batch[r] PROVE BatchOrder(r)'
  <2>1. InOrder(earlier', batch[r], 1, Range(applied'[r]))
    BY <1>2, <1>3, InOrderLater DEF BatchOrder
  <2> QED
    BY <1>4, <2>1 DEF BatchOrder
<1>5. ASSUME queue'[r] = queue[r], Range(batch[r]) \subseteq Range(applied'[r]) \cup Range(batch'[r])
      PROVE  QueueOrder(r)'
  <2>1. Range(applied[r]) \cup Range(batch[r]) \subseteq Range(applied'[r]) \cup Range(batch'[r])
    BY <1>2, <1>5
  <2>2. InOrder(earlier', queue[r], 1, Range(applied'[r]) \cup Range(batch'[r]))
    BY <1>2, <1>3, <2>1, InOrderLater DEF QueueOrder
  <2> QED
    BY <1>5, <2>2 DEF QueueOrder
<1>6. ASSUME batch'[r] = batch[r], queue'[r] = queue[r] PROVE BatchOrder(r)' /\ QueueOrder(r)'
  BY <1>4, <1>5, <1>6
<1>7. CASE UNCHANGED core(r)
  BY <1>6, <1>7 DEF core
<1>8. ASSUME NEW s \in Shards, FanoutMove(s) PROVE BatchOrder(r)' /\ QueueOrder(r)'
  <2>1. /\ applied'[r] = applied[r] /\ batch'[r] = batch[r]
        /\ \/ queue'[r] = queue[r]
           \/ \E n \in moving[s].ops : First(moving[s].ops, n) /\ queue'[r] = Append(queue[r], n)
    BY <1>8, Moved
  <2>2. ASSUME NEW n \in moving[s].ops, First(moving[s].ops, n), queue'[r] = Append(queue[r], n)
        PROVE  QueueOrder(r)'
    <3>1. n \in published /\ moving[s].ops \subseteq Ids /\ earlier[n] \subseteq Worker(r) \cup moving[s].ops
      BY <1>1 DEF PublishedOn, Way, MovingOrder
    <3>2. earlier[n] \subseteq Worker(r)
      <4> DEFINE T == moving[s].ops
      <4>1. T \subseteq Ids /\ First(T, n) /\ earlier[n] \subseteq Worker(r) \cup T
        BY <2>2, <3>1
      <4> HIDE DEF T
      <4> QED
        BY <3>1, <4>1, <1>FirstReady
    <3> QED
      BY <2>1, <2>2, <3>1, <3>2, <1>QueueAppend
  <2> QED
    BY <1>4, <1>6, <2>1, <2>2
<1>9. CASE RecoverRecord(r)
  <2>1. /\ applied'[r] = applied[r] /\ batch'[r] = batch[r]
        /\ \E n \in recovering[r] : First(recovering[r], n) /\ queue'[r] = Append(queue[r], n)
    BY <1>1, <1>9 DEF RecoverRecord
  <2>2. PICK n \in recovering[r] : First(recovering[r], n) /\ queue'[r] = Append(queue[r], n)
    BY <2>1
  <2>3. n \in published /\ recovering[r] \subseteq Ids /\ earlier[n] \subseteq Worker(r) \cup recovering[r]
    BY <1>1 DEF PublishedTo, RecoveryOrder
  <2>4. earlier[n] \subseteq Worker(r)
    BY <2>2, <2>3, <1>FirstReady
  <2>5. QueueOrder(r)'
    BY <2>1, <2>2, <2>3, <2>4, <1>QueueAppend
  <2> QED
    BY <1>4, <2>1, <2>5
<1>10. CASE TakeBatch(r)
  <2>1. PICK size \in 1..BatchSize : /\ size <= Len(queue[r])
                                     /\ batch'[r] = SubSeq(queue[r], 1, size)
                                     /\ queue'[r] = SubSeq(queue[r], size + 1, Len(queue[r]))
    BY <1>1, <1>10 DEF TakeBatch
  <2>2. size \in 1..Len(queue[r])
    <3>1. BatchSize \in Nat /\ Len(queue[r]) \in Nat
      BY <1>3, BoundsAssumption, SequenceFacts
    <3> QED
      BY <2>1, <3>1, PositionFacts
  <2>3. Range(batch[r]) = {} /\ applied' = applied
    BY <1>10, SMTT(30) DEF TakeBatch, Range
  <2>4. InOrder(earlier, queue[r], 1, Range(applied[r]))
    <3>1. Range(applied[r]) \cup Range(batch[r]) = Range(applied[r])
      BY <2>3
    <3> QED
      BY <3>1 DEF QueueOrder
  <2>5. /\ InOrder(earlier, batch'[r], 1, Range(applied[r]))
        /\ InOrder(earlier, queue'[r], 1, Range(applied[r]) \cup Range(batch'[r]))
    <3>1. /\ InOrder(earlier, SubSeq(queue[r], 1, size), 1, Range(applied[r]))
          /\ InOrder(earlier, SubSeq(queue[r], size + 1, Len(queue[r])), 1,
                     Range(applied[r]) \cup Range(SubSeq(queue[r], 1, size)))
      BY <1>3, <2>2, <2>4, InOrderCut
    <3> QED
      BY <2>1, <3>1
  <2>6. /\ Range(batch'[r]) \subseteq published /\ Range(queue'[r]) \subseteq published
        /\ batch'[r] \in Seq(Ids) /\ queue'[r] \in Seq(Ids)
    <3>1. Range(batch'[r]) \subseteq Range(queue[r]) /\ Range(queue'[r]) \subseteq Range(queue[r])
      BY <1>3, <2>1, <2>2, CutRange
    <3>2. SubSeq(queue[r], 1, size) \in Seq(Ids) /\ SubSeq(queue[r], size + 1, Len(queue[r])) \in Seq(Ids)
      BY <1>3, <2>2, Cut
    <3>3. batch'[r] \in Seq(Ids) /\ queue'[r] \in Seq(Ids)
      BY <2>1, <3>2
    <3> QED
      BY <1>2, <3>1, <3>3
  <2>7. /\ InOrder(earlier', batch'[r], 1, Range(applied[r]))
        /\ InOrder(earlier', queue'[r], 1, Range(applied[r]) \cup Range(batch'[r]))
    BY <1>3, <2>5, <2>6, InOrderLater
  <2> QED
    BY <2>3, <2>7 DEF BatchOrder, QueueOrder
<1>11. CASE DeleteBatch(r)
  <2>1. batch'[r] = <<>> /\ queue'[r] = queue[r] /\ Range(batch[r]) \subseteq Range(applied[r])
    BY <1>1, <1>11 DEF DeleteBatch, WorkerInv
  <2> QED
    BY <1>2, <1>5, <2>1, EmptyOrder DEF BatchOrder
<1>12. CASE SendLine(r) \/ Confirmed(r) \/ ExecuteLive(r) \/ Timeout(r) \/ Dropped(r) \/ ExecuteStale(r)
  BY <1>6, <1>12 DEF SendLine, Confirmed, ExecuteLive, Timeout, Dropped, ExecuteStale, workerVars
<1>13. ~AbandonRecovery /\ ~AbandonBatch(r)
  BY DEF AbandonRecovery, AbandonBatch
<1>14. CASE Restart
  <2>1. batch'[r] = <<>> /\ queue'[r] = <<>>
    BY <1>14 DEF Restart
  <2> QED
    BY <2>1, EmptyOrder DEF BatchOrder, QueueOrder
<1> QED
  BY <1>7, <1>8, <1>9, <1>10, <1>11, <1>12, <1>13, <1>14, CoreStays DEF WorkerStep, LineFault

\* Recovery starts from an outbox that holds whatever the replica lacks.
LEMMA StepRecovery ==
    ASSUME Step, LockInv, NEW r \in Replicas, PublishedTo(r), \A s \in Shards : PublishedOn(s),
           OutboxInv, WorkerInv(r), ~closing, RecoveryOrder(r)
    PROVE  /\ RecoveryOrder(r)'
           /\ Restart \/ recovering[r] \subseteq Worker(r)' \cup recovering'[r]
           /\ Restart => published \subseteq Worker(r)' \cup recovering'[r]
<1> TypeOK /\ TypeOK' /\ [Next]_vars
  BY DEF Step
<1>1. /\ queue \in [Replicas -> Seq(Ids)] /\ recovering \in [Replicas -> SUBSET Ids]
      /\ outbox \in [Replicas -> SUBSET Ids]
  BY DEF TypeOK
<1>2. Restart \/ Worker(r) \subseteq Worker(r)'
  BY WorkerGrows
<1>3. ASSUME ~Restart, recovering'[r] \subseteq recovering[r],
             recovering[r] \subseteq Worker(r)' \cup recovering'[r]
      PROVE  RecoveryOrder(r)'
  <2> SUFFICES ASSUME NEW n \in recovering'[r]
               PROVE  earlier'[n] \subseteq Worker(r)' \cup recovering'[r]
    BY DEF RecoveryOrder
  <2>1. n \in recovering[r] /\ n \in published
    BY <1>3 DEF PublishedTo
  <2>2. earlier'[n] = earlier[n] /\ earlier[n] \subseteq Worker(r) \cup recovering[r]
    BY <2>1, EarlierStays DEF RecoveryOrder
  <2> QED
    BY <1>2, <1>3, <2>2
<1>4. ASSUME recovering'[r] = recovering[r]
      PROVE  /\ ~Restart => RecoveryOrder(r)'
             /\ recovering[r] \subseteq Worker(r)' \cup recovering'[r]
  BY <1>3, <1>4
<1>5. CASE Restart
  <2>1. recovering'[r] = outbox'[r] /\ outbox[r] \subseteq outbox'[r] /\ published' = published
    BY <1>1, <1>5 DEF Restart
  <2>2. ASSUME NEW k \in published PROVE k \in Worker(r)' \cup recovering'[r]
    <3>1. Has(r, k)' \/ k \in outbox[r]
      BY HasStays DEF OutboxInv
    <3> QED
      BY <2>1, <3>1 DEF Has, Worker
  <2>3. ASSUME NEW n \in recovering'[r] PROVE earlier'[n] \subseteq Worker(r)' \cup recovering'[r]
    <3>1. n \in published'
      <4>1. PublishedTo(r)'
        BY StepPublishedTo
      <4> QED
        BY <4>1 DEF PublishedTo
    <3>2. earlier'[n] \subseteq published'
      BY <3>1 DEF earlier
    <3> QED
      BY <2>1, <2>2, <3>2
  <2> QED
    BY <1>5, <2>2, <2>3 DEF RecoveryOrder
<1>6. CASE RecoverRecord(r)
  <2>1. PICK n \in recovering[r] :
          queue'[r] = Append(queue[r], n) /\ recovering'[r] = recovering[r] \ {n}
    BY <1>1, <1>6 DEF RecoverRecord
  <2>2. queue[r] \in Seq(Ids) /\ n \in Ids
    BY <1>1, <2>1
  <2>3. n \in Range(queue'[r])
    <3>1. n \in Range(Append(queue[r], n))
      BY <2>2, AppendRange
    <3> QED
      BY <2>1, <3>1
  <2>4. n \in Worker(r)'
    BY <2>3 DEF Worker
  <2>5. recovering[r] \subseteq Worker(r)' \cup recovering'[r]
    BY <2>1, <2>4
  <2> QED
    BY <1>3, <1>5, <2>1, <2>5
<1>7. ASSUME NEW s \in Shards, FanoutMove(s) PROVE recovering'[r] = recovering[r]
  BY <1>7 DEF FanoutMove
<1>8. ASSUME WorkerStep(r) \/ LineFault(r), ~RecoverRecord(r) PROVE recovering'[r] = recovering[r]
  BY <1>8 DEF WorkerStep, LineFault, TakeBatch, SendLine, Confirmed, DeleteBatch,
       ExecuteLive, Timeout, Dropped, ExecuteStale, AbandonBatch
<1>9. ~AbandonRecovery
  BY DEF AbandonRecovery
<1>10. CASE UNCHANGED core(r)
  <2>1. recovering'[r] = recovering[r]
    BY <1>10 DEF core
  <2> QED
    BY <1>4, <1>5, <2>1
<1> QED
  BY <1>4, <1>5, <1>6, <1>7, <1>8, <1>9, <1>10, CoreStays

\* A replica applies nothing twice, and nothing before what is earlier.
LEMMA StepApplied ==
    ASSUME Step, LockInv, NEW r \in Replicas, PublishedTo(r), AppliedOrder(r),
           closes = 0 => LinesOrder(r), closes' = 0 => closes = 0
    PROVE  AppliedOrder(r)'
<1> TypeOK /\ TypeOK' /\ [Next]_vars
  BY DEF Step
<1>1. /\ applied \in [Replicas -> Seq(Ids)] /\ live \in [Replicas -> Line]
      /\ stale \in [Replicas -> SUBSET Line] /\ published \subseteq Ids
  BY DEF TypeOK
<1>2. applied[r] \in Seq(Ids) /\ Range(applied[r]) \subseteq published /\ 1 \in Nat \ {0}
  <2>1. applied[r] \in Seq(Ids) /\ Range(applied[r]) \subseteq published
    BY <1>1 DEF PublishedTo, Worker
  <2> QED
    BY <2>1, PositionFacts
<1>3. CASE applied'[r] = applied[r]
  <2>1. closes' = 0 => InOrder(earlier', applied[r], 1, {})
    <3>1. closes' = 0 => InOrder(earlier, applied[r], 1, {})
      BY DEF AppliedOrder
    <3> QED
      BY <1>2, <3>1, InOrderLater, SMTT(30)
  <2> QED
    BY <1>3, <2>1 DEF AppliedOrder
<1>4. ASSUME NEW n \in published, n \notin Range(applied[r]), applied'[r] = Append(applied[r], n),
             closes = 0 => earlier[n] \subseteq Range(applied[r])
      PROVE  AppliedOrder(r)'
  <2> DEFINE q == applied[r]
             p == Append(q, n)
  <2>1. /\ DOMAIN q = 1..Len(q) /\ Len(q) \in Nat /\ p \in Seq(Ids) /\ Len(p) = Len(q) + 1
        /\ DOMAIN p = 1..(Len(q) + 1)
        /\ p[Len(q) + 1] = n /\ \A i \in 1..Len(q) : p[i] = q[i]
    <3>1. n \in Ids /\ q \in Seq(Ids)
      BY <1>1, <1>2, <1>4
    <3>2. /\ DOMAIN q = 1..Len(q) /\ Len(q) \in Nat /\ p \in Seq(Ids) /\ Len(p) = Len(q) + 1
          /\ p[Len(q) + 1] = n /\ \A i \in 1..Len(q) : p[i] = q[i]
      BY <3>1, SMTT(30)
    <3>3. DOMAIN p = 1..(Len(q) + 1)
      BY <3>1, <3>2, SMTT(30)
    <3> QED
      BY <3>2, <3>3
  <2>2. /\ q = applied[r] /\ p = applied'[r] /\ p = Append(q, n)
        /\ \A i, j \in DOMAIN q : i < j => q[i] # q[j]
    BY <1>4 DEF AppliedOrder
  <2> HIDE DEF q, p
  <2>3. ASSUME NEW i \in DOMAIN p, NEW j \in DOMAIN p, i < j PROVE p[i] # p[j]
    <3>1. i \in DOMAIN q /\ (j \in DOMAIN q \/ j = Len(q) + 1)
      BY <2>1, <2>3, SMTT(30)
    <3>2. q[i] \in Range(q)
      BY <3>1 DEF Range
    <3>3. CASE j \in DOMAIN q
      <4>1. p[i] = q[i] /\ p[j] = q[j]
        BY <2>1, <3>1, <3>3
      <4>2. q[i] # q[j]
        BY <2>2, <2>3, <3>1, <3>3
      <4> QED
        BY <4>1, <4>2
    <3>4. CASE j = Len(q) + 1
      BY <1>4, <2>1, <2>2, <3>1, <3>2, <3>4
    <3> QED
      BY <3>1, <3>3, <3>4
  <2>4. ASSUME closes' = 0 PROVE InOrder(earlier', p, 1, {})
    <3>1. q \in Seq(Ids) /\ n \in Ids /\ InOrder(earlier, q, 1, {}) /\ earlier[n] \subseteq {} \cup Range(q)
      BY <1>1, <1>2, <1>4, <2>2, <2>4 DEF AppliedOrder
    <3>2. InOrder(earlier, p, 1, {})
      <4>1. InOrder(earlier, Append(q, n), 1, {})
        BY <3>1, InOrderAppend
      <4> QED
        BY <2>2, <4>1
    <3>3. Range(p) \subseteq published
      <4>1. \A k \in Range(p) : k \in Range(q) \/ k = n
        BY <2>2, <3>1, AppendRange
      <4> QED
        BY <1>2, <1>4, <2>2, <4>1
    <3> QED
      BY <1>2, <2>1, <3>2, <3>3, InOrderLater, PositionFacts
  <2> QED
    BY <2>2, <2>3, <2>4 DEF AppliedOrder
<1>5. ASSUME NEW line \in Line, line.pos <= Len(line.ops), Range(line.ops) \subseteq published,
             closes = 0 => InOrder(earlier, line.ops, line.pos, Range(applied[r])),
             applied'[r] = ExecuteItem(applied[r], line.ops[line.pos])
      PROVE  AppliedOrder(r)'
  <2>1. line.pos \in DOMAIN line.ops
    BY <1>5, LineFacts
  <2>2. line.ops[line.pos] \in published
    BY <1>5, <2>1 DEF Range
  <2>3. closes = 0 => earlier[line.ops[line.pos]] \subseteq Range(applied[r])
    BY <1>5, LineReady
  <2> QED
    BY <1>3, <1>4, <1>5, <2>2, <2>3 DEF ExecuteItem
<1>6. CASE ExecuteLive(r)
  <2>1. /\ live[r] \in Line /\ live[r].pos <= Len(live[r].ops)
        /\ applied'[r] = ExecuteItem(applied[r], live[r].ops[live[r].pos])
    BY <1>1, <1>6 DEF ExecuteLive
  <2> QED
    BY <1>5, <2>1 DEF PublishedTo, LinesOrder
<1>7. CASE ExecuteStale(r)
  <2>1. PICK line \in stale[r] :
          /\ line.pos <= Len(line.ops)
          /\ applied' = [applied EXCEPT ![r] = ExecuteItem(@, line.ops[line.pos])]
    BY <1>7 DEF ExecuteStale
  <2>2. line \in Line /\ applied'[r] = ExecuteItem(applied[r], line.ops[line.pos])
    BY <1>1, <2>1
  <2> QED
    BY <1>5, <2>1, <2>2 DEF PublishedTo, LinesOrder
<1> QED
  BY <1>3, <1>6, <1>7, AppliedChanges

-----------------------------------------------------------------------------
(* The fanout queues and their workers. *)

LEMMA TailRange ==
    ASSUME NEW V, NEW q \in Seq(V), q # <<>>
    PROVE  /\ Head(q) \in V /\ Tail(q) \in Seq(V) /\ Head(q) = q[1]
           /\ Len(Tail(q)) = Len(q) - 1 /\ Len(q) \in Nat
           /\ DOMAIN q = 1..Len(q) /\ DOMAIN Tail(q) = 1..(Len(q) - 1) /\ 1 \in 1..Len(q)
           /\ \A i \in 1..(Len(q) - 1) : Tail(q)[i] = q[i + 1] /\ i + 1 \in 1..Len(q)
           /\ \A i \in 1..Len(q) : i = 1 \/ (i - 1 \in 1..(Len(q) - 1) /\ q[i] = Tail(q)[i - 1])
<1>1. Head(q) \in V /\ Tail(q) \in Seq(V) /\ Len(Tail(q)) = Len(q) - 1 /\ Len(q) \in Nat /\ Len(q) > 0
  BY SMTT(30)
<1>2. \A i \in 1..(Len(q) - 1) : Tail(q)[i] = q[i + 1]
  BY <1>1, SMTT(30)
<1>3. DOMAIN q = 1..Len(q) /\ DOMAIN Tail(q) = 1..(Len(q) - 1) /\ Head(q) = q[1]
  BY <1>1, SMTT(30)
<1>4. \A i \in 1..Len(q) : i = 1 \/ (i - 1 \in 1..(Len(q) - 1) /\ i = (i - 1) + 1)
  BY <1>1, SMTT(30)
<1>5. \A i \in 1..(Len(q) - 1) : i + 1 \in 1..Len(q)
  BY <1>1, SMTT(30)
<1>6. 1 \in 1..Len(q)
  BY <1>1, SMTT(30)
<1> QED
  BY <1>1, <1>2, <1>3, <1>4, <1>5, <1>6

LEMMA WayStays ==
    ASSUME Step, NEW s \in Shards
    PROVE  /\ \A h \in Handlers : HandlerStep(h) =>
                  UNCHANGED <<fanout[s], moving[s]>> \/ EnqueueFanout(h)
           /\ \A q \in Shards : q # s /\ FanoutStep(q) => UNCHANGED <<fanout[s], moving[s]>>
           /\ \A r \in Replicas : WorkerStep(r) \/ LineFault(r) => UNCHANGED <<fanout[s], moving[s]>>
           /\ AbandonRecovery \/ Close \/ UNCHANGED vars => UNCHANGED <<fanout[s], moving[s]>>
<1>1. /\ fanout \in [Shards -> Seq(SUBSET Ids)]
      /\ moving \in [Shards -> [ops: SUBSET Ids, todo: SUBSET Replicas]]
  BY DEF Step, TypeOK
<1> USE DEF fanoutVars
<1>2. ASSUME NEW h \in Handlers, HandlerStep(h) PROVE UNCHANGED <<fanout[s], moving[s]>> \/ EnqueueFanout(h)
  BY <1>2 DEF HandlerStep, Execute, PutBatch, QuorumReached, Reply, Fail
<1>3. ASSUME NEW q \in Shards, q # s, FanoutStep(q) PROVE UNCHANGED <<fanout[s], moving[s]>>
  BY <1>1, <1>3 DEF FanoutStep, FanoutTake, FanoutMove
<1>4. ASSUME NEW r \in Replicas, WorkerStep(r) \/ LineFault(r) PROVE UNCHANGED <<fanout[s], moving[s]>>
  BY <1>4 DEF WorkerStep, LineFault, RecoverRecord, TakeBatch, SendLine, Confirmed, DeleteBatch,
       ExecuteLive, Timeout, Dropped, ExecuteStale, AbandonBatch
<1>5. CASE AbandonRecovery \/ Close \/ UNCHANGED vars
  BY <1>5 DEF AbandonRecovery, Close, vars
<1> QED
  BY <1>2, <1>3, <1>4, <1>5

LEMMA WayIs ==
    ASSUME NEW s
    PROVE  /\ \A n \in Way(s) : n \in moving[s].ops \/ \E i \in DOMAIN fanout[s] : n \in fanout[s][i]
           /\ moving[s].ops \subseteq Way(s) /\ \A i \in DOMAIN fanout[s] : fanout[s][i] \subseteq Way(s)
BY DEF Way, Range

LEMMA WayNext ==
    ASSUME NEW s
    PROVE  /\ \A n \in Way(s)' : n \in moving'[s].ops \/ \E i \in DOMAIN fanout'[s] : n \in fanout'[s][i]
           /\ moving'[s].ops \subseteq Way(s)'
           /\ \A i \in DOMAIN fanout'[s] : fanout'[s][i] \subseteq Way(s)'
BY DEF Way, Range

\* A group of records enters a fanout queue.
LEMMA Enqueued ==
    ASSUME Step, NEW h \in Handlers, EnqueueFanout(h)
    PROVE  \E m \in pending[h] :
              /\ ShardOf[m] \in Shards
              /\ fanout' = [fanout EXCEPT ![ShardOf[m]] = Append(@, Group(h, m))]
              /\ pending' = [pending EXCEPT ![h] = @ \ {m}]
              /\ Group(h, m) \subseteq Ids
<1>1. pending[h] \subseteq Metrics /\ TypeOK
  BY DEF Step, TypeOK
<1> QED
  BY <1>1, ItemsType, ShardAssumption DEF EnqueueFanout

\* The groups of a fanout queue after one was added.
LEMMA GroupAdded ==
    ASSUME Step, NEW s \in Shards, NEW G, G \subseteq Ids, fanout'[s] = Append(fanout[s], G)
    PROVE  /\ Len(fanout[s]) \in Nat /\ DOMAIN fanout[s] = 1..Len(fanout[s])
           /\ DOMAIN fanout'[s] = 1..(Len(fanout[s]) + 1)
           /\ \A i \in DOMAIN fanout[s] : fanout'[s][i] = fanout[s][i]
           /\ fanout'[s][Len(fanout[s]) + 1] = G
<1>1. fanout[s] \in Seq(SUBSET Ids)
  BY DEF Step, TypeOK
<1>2. /\ Len(fanout[s]) \in Nat /\ DOMAIN fanout[s] = 1..Len(fanout[s])
      /\ Len(fanout'[s]) = Len(fanout[s]) + 1
      /\ \A i \in 1..Len(fanout[s]) : fanout'[s][i] = fanout[s][i]
      /\ fanout'[s][Len(fanout[s]) + 1] = G
  BY <1>1, SMTT(30)
<1>3. DOMAIN fanout'[s] = 1..(Len(fanout[s]) + 1)
  BY <1>1, <1>2, SMTT(30)
<1> QED
  BY <1>2, <1>3

\* The first group of a fanout queue is taken.
LEMMA GroupTaken ==
    ASSUME Step, NEW s \in Shards, FanoutTake(s)
    PROVE  /\ moving[s].ops = {} /\ moving'[s].ops = fanout[s][1] /\ moving'[s].todo = Replicas
           /\ DOMAIN fanout[s] = 1..Len(fanout[s]) /\ 1 \in DOMAIN fanout[s] /\ Len(fanout[s]) \in Nat
           /\ DOMAIN fanout'[s] = 1..(Len(fanout[s]) - 1)
           /\ \A i \in DOMAIN fanout'[s] : i + 1 \in DOMAIN fanout[s] /\ fanout'[s][i] = fanout[s][i + 1]
           /\ \A i \in DOMAIN fanout[s] :
                 i = 1 \/ (i - 1 \in DOMAIN fanout'[s] /\ fanout'[s][i - 1] = fanout[s][i])
<1>1. /\ fanout \in [Shards -> Seq(SUBSET Ids)]
      /\ moving \in [Shards -> [ops: SUBSET Ids, todo: SUBSET Replicas]]
  BY DEF Step, TypeOK
<1>2. /\ moving[s].ops = {} /\ fanout[s] # <<>> /\ fanout[s] \in Seq(SUBSET Ids)
      /\ moving'[s] = [ops |-> Head(fanout[s]), todo |-> Replicas]
      /\ fanout'[s] = Tail(fanout[s])
  BY <1>1 DEF FanoutTake
<1> DEFINE q == fanout[s]
<1>3. /\ Head(q) = q[1] /\ Len(q) \in Nat
      /\ DOMAIN q = 1..Len(q) /\ DOMAIN Tail(q) = 1..(Len(q) - 1) /\ 1 \in 1..Len(q)
      /\ \A i \in 1..(Len(q) - 1) : Tail(q)[i] = q[i + 1] /\ i + 1 \in 1..Len(q)
      /\ \A i \in 1..Len(q) : i = 1 \/ (i - 1 \in 1..(Len(q) - 1) /\ q[i] = Tail(q)[i - 1])
  BY <1>2, TailRange
<1> HIDE DEF q
<1>4. /\ moving'[s].ops = q[1] /\ moving'[s].todo = Replicas /\ fanout'[s] = Tail(q) /\ q = fanout[s]
  BY <1>2, <1>3, SMTT(30) DEF q
<1> QED
  BY <1>2, <1>3, <1>4

LEMMA StepPublished ==
    ASSUME Step, PublishedInv, \A h \in Handlers : HandlerInv(h)
    PROVE  PublishedInv'
<1>StepPublishedOn. ASSUME Step, NEW s \in Shards, PublishedOn(s), \A h \in Handlers : HandlerInv(h)
                    PROVE  PublishedOn(s)'
  <2> USE <1>StepPublishedOn
  <2> TypeOK /\ TypeOK' /\ [Next]_vars
    BY DEF Step
  <2>1. /\ published \subseteq published' /\ published \subseteq Ids
        /\ \A n \in published : Metric(n)' = Metric(n)
    BY LogGrows DEF TypeOK, Metric
  <2>2. ASSUME \A n \in Way(s)' : n \in Way(s) \/ (n \in published /\ ShardOf[Metric(n)] = s)
        PROVE  PublishedOn(s)'
    BY <2>1, <2>2 DEF PublishedOn
  <2>3. CASE UNCHANGED <<fanout[s], moving[s]>>
    <3>1. Way(s)' = Way(s)
      BY <2>3 DEF Way
    <3> QED
      BY <2>2, <3>1
  <2>4. ASSUME NEW h \in Handlers, EnqueueFanout(h) PROVE PublishedOn(s)'
    <3>1. PICK m \in pending[h] :
                /\ ShardOf[m] \in Shards
                /\ fanout' = [fanout EXCEPT ![ShardOf[m]] = Append(@, Group(h, m))]
                /\ Group(h, m) \subseteq Ids
      BY <2>4, Enqueued
    <3>2. moving' = moving /\ pc[h] = "fanout"
      BY <2>4 DEF EnqueueFanout
    <3>3. Group(h, m) \subseteq published /\ \A n \in Group(h, m) : Metric(n) = m
      BY <3>2 DEF HandlerInv, Group
    <3> DEFINE o == ShardOf[m]
               G == Group(h, m)
    <3>0. /\ o \in Shards /\ G \subseteq Ids
          /\ s = o => fanout'[s] = Append(fanout[s], G)
          /\ s # o => fanout'[s] = fanout[s]
      <4>1. fanout \in [Shards -> Seq(SUBSET Ids)]
        BY DEF TypeOK
      <4> QED
        BY <3>1, <4>1
    <3>4. CASE s = o
      <4>1. /\ Len(fanout[s]) \in Nat /\ DOMAIN fanout[s] = 1..Len(fanout[s])
            /\ DOMAIN fanout'[s] = 1..(Len(fanout[s]) + 1)
            /\ \A i \in DOMAIN fanout[s] : fanout'[s][i] = fanout[s][i]
            /\ fanout'[s][Len(fanout[s]) + 1] = G
        <5> HIDE DEF o, G
        <5> QED
          BY <3>0, <3>4, GroupAdded
      <4>2. \A i \in DOMAIN fanout'[s] : i \in DOMAIN fanout[s] \/ i = Len(fanout[s]) + 1
        BY <4>1, SMTT(30)
      <4>3. ASSUME NEW n \in Way(s)' PROVE n \in Way(s) \/ n \in Group(h, m)
        <5>1. n \in moving'[s].ops \/ \E i \in DOMAIN fanout'[s] : n \in fanout'[s][i]
          BY WayNext
        <5> QED
          BY <3>2, <4>1, <4>2, <5>1, WayIs
      <4> QED
        BY <2>2, <3>3, <3>4, <4>3
    <3>5. CASE s # o
      BY <2>3, <3>0, <3>2, <3>5
    <3> QED
      BY <3>4, <3>5
  <2>5. CASE FanoutTake(s)
    <3>1. /\ moving'[s].ops = fanout[s][1] /\ 1 \in DOMAIN fanout[s]
          /\ \A i \in DOMAIN fanout'[s] : i + 1 \in DOMAIN fanout[s] /\ fanout'[s][i] = fanout[s][i + 1]
      BY <2>5, GroupTaken
    <3>2. Way(s)' \subseteq Way(s)
      <4> SUFFICES ASSUME NEW n \in Way(s)' PROVE n \in Way(s)
        OBVIOUS
      <4>1. n \in moving'[s].ops \/ \E i \in DOMAIN fanout'[s] : n \in fanout'[s][i]
        BY WayNext
      <4> QED
        BY <3>1, <4>1, WayIs
    <3> QED
      BY <2>2, <3>2
  <2>6. CASE FanoutMove(s)
    <3>1. moving \in [Shards -> [ops: SUBSET Ids, todo: SUBSET Replicas]]
      BY DEF TypeOK
    <3>2. moving'[s].ops \subseteq moving[s].ops /\ fanout' = fanout
      BY <2>6, <3>1, SMTT(30) DEF FanoutMove, Nothing
    <3>3. Way(s)' \subseteq Way(s)
      BY <3>2 DEF Way
    <3> QED
      BY <2>2, <3>3
  <2>7. CASE Restart
    <3>1. fanout'[s] = <<>> /\ moving'[s] = Nothing
      BY <2>7 DEF Restart
    <3>2. Way(s)' = {}
      BY <3>1, SMTT(30) DEF Way, Range, Nothing
    <3> QED
      BY <2>2, <3>2
  <2>8. CASE FanoutStep(s)
    BY <2>5, <2>6, <2>8 DEF FanoutStep
  <2> QED
    BY <2>3, <2>4, <2>7, <2>8, WayStays DEF Next
<1>1. (\A r \in Replicas : PublishedTo(r)) /\ \A s \in Shards : PublishedOn(s)
  BY DEF PublishedInv, PublishedTo, PublishedOn
<1>2. \A r \in Replicas : PublishedTo(r)'
  BY <1>1, StepPublishedTo
<1>3. \A s \in Shards : PublishedOn(s)'
  BY <1>1, <1>StepPublishedOn
<1> QED
  BY <1>2, <1>3 DEF PublishedInv, PublishedTo, PublishedOn

Moves(R, x, y) == R = [ops |-> x, todo |-> y]
LEMMA Fields == \A R, x, y : Moves(R, x, y) => R.ops = x /\ R.todo = y
  BY SMTT(30) DEF Moves

\* A fanout worker leaves a record behind when every replica has it.
LEMMA MovedOn ==
    ASSUME Step, ~closing, NEW s \in Shards, FanoutMove(s), NEW r \in Replicas, WorkerInv(r),
           MovingOrder(r, s)
    PROVE  /\ fanout' = fanout /\ moving'[s].ops \subseteq moving[s].ops
           /\ moving[s].ops \subseteq moving'[s].ops \cup Worker(r)'
           /\ \A k \in moving'[s].ops : First(moving'[s].ops, k) /\ r \notin moving'[s].todo => k \in Worker(r)'
<1> TypeOK /\ TypeOK' /\ [Next]_vars
  BY DEF Step
<1>1. /\ queue \in [Replicas -> Seq(Ids)]
      /\ moving \in [Shards -> [ops: SUBSET Ids, todo: SUBSET Replicas]]
  BY DEF TypeOK
<1>2. PICK n \in moving[s].ops, q \in moving[s].todo :
          /\ First(moving[s].ops, n)
          /\ queue' = [queue EXCEPT ![q] = Append(@, n)]
          /\ moving' = [moving EXCEPT ![s] =
                IF moving[s].todo # {q}
                THEN [ops |-> moving[s].ops, todo |-> moving[s].todo \ {q}]
                ELSE IF moving[s].ops = {n} THEN Nothing
                ELSE [ops |-> moving[s].ops \ {n}, todo |-> Replicas]]
  BY DEF FanoutMove
<1>3. /\ q \in Replicas /\ n \in Ids /\ moving[s].ops \subseteq Ids /\ fanout' = fanout
  BY <1>1 DEF FanoutMove
<1>4. ~Restart => Worker(r) \subseteq Worker(r)'
  BY WorkerGrows
<1>5. ~Restart
  <2>1. Len(queue'[q]) # 0
    BY <1>1, <1>2, <1>3, SMTT(30)
  <2>2. Len(<<>>) = 0
    OBVIOUS
  <2> QED
    BY <1>3, <2>1, <2>2 DEF Restart
<1>6. q = r => n \in Worker(r)'
  <2>1. q = r => n \in Range(queue'[r])
    <3>1. queue[q] \in Seq(Ids) /\ queue'[q] = Append(queue[q], n)
      BY <1>1, <1>2, <1>3
    <3> QED
      BY <1>3, <3>1, AppendRange
  <2> QED
    BY <2>1 DEF Worker
<1>7. r \notin moving[s].todo => n \in Worker(r)'
  BY <1>2, <1>4, <1>5 DEF MovingOrder
<1>8. CASE moving[s].todo # {q}
  <2>1. Moves(moving'[s], moving[s].ops, moving[s].todo \ {q})
    BY <1>1, <1>2, <1>8 DEF Moves
  <2>2. moving'[s].ops = moving[s].ops /\ moving'[s].todo = moving[s].todo \ {q}
    BY <2>1, Fields
  <2>3. ASSUME NEW k \in moving[s].ops, First(moving[s].ops, k) PROVE k = n
    <3>1. k <= n /\ n <= k /\ k \in Nat /\ n \in Nat
      BY <1>2, <1>3, <2>3, IdsNat DEF First
    <3> QED
      BY <3>1, PositionFacts
  <2> QED
    BY <1>3, <1>6, <1>7, <2>2, <2>3
<1>9. CASE moving[s].todo = {q}
  <2>1. /\ moving[s].ops = {n} => Moves(moving'[s], {}, {})
        /\ moving[s].ops # {n} => Moves(moving'[s], moving[s].ops \ {n}, Replicas)
    BY <1>1, <1>2, <1>9 DEF Moves, Nothing
  <2>2. moving'[s].ops = moving[s].ops \ {n} /\ (moving'[s].ops # {} => moving'[s].todo = Replicas)
    <3>1. CASE moving[s].ops = {n}
      BY <2>1, <3>1, Fields
    <3>2. CASE moving[s].ops # {n}
      BY <2>1, <3>2, Fields
    <3> QED
      BY <3>1, <3>2
  <2>3. n \in Worker(r)'
    BY <1>6, <1>7, <1>9
  <2> QED
    BY <1>3, <2>2, <2>3
<1> QED
  BY <1>8, <1>9

LEMMA Points ==
    ASSUME NEW q, NEW i, NEW X, NEW W, NEW M
    PROVE  X \subseteq W \cup M \cup UNION {q[j] : j \in 1..i} <=>
               \A k \in X : k \in W \/ k \in M \/ \E j \in 1..i : k \in q[j]
<1> DEFINE U == UNION {q[j] : j \in 1..i}
<1>1. \A k : k \in U <=> \E j \in 1..i : k \in q[j]
  OBVIOUS
<1> HIDE DEF U
<1>2. X \subseteq W \cup M \cup U <=> \A k \in X : k \in W \/ k \in M \/ k \in U
  OBVIOUS
<1>3. X \subseteq W \cup M \cup U <=>
          \A k \in X : k \in W \/ k \in M \/ \E j \in 1..i : k \in q[j]
  BY <1>1, <1>2
<1> QED
  BY <1>3 DEF U

LEMMA FanoutPoints ==
    ASSUME NEW r \in Replicas, NEW s \in Shards
    PROVE  /\ FanoutOrder(r, s) <=>
                \A i \in DOMAIN fanout[s] : \A n \in fanout[s][i] : \A k \in earlier[n] :
                    k \in Worker(r) \/ k \in moving[s].ops \/ \E j \in 1..i : k \in fanout[s][j]
           /\ FanoutOrder(r, s)' <=>
                \A i \in DOMAIN fanout'[s] : \A n \in fanout'[s][i] : \A k \in earlier'[n] :
                    k \in Worker(r)' \/ k \in moving'[s].ops \/ \E j \in 1..i : k \in fanout'[s][j]
<1>1. FanoutOrder(r, s) <=>
          \A i \in DOMAIN fanout[s] : \A n \in fanout[s][i] : \A k \in earlier[n] :
              k \in Worker(r) \/ k \in moving[s].ops \/ \E j \in 1..i : k \in fanout[s][j]
  BY Points, SMTT(30) DEF FanoutOrder
<1>2. FanoutOrder(r, s)' <=>
          \A i \in DOMAIN fanout'[s] : \A n \in fanout'[s][i] : \A k \in earlier'[n] :
              k \in Worker(r)' \/ k \in moving'[s].ops \/ \E j \in 1..i : k \in fanout'[s][j]
  BY Points, SMTT(30) DEF FanoutOrder
<1> QED
  BY <1>1, <1>2

\* The group that a handler enqueues, seen from one shard.
LEMMA EnqueuedAt ==
    ASSUME Step, NEW h \in Handlers, EnqueueFanout(h), NEW s \in Shards
    PROVE  /\ moving' = moving
           /\ \/ fanout'[s] = fanout[s]
              \/ \E m \in pending[h] :
                    /\ s = ShardOf[m] /\ Group(h, m) \subseteq Ids
                    /\ fanout'[s] = Append(fanout[s], Group(h, m))
<1>1. fanout \in [Shards -> Seq(SUBSET Ids)]
  BY DEF Step, TypeOK
<1>2. moving' = moving
  BY DEF EnqueueFanout
<1>3. PICK m \in pending[h] :
          /\ ShardOf[m] \in Shards
          /\ fanout' = [fanout EXCEPT ![ShardOf[m]] = Append(@, Group(h, m))]
          /\ Group(h, m) \subseteq Ids
  BY Enqueued
<1>4. CASE s = ShardOf[m]
  BY <1>1, <1>2, <1>3, <1>4
<1>5. CASE s # ShardOf[m]
  BY <1>1, <1>2, <1>3, <1>5
<1> QED
  BY <1>4, <1>5

\* Records leave a fanout queue and its worker only for the replicas.
LEMMA Carried ==
    ASSUME Step, ~closing, NEW s \in Shards, NEW r \in Replicas, WorkerInv(r), MovingOrder(r, s)
    PROVE  Restart \/ Way(s) \subseteq Way(s)' \cup Worker(r)'
<1> TypeOK /\ TypeOK' /\ [Next]_vars
  BY DEF Step
<1>1. CASE UNCHANGED <<fanout[s], moving[s]>>
  BY <1>1 DEF Way
<1>2. ASSUME NEW h \in Handlers, EnqueueFanout(h) PROVE Way(s) \subseteq Way(s)' \cup Worker(r)'
  <2>1. moving'[s] = moving[s]
    BY <1>2, EnqueuedAt
  <2>2. CASE fanout'[s] = fanout[s]
    BY <2>1, <2>2 DEF Way
  <2>3. ASSUME NEW G, G \subseteq Ids, fanout'[s] = Append(fanout[s], G) PROVE Way(s) \subseteq Way(s)'
    <3>1. /\ \A i \in DOMAIN fanout[s] : fanout'[s][i] = fanout[s][i]
          /\ Len(fanout[s]) \in Nat /\ DOMAIN fanout[s] = 1..Len(fanout[s])
          /\ DOMAIN fanout'[s] = 1..(Len(fanout[s]) + 1)
      BY <2>3, GroupAdded
    <3>2. \A i \in DOMAIN fanout[s] : i \in DOMAIN fanout'[s]
      BY <3>1, PositionFacts
    <3> SUFFICES ASSUME NEW n \in Way(s) PROVE n \in Way(s)'
      OBVIOUS
    <3>3. n \in moving[s].ops \/ \E i \in DOMAIN fanout[s] : n \in fanout[s][i]
      BY WayIs
    <3> QED
      BY <2>1, <3>1, <3>2, <3>3, WayNext
  <2> QED
    BY <1>2, <2>2, <2>3, EnqueuedAt
<1>3. CASE FanoutTake(s)
  <2>1. /\ moving[s].ops = {} /\ moving'[s].ops = fanout[s][1]
        /\ \A i \in DOMAIN fanout[s] :
              i = 1 \/ (i - 1 \in DOMAIN fanout'[s] /\ fanout'[s][i - 1] = fanout[s][i])
    BY <1>3, GroupTaken
  <2> SUFFICES ASSUME NEW n \in Way(s) PROVE n \in Way(s)'
    OBVIOUS
  <2>2. PICK i \in DOMAIN fanout[s] : n \in fanout[s][i]
    BY <2>1, WayIs
  <2> QED
    BY <2>1, <2>2, WayNext
<1>4. CASE FanoutMove(s)
  <2>1. fanout' = fanout /\ moving[s].ops \subseteq moving'[s].ops \cup Worker(r)'
    BY <1>4, MovedOn
  <2> QED
    BY <2>1 DEF Way
<1>5. CASE FanoutStep(s)
  BY <1>3, <1>4, <1>5 DEF FanoutStep
<1> QED
  BY <1>1, <1>2, <1>5, WayStays DEF Next

LEMMA StepMoving ==
    ASSUME Step, LockInv, ~closing, NEW s \in Shards, PublishedOn(s), NEW r \in Replicas, WorkerInv(r),
           MovingOrder(r, s), FanoutOrder(r, s)
    PROVE  MovingOrder(r, s)'
<1> TypeOK /\ TypeOK' /\ [Next]_vars
  BY DEF Step
<1>1. Restart \/ Worker(r) \subseteq Worker(r)'
  BY WorkerGrows
<1>2. \A n \in Way(s) : earlier'[n] = earlier[n]
  BY EarlierStays DEF PublishedOn
<1>3. \A n \in moving[s].ops : n \in Way(s) /\ earlier[n] \subseteq Worker(r) \cup moving[s].ops
  BY DEF MovingOrder, Way
<1>4. CASE Restart
  <2>1. moving'[s].ops = {}
    BY <1>4 DEF Restart, Nothing
  <2> QED
    BY <2>1 DEF MovingOrder
<1>5. CASE moving'[s] = moving[s] /\ ~Restart
  BY <1>1, <1>2, <1>3, <1>5 DEF MovingOrder
<1>6. CASE FanoutTake(s) /\ ~Restart
  <2>1. /\ moving[s].ops = {} /\ moving'[s].ops = fanout[s][1] /\ moving'[s].todo = Replicas
        /\ 1 \in DOMAIN fanout[s]
    BY <1>6, GroupTaken
  <2>2. ASSUME NEW n \in fanout[s][1] PROVE earlier'[n] \subseteq Worker(r)' \cup fanout[s][1]
    <3>1. n \in Way(s)
      BY <2>1, WayIs
    <3>2. \A k \in earlier[n] : k \in Worker(r) \/ \E j \in 1..1 : k \in fanout[s][j]
      BY <2>1, FanoutPoints
    <3>3. \A j \in 1..1 : j = 1
      BY SMTT(30)
    <3> QED
      BY <1>1, <1>2, <1>6, <3>1, <3>2, <3>3
  <2> QED
    BY <2>1, <2>2 DEF MovingOrder
<1>7. CASE FanoutMove(s) /\ ~Restart
  <2>1. /\ moving'[s].ops \subseteq moving[s].ops
        /\ moving[s].ops \subseteq moving'[s].ops \cup Worker(r)'
        /\ \A k \in moving'[s].ops : First(moving'[s].ops, k) /\ r \notin moving'[s].todo => k \in Worker(r)'
    BY <1>7, MovedOn
  <2> QED
    BY <1>1, <1>2, <1>3, <1>7, <2>1 DEF MovingOrder
<1>8. ASSUME NEW h \in Handlers, EnqueueFanout(h) PROVE moving'[s] = moving[s]
  BY <1>8 DEF EnqueueFanout
<1>9. CASE FanoutStep(s) /\ ~Restart
  BY <1>6, <1>7, <1>9 DEF FanoutStep
<1> QED
  BY <1>4, <1>5, <1>8, <1>9, WayStays DEF Next

LEMMA StepFanout ==
    ASSUME Step, LockInv, ~closing, NEW s \in Shards, PublishedOn(s), NEW r \in Replicas, WorkerInv(r),
           \A h \in Handlers : HandlerInv(h) /\ HandlerOrder(r, h),
           MovingOrder(r, s), FanoutOrder(r, s)
    PROVE  FanoutOrder(r, s)'
<1> TypeOK /\ TypeOK' /\ [Next]_vars
  BY DEF Step
<1>1. Restart \/ Worker(r) \subseteq Worker(r)'
  BY WorkerGrows
<1>2. \A i \in DOMAIN fanout[s] : \A n \in fanout[s][i] : earlier'[n] = earlier[n]
  <2>1. \A i \in DOMAIN fanout[s] : \A n \in fanout[s][i] : n \in published
    BY WayIs DEF PublishedOn
  <2> QED
    BY <2>1, EarlierStays
<1>3. \A i \in DOMAIN fanout[s] : \A n \in fanout[s][i] : \A k \in earlier[n] :
          k \in Worker(r) \/ k \in moving[s].ops \/ \E j \in 1..i : k \in fanout[s][j]
  BY FanoutPoints
<1>4. CASE Restart
  <2>1. DOMAIN fanout'[s] = {}
    BY <1>4, PositionFacts DEF Restart
  <2> QED
    BY <2>1, FanoutPoints
<1>5. ASSUME fanout'[s] = fanout[s], moving[s].ops \subseteq moving'[s].ops \cup Worker(r)', ~Restart
      PROVE  FanoutOrder(r, s)'
  <2>1. ASSUME NEW i \in DOMAIN fanout'[s], NEW n \in fanout'[s][i], NEW k \in earlier'[n]
        PROVE  k \in Worker(r)' \/ k \in moving'[s].ops \/ \E j \in 1..i : k \in fanout'[s][j]
    <3>1. i \in DOMAIN fanout[s] /\ n \in fanout[s][i]
      BY <1>5
    <3>2. k \in earlier[n]
      BY <1>2, <3>1
    <3>3. k \in Worker(r) \/ k \in moving[s].ops \/ \E j \in 1..i : k \in fanout[s][j]
      BY <1>3, <3>1, <3>2
    <3> QED
      BY <1>1, <1>5, <3>3
  <2> QED
    BY <2>1, FanoutPoints
<1>6. CASE FanoutTake(s) /\ ~Restart
  <2>1. /\ moving[s].ops = {} /\ moving'[s].ops = fanout[s][1]
        /\ DOMAIN fanout[s] = 1..Len(fanout[s]) /\ Len(fanout[s]) \in Nat
        /\ DOMAIN fanout'[s] = 1..(Len(fanout[s]) - 1)
        /\ \A i \in DOMAIN fanout'[s] : i + 1 \in DOMAIN fanout[s] /\ fanout'[s][i] = fanout[s][i + 1]
        /\ \A i \in DOMAIN fanout[s] :
              i = 1 \/ (i - 1 \in DOMAIN fanout'[s] /\ fanout'[s][i - 1] = fanout[s][i])
    BY <1>6, GroupTaken
  <2>2. ASSUME NEW i \in DOMAIN fanout'[s], NEW n \in fanout'[s][i], NEW k \in earlier'[n]
        PROVE  k \in Worker(r)' \/ k \in moving'[s].ops \/ \E j \in 1..i : k \in fanout'[s][j]
    <3>1. i + 1 \in DOMAIN fanout[s] /\ n \in fanout[s][i + 1] /\ k \in earlier[n]
      <4>1. i + 1 \in DOMAIN fanout[s] /\ fanout'[s][i] = fanout[s][i + 1]
        BY <2>1
      <4>2. n \in fanout[s][i + 1]
        BY <4>1
      <4>3. earlier'[n] = earlier[n]
        BY <1>2, <4>1, <4>2
      <4> QED
        BY <4>1, <4>2, <4>3
    <3>2. \A j \in 1..(i + 1) : j \in DOMAIN fanout[s] /\ (j # 1 => j - 1 \in 1..i)
      BY <2>1, <2>2, PositionFacts
    <3>3. CASE k \in Worker(r)
      BY <1>1, <1>6, <3>3
    <3>4. ASSUME NEW j \in 1..(i + 1), k \in fanout[s][j]
          PROVE  k \in moving'[s].ops \/ \E l \in 1..i : k \in fanout'[s][l]
      BY <2>1, <3>2, <3>4
    <3>5. k \in Worker(r) \/ \E j \in 1..(i + 1) : k \in fanout[s][j]
      BY <1>3, <2>1, <3>1
    <3> QED
      BY <3>3, <3>4, <3>5
  <2> QED
    BY <2>2, FanoutPoints
<1>7. CASE FanoutMove(s) /\ ~Restart
  <2>1. fanout' = fanout /\ moving[s].ops \subseteq moving'[s].ops \cup Worker(r)'
    BY <1>7, MovedOn
  <2> QED
    BY <1>5, <1>7, <2>1
<1>8. ASSUME NEW h \in Handlers, EnqueueFanout(h), ~Restart PROVE FanoutOrder(r, s)'
  <2>1. moving' = moving /\ pc[h] = "fanout"
    BY <1>8 DEF EnqueueFanout
  <2>2. CASE fanout'[s] = fanout[s]
    BY <1>5, <1>8, <2>1, <2>2
  <2>3. ASSUME NEW m \in pending[h], s = ShardOf[m], Group(h, m) \subseteq Ids,
               fanout'[s] = Append(fanout[s], Group(h, m))
        PROVE  FanoutOrder(r, s)'
    <3> DEFINE G == Group(h, m)
    <3>1. /\ \A n \in G : n \in published /\ earlier[n] \subseteq Worker(r) \cup Way(s) \cup G
          /\ G \subseteq Ids /\ fanout'[s] = Append(fanout[s], G)
      BY <2>1, <2>3 DEF HandlerInv, HandlerOrder, Group
    <3> HIDE DEF G
    <3>2. /\ Len(fanout[s]) \in Nat /\ DOMAIN fanout[s] = 1..Len(fanout[s])
          /\ DOMAIN fanout'[s] = 1..(Len(fanout[s]) + 1)
          /\ \A i \in DOMAIN fanout[s] : fanout'[s][i] = fanout[s][i]
          /\ fanout'[s][Len(fanout[s]) + 1] = G
      BY <3>1, GroupAdded
    <3>3. \A i \in DOMAIN fanout'[s] : i \in DOMAIN fanout[s] \/ i = Len(fanout[s]) + 1
      BY <3>2, PositionFacts
    <3>4. ASSUME NEW i \in DOMAIN fanout[s], NEW n \in fanout'[s][i], NEW k \in earlier'[n]
          PROVE  k \in Worker(r)' \/ k \in moving'[s].ops \/ \E j \in 1..i : k \in fanout'[s][j]
      <4>1. n \in fanout[s][i] /\ k \in earlier[n]
        BY <1>2, <3>2, <3>4
      <4>2. k \in Worker(r) \/ k \in moving[s].ops \/ \E j \in 1..i : k \in fanout[s][j]
        BY <1>3, <4>1
      <4>3. \A j \in 1..i : j \in DOMAIN fanout[s]
        BY <3>2, <3>4, PositionFacts
      <4> QED
        BY <1>1, <1>8, <2>1, <3>2, <4>2, <4>3
    <3>5. ASSUME NEW n \in G, NEW k \in earlier'[n]
          PROVE  \/ k \in Worker(r)' \/ k \in moving'[s].ops
                 \/ \E j \in 1..(Len(fanout[s]) + 1) : k \in fanout'[s][j]
      <4>1. k \in Worker(r) \/ k \in Way(s) \/ k \in G
        BY <3>1, <3>5, EarlierStays
      <4>2. /\ Len(fanout[s]) + 1 \in 1..(Len(fanout[s]) + 1)
            /\ \A j \in DOMAIN fanout[s] : j \in 1..(Len(fanout[s]) + 1)
        BY <3>2, PositionFacts
      <4>3. CASE k \in G
        BY <3>2, <4>2, <4>3
      <4>4. CASE k \in Way(s)
        <5>1. k \in moving[s].ops \/ \E i \in DOMAIN fanout[s] : k \in fanout[s][i]
          BY <4>4, WayIs
        <5> QED
          BY <2>1, <3>2, <4>2, <5>1
      <4>5. CASE k \in Worker(r)
        BY <1>1, <1>8, <4>5
      <4> QED
        BY <4>1, <4>3, <4>4, <4>5
    <3>6. ASSUME NEW i \in DOMAIN fanout'[s], NEW n \in fanout'[s][i], NEW k \in earlier'[n]
          PROVE  k \in Worker(r)' \/ k \in moving'[s].ops \/ \E j \in 1..i : k \in fanout'[s][j]
      <4>1. CASE i \in DOMAIN fanout[s]
        BY <3>4, <4>1
      <4>2. CASE i = Len(fanout[s]) + 1
        BY <3>2, <3>5, <4>2
      <4> QED
        BY <3>3, <4>1, <4>2
    <3> QED
      BY <3>6, FanoutPoints
  <2> QED
    BY <1>8, <2>2, <2>3, EnqueuedAt
<1>9. CASE UNCHANGED <<fanout[s], moving[s]>> /\ ~Restart
  BY <1>5, <1>9
<1>10. CASE FanoutStep(s) /\ ~Restart
  BY <1>6, <1>7, <1>10 DEF FanoutStep
<1> QED
  BY <1>4, <1>8, <1>9, <1>10, WayStays DEF Next

-----------------------------------------------------------------------------
(* From the handlers into the fanout queues. *)

LEMMA HandlerFrame ==
    ASSUME Step, NEW h \in Handlers
    PROVE  \/ pc'[h] = pc[h] /\ ops'[h] = ops[h] /\ start'[h] = start[h] /\ pending'[h] = pending[h]
           \/ HandlerStep(h) \/ Restart
<1> TypeOK /\ TypeOK' /\ [Next]_vars
  BY DEF Step
<1>1. /\ ops \in [Handlers -> Seq(Ids)] /\ start \in [Handlers -> Nat \ {0}]
      /\ pc \in [Handlers -> {"idle", "replicate", "fanout", "wait"}]
      /\ pending \in [Handlers -> SUBSET Metrics]
  BY DEF TypeOK
<1> DEFINE Same == /\ pc'[h] = pc[h] /\ ops'[h] = ops[h]
                   /\ start'[h] = start[h] /\ pending'[h] = pending[h]
<1>2. ASSUME NEW g \in Handlers, g # h, HandlerStep(g) PROVE Same
  <2>1. CASE PutBatch(g) \/ QuorumReached(g) \/ Execute(g)
    BY <1>1, <1>2, <2>1 DEF PutBatch, QuorumReached, Execute
  <2>2. CASE EnqueueFanout(g)
    BY <1>1, <1>2, <2>2 DEF EnqueueFanout
  <2>3. CASE Reply(g) \/ Fail(g)
    BY <1>1, <1>2, <2>3 DEF Reply, Fail, Release
  <2> QED
    BY <1>2, <2>1, <2>2, <2>3 DEF HandlerStep
<1>3. ASSUME NEW s \in Shards, FanoutStep(s) PROVE Same
  BY <1>3 DEF FanoutStep, FanoutTake, FanoutMove, handlerVars
<1>4. ASSUME NEW r \in Replicas, WorkerStep(r) \/ LineFault(r) PROVE Same
  BY <1>4 DEF WorkerStep, LineFault, RecoverRecord, TakeBatch, SendLine, Confirmed, DeleteBatch,
       ExecuteLive, Timeout, Dropped, ExecuteStale, AbandonBatch, handlerVars
<1>5. ASSUME AbandonRecovery \/ Close \/ UNCHANGED vars PROVE Same
  BY <1>5 DEF AbandonRecovery, Close, vars, handlerVars
<1> QED
  BY <1>2, <1>3, <1>4, <1>5 DEF Next

LEMMA GroupStays ==
    ASSUME Step, NEW h \in Handlers, ops'[h] = ops[h], start'[h] = start[h]
    PROVE  \A m : Group(h, m)' = Group(h, m)
<1>1. Items(h)' = Items(h) /\ Items(h) \subseteq Ids
  BY ChunkStays, ItemsType DEF Step
<1>2. \A n \in Items(h) : Metric(n)' = Metric(n)
  BY <1>1, LogGrows DEF Metric
<1> QED
  BY <1>1, <1>2 DEF Group

\* The step of a handler that is between the outbox and the fanout queues.
LEMMA InFanout ==
    ASSUME Step, ~closing, NEW h \in Handlers, HandlerStep(h), pc[h] = "fanout"
    PROVE  EnqueueFanout(h)
BY DEF HandlerStep, Execute, PutBatch, QuorumReached, Reply, Fail

LEMMA StepHandlerOrder ==
    ASSUME Step, LockInv, ~closing, \A s \in Shards : PublishedOn(s), NEW r \in Replicas, WorkerInv(r),
           NEW h \in Handlers, HandlerInv(h), \A s \in Shards : MovingOrder(r, s), Underway(r),
           HandlerOrder(r, h)
    PROVE  HandlerOrder(r, h)'
<1> TypeOK /\ TypeOK' /\ [Next]_vars
  BY DEF Step
<1>1. /\ pc \in [Handlers -> {"idle", "replicate", "fanout", "wait"}]
      /\ pending \in [Handlers -> SUBSET Metrics] /\ pending' \in [Handlers -> SUBSET Metrics]
      /\ start \in [Handlers -> Nat \ {0}]
  BY DEF TypeOK
<1>2. Restart \/ Worker(r) \subseteq Worker(r)'
  BY WorkerGrows
<1>3. \A s \in Shards : Restart \/ Way(s) \subseteq Way(s)' \cup Worker(r)'
  BY Carried
<1>4. CASE pc'[h] # "fanout"
  BY <1>4 DEF HandlerOrder
<1>5. ASSUME ~Restart, pc[h] = "fanout", ops'[h] = ops[h], start'[h] = start[h], pending'[h] \subseteq pending[h]
      PROVE  HandlerOrder(r, h)'
  <2> SUFFICES ASSUME NEW m \in pending'[h], NEW n \in Group(h, m)'
               PROVE  earlier'[n] \subseteq Worker(r)' \cup Way(ShardOf[m])' \cup Group(h, m)'
    BY DEF HandlerOrder
  <2>1. Group(h, m)' = Group(h, m) /\ m \in pending[h] /\ ShardOf[m] \in Shards
    <3>1. m \in pending[h] /\ m \in Metrics
      BY <1>1, <1>5
    <3> QED
      BY <1>5, <3>1, GroupStays, ShardAssumption
  <2>2. n \in published
    BY <1>5, <2>1 DEF HandlerInv, Group
  <2>3. earlier'[n] = earlier[n]
    BY <2>2, EarlierStays
  <2>4. earlier[n] \subseteq Worker(r) \cup Way(ShardOf[m]) \cup Group(h, m)
    BY <1>5, <2>1 DEF HandlerOrder
  <2>5. Way(ShardOf[m]) \subseteq Way(ShardOf[m])' \cup Worker(r)'
    BY <1>3, <1>5, <2>1
  <2>6. Worker(r) \subseteq Worker(r)'
    BY <1>2, <1>5
  <2> QED
    BY <2>1, <2>3, <2>4, <2>5, <2>6
<1>6. CASE PutBatch(h) /\ ~Restart
  <2>1. /\ pc[h] = "replicate" /\ published' = published \cup Items(h) /\ log' = log /\ Recovered
        /\ ops'[h] = ops[h] /\ start'[h] = start[h]
        /\ \A m \in pending'[h] : \E n \in Items(h) : m = Metric(n)
    BY <1>1, <1>6 DEF PutBatch
  <2> SUFFICES ASSUME NEW m \in pending'[h], NEW n \in Group(h, m)', NEW k \in earlier'[n]
               PROVE  k \in Worker(r)' \/ k \in Way(ShardOf[m])' \/ k \in Group(h, m)'
    BY DEF HandlerOrder
  <2>2. Group(h, m)' = Group(h, m) /\ m \in Metrics /\ ShardOf[m] \in Shards
    <3>1. m \in Metrics
      BY <1>1
    <3> QED
      BY <2>1, <3>1, GroupStays, ShardAssumption
  <2>3. n \in Items(h) /\ Metric(n) = m /\ n \in published'
    BY <2>1, <2>2 DEF Group
  <2>4. k \in published' /\ log'[k].metric = log'[n].metric
    BY <2>3 DEF earlier, Metric
  <2>5. Metric(k) = m
    BY <2>1, <2>3, <2>4 DEF Metric
  <2>6. CASE k \in Items(h)
    BY <2>2, <2>5, <2>6 DEF Group
  <2>7. CASE k \in published
    <3>1. ~InHand(k)
      <4> SUFFICES ASSUME NEW g \in Handlers, pc[g] = "fanout", k \in Items(g) PROVE FALSE
        BY DEF InHand
      <4>1. g # h
        BY <2>1
      <4>2. m \in Held(g) /\ m \in Held(h)
        BY <2>3, <2>5, HeldIs DEF Held
      <4> QED
        BY <4>1, <4>2, LockParts
    <3>2. recovering[r] = {}
      BY <2>1 DEF Recovered
    <3>3. k \in Worker(r) \/ k \in Way(ShardOf[m])
      BY <2>5, <2>7, <3>1, <3>2 DEF Underway
    <3> QED
      BY <1>2, <1>3, <1>6, <2>2, <3>3
  <2> QED
    BY <2>1, <2>4, <2>6, <2>7
<1>7. CASE EnqueueFanout(h) /\ ~Restart
  <2>1. ops' = ops /\ pc[h] = "fanout" /\ pending'[h] \subseteq pending[h]
    BY <1>1, <1>7 DEF EnqueueFanout
  <2>2. pc'[h] # "fanout" \/ start' = start
    <3>1. \/ pc' = pc /\ start' = start
          \/ pc' = [pc EXCEPT ![h] = "wait"]
          \/ pc' = [pc EXCEPT ![h] = "replicate"]
      BY <1>7 DEF EnqueueFanout
    <3> QED
      BY <1>1, <3>1
  <2> QED
    BY <1>4, <1>5, <1>7, <2>1, <2>2
<1>8. CASE Restart
  <2>1. pc'[h] = "idle"
    BY <1>8 DEF Restart
  <2> QED
    BY <1>4, <2>1
<1>9. CASE Execute(h) \/ QuorumReached(h) \/ Reply(h) \/ Fail(h)
  <2>1. pc'[h] = "replicate" \/ pc'[h] = "idle"
    BY <1>1, <1>9 DEF Execute, QuorumReached, Reply, Fail, Release
  <2> QED
    BY <1>4, <2>1
<1>10. CASE /\ pc'[h] = pc[h] /\ ops'[h] = ops[h] /\ start'[h] = start[h] /\ pending'[h] = pending[h]
            /\ ~Restart
  BY <1>4, <1>5, <1>10
<1> QED
  BY <1>6, <1>7, <1>8, <1>9, <1>10, HandlerFrame DEF HandlerStep

LEMMA MetricTyped ==
    ASSUME TypeOK
    PROVE  \A n \in Ids : Metric(n) \in Metrics
<1>1. log \in Seq([metric: Metrics, quorum: BOOLEAN])
  BY DEF TypeOK
<1>2. \A n \in 1..Len(log) : log[n] \in [metric: Metrics, quorum: BOOLEAN]
  BY <1>1, SequenceFacts
<1>3. \A n \in 1..Len(log) : log[n].metric \in Metrics
  BY <1>2
<1> QED
  BY <1>3 DEF Ids, Metric

LEMMA StepUnderway ==
    ASSUME Step, LockInv, ~closing, NEW r \in Replicas, PublishedTo(r), \A s \in Shards : PublishedOn(s),
           OutboxInv, WorkerInv(r), \A s \in Shards : MovingOrder(r, s), RecoveryOrder(r), Underway(r)
    PROVE  Underway(r)'
<1> TypeOK /\ TypeOK' /\ [Next]_vars
  BY DEF Step
<1>1. /\ pc \in [Handlers -> {"idle", "replicate", "fanout", "wait"}]
      /\ pending \in [Handlers -> SUBSET Metrics]
      /\ log \in Seq([metric: Metrics, quorum: BOOLEAN]) /\ published \subseteq Ids
  BY DEF TypeOK
<1>2. \A n \in published : Metric(n)' = Metric(n) /\ ShardOf[Metric(n)] \in Shards
  <2>1. \A n \in Ids : Metric(n) \in Metrics
    BY MetricTyped
  <2> QED
    BY <1>1, <2>1, LogGrows, ShardAssumption DEF Metric
<1> SUFFICES ASSUME NEW k \in published'
             PROVE  \/ k \in Worker(r)' \/ k \in recovering'[r]
                    \/ k \in Way(ShardOf[Metric(k)])' \/ InHand(k)'
  BY DEF Underway
<1>3. CASE Restart
  <2>1. published' = published
    BY <1>3 DEF Restart
  <2> QED
    BY <1>3, <2>1, StepRecovery
<1>4. ASSUME NEW h \in Handlers, k \in Items(h), pc'[h] = "fanout", log'[k].metric \in pending'[h],
             ops'[h] = ops[h], start'[h] = start[h]
      PROVE  InHand(k)'
  <2>1. Items(h)' = Items(h)
    BY <1>4, ChunkStays
  <2> QED
    BY <1>4, <2>1 DEF InHand, Metric
<1>5. CASE k \notin published
  <2>1. PICK h \in Handlers : PutBatch(h)
    BY <1>5, Publishing
  <2>2. /\ k \in Items(h) /\ pc'[h] = "fanout" /\ log' = log /\ ops'[h] = ops[h] /\ start'[h] = start[h]
        /\ pending'[h] = {Metric(n) : n \in Items(h)}
    BY <1>1, <1>5, <2>1 DEF PutBatch
  <2>3. log'[k].metric \in pending'[h]
    BY <2>2 DEF Metric
  <2> QED
    BY <1>4, <2>2, <2>3
<1>6. ASSUME k \in published, ~Restart, NEW h \in Handlers, pc[h] = "fanout", Metric(k) \in pending[h],
             k \in Items(h)
      PROVE  k \in Way(ShardOf[Metric(k)])' \/ InHand(k)'
  <2>1. log'[k].metric = Metric(k) /\ Metric(k)' = Metric(k) /\ ShardOf[Metric(k)] \in Shards
    BY <1>2, <1>6 DEF Metric
  <2>2. CASE /\ pc'[h] = pc[h] /\ ops'[h] = ops[h] /\ start'[h] = start[h]
             /\ pending'[h] = pending[h]
    BY <1>4, <1>6, <2>1, <2>2
  <2>3. CASE EnqueueFanout(h)
    <3>1. PICK m \in pending[h] :
              /\ ShardOf[m] \in Shards
              /\ fanout' = [fanout EXCEPT ![ShardOf[m]] = Append(@, Group(h, m))]
              /\ pending' = [pending EXCEPT ![h] = @ \ {m}]
              /\ Group(h, m) \subseteq Ids
      BY <2>3, Enqueued
    <3>2. CASE m = Metric(k)
      <4> DEFINE s == ShardOf[m]
                 G == Group(h, m)
      <4>1. fanout'[s] = Append(fanout[s], G) /\ G \subseteq Ids /\ s \in Shards
        <5>1. fanout \in [Shards -> Seq(SUBSET Ids)]
          BY DEF TypeOK
        <5> QED
          BY <3>1, <5>1
      <4>2. k \in G
        BY <1>6, <3>2 DEF Group
      <4> HIDE DEF G, s
      <4>3. /\ Len(fanout[s]) \in Nat /\ DOMAIN fanout'[s] = 1..(Len(fanout[s]) + 1)
            /\ fanout'[s][Len(fanout[s]) + 1] = G
        BY <4>1, GroupAdded
      <4>4. Len(fanout[s]) + 1 \in DOMAIN fanout'[s]
        BY <4>3, SMTT(30)
      <4>5. k \in Way(s)'
        BY <4>2, <4>3, <4>4, WayNext
      <4> QED
        BY <2>1, <3>2, <4>5 DEF s
    <3>3. CASE m # Metric(k)
      <4>1. Metric(k) \in pending'[h] /\ ops'[h] = ops[h]
        BY <1>1, <1>6, <2>3, <3>1, <3>3 DEF EnqueueFanout
      <4>2. pc' = pc /\ start' = start
        BY <2>3, <4>1 DEF EnqueueFanout
      <4> QED
        BY <1>4, <1>6, <2>1, <4>1, <4>2
    <3> QED
      BY <3>2, <3>3
  <2> QED
    BY <1>6, <2>2, <2>3, InFanout, HandlerFrame
<1>7. CASE k \in published /\ ~Restart
  <2>1. Metric(k)' = Metric(k) /\ ShardOf[Metric(k)] \in Shards
    BY <1>2, <1>7
  <2>2. Worker(r) \subseteq Worker(r)' /\ recovering[r] \subseteq Worker(r)' \cup recovering'[r]
    BY <1>7, WorkerGrows, StepRecovery
  <2>3. Way(ShardOf[Metric(k)]) \subseteq Way(ShardOf[Metric(k)])' \cup Worker(r)'
    BY <1>7, <2>1, Carried
  <2>4. k \in Worker(r) \/ k \in recovering[r] \/ k \in Way(ShardOf[Metric(k)]) \/ InHand(k)
    BY <1>7 DEF Underway
  <2>5. CASE InHand(k)
    BY <1>6, <1>7, <2>5 DEF InHand
  <2> QED
    BY <2>1, <2>2, <2>3, <2>4, <2>5
<1> QED
  BY <1>3, <1>5, <1>7

-----------------------------------------------------------------------------
(* All of the order. *)

LEMMA InitOrder == Init => OrderInv
<1> SUFFICES ASSUME Init PROVE OrderInv
  OBVIOUS
<1>1. Range(<<>>) = {} /\ DOMAIN <<>> = {} /\ NoLine.ops = <<>> /\ NoLine.pos = 1 /\ Nothing.ops = {}
  BY SMTT(30) DEF Range, NoLine, Nothing
<1>2. ASSUME NEW r \in Replicas
      PROVE  /\ applied[r] = <<>> /\ batch[r] = <<>> /\ queue[r] = <<>> /\ recovering[r] = {}
             /\ outbox[r] = {} /\ unsynced[r] = {} /\ live[r] = NoLine /\ stale[r] = {}
  BY DEF Init
<1>3. ASSUME NEW s \in Shards PROVE fanout[s] = <<>> /\ moving[s].ops = {}
  BY <1>1 DEF Init
<1>4. ASSUME NEW h \in Handlers PROVE ops[h] = <<>> /\ pc[h] = "idle" /\ pending[h] = {}
  BY DEF Init
<1>5. published = {} /\ closing = FALSE
  BY DEF Init
<1>6. ASSUME NEW r \in Replicas PROVE Worker(r) = {}
  BY <1>1, <1>2 DEF Worker
<1>7. ASSUME NEW s \in Shards PROVE Way(s) = {}
  <2>1. moving[s].ops = {} /\ Range(fanout[s]) = {}
    BY <1>1, <1>3
  <2> QED
    BY <2>1 DEF Way
<1>8. PublishedInv
  BY <1>1, <1>2, <1>5, <1>6, <1>7 DEF PublishedInv
<1>9. LockInv
  <2>1. ASSUME NEW h \in Handlers PROVE LockOf(h) /\ Held(h) = {}
    BY <1>1, <1>4 DEF LockOf, Held
  <2> QED
    BY <2>1, LockParts
<1>10. ASSUME NEW r \in Replicas PROVE AppliedOrder(r) /\ Delivery(r)
  <2>1. AppliedOrder(r) /\ BatchOrder(r) /\ QueueOrder(r)
    BY <1>1, <1>2, EmptyOrder DEF AppliedOrder, BatchOrder, QueueOrder
  <2>2. LinesOrder(r)
    BY <1>1, <1>2, EmptyOrder DEF LinesOrder
  <2>3. RecoveryOrder(r) /\ Underway(r)
    BY <1>2, <1>5 DEF RecoveryOrder, Underway
  <2>4. ASSUME NEW s \in Shards PROVE MovingOrder(r, s) /\ FanoutOrder(r, s)
    BY <1>1, <1>3 DEF MovingOrder, FanoutOrder
  <2>5. ASSUME NEW h \in Handlers PROVE HandlerOrder(r, h)
    BY <1>4 DEF HandlerOrder
  <2> QED
    BY <2>1, <2>2, <2>3, <2>4, <2>5 DEF Delivery
<1> QED
  BY <1>5, <1>8, <1>9, <1>10 DEF OrderInv

LEMMA StepOrder == IInv /\ IInv' /\ OrderInv /\ [Next]_vars => OrderInv'
<1> SUFFICES ASSUME IInv, IInv', OrderInv, [Next]_vars PROVE OrderInv'
  OBVIOUS
<1>1. /\ Step /\ OutboxInv /\ (\A h \in Handlers : HandlerInv(h)) /\ \A r \in Replicas : WorkerInv(r)
  BY DEF IInv, Step
<1>2. PublishedInv /\ LockInv /\ (closing => closes # 0)
  BY DEF OrderInv
<1>3. (\A r \in Replicas : PublishedTo(r)) /\ \A s \in Shards : PublishedOn(s)
  BY <1>2 DEF PublishedInv, PublishedTo, PublishedOn
<1>4. (closing' => closes' # 0) /\ (closes' = 0 => closes = 0 /\ ~closing)
  BY <1>1, <1>2, StepClosing
<1>5. PublishedInv' /\ LockInv'
  BY <1>1, <1>2, StepPublished, StepLock
<1>6. ASSUME NEW r \in Replicas PROVE AppliedOrder(r)'
  <2>1. AppliedOrder(r) /\ (closes = 0 => LinesOrder(r))
    BY DEF OrderInv, Delivery
  <2> QED
    BY <1>1, <1>2, <1>3, <1>4, <2>1, StepApplied
<1>7. ASSUME NEW r \in Replicas, closes' = 0 PROVE Delivery(r)'
  <2>1. /\ LinesOrder(r) /\ BatchOrder(r) /\ QueueOrder(r) /\ RecoveryOrder(r) /\ Underway(r)
        /\ \A s \in Shards : MovingOrder(r, s) /\ FanoutOrder(r, s)
        /\ \A h \in Handlers : HandlerOrder(r, h)
    BY <1>4, <1>7 DEF OrderInv, Delivery
  <2>2. ~closing
    BY <1>4, <1>7
  <2>3. LinesOrder(r)'
    BY <1>1, <1>2, <1>3, <2>1, <2>2, StepLines
  <2>4. BatchOrder(r)' /\ QueueOrder(r)'
    BY <1>1, <1>2, <1>3, <2>1, <2>2, StepQueue
  <2>5. RecoveryOrder(r)'
    BY <1>1, <1>2, <1>3, <2>1, <2>2, StepRecovery
  <2>6. Underway(r)'
    BY <1>1, <1>2, <1>3, <2>1, <2>2, StepUnderway
  <2>7. \A s \in Shards : MovingOrder(r, s)'
    BY <1>1, <1>2, <1>3, <2>1, <2>2, StepMoving
  <2>8. \A s \in Shards : FanoutOrder(r, s)'
    BY <1>1, <1>2, <1>3, <2>1, <2>2, StepFanout
  <2>9. \A h \in Handlers : HandlerOrder(r, h)'
    BY <1>1, <1>2, <1>3, <2>1, <2>2, StepHandlerOrder
  <2> QED
    BY <2>3, <2>4, <2>5, <2>6, <2>7, <2>8, <2>9 DEF Delivery
<1> QED
  BY <1>4, <1>5, <1>6, <1>7 DEF OrderInv

LEMMA OrderIsApplied == TypeOK /\ OrderInv => AppliedInOrder
<1> SUFFICES ASSUME TypeOK, OrderInv, NEW r \in Replicas, NEW i \in DOMAIN applied[r]
             PROVE  LET n == applied[r][i]
                        before == {applied[r][j] : j \in 1..(i - 1)}
                    IN /\ n \notin before
                       /\ closes = 0 =>
                             {k \in published : k < n /\ Metric(k) = Metric(n)} \subseteq before
  BY DEF AppliedInOrder
<1>1. applied[r] \in Seq(Ids)
  BY DEF TypeOK
<1>2. DOMAIN applied[r] = 1..Len(applied[r]) /\ Len(applied[r]) \in Nat
  BY <1>1, SMTT(30)
<1>3. \A j \in 1..(i - 1) : j \in DOMAIN applied[r] /\ j < i
  BY <1>2, SMTT(30)
<1>4. AppliedOrder(r) /\ PublishedInv
  BY DEF OrderInv
<1>5. \A j \in 1..(i - 1) : applied[r][i] # applied[r][j]
  BY <1>3, <1>4 DEF AppliedOrder
<1>6. applied[r][i] \in published
  <2>1. applied[r][i] \in Range(applied[r])
    BY DEF Range
  <2> QED
    BY <1>4, <2>1 DEF PublishedInv, Worker
<1>7. ASSUME closes = 0 PROVE earlier[applied[r][i]] \subseteq {applied[r][j] : j \in 1..(i - 1)}
  <2>1. earlier[applied[r][i]] \subseteq {} \cup Span(applied[r], 1, i)
    BY <1>2, <1>4, <1>7 DEF AppliedOrder, InOrder
  <2> QED
    BY <2>1 DEF Span
<1>8. earlier[applied[r][i]] = {k \in published : k < applied[r][i] /\ Metric(k) = Metric(applied[r][i])}
  BY <1>6 DEF earlier
<1> QED
  BY <1>5, <1>7, <1>8

-----------------------------------------------------------------------------
(* The abstract log. *)

LEMMA RefinesCommit ==
    ASSUME Step, NEW h \in Handlers, Execute(h)
    PROVE  ReplicatedLogSpec!Commit
<1>1. PICK size \in 1..MaxItems : \E items \in [1..size -> Item] : log' = log \o items
  BY DEF Execute, Item
<1>2. PICK items \in [1..size -> Item] : log' = log \o items
  BY <1>1
<1>3. log \in Seq(Item) /\ log' \in Seq(Item)
  BY DEF Step, TypeOK, Item
<1> HIDE DEF Item
<1>4. size \in Nat /\ size > 0 /\ items \in Seq(Item) /\ Len(items) = size
  BY <1>1, <1>2, BoundsAssumption, SMTT(30)
<1>5. /\ Len(log') = Len(log) + size /\ Len(log) \in Nat
      /\ \A i \in 1..Len(log) : log'[i] = log[i]
  <2>1. /\ Len(log') = Len(log) + Len(items) /\ Len(log) \in Nat
        /\ \A i \in 1..(Len(log) + Len(items)) :
              log'[i] = IF i <= Len(log) THEN log[i] ELSE items[i - Len(log)]
    <3>1. log \in Seq(Item) /\ items \in Seq(Item)
      BY <1>3, <1>4
    <3> QED
      BY <1>2, <3>1, SMTT(30)
  <2>2. \A i \in 1..Len(log) : i \in 1..(Len(log) + Len(items)) /\ i <= Len(log)
    BY <1>4, <2>1, SMTT(30)
  <2> QED
    BY <1>4, <2>1, <2>2
<1>6. SubSeq(log', 1, Len(log)) = log
  <2> DEFINE p == SubSeq(log', 1, Len(log))
  <2>1. p \in Seq(Item) /\ Len(p) = Len(log) /\ \A i \in 1..Len(log) : p[i] = log'[i]
    BY <1>3, <1>4, <1>5, SMTT(30)
  <2>2. \A i \in 1..Len(log) : p[i] = log[i]
    BY <1>5, <2>1
  <2> HIDE DEF p
  <2>3. p = log
    BY <1>3, <2>1, <2>2, SMTT(30)
  <2> QED
    BY <2>3 DEF p
<1>7. Len(log') > Len(log)
  BY <1>4, <1>5, SMTT(30)
<1>8. published' = published /\ applied' = applied /\ acked' = acked /\ closes' = closes
  BY DEF Execute, faultVars
<1> QED
  BY <1>6, <1>7, <1>8 DEF ReplicatedLogSpec!Commit

LEMMA RefinesPublish ==
    ASSUME Step, LockInv, NEW h \in Handlers, PutBatch(h)
    PROVE  Items(h) \subseteq DOMAIN log /\ ReplicatedLogSpec!Publish(Items(h))
<1>1. DOMAIN log = Ids
  <2>1. log \in Seq(Item)
    BY DEF Step, TypeOK, Item
  <2> QED
    BY <2>1, SequenceFacts DEF Ids
<1>2. Items(h) \subseteq DOMAIN log
  BY <1>1, ItemsType DEF Step
<1>3. pc[h] = "replicate" /\ published' = published \cup Items(h)
  BY DEF PutBatch
<1>4. \A n \in Items(h), k \in published : log[k].metric = log[n].metric => k < n
  BY <1>3, Fresh DEF Step, Metric
<1>5. log' = log /\ applied' = applied /\ acked' = acked /\ closes' = closes
  BY DEF PutBatch, faultVars
<1> QED
  BY <1>2, <1>3, <1>4, <1>5 DEF ReplicatedLogSpec!Publish

LEMMA RefinesAcknowledge ==
    ASSUME Step, NEW h \in Handlers, HandlerInv(h), Reply(h)
    PROVE  Range(ops[h]) \subseteq DOMAIN log /\ ReplicatedLogSpec!Acknowledge(Range(ops[h]))
<1>1. ops[h] \in Seq(Ids) /\ start[h] \in Nat /\ DOMAIN log = Ids
  <2>1. log \in Seq(Item) /\ ops[h] \in Seq(Ids) /\ start[h] \in Nat
    BY DEF Step, TypeOK, Item
  <2>2. DOMAIN log = Ids
    BY <2>1, SequenceFacts DEF Ids
  <2> QED
    BY <2>1, <2>2
<1>2. DOMAIN ops[h] = 1..Len(ops[h]) /\ \A i \in 1..Len(ops[h]) : ops[h][i] \in Ids
  BY <1>1, SequenceFacts
<1>3. \A i \in 1..Len(ops[h]) : i < start[h]
  <2>1. start[h] > Len(ops[h])
    BY DEF Reply
  <2> QED
    BY <1>1, <2>1, SMTT(30)
<1>4. \A i \in 1..Len(ops[h]) : ops[h][i] \in published /\ (Quorum(ops[h][i]) => Reached(ops[h][i]))
  BY <1>3 DEF HandlerInv
<1>5. \A n \in Range(ops[h]) : n \in Ids /\ n \in published /\ (Quorum(n) => Reached(n))
  BY <1>2, <1>4 DEF Range
<1>6. \A n \in Range(ops[h]) : ReplicatedLogSpec!Quorate(n)
  <2>1. \A S : ReplicatedLogSpec!Cardinality(S) = Cardinality(S)
    BY DEF ReplicatedLogSpec!Cardinality, Cardinality, ReplicatedLogSpec!IsFiniteSet, IsFiniteSet
  <2>2. \A n \in Range(ops[h]) : log[n].quorum =>
            Needed <= Cardinality({r \in Replicas : n \in Range(applied[r])})
    BY <1>5 DEF Quorum, Reached, Has
  <2>3. \A r : ReplicatedLogSpec!Applied(r) = Range(applied[r])
    BY DEF ReplicatedLogSpec!Applied, Range
  <2> QED
    BY <2>1, <2>2, <2>3 DEF ReplicatedLogSpec!Quorate
<1>7. /\ acked' = acked \cup Range(ops[h])
      /\ log' = log /\ published' = published /\ applied' = applied /\ closes' = closes
  BY DEF Reply, disk, faultVars
<1> QED
  BY <1>1, <1>5, <1>6, <1>7 DEF ReplicatedLogSpec!Acknowledge

\* A replica applies the next entry, or recognizes one that it has.
LEMMA RefinesApply ==
    ASSUME Step, NEW r \in Replicas, NEW line \in Line, line.pos <= Len(line.ops),
           Range(line.ops) \subseteq published,
           closes = 0 => InOrder(earlier, line.ops, line.pos, Range(applied[r])),
           applied' = [applied EXCEPT ![r] = ExecuteItem(@, line.ops[line.pos])],
           log' = log, published' = published, acked' = acked, closes' = closes
    PROVE  applied' = applied \/ \E n \in published : ReplicatedLogSpec!Apply(r, n)
<1> DEFINE n == line.ops[line.pos]
<1>1. TypeOK /\ applied \in [Replicas -> Seq(Ids)] /\ published \subseteq Ids
  BY DEF Step, TypeOK
<1>2. line.pos \in DOMAIN line.ops
  BY LineFacts
<1>3. n \in published
  BY <1>2 DEF Range
<1>4. closes = 0 => earlier[n] \subseteq Range(applied[r])
  BY <1>1, LineReady
<1>5. applied' = [applied EXCEPT ![r] = ExecuteItem(@, n)]
  OBVIOUS
<1> HIDE DEF n
<1>6. CASE n \in Range(applied[r])
  BY <1>1, <1>5, <1>6 DEF ExecuteItem
<1>7. CASE n \notin Range(applied[r])
  <2>1. applied' = [applied EXCEPT ![r] = Append(@, n)]
    BY <1>1, <1>5, <1>7 DEF ExecuteItem
  <2>2. n \in Nat
    BY <1>1, <1>3, IdsNat
  <2>3. \A k \in 1..(n - 1) : k < n
    BY <2>2, SMTT(30)
  <2>4. ReplicatedLogSpec!Earlier(n) \cap published \subseteq earlier[n]
    BY <1>3, <2>3 DEF ReplicatedLogSpec!Earlier, earlier, Metric
  <2>5. ReplicatedLogSpec!Applied(r) = Range(applied[r])
    BY DEF ReplicatedLogSpec!Applied, Range
  <2>6. ReplicatedLogSpec!Apply(r, n)
    BY <1>3, <1>4, <1>7, <2>1, <2>4, <2>5 DEF ReplicatedLogSpec!Apply
  <2> QED
    BY <1>3, <2>6
<1> QED
  BY <1>6, <1>7

LEMMA StepRefines ==
    IInv /\ IInv' /\ OrderInv /\ [Next]_vars => [ReplicatedLogSpec!Next]_(ReplicatedLogSpec!vars)
<1> SUFFICES ASSUME IInv, IInv', OrderInv, [Next]_vars
             PROVE  ReplicatedLogSpec!Next \/ UNCHANGED ReplicatedLogSpec!vars
  OBVIOUS
<1>1. Step /\ LockInv /\ PublishedInv /\ \A h \in Handlers : HandlerInv(h)
  BY DEF IInv, OrderInv, Step
<1>2. /\ applied \in [Replicas -> Seq(Ids)] /\ live \in [Replicas -> Line]
      /\ stale \in [Replicas -> SUBSET Line]
  BY <1>1 DEF Step, TypeOK
<1>3. CASE /\ log' = log /\ published' = published /\ applied' = applied
           /\ acked' = acked /\ closes' = closes
  BY <1>3 DEF ReplicatedLogSpec!vars
<1>4. ASSUME NEW h \in Handlers, HandlerStep(h)
      PROVE  ReplicatedLogSpec!Next \/ UNCHANGED ReplicatedLogSpec!vars
  <2>1. CASE Execute(h)
    BY <1>1, <2>1, RefinesCommit DEF ReplicatedLogSpec!Next
  <2>2. CASE PutBatch(h)
    BY <1>1, <2>2, RefinesPublish DEF ReplicatedLogSpec!Next
  <2>3. CASE Reply(h)
    BY <1>1, <2>3, RefinesAcknowledge DEF ReplicatedLogSpec!Next
  <2>4. CASE EnqueueFanout(h) \/ QuorumReached(h) \/ Fail(h)
    BY <1>3, <2>4 DEF EnqueueFanout, QuorumReached, Fail, disk, faultVars
  <2> QED
    BY <1>4, <2>1, <2>2, <2>3, <2>4 DEF HandlerStep
<1>5. ASSUME NEW s \in Shards, FanoutStep(s) PROVE UNCHANGED ReplicatedLogSpec!vars
  BY <1>5 DEF FanoutStep, FanoutTake, FanoutMove, disk, faultVars, ReplicatedLogSpec!vars
<1>6. ASSUME NEW r \in Replicas, ExecuteLive(r)
      PROVE  ReplicatedLogSpec!Next \/ UNCHANGED ReplicatedLogSpec!vars
  <2>1. /\ live[r] \in Line /\ live[r].pos <= Len(live[r].ops)
        /\ applied' = [applied EXCEPT ![r] = ExecuteItem(@, live[r].ops[live[r].pos])]
        /\ log' = log /\ published' = published /\ acked' = acked /\ closes' = closes
    BY <1>2, <1>6 DEF ExecuteLive, disk, faultVars
  <2>2. /\ Range(live[r].ops) \subseteq published
        /\ closes = 0 => InOrder(earlier, live[r].ops, live[r].pos, Range(applied[r]))
    BY <1>1 DEF PublishedInv, OrderInv, Delivery, LinesOrder
  <2>3. applied' = applied \/ \E n \in published : ReplicatedLogSpec!Apply(r, n)
    BY <1>1, <2>1, <2>2, RefinesApply
  <2> QED
    BY <1>3, <2>1, <2>3 DEF ReplicatedLogSpec!Next
<1>7. ASSUME NEW r \in Replicas, ExecuteStale(r)
      PROVE  ReplicatedLogSpec!Next \/ UNCHANGED ReplicatedLogSpec!vars
  <2>1. PICK line \in stale[r] :
          /\ line.pos <= Len(line.ops)
          /\ applied' = [applied EXCEPT ![r] = ExecuteItem(@, line.ops[line.pos])]
    BY <1>7 DEF ExecuteStale
  <2>2. /\ line \in Line
        /\ log' = log /\ published' = published /\ acked' = acked /\ closes' = closes
    BY <1>2, <1>7, <2>1 DEF ExecuteStale, disk, faultVars
  <2>3. /\ Range(line.ops) \subseteq published
        /\ closes = 0 => InOrder(earlier, line.ops, line.pos, Range(applied[r]))
    BY <1>1 DEF PublishedInv, OrderInv, Delivery, LinesOrder
  <2>4. applied' = applied \/ \E n \in published : ReplicatedLogSpec!Apply(r, n)
    BY <1>1, <2>1, <2>2, <2>3, RefinesApply
  <2> QED
    BY <1>3, <2>2, <2>4 DEF ReplicatedLogSpec!Next
<1>8. ASSUME NEW r \in Replicas, WorkerStep(r) \/ LineFault(r), ~ExecuteLive(r), ~ExecuteStale(r)
      PROVE  UNCHANGED ReplicatedLogSpec!vars
  BY <1>8 DEF WorkerStep, LineFault, RecoverRecord, TakeBatch, SendLine, Confirmed, DeleteBatch,
       Timeout, Dropped, AbandonBatch, disk, faultVars, ReplicatedLogSpec!vars
<1>9. CASE Close
  BY <1>9 DEF Close, disk, ReplicatedLogSpec!Next, ReplicatedLogSpec!Stop
<1>10. CASE AbandonRecovery \/ Restart \/ UNCHANGED vars
  BY <1>10 DEF AbandonRecovery, Restart, vars, disk, faultVars, ReplicatedLogSpec!vars
<1> QED
  BY <1>4, <1>5, <1>6, <1>7, <1>8, <1>9, <1>10 DEF Next

-----------------------------------------------------------------------------
FS == INSTANCE FiniteSetTheorems

LEMMA CountingHolds == Counting
<1>1. \A S : FS!Cardinality(S) = Cardinality(S)
  BY DEF FS!Cardinality, Cardinality, FS!IsFiniteSet, IsFiniteSet
<1>2. ASSUME NEW S, S \subseteq Replicas PROVE IsFiniteSet(S)
  BY <1>2, ReplicasAssumption, FS!FS_Subset DEF FS!IsFiniteSet, IsFiniteSet
<1>3. ASSUME NEW S, IsFiniteSet(S) PROVE Cardinality(S) \in Nat
  BY <1>1, <1>3, FS!FS_CardinalityType DEF FS!IsFiniteSet, IsFiniteSet
<1>4. ASSUME NEW S, NEW T, S \subseteq T, IsFiniteSet(T) PROVE Cardinality(S) <= Cardinality(T)
  BY <1>1, <1>4, FS!FS_Subset DEF FS!IsFiniteSet, IsFiniteSet
<1> QED
  BY <1>2, <1>3, <1>4 DEF Counting

LEMMA InvHolds == Spec => []IInv
<1>1. IInv /\ [Next]_vars => IInv'
  BY StepInv, CountingHolds
<1> QED
  BY <1>1, InitInv, PTL DEF Spec

\* No crash, shutdown, timeout or retry loses an acknowledged mutation: each replica has
\* applied it, or it is in the outbox that the next start recovers.
THEOREM AcknowledgedIsDurable == Spec => []AckedSurvives
<1>1. IInv => AckedSurvives
  BY DEF IInv, AckedInv, OutboxInv, AckedSurvives, Has
<1> QED
  BY <1>1, InvHolds, PTL

\* An acknowledgement with QUORUM is a promise that the needed number of replicas has
\* applied the mutation.
THEOREM QuorumIsHonoured == Spec => []QuorumApplied
<1>1. IInv => QuorumApplied
  BY DEF IInv, AckedInv, QuorumApplied, Quorum, Reached, Has
<1> QED
  BY <1>1, InvHolds, PTL

LEMMA OrderHolds == Spec => [](IInv /\ OrderInv)
<1>1. Init => IInv /\ OrderInv
  BY InitInv, InitOrder
<1>2. IInv /\ [Next]_vars => IInv'
  BY StepInv, CountingHolds
<1>3. IInv /\ OrderInv /\ [Next]_vars => (IInv /\ OrderInv)'
  BY <1>2, StepOrder
<1> QED
  BY <1>1, <1>3, PTL DEF Spec

\* Every replica applies the published mutations of a metric in the order of their commits
\* on the primary, each once and none left out, as long as the primary is not shut down in
\* an orderly way; crashes, timeouts, retries, late copies of a line, quorum requests and
\* the recovery of the outbox do not disturb it.
THEOREM MutationsArriveInOrder == Spec => []AppliedInOrder
<1>1. IInv /\ OrderInv => AppliedInOrder
  BY OrderIsApplied DEF IInv
<1> QED
  BY <1>1, OrderHolds, PTL

\* Peer replication is one log: every step of the handlers, queues, workers and replicas is
\* a commit, a publication behind all earlier ones of the metric, an application of the
\* next entry, an acknowledgement of entries that will arrive, a stop, or invisible.
THEOREM RefinesLog == Spec => ImplementsLog
<1>1. Init => ReplicatedLogSpec!Init
  BY DEF Init, ReplicatedLogSpec!Init
<1>2. IInv /\ IInv' /\ OrderInv /\ [Next]_vars => [ReplicatedLogSpec!Next]_(ReplicatedLogSpec!vars)
  BY StepRefines
<1>3. Init /\ [][Next]_vars => [](IInv /\ OrderInv)
  BY OrderHolds DEF Spec
<1> QED
  BY <1>1, <1>2, <1>3, PTL DEF Spec, ImplementsLog, ReplicatedLogSpec!Spec
=============================================================================
