# FlameDB verification

TLA+ models of FlameDB, the TLC runs that check them on small instances, and
TLAPS proofs for every size. `PROJECT.json` maps each definition to the lines it
models and lists runs, mutants, hazards and theorems. Paths below are relative to
`src/`.

## The system

FlameDB stores events (metric, timestamp, value, tags) and leaderboards derived
from them. It runs in one of two modes behind the same line protocol.

**Pebble mode.** Each node has a local Pebble store. A consistent-hash ring places
each metric on a primary and some replicas. Any node accepts a request and
forwards it. The primary commits locally, writes an outbox record per replica and
sends the records in order; replicas record receipts. `AUDIT_2026-09-18.md:88`
says what this is not: a consensus database.

**Shared mode (Next Gen).** Servers without state share PostgreSQL. Redis holds a
disposable copy of the rankings, used only if its version is the durable one.
Small writes of many connections are merged into transactions.

**Clients.** The Kotlin client has a connection pool and a journal that buffers
writes on disk.

| Part | Code | State | Operations | Modules |
|---|---|---|---|---|
| Ranking projection | `internal/analytics/ranking.go`, `mutation.go` | score rows, metric version; in Redis epoch, version, sorted set, hash and size per board; calls under way; a phase per request | WRITE, SET, DELETE, apply and publish scripts, ranking requests, rebuild, SQL fallback, eviction, failover | Projection, RankingService |
| Ingest | `batch.go`, `metric_batch.go`, `ingest_snapshot.go`, `automatic_ingest.go` | events, scores, versions, clocks, advisory locks, progress of each transaction | lock, read, stage, allocate, write and commit, fail, publish | Ingest |
| Timestamps | `timestamp_batch.go`, `engine.go` | occupied positions, clock, page, candidate | start, fetch page, scan, end page | Timestamps |
| Coalescer | `coalescing.go`, `metric_batch.go` | queue, carried chunk, wave, jobs, contexts, answers | submit, collect, dispatch, execute, answer, cancel, expire, close | Coalescer |
| Aggregate reader | `aggregate_batch.go`, `read.go`, `event_filter.go` | queue, wave, groups and single reads of each worker, contexts, answers, the database's history | submit, collect, group, shared and single statements, cancel, expire, fail, close | AggregateReader |
| Replication | `internal/cluster/replication.go`, `pool.go` | log, outbox, fanout and replica queues, lines, receipts, acknowledgements | mutate, publish, fan out, send, retry, confirm, delete, recover, close, crash | Replication, ReplicatedLog |
| Pebble store | `internal/query`, `internal/aggregates`, `internal/storage/storage.go` | events, tag index, scores, ranking keys, receipts, metric and stripe locks | WRITE, WRITE_BATCH, SET, DELETE, DRYRUN, replica lines, crash | PebbleStore |
| Tag counts | `internal/storage/card_*.go`, `cardinality.go` | durable counts and members, cache, pending values, flushes | add, tick, take, flush, fail, close | TagCounts |
| Ring and membership | `ring.go`, `discovery.go`, `cluster.go`, parts of `server.go` | each node's ring, failed pings, messages | start, JOIN, gossip, heartbeat, remove, stop | HashRing, Membership |
| Routing | `server.go`, `cluster.go`, `pool.go` | handlers waiting for each other, the reply, executed items | receive, execute, group, forward, merge, fail over, lose a connection | Routing |
| Rebalancing | `rebalance.go`, `storage.go`, `server.go` | triggers, workers, claims, what this node and its peers hold, tag index, replica lines | trigger, connect, list, claim, export in three scans, import, release, fail, close; writes at a peer and their lines | Rebalance |
| Kotlin journal | `BufferedFlameDB.kt` | files and extensions, accounted size, sender, requests under way | record, seal, claim, send, classify, save, recover, stop, crash | Journal |
| Kotlin pool | `CommandPool.kt`, `ResponseReader.kt` | slots, sockets, callers, workers | acquire, dispatch, dial, write, read, time out, cancel, close | CommandPool |

How they interact:

- Ingest hands each committed change of scores to the projection.
  `PublicationsExact` in Ingest is what Projection assumes of its deferred calls.
- Rebalance imports what Replication did not send because the node was not a replica
  yet; it is checked next to the lines that Replication sends meanwhile.
- The coalescer executes each wave through `copyGroupedWrites`: one ingest transaction,
  or several, divided by metric, if the wave is large. It is checked against
  transactions that reject single items or fail, each by itself.
- Timestamps is the search that Ingest performs in one step.
- PebbleStore is a node's executor for clients and for replica lines. Replication
  assumes that a replica applies an operation once, which is `AppliedOnce`.
- PebbleStore extends TagCounts: requests wait for flushes and crashes hit both.
- Routing extends Membership, which extends HashRing, so requests run while the
  rings change.
- The journal repeats what the pool reports as NOT_SENT; `NotSentIsTrue` is what
  `NeverReplayed` rests on.

The behaviours that make this hard are listed one by one, with their lines, under
"hazards" in `PROJECT.json`. Those that no property covers say why.

## How the models read the code

Each action is one handler, or one section between points where another goroutine,
process or failure can step in: a lock, a commit, a remote call, a rename. Data is
reduced to what the properties distinguish. Operators marked *defective variant*
in a module are plausible bugs; no specification uses them. `PROJECT.json` names
one for each property of each passing run, and TLC finds the property violated
with it.

- **Projection.** A mutation commits under the metric's lock and defers its
  publication, so calls arrive late, repeatedly or never (`net`). A script is one
  step, as in Redis. A reader passes through the phases of `leaderboard`:
  version, epoch, cached board, exclusive lock, rebuild, second attempt, SQL
  statements. `hist` records every committed state. The standby copies Redis at
  arbitrary moments and may take over.
- **Ingest.** A batch is split into jobs by stripe, and a job locks its metrics in
  order, shared or exclusive as `beginIngest` decides. What it reads is kept until
  it commits. A failed commit may or may not have taken effect. Each server's clock
  is any value up to `MaxWall`. A DELETE is an interval without upper end; the
  condition on tags, which narrows it further, and DRYRUN are left out, since no
  property depends on which events it removes.
- **Timestamps.** Integers end at `MaxInt`, so the overflow check matters.
- **Coalescer.** Cancellation, expiry and `close()` may occur at any step. A
  result channel holds one answer. A wave of `SplitSize` items or more and of several
  metrics (64 items in the code) is divided into jobs, of which some may commit and
  others fail; the error of one job rejects its own items only.
- **AggregateReader.** Reads of one metric that have a tag in common share a
  statement. A statement is one step on the current events; `hist` keeps the earlier
  ones, so that an answer can be compared with what the read would have found alone.
- **Replication.** One primary with its replicas. A handler holds the metric's lock
  from commit to fanout. A line may be executed late, twice or never. A crash loses
  memory, not the outbox. A replica's restart equals losing copies of lines.
- **PebbleStore, TagCounts.** Batches are staged against a view and committed in
  one step; the write-ahead log is synced by a mutation's commit, not by a flush of
  counts, so a crash may undo the flush. A flush may fail, also the closing one, whose
  error `Storage.Close` drops, and a count that cannot be read is taken for 0. `truth` executes the committed items one
  by one and is the reference of the invariants. Reading a page and ranking are
  operators compared with their definitions in every reachable state.
- **HashRing, Membership, Routing.** Nodes have virtual positions on a small ring.
  A request is the stack of handlers that wait for each other. A lost call's
  handler stops where it was; the code has no retry there. Requests share nothing
  but the rings, so there is one per behaviour. The `__local` flag of batch items
  is ignored when a batch is split, which allows more than the code. RANK, SCORE
  and AROUND are executed where they arrive, one of the choices of a read.
- **Rebalance.** One importing node and its peers. An export's three scans are
  separate steps, so writes fall between them. The replication factor selects the
  metrics to be held. Whether a peer sends a write here depends on its own ring and
  factor, which change independently of this node's; a write therefore comes with a
  line or without one, and `unsent` records the latter until an import brings the event.
  A worker whose connection is lost goes on to claim and release the rest of its list.
- **Journal.** A file is a record with its number, extension and events; a crash
  may tear the last write, and an I/O error may leave part of a frame or a result that
  `retainedBytes` does not count (`missed`). A request may be executed after the client
  gave up. Loss of power is not modelled.
- **CommandPool.** Caller and worker are separate processes. A timeout, a
  cancellation or `close()` ends the caller while the worker keeps the slot.

## Runs

| Run | Instance | Shows |
|---|---|---|
| projection | one board, entity and reader, two commits, one call under way, one fault (loss, eviction or failover) | `ProjectionExact`: Redis and its standby never present a mixture of versions. `ImplementsService`: requests, rebuilds and mutations behave like the single copy of RankingService, so an answer is one committed state no older than its request. |
| projection_unregistered | a metric without a row | violation, see *Disagreements* |
| replication | two handlers with batches of up to two, one replica, one timeout, two crashes, one orderly stop | `AckedSurvives`, `QuorumApplied`, `AppliedInOrder`; `ImplementsLog`: the whole implements ReplicatedLog; `Delivered`: what is in the outbox arrives unless the process stays down. |
| journal | two events, files of up to two, one failed attempt, one I/O error, two crashes, one stop | `NeverReplayed`: no event is executed twice. `JournalExact`: none is lost, and the accounted size is that of the directory but for what failed writes have left since the start. `SentInOrder`; `EventuallySettled`. |
| command_pool | three requests on one slot | `NotSentIsTrue`; `ConnectionsExact`: slots, sockets and responses stay matched; `NeverStuck`. |
| coalescer | three chunks of two metrics, waves divided from three items on, two workers, a queue of two, two faults (a failing transaction or a caller that goes) | `AnswersAreFinal`: an item that is not reported is durable, items are reported at their own positions with the error of their own transaction and share its fate, and nobody holds a chunk any more whose caller has returned; `CallersIndependent`: an abort is reported only after `close()`, a deadline or when every participant is gone, and then it happens; `NeverStuck`. |
| timestamps | every set of positions in 1..6, pages of two, up to two timestamps | `AllocationExact`: the first free positions, increasing. `ExhaustedIsTrue`; `Terminates`. |
| ingest | four requests over three metrics in two stripes, one failure, clocks that differ | `ScoresExact`: no increment is lost or counted twice. `OutcomesExact`: callers and Redis are told the outcome the transaction had. `NeverStuck`; `AutomaticIsFresh`. |
| aggregate_reader | two reads, two workers, a queue of one, one change, one failure, two cancellations | `ReadsExact`, `Unpoisoned`: a shared statement answers and fails each read as if it were alone. `Returns`. |
| pebble_store | five sets of requests for three writers, one failed commit, one failed flush, one crash | `ReadsExact`, `ScoresExact`, `EventsExact`, `AppliedOnce`, `CountsExact`, `NeverStuck`. |
| cluster | three nodes, two metrics, four starts, two removals, one fault | `Converged`; `Reported`: no item is executed twice, and the answer tells which were executed; `RoutesDescend`: a request stops being forwarded. |
| rebalance | two peers, two metrics, two timestamps and tags, one trigger, one write, one fault | `FoundByTags`, `NothingMissing`, `StoreInUse`; `Completes`. The write comes with a line or without one. |

**Why the bounds are enough.** They are the smallest at which each hazard occurs.
A mixture of versions needs two commits, a late call and a rebuild. Replay needs a
crash after sending and a recovery, itself interrupted by the second crash. Lock
circles need two jobs that name two metrics in opposite orders. A page that hides
positions needs more occupied positions than rows. The mutants confirm that the
cases occur, and for the properties under *Proofs* no bound matters. Some bounds
cut behaviour off: a node removed and resurrected by late gossip could repeat that
for ever, so `MaxRemovals` limits it; `Strikes` is 3 in the code and 2 in the
instance. The cluster run ends at the reply to its request (`Pending`).

**Deadlock** is not checked where clients may stop calling or bounds are used up.
`NeverStuck` replaces it: whoever has begun can go on or has ended.

**Fairness.** Only `LiveSpec` of five modules states any, and only weak fairness.
Replication: goroutines that can go on do, and a retried line is executed in the
end, because `sendReplicationLineWithRetry` repeats it until the replica confirms.
Nothing is assumed of clients, crashes or forgotten lines. Journal: the client's
threads go on and a stopped client is started again; nothing is assumed of the
server, since requests time out. AggregateReader and Rebalance: each goroutine goes
on; statements and connections end, with an error if need be, because their
contexts have deadlines. Timestamps: the loop runs.

**Restrictions inside properties.** `EventsExact` excludes a timestamp that a
replica line writes and a client's DELETE reaches on the same node: lines take no
metric lock. `AppliedInOrder` promises the order while there was no orderly stop
(that nothing is applied twice it promises always), and `EventuallySettled` and
`SentInOrder` suppose no I/O error, for the reasons below. `Converged` supposes one
seed that keeps running, no failed connection and no removal: the code repairs
neither; what `RoutesDescend` and `Reported` show over such rings is that routing stays
safe, not that the rings are repaired. `NothingMissing` compares whole copies only where
the metric was not written meanwhile, and excepts an event that a peer wrote after the
export had read its events and did not send, because its ring or factor did not name
this node. `JournalExact` excepts from the account at most one frame or result per I/O
error, until the next start counts it. `CountsExact` excepts, after a failed read of a
count, that the count may be too small, and forgets pending values in a crash and in a
failed closing flush.

## Proofs

Each theorem holds for all values of the constants under the named assumptions of
its module: bounds are natural numbers (positive where the code divides or indexes
by them), functions of constants have their types, and placeholders such as `None`
are no values. Further ones: Projection has finitely many entities; Replication a
finite set of replicas that is not empty; an aggregate read has a filter and a range
of timestamps, as `submit` demands; the metrics of Ingest are numbers, in the order in
which they are locked, and those with a row are among them. No theorem is about a bound
of an instance.

An invariant is seldom inductive by itself; `IInv`, or a part that is named below, is
the strengthening.

**ProjectionProofs.**
- `TypeCorrect`, for registered and unregistered metrics.
- `CopyIsExact` (`ProjectionExact`), `RequestsAreLinearizable` (`ReadLinearizable`)
  and `RefinesService` (`ImplementsService`), for a registered metric; without the
  row they are false, see *Disagreements*. `IInv` adds: the version numbers the
  history (`VersionInv`); each deferred or travelling call leads from one version to
  the next or carries a version's snapshot (`CallInv`); recorded sizes are those of
  the claimed version, so a board that lost members fails the size check (`CopyInv`);
  a reader under the lock holds the current version (`ReaderInv`). `ApplyExact` and
  `PublishExact` are the core: the scripts keep a copy exact. In the refinement a
  commit is a mutation, a request's answer the read, and everything else a stutter.

**ReplicationProofs.**
- `AcknowledgedIsDurable` (`AckedSurvives`) and `QuorumIsHonoured` (`QuorumApplied`).
  `IInv` adds: what is published is applied or in the outbox (`OutboxInv`); what a
  handler has passed could be acknowledged (`HandlerInv`); what a line or a worker
  has passed is applied (`WorkerInv`).
- `MutationsArriveInOrder` (`AppliedInOrder`). `OrderInv` follows a record through all
  the places it can be: a handler holds its metrics alone and publishes in the order
  of the log (`LockInv`), and in the fanout queue, in the queue, batch and lines of a
  replica and in the recovery, whatever is earlier for the metric is ahead of it, in
  the same place or already applied (`Delivery`). This part supposes that no orderly
  stop happened; that nothing is applied twice (`AppliedOrder`) does not.
- `RefinesLog` (`ImplementsLog`): under both invariants each step is a commit, a
  publication, an application of the next entry, an acknowledgement, a stop or a
  stutter of ReplicatedLog.

**JournalProofs.**
- `EventsAreNotReplayed` (`NeverReplayed`), `EventsAreNotLost` (`NothingLost`) and
  `EventsKeepTheirOrder` (`SentInOrder`). `IInv`
  says which files exist in each phase of process and sender (`PhaseInv`,
  `FilesInv`), that events of a file to be sent were never transmitted and files are
  ordered as their events are (`UnsentInv`), that requests under way and executed
  events do not overlap (`WireInv`), that what is deleted or confirmed was executed
  (`ToldInv`), and, while no I/O error happened, that the sender is in order
  (`OrderInv`).
- `AccountIsExact` (`JournalExact`): besides, `retainedBytes` and what incomplete writes
  have left since the start are together the size of the directory. `AccountInv` states
  it of every step that adds, removes or rewrites a file; `MissedInv` bounds what is left
  by the I/O errors, and `TornInv` says that a file that still takes events does not end in part of a
  frame.
  A new file adds its whole size only if no file of that name is there: `CopiesInv` says
  that an original has no copy and an unjudged file no result yet.

**CommandPoolProofs.**
- `NotSentIsSafe` (`NotSentIsTrue`) and `ConnectionsStayMatched` (`ConnectionsExact`).
  `IInv` ties a caller to its worker (`CallerInv`), slots to requests (`SlotInv`), and
  sockets to slots and to the responses they owe (`SocketInv`, `SentInv`).

**TimestampsProofs.**
- `AllocationTyped`, `AllocatesFirstFree` (`AllocationExact`), `ExhaustionIsReal`
  (`ExhaustedIsTrue`). `IInv` adds where the candidate is in its window (`Position`)
  and that a page holds every occupied position up to its last row, or to the
  window's end if it is not full (`PageComplete`).

**IngestProofs.**
- `ScoresAddUp` (`ScoresExact`), `AutomaticEventsAreFresh` (`AutomaticIsFresh`) and
  `ReportsAreExact` (`ReportsExact`, what callers are told). `Inv` says that
  transactions under way exclude each other where it matters (`LockInv`) and hence that
  what a job has read is still what is stored (`SnapshotInv`), that what it is about to
  write is what its items add to that (`StagedInv`), and that its timestamps are free
  and behind the clock (`StampInv`, `ClockInv`); what is told is durable (`DurableInv`).
- `LockingNeverStops` (`NeverStuck`): locks are taken in ascending order, so the job with
  the greatest lock of all waits for one that nobody holds. It is about advisory locks;
  row locks of upserts in unsorted order under the shared lock are PostgreSQL's to detect.
- `OutcomesAreExact` (`OutcomesExact`) supposes `DeletesExist`: a DELETE from a board is
  for a metric with a row. Without it a change is published that has no version, see
  *Disagreements*. `OutcomeInv` adds that a version numbers the boards (`BoardInv`).

**AggregateReaderProofs.**
- `SharedReadsAreExact` (`ReadsExact`) and `FailuresArePrivate` (`Unpoisoned`). `IInv`
  says that a read is in one place until it is answered (`PlaceInv`), that the reads
  of a group share metric and anchor (`GroupInv`), and what each answer may be
  (`Right`); that filtering the shared rows gives what the single statement gives is
  a lemma about the operators.

**RebalanceProofs.**
- `EventsAreFound` (`FoundByTags`), `StoreOutlivesWorkers` (`StoreInUse`) and
  `ImportsAreComplete` (`NothingMissing`). The last needs what a worker has exported so
  far compared with the peer, the lines under way, the unsent events and the own store
  (`EventsInv`, `UnwrittenInv`), that a metric without an import is still claimed or to
  do (`TriggerInv`, `ClaimInv`), and that no connection is lost without a fault
  (`LostInv`); together `ImportInv`.

What Replication, Ingest and Journal need of finite sets and their cardinalities is one
definition in each, `Counting`, which the lemmas assume. It is proved from the library
last, so that the library is not in the way of every other step; no theorem assumes it.

Only model-checked:

- all liveness (`Delivered`, `EventuallySettled`, `Terminates`, `Returns`,
  `Completes`), which the prover cannot treat under fairness;
- `NeverStuck` of CommandPool, Coalescer and PebbleStore, which use ENABLED;
- the properties of PebbleStore and Routing, which are built on folds, `SelectSeq` and
  other operators with operator arguments, about which the installed provers know
  nothing;
- those of Coalescer, TagCounts and Membership, for which no proof is written yet.

## Disagreements

`projection_unregistered` is the finding. `mutate` increments a version only where
the metric has a row (`internal/analytics/mutation.go:189`), but publishes anyway.
For scores without that row a DELETE moves Redis to version 1 while PostgreSQL has
none; the next write reuses the number and a request may miss it, against "A
request starting after an ACK cannot observe an older SQL version".

Met while modelling, without a run of their own:

- `ranking.go:446`: the boards to delete are listed before publication, so a late
  apply can add one the list lacks. The size check keeps answers exact.
- `replication.go:273`: an orderly stop can refuse the fanout of a mutation whose
  record is in the outbox, while a later one was already queued; after the restart
  the earlier one arrives second.
- `BufferedFlameDB.kt:267`: the sender may end before the stop has sealed the open
  file; its events wait for the next start.
- `BufferedFlameDB.kt:448`, `538`: a frame or a result that is written in part is not
  counted by `retainedBytes` until the next start.
- `storage.go:237`, `card_updater.go:207`: the error of the closing flush is dropped and
  with it the pending tag values; an error of reading a count is taken for 0, and the
  flush then stores a count that is too small.
- Membership has no repair: a seed that restarts with an empty ring learns only of
  nodes that announce themselves, late gossip restores a removed node, and a node
  that returns with another address keeps the old one.
- Rebalancing (`rebalance.go`). `HasMetric` is asked before the claim (149, 154), so a
  second worker can import a metric again after the first released it, although the
  claim is to "Prevent multiple goroutines from importing the same metric."
  `HasMetric` looks at events while `listAllMetrics` also lists metrics that have
  scores only; these are imported again at every trigger, over the own scores. A
  first replica line makes a metric look present, so its history is not imported.
  Next to lines an import can lose or double increments, since receipts are not
  exported, and leave two ranking keys. An error answer to `CLUSTER_EXPORT` reads as
  an empty export. A metric skipped because another worker had claimed it stays absent
  if that import fails, until the next rebalance; a worker that has lost its connection
  claims the rest of its list in vain and can cause that. Events that a peer writes after
  its export, before it learns of this node or of the new factor (`server.go:317` starts
  the trigger before `BroadcastConfig`), are neither imported nor sent. `AUDIT_2026-09-18.md:88` says that
  rebalancing next to writes is not covered; the properties are stated accordingly.

## Not modelled

GET over several metrics and the listing of metrics, windowed and grouped rankings,
the Go and TypeScript clients. QUORUM and replica mutations of the shared mode;
batches of explicit raw events over several metrics, which stay one transaction.
Parsing, encodings, authentication, framing, configuration, migration and import
tools, benchmarks and the Grafana plugin have no interaction to check.
`PROJECT.json` lists each with its reason.

Possible extensions: the pools and retries of the Go and TypeScript clients; GET over
several metrics in Routing; one transaction for raw batches in Ingest; windowed and
grouped rankings as operators of PebbleStore.
