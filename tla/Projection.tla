----------------------------- MODULE Projection -----------------------------
(***************************************************************************)
(* The rankings of one metric in the shared (PostgreSQL + Redis) mode.     *)
(*                                                                         *)
(* PostgreSQL holds the scores and a version per metric.  Redis holds a    *)
(* disposable copy of one version of them: per board a sorted set z and a  *)
(* hash h, and a metadata hash with an epoch, the version and the size of  *)
(* each board.  A mutation commits under the metric's advisory lock and    *)
(* publishes its changes to Redis afterwards, without the lock; a ranking  *)
(* request reads the version, asks Redis for exactly that version, and     *)
(* rebuilds the copy or falls back to SQL when Redis does not have it.     *)
(*                                                                         *)
(* Calls to Redis may execute late, twice or never; Redis may lose keys    *)
(* and may fail over to a replica that is behind.                          *)
(***************************************************************************)
EXTENDS Integers, FiniteSets

CONSTANTS
    Boards,         \* leaderboards of the metric
    Entities,       \* entities that can have a score
    Readers,        \* concurrent ranking requests and maintenance rebuilds
    None,           \* no row, no Redis field, no key
    Registered,     \* whether flame_metrics has the metric's row initially
    MaxScore,       \* bound: scores are 0..MaxScore, larger sums are rejected
    MaxCommits,     \* bound on committed mutations
    MaxInFlight,    \* bound on Redis calls that may still execute
    MaxFaults       \* bound on evictions and on promotions of the Redis replica

ASSUME BoundsAssumption ==
    /\ MaxScore \in Nat /\ MaxCommits \in Nat /\ MaxInFlight \in Nat
    /\ MaxFaults \in Nat
ASSUME RegisteredAssumption == Registered \in BOOLEAN
ASSUME EntitiesAssumption == IsFiniteSet(Entities)
ASSUME NoneAssumption == None \notin Int /\ None \notin Boards

VARIABLES
    row,        \* flame_metrics has the metric
    version,    \* its version (0 without a row)
    scores,     \* flame_scores
    commits,    \* history: number of committed mutations
    hist,       \* history: the scores after each of them
    deferred,   \* committed changes not yet sent to Redis
    net,        \* script calls that may still execute at Redis
    redis,      \* the Redis master
    standby,    \* its asynchronous replica
    epochs,     \* number of epoch tokens generated
    faults,     \* number of evictions and promotions
    pc, ver, ep, snap, listed, board, since, res    \* per reader

durable == <<row, version, scores, commits, hist>>
cacheVars == <<redis, standby, epochs>>
readerVars == <<pc, ver, ep, snap, listed, board, since, res>>
vars == <<durable, deferred, net, cacheVars, faults, readerVars>>

-----------------------------------------------------------------------------
(* Data. *)

Values == 0..MaxScore
Board == [Entities -> Values \cup {None}]
EmptyBoard == [e \in Entities |-> None]
Key == Boards \X Entities

\* The members a sorted set holds for a board: an entity with its score.
Members(f) == {<<e, f[e]>> : e \in {x \in Entities : f[x] # None}}
HLen(f) == Cardinality({x \in Entities : f[x] # None})

\* What a ranking request reports: the number of entries, the ordered entries
\* (their order is a function of the members), and each entity's own score.
Answer(f) ==
    [size |-> Cardinality(Members(f)), entries |-> Members(f), own |-> f]
NoAnswer == [size |-> 0, entries |-> {}, own |-> EmptyBoard]

EmptyRedis ==
    [epoch |-> None, mepoch |-> None, mversion |-> None,
     count |-> [b \in Boards |-> None],
     z |-> [b \in Boards |-> {}],
     h |-> [b \in Boards |-> EmptyBoard]]

Expected(R, b) == IF R.count[b] = None THEN 0 ELSE R.count[b]
Intact(R, b) ==
    Cardinality(R.z[b]) = Expected(R, b) /\ HLen(R.h[b]) = Expected(R, b)

\* A committed change list is a function from the changed keys.
Touched(changes) == {k[1] : k \in DOMAIN changes}
OldMembers(changes, b) ==
    {<<k[2], changes[k].old>> :
        k \in {x \in DOMAIN changes : x[1] = b /\ changes[x].old # None}}
NewMembers(changes, b) ==
    {<<k[2], changes[k].new>> :
        k \in {x \in DOMAIN changes : x[1] = b /\ changes[x].new # None}}

-----------------------------------------------------------------------------
(* The three Lua scripts; each runs atomically at Redis. *)

ApplyChanges(R, m) ==
    LET z == [b \in Boards |->
                (R.z[b] \ OldMembers(m.changes, b)) \cup NewMembers(m.changes, b)]
    IN [R EXCEPT
          !.z = z,
          !.h = [b \in Boards |-> [e \in Entities |->
                   IF <<b, e>> \in DOMAIN m.changes
                   THEN m.changes[<<b, e>>].new ELSE R.h[b][e]]],
          !.count = [b \in Boards |->
                   IF b \in Touched(m.changes)
                   THEN Cardinality(z[b]) ELSE R.count[b]],
          !.mversion = m.prev + 1]

\* Variants of the script with a defect, for comparison: the version is not
\* compared; the recorded sizes are not refreshed.
ApplyAnyVersion(R, m) == IF R.mepoch # m.epoch THEN R ELSE ApplyChanges(R, m)
ApplyKeepsCounts(R, m) ==
    IF R.mepoch # m.epoch \/ R.mversion # m.prev THEN R
    ELSE [ApplyChanges(R, m) EXCEPT !.count = R.count]

\* applyProjectionLua: move the copy from m.prev to m.prev + 1, or drop the
\* version when a touched board has lost members.
ApplyProjection(R, m) ==
    IF R.mepoch # m.epoch \/ R.mversion # m.prev THEN R
    ELSE IF \E b \in Touched(m.changes) : ~Intact(R, b)
         THEN [R EXCEPT !.mversion = None]
    ELSE ApplyChanges(R, m)

\* publishProjection: replace the copy by the staged boards.  Boards without a
\* row in the snapshot are deleted only if the caller listed them.
PublishProjection(R, m) ==
    LET staged(b) == m.snap[b] # EmptyBoard
    IN [R EXCEPT
          !.z = [b \in Boards |-> IF staged(b) THEN Members(m.snap[b])
                                  ELSE IF b \in m.listed THEN {} ELSE R.z[b]],
          !.h = [b \in Boards |-> IF staged(b) THEN m.snap[b]
                                  ELSE IF b \in m.listed THEN EmptyBoard
                                  ELSE R.h[b]],
          !.count = [b \in Boards |-> IF staged(b)
                                  THEN Cardinality(Members(m.snap[b])) ELSE None],
          !.mepoch = m.epoch,
          !.mversion = m.version]

\* Defective variants: any version is served; sizes are not compared.
ReadableAnyVersion(R, b, epoch, v) == R.mepoch = epoch /\ Intact(R, b)
ReadableAnySize(R, b, epoch, v) == R.mepoch = epoch /\ R.mversion = v

\* readProjection accepts only the requested epoch and version, and only while
\* the sorted set and the hash still have the recorded size.
Readable(R, b, epoch, v) ==
    R.mepoch = epoch /\ R.mversion = v /\ Intact(R, b)
CachedAnswer(R, b) ==
    [size |-> Cardinality(R.z[b]), entries |-> R.z[b], own |-> R.h[b]]

-----------------------------------------------------------------------------
(* PostgreSQL advisory lock of the metric: mutations and rebuilds take it     *)
(* exclusively, SQL fallbacks share it.                                       *)

ExclusivePhases ==
    {"xepoch", "xrows", "xlist", "xpublish", "xread", "xcount", "xselect"}
SharedPhases == {"scount", "sselect"}
Phases == {"idle", "epoch", "read", "xlock", "slock", "done"}
            \cup ExclusivePhases \cup SharedPhases

SharedLockFree == \A r \in Readers : pc[r] \notin ExclusivePhases
LockFree == \A r \in Readers : pc[r] \notin ExclusivePhases \cup SharedPhases

Init ==
    /\ row = Registered
    /\ version = 0
    /\ scores = [b \in Boards |-> EmptyBoard]
    /\ commits = 0
    /\ hist = [i \in 0..0 |-> scores]
    /\ deferred = {}
    /\ net = {}
    /\ redis = EmptyRedis
    /\ standby = EmptyRedis
    /\ epochs = 0
    /\ faults = 0
    /\ pc = [r \in Readers |-> "idle"]
    /\ ver = [r \in Readers |-> 0]
    /\ ep = [r \in Readers |-> None]
    /\ snap = [r \in Readers |-> [b \in Boards |-> EmptyBoard]]
    /\ listed = [r \in Readers |-> {}]
    /\ board = [r \in Readers |-> None]
    /\ since = [r \in Readers |-> 0]
    /\ res = [r \in Readers |-> NoAnswer]

-----------------------------------------------------------------------------
(* Mutations.  The transaction holds the metric lock from before its first    *)
(* read until its commit, so it is one step; keys is the set of scores it     *)
(* changes and new their values.                                              *)

Commit(keys, new, creates) ==
    /\ commits < MaxCommits
    /\ LockFree
    /\ scores' = [b \in Boards |-> [e \in Entities |->
                    IF <<b, e>> \in keys THEN new[<<b, e>>] ELSE scores[b][e]]]
    /\ row' = (row \/ creates)
    /\ version' = IF row' THEN version + 1 ELSE version
    /\ commits' = commits + 1
    /\ hist' = [i \in 0..(commits + 1) |->
                    IF i = commits + 1 THEN scores' ELSE hist[i]]
    /\ deferred' = deferred \cup
         {[prev |-> version,
           changes |-> [k \in keys |->
              [old |-> scores[k[1]][k[2]], new |-> new[k]]]]}
    /\ UNCHANGED <<net, cacheVars, faults, readerVars>>

\* One query names at most one entity per board.
OneEntityPerBoard(keys) == \A j, k \in keys : j[1] = k[1] => j = k

Current(k) == IF scores[k[1]][k[2]] = None THEN 0 ELSE scores[k[1]][k[2]]

\* WRITE, alone or in a batch: increments; a sum out of range is rejected.
Write ==
    \E keys \in (SUBSET Key) \ {{}} :
        /\ \A k \in keys : Current(k) + 1 \in Values
        /\ Commit(keys, [k \in keys |-> Current(k) + 1], TRUE)

SetScore ==
    \E keys \in (SUBSET Key) \ {{}}, value \in Values :
        /\ OneEntityPerBoard(keys)
        /\ Commit(keys, [k \in keys |-> value], TRUE)

\* DELETE of scores: the change is published whether or not a score existed,
\* and the metric's row is not created.
Delete ==
    \E keys \in (SUBSET Key) \ {{}} :
        /\ OneEntityPerBoard(keys)
        /\ Commit(keys, [k \in keys |-> None], FALSE)

\* Get-or-create of the epoch token (GET, SETNX, GET).
Epoch == IF redis.epoch = None THEN epochs + 1 ELSE redis.epoch
ReadEpoch ==
    /\ redis' = [redis EXCEPT !.epoch = Epoch]
    /\ epochs' = IF redis.epoch = None THEN epochs + 1 ELSE epochs

Send(m) ==
    /\ Cardinality(net) < MaxInFlight
    /\ net' = net \cup {m}

\* projectWithin: fetch the epoch and send the script call.  When the cache
\* budget expires, Redis is unavailable or the node stops, the step is not taken.
Project ==
    \E d \in deferred :
        /\ ReadEpoch
        /\ deferred' = deferred \ {d}
        /\ Send([type |-> "apply", epoch |-> Epoch,
                 prev |-> d.prev, changes |-> d.changes])
        /\ UNCHANGED <<durable, standby, faults, readerVars>>

-----------------------------------------------------------------------------
(* Redis executes a call it has received.  The client may have given up on it *)
(* and may have sent it twice, so an executed call stays until it is lost;    *)
(* the staged boards of a publication are gone once they have been renamed.   *)

NothingStaged(m) == \A b \in Boards : m.snap[b] = EmptyBoard

DeliverApply ==
    \E m \in net :
        /\ m.type = "apply"
        /\ redis' = ApplyProjection(redis, m)
        /\ UNCHANGED <<durable, deferred, net, standby, epochs, faults, readerVars>>

DeliverPublish ==
    \E m \in net :
        /\ m.type = "publish"
        /\ redis' = PublishProjection(redis, m)
        /\ net' = IF NothingStaged(m) THEN net ELSE net \ {m}
        /\ UNCHANGED <<durable, deferred, standby, epochs, faults, readerVars>>

Lose ==
    \E m \in net :
        /\ net' = net \ {m}
        /\ UNCHANGED <<durable, deferred, cacheVars, faults, readerVars>>

-----------------------------------------------------------------------------
(* Ranking requests and maintenance rebuilds. *)

\* leaderboard: the version is read first, without the lock.
Leaderboard(r) ==
    /\ pc[r] = "idle"
    /\ \E b \in Boards : board' = [board EXCEPT ![r] = b]
    /\ ver' = [ver EXCEPT ![r] = version]
    /\ since' = [since EXCEPT ![r] = commits]
    /\ pc' = [pc EXCEPT ![r] = "epoch"]
    /\ UNCHANGED <<durable, deferred, net, cacheVars, faults, ep, snap, listed, res>>

\* GROUP_LEADERBOARD, or no Redis configured: SQL under the shared lock.
GroupLeaderboard(r) ==
    /\ pc[r] = "idle"
    /\ \E b \in Boards : board' = [board EXCEPT ![r] = b]
    /\ since' = [since EXCEPT ![r] = commits]
    /\ pc' = [pc EXCEPT ![r] = "slock"]
    /\ UNCHANGED <<durable, deferred, net, cacheVars, faults, ver, ep, snap, listed, res>>

\* Rebuild: a maintenance rebuild of a registered metric; it has no board.
Rebuild(r) ==
    /\ pc[r] = "idle"
    /\ row
    /\ LockFree
    /\ ver' = [ver EXCEPT ![r] = version]
    /\ board' = [board EXCEPT ![r] = None]
    /\ pc' = [pc EXCEPT ![r] = "xepoch"]
    /\ UNCHANGED <<durable, deferred, net, cacheVars, faults, ep, snap, listed, since, res>>

GetEpoch(r) ==
    /\ \/ pc[r] = "epoch" /\ pc' = [pc EXCEPT ![r] = "read"]
       \/ pc[r] = "xepoch" /\ pc' = [pc EXCEPT ![r] = "xrows"]
    /\ ReadEpoch
    /\ ep' = [ep EXCEPT ![r] = Epoch]
    /\ UNCHANGED <<durable, deferred, net, standby, faults, ver, snap, listed, board, since, res>>

\* cachedBoard without the lock: the answer, or a rebuild.
CachedBoard(r) ==
    /\ pc[r] = "read"
    /\ IF Readable(redis, board[r], ep[r], ver[r])
       THEN /\ res' = [res EXCEPT ![r] = CachedAnswer(redis, board[r])]
            /\ pc' = [pc EXCEPT ![r] = "done"]
       ELSE /\ pc' = [pc EXCEPT ![r] = "xlock"]
            /\ UNCHANGED res
    /\ UNCHANGED <<durable, deferred, net, cacheVars, faults, ver, ep, snap, listed, board, since>>

\* lockProjectionVersion: the version is read again once the lock is granted.
LockProjectionVersion(r) ==
    /\ pc[r] = "xlock"
    /\ LockFree
    /\ ver' = [ver EXCEPT ![r] = version]
    /\ pc' = [pc EXCEPT ![r] = "xepoch"]
    /\ UNCHANGED <<durable, deferred, net, cacheVars, faults, ep, snap, listed, board, since, res>>

\* rebuildMetric: read the scores and stage them under temporary keys.
RebuildRows(r) ==
    /\ pc[r] = "xrows"
    /\ snap' = [snap EXCEPT ![r] = scores]
    /\ pc' = [pc EXCEPT ![r] = "xlist"]
    /\ UNCHANGED <<durable, deferred, net, cacheVars, faults, ver, ep, listed, board, since, res>>

\* rebuildMetric: HKEYS of the metadata names the boards to delete.
RebuildList(r) ==
    /\ pc[r] = "xlist"
    /\ listed' = [listed EXCEPT ![r] = {b \in Boards : redis.count[b] # None}]
    /\ pc' = [pc EXCEPT ![r] = "xpublish"]
    /\ UNCHANGED <<durable, deferred, net, cacheVars, faults, ver, ep, snap, board, since, res>>

\* A request that cannot use Redis continues with SQL under the lock it holds;
\* a maintenance rebuild ends.
AfterPublish(r, next) == IF board[r] = None THEN "done" ELSE next

Publication(r) ==
    [type |-> "publish", epoch |-> ep[r], version |-> ver[r],
     snap |-> snap[r], listed |-> listed[r]]

\* rebuildMetric: the publication executes and is confirmed or its reply is
\* lost, it is still on its way when the budget expires, or the staged boards
\* have expired.
RebuildPublish(r) ==
    /\ pc[r] = "xpublish"
    /\ \/ /\ redis' = PublishProjection(redis, Publication(r))
          /\ \/ NothingStaged(Publication(r)) /\ Send(Publication(r))
             \/ UNCHANGED net
          /\ \E next \in {"xread", "xcount"} :
                pc' = [pc EXCEPT ![r] = AfterPublish(r, next)]
       \/ /\ Send(Publication(r))
          /\ pc' = [pc EXCEPT ![r] = AfterPublish(r, "xcount")]
          /\ UNCHANGED redis
       \/ /\ pc' = [pc EXCEPT ![r] = AfterPublish(r, "xcount")]
          /\ UNCHANGED <<net, redis>>
    /\ UNCHANGED <<durable, deferred, standby, epochs, faults, ver, ep, snap, listed, board, since, res>>

\* cachedBoard after the rebuild, the lock still held.
CachedBoardLocked(r) ==
    /\ pc[r] = "xread"
    /\ IF Readable(redis, board[r], ep[r], ver[r])
       THEN /\ res' = [res EXCEPT ![r] = CachedAnswer(redis, board[r])]
            /\ pc' = [pc EXCEPT ![r] = "done"]
       ELSE /\ pc' = [pc EXCEPT ![r] = "xcount"]
            /\ UNCHANGED res
    /\ UNCHANGED <<durable, deferred, net, cacheVars, faults, ver, ep, snap, listed, board, since>>

\* A Redis error or an expired cache budget: SQL, under the lock if it is held.
CacheError(r) ==
    /\ \/ pc[r] \in {"epoch", "read"} /\ pc' = [pc EXCEPT ![r] = "slock"]
       \/ /\ pc[r] \in {"xepoch", "xrows", "xlist", "xread"}
          /\ pc' = [pc EXCEPT ![r] = AfterPublish(r, "xcount")]
    /\ UNCHANGED <<durable, deferred, net, cacheVars, faults, ver, ep, snap, listed, board, since, res>>

SqlLock(r) ==
    /\ pc[r] = "slock"
    /\ SharedLockFree
    /\ pc' = [pc EXCEPT ![r] = "scount"]
    /\ UNCHANGED <<durable, deferred, net, cacheVars, faults, ver, ep, snap, listed, board, since, res>>

\* sqlBoard: the count is one statement ...
SqlCount(r) ==
    /\ \/ pc[r] = "scount" /\ pc' = [pc EXCEPT ![r] = "sselect"]
       \/ pc[r] = "xcount" /\ pc' = [pc EXCEPT ![r] = "xselect"]
    /\ res' = [res EXCEPT ![r] =
                 [NoAnswer EXCEPT !.size = Cardinality(Members(scores[board[r]]))]]
    /\ UNCHANGED <<durable, deferred, net, cacheVars, faults, ver, ep, snap, listed, board, since>>

\* ... and the scores, ranks and entries are others.
SqlSelect(r) ==
    /\ pc[r] \in {"sselect", "xselect"}
    /\ pc' = [pc EXCEPT ![r] = "done"]
    /\ res' = [res EXCEPT ![r] = [size |-> res[r].size,
                                  entries |-> Members(scores[board[r]]),
                                  own |-> scores[board[r]]]]
    /\ UNCHANGED <<durable, deferred, net, cacheVars, faults, ver, ep, snap, listed, board, since>>

\* The response is sent; or the request's deadline expires or its node stops,
\* and PostgreSQL releases the transaction's lock.
Finish(r) ==
    /\ pc[r] # "idle"
    /\ pc' = [pc EXCEPT ![r] = "idle"]
    /\ ver' = [ver EXCEPT ![r] = 0]
    /\ ep' = [ep EXCEPT ![r] = None]
    /\ snap' = [snap EXCEPT ![r] = [b \in Boards |-> EmptyBoard]]
    /\ listed' = [listed EXCEPT ![r] = {}]
    /\ board' = [board EXCEPT ![r] = None]
    /\ since' = [since EXCEPT ![r] = 0]
    /\ res' = [res EXCEPT ![r] = NoAnswer]
    /\ UNCHANGED <<durable, deferred, net, cacheVars, faults>>

-----------------------------------------------------------------------------
(* Redis itself (external): keys are lost one by one or all together; an      *)
(* asynchronous replica may fall behind and be promoted later.                *)

Evict ==
    /\ faults < MaxFaults
    /\ faults' = faults + 1
    /\ \/ \E b \in Boards : redis' = [redis EXCEPT !.z[b] = {}]
       \/ \E b \in Boards : redis' = [redis EXCEPT !.h[b] = EmptyBoard]
       \/ redis' = [redis EXCEPT !.mepoch = None, !.mversion = None,
                                 !.count = [b \in Boards |-> None]]
       \/ redis' = [redis EXCEPT !.epoch = None]
       \/ redis' = EmptyRedis
       \/ redis' = [EmptyRedis EXCEPT !.epoch = redis.epoch]
    /\ UNCHANGED <<durable, deferred, net, standby, epochs, readerVars>>

\* The last state that reaches the replica.
CopyToStandby ==
    /\ faults < MaxFaults
    /\ faults' = faults + 1
    /\ standby' = redis
    /\ UNCHANGED <<durable, deferred, net, redis, epochs, readerVars>>

\* In cluster mode the epoch key may be on a shard that does not fail over.
Failover ==
    /\ standby # EmptyRedis
    /\ \E token \in {redis.epoch, standby.epoch} :
          redis' = [standby EXCEPT !.epoch = token]
    /\ standby' = EmptyRedis
    /\ UNCHANGED <<durable, deferred, net, epochs, faults, readerVars>>

-----------------------------------------------------------------------------
Mutate == Write \/ SetScore \/ Delete
RedisStep == DeliverApply \/ DeliverPublish \/ Lose \/ Evict \/ CopyToStandby \/ Failover
ReaderStep(r) ==
    \/ Leaderboard(r) \/ GroupLeaderboard(r) \/ Rebuild(r)
    \/ GetEpoch(r) \/ CachedBoard(r) \/ LockProjectionVersion(r)
    \/ RebuildRows(r) \/ RebuildList(r) \/ RebuildPublish(r)
    \/ CachedBoardLocked(r) \/ CacheError(r)
    \/ SqlLock(r) \/ SqlCount(r) \/ SqlSelect(r) \/ Finish(r)

Next == Mutate \/ Project \/ RedisStep \/ \E r \in Readers : ReaderStep(r)

Spec == Init /\ [][Next]_vars

-----------------------------------------------------------------------------
(* Correctness. *)

Redis ==
    [epoch: Nat \cup {None}, mepoch: Nat \cup {None}, mversion: Nat \cup {None},
     count: [Boards -> Nat \cup {None}],
     z: [Boards -> SUBSET (Entities \X Values)],
     h: [Boards -> Board]]
Change == [old: Values \cup {None}, new: Values \cup {None}]
ChangeLists == UNION {[keys -> Change] : keys \in SUBSET Key}
Deferred == [prev: Nat, changes: ChangeLists]
Apply == [type: {"apply"}, epoch: Nat, prev: Nat, changes: ChangeLists]
Publish == [type: {"publish"}, epoch: Nat \cup {None}, version: Nat,
            snap: [Boards -> Board], listed: SUBSET Boards]
Answers == [size: Nat, entries: SUBSET (Entities \X Values), own: Board]

\* Types of the state.
TypeOK ==
    /\ row \in BOOLEAN
    /\ version \in Nat
    /\ scores \in [Boards -> Board]
    /\ commits \in Nat
    /\ hist \in [0..commits -> [Boards -> Board]]
    /\ deferred \subseteq Deferred
    /\ net \subseteq Apply \cup Publish
    /\ redis \in Redis
    /\ standby \in Redis
    /\ epochs \in Nat
    /\ faults \in Nat
    /\ pc \in [Readers -> Phases]
    /\ ver \in [Readers -> Nat]
    /\ ep \in [Readers -> Nat \cup {None}]
    /\ snap \in [Readers -> [Boards -> Board]]
    /\ listed \in [Readers -> SUBSET Boards]
    /\ board \in [Readers -> Boards \cup {None}]
    /\ since \in [Readers -> Nat]
    /\ res \in [Readers -> Answers]

\* A copy that claims a version claims one that was committed, and every board
\* of it that passes the size check of the scripts is that version's board.
ExactCopy(R) ==
    R.mversion # None =>
        /\ R.mversion \in 0..commits
        /\ \A b \in Boards :
             /\ Cardinality(R.z[b]) = Expected(R, b)
                    => R.z[b] = Members(hist[R.mversion][b])
             /\ HLen(R.h[b]) = Expected(R, b) => R.h[b] = hist[R.mversion][b]

\* Late, repeated, lost and reordered script calls, evictions and failovers
\* never make Redis present a mixture of versions: applyProjectionLua and
\* publishProjection keep every board that passes the size check exact
\* (internal/analytics/ranking.go, applyProjectionLua and publishProjection).
ProjectionExact == ExactCopy(redis) /\ ExactCopy(standby)

\* A finished ranking request reports the board as it was after some mutation
\* that was the last committed one at a moment of the request: entries, count
\* and own score of one single state, and never older than the last mutation
\* acknowledged before the request began ("A request starting after an ACK
\* cannot observe an older SQL version", leaderboard in ranking.go).
ReadLinearizable ==
    \A r \in Readers :
        pc[r] = "done" /\ board[r] # None =>
            \E i \in since[r]..commits : res[r] = Answer(hist[i][board[r]])

\* The request phases of the service this module implements; a maintenance
\* rebuild is not a request.
AbstractPhase(r) ==
    IF pc[r] = "idle" \/ board[r] = None THEN "idle"
    ELSE IF pc[r] = "done" THEN "answered" ELSE "asked"

Service == INSTANCE RankingService WITH
    Contents <- Board,
    EmptyContents <- EmptyBoard,
    count <- commits,
    states <- hist,
    phase <- [r \in Readers |-> AbstractPhase(r)],
    asked <- board,
    begun <- since,
    answer <- [r \in Readers |->
                 IF AbstractPhase(r) = "answered" THEN res[r] ELSE None]

\* The PostgreSQL tables with their Redis copy behave as if there were only one
\* copy of the rankings that every request reads at a moment of the request
\* (leaderboard and cachedBoard in ranking.go, mutate in mutation.go).
ImplementsService == Service!Spec
=============================================================================
