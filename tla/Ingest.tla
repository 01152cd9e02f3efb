------------------------------ MODULE Ingest ------------------------------
(***************************************************************************)
(* Mutations of the Next Gen engine as PostgreSQL transactions.            *)
(*                                                                         *)
(* A batch is split into jobs, each a transaction over the metrics of one  *)
(* stripe.  A job takes the advisory locks of its metrics in their order,  *)
(* reads versions, scores and clocks, validates its items one after the    *)
(* other against the staged scores, allocates automatic timestamps,        *)
(* writes events and absolute scores, and commits.  SET and DELETE are     *)
(* batches of one item.  Committed score changes are handed to the ranking *)
(* projection with the version they started from.                          *)
(***************************************************************************)
EXTENDS Naturals, FiniteSets, Sequences, FiniteSetsExt, Functions

CONSTANTS
    Metrics,        \* a set of numbers: metrics are locked in their order
    Entities,       \* pairs of a board and an entity
    Batches,        \* requests
    Items,          \* [Batches -> Seq(item)]
    Stripe,         \* [Metrics -> Stripes]
    Stripes,
    Registered,     \* metrics that exist already
    NoItem, Absent, \* no event at a timestamp; no score
    MaxValue,       \* greatest finite score
    MaxTime,        \* bound on timestamps
    MaxWall,        \* bound on the wall clocks of the servers
    MaxFailures     \* bound on transactions that fail

ItemType ==
    [kind: {"write", "set", "delete"}, metric: Metrics, ts: 0..MaxTime, value: Nat,
     entities: SUBSET Entities, where: BOOLEAN]

ASSUME IngestAssumption ==
    /\ Metrics \subseteq Nat /\ Registered \subseteq Metrics
    /\ Stripe \in [Metrics -> Stripes]
    /\ Items \in [Batches -> Seq(ItemType)]
    /\ Absent \notin Nat
    /\ {MaxValue, MaxTime, MaxWall, MaxFailures} \subseteq Nat

VARIABLES
    events,         \* [Metrics -> [1..MaxTime -> item or NoItem]]
    scores,         \* [Metrics -> [Entities -> value or Absent]]
    registered,     \* metrics with a row, and its version
    version,
    clock,          \* persisted clock of a metric
    locks,          \* granted locks <<job, metric, exclusive>>
    pc,             \* progress of a job
    snapshot,       \* what a job has read under its locks
    accepted,       \* items a job has accepted
    staged,         \* scores after them
    stamps,         \* timestamps of the accepted items
    failures,
    published,      \* history: changes handed to the projection
    boards,         \* history: scores of a metric at each version
    credited,       \* history: scores as committed items add up
    durable         \* history: items <<batch, index>> that were committed

db == <<events, scores, registered, version, clock>>
local == <<snapshot, accepted, staged, stamps>>
history == <<published, boards, credited, durable>>
vars == <<db, locks, pc, local, failures, history>>

-----------------------------------------------------------------------------
(* Batches and jobs. *)

Item(j, i) == Items[j[1]][i]
Last(j) == Len(Items[j[1]])
\* copyGroupedWrites: a job has the items of one stripe.
JobItems ==
    [j \in Batches \X Stripes |->
        {i \in 1..Last(j) : Stripe[Item(j, i).metric] = j[2]}]
Jobs == {j \in Batches \X Stripes : JobItems[j] # {}}
JobMetrics == [j \in Jobs |-> {Item(j, i).metric : i \in JobItems[j]}]

\* The position of a member in the order of a set of numbers, and the member at one.
Rank(S, x) == Cardinality({y \in S : y <= x})
Nth(S, k) == CHOOSE x \in S : Rank(S, x) = k

\* Defective variant: only a change of scores takes the lock for itself.
ExclusiveForScores(j, m) ==
    \E i \in JobItems[j] : Item(j, i).metric = m /\ Item(j, i).entities # {}
\* beginIngest and lockMetric: explicit writes without scores share the lock.
Exclusive(j, m) ==
    \E i \in JobItems[j] :
        /\ Item(j, i).metric = m
        /\ Item(j, i).kind # "write" \/ Item(j, i).ts = 0 \/ Item(j, i).entities # {}

-----------------------------------------------------------------------------
NoScores == [e \in Entities |-> Absent]
Init ==
    /\ events = [m \in Metrics |-> [t \in 1..MaxTime |-> NoItem]]
    /\ scores = [m \in Metrics |-> NoScores]
    /\ registered = Registered
    /\ version = [m \in Metrics |-> 0]
    /\ clock = [m \in Metrics |-> 0]
    /\ locks = {}
    /\ pc = [j \in Jobs |-> "locking"]
    /\ snapshot = [j \in Jobs |-> <<>>]
    /\ accepted = [j \in Jobs |-> {}]
    /\ staged = [j \in Jobs |-> <<>>]
    /\ stamps = [j \in Jobs |-> <<>>]
    /\ failures = 0
    /\ published = {}
    /\ boards = [m \in Metrics |-> <<NoScores>>]
    /\ credited = [m \in Metrics |-> NoScores]
    /\ durable = {}

\* The advisory locks, one after the other in the order of the metrics.
Held(j) == {l[2] : l \in {k \in locks : k[1] = j}}
\* Defective variant: in the order of the items.
NextLockOfItems(j) ==
    Item(j, Min({i \in JobItems[j] : Item(j, i).metric \notin Held(j)})).metric
NextLock(j) == Min(JobMetrics[j] \ Held(j))
Granted(j) ==
    LET m == NextLock(j) IN \A l \in locks : l[2] = m => ~Exclusive(j, m) /\ ~l[3]
Lock(j) ==
    /\ pc[j] = "locking"
    /\ Granted(j)
    /\ LET m == NextLock(j) IN locks' = locks \cup {<<j, m, Exclusive(j, m)>>}
    /\ pc' = [pc EXCEPT ![j] = IF Held(j)' = JobMetrics[j] THEN "locked" ELSE @]
    /\ UNCHANGED <<db, local, failures, history>>

\* Each statement after the locks has a snapshot of its own (READ COMMITTED).
Read(j) ==
    /\ pc[j] = "locked"
    /\ snapshot' = [snapshot EXCEPT ![j] =
           [version |-> Restrict(version, JobMetrics[j]),
            scores |-> Restrict(scores, JobMetrics[j]),
            clock |-> Restrict(clock, JobMetrics[j])]]
    /\ pc' = [pc EXCEPT ![j] = "read"]
    /\ UNCHANGED <<db, locks, accepted, staged, stamps, failures, history>>

\* The score of an entity after an item; a sum beyond MaxValue is not finite.
NewScore(item, old) ==
    CASE item.kind = "write" -> item.value + (IF old = Absent THEN 0 ELSE old)
      [] item.kind = "set" -> item.value
      [] OTHER -> Absent
Finite(item, sc) ==
    \A e \in item.entities :
        LET n == NewScore(item, sc[item.metric][e]) IN n # Absent => n <= MaxValue
Apply(item, sc) ==
    [sc EXCEPT ![item.metric] =
        [e \in Entities |-> IF e \in item.entities THEN NewScore(item, @[e]) ELSE @[e]]]

\* Defective variant: a rejected item keeps the increments made before it failed.
StageItemPartly(j, st, i) ==
    LET item == Item(j, i)
    IN IF Finite(item, st.scores)
       THEN [scores |-> Apply(item, st.scores), accepted |-> st.accepted \cup {i}]
       ELSE [st EXCEPT !.scores[item.metric] =
                [e \in Entities |-> IF e \in item.entities
                                    THEN Min({MaxValue, NewScore(item, @[e])}) ELSE @[e]]]
\* An item is validated against the scores staged so far; one that fails on any of
\* its boards leaves nothing.
StageItem(j, st, i) ==
    LET item == Item(j, i)
    IN IF Finite(item, st.scores)
       THEN [scores |-> Apply(item, st.scores), accepted |-> st.accepted \cup {i}]
       ELSE st
\* The items of a job one after the other, in the order of the input.
Staging(j) ==
    LET st[k \in 0..Last(j)] ==
            IF k = 0 THEN [scores |-> snapshot[j].scores, accepted |-> {}]
            ELSE IF k \in JobItems[j] THEN StageItem(j, st[k - 1], k) ELSE st[k - 1]
    IN st[Last(j)]

\* What a job has read and staged is dropped when it ends.
Forget(j) ==
    /\ snapshot' = [snapshot EXCEPT ![j] = <<>>]
    /\ staged' = [staged EXCEPT ![j] = <<>>]
    /\ stamps' = [stamps EXCEPT ![j] = <<>>]

\* A job without an accepted item ends here.
Stage(j) ==
    /\ pc[j] = "read"
    /\ LET st == Staging(j)
       IN /\ accepted' = [accepted EXCEPT ![j] = st.accepted]
          /\ IF st.accepted = {}
             THEN /\ pc' = [pc EXCEPT ![j] = "rejected"]
                  /\ locks' = {l \in locks : l[1] # j}
                  /\ Forget(j)
             ELSE /\ pc' = [pc EXCEPT ![j] = "staged"]
                  /\ staged' = [staged EXCEPT ![j] = st.scores]
                  /\ UNCHANGED <<locks, snapshot, stamps>>
    /\ UNCHANGED <<db, failures, history>>

\* Automatic items of a job for metric m, and the positions they may not take.
IsAutomatic(j, i) == Item(j, i).kind = "write" /\ Item(j, i).ts = 0
Automatic(j, m) == {i \in accepted[j] : Item(j, i).metric = m /\ IsAutomatic(j, i)}
Occupied(j, m) ==
    {t \in 1..MaxTime : events[m][t] # NoItem}
        \cup {Item(j, i).ts : i \in {k \in accepted[j] : Item(j, k).metric = m}}

\* The timestamps from the first candidate on that are free (module Timestamps).
Candidate(now, last) == IF now <= last THEN last + 1 ELSE now
Free(j, m, now) ==
    Candidate(now, snapshot[j].clock[m])..MaxTime \ Occupied(j, m)

\* The first of them are taken in the order of the items.
Stamp(j, i, now) ==
    LET m == Item(j, i).metric
    IN IF IsAutomatic(j, i) THEN Nth(Free(j, m, now[m]), Rank(Automatic(j, m), i))
       ELSE Item(j, i).ts

\* Automatic timestamps, under the locks, when the server reads the wall clocks now.
Allocate(j) ==
    /\ pc[j] = "staged"
    /\ \E now \in [{m \in JobMetrics[j] : Automatic(j, m) # {}} -> 1..MaxWall] :
          /\ \A m \in DOMAIN now :
                Cardinality(Automatic(j, m)) <= Cardinality(Free(j, m, now[m]))
          /\ stamps' = [stamps EXCEPT ![j] = [i \in accepted[j] |-> Stamp(j, i, now)]]
    /\ pc' = [pc EXCEPT ![j] = "stamped"]
    /\ UNCHANGED <<db, locks, snapshot, accepted, staged, failures, history>>

-----------------------------------------------------------------------------
(* The writes of a transaction, which become visible with its commit. *)

Event(j, i) == [batch |-> j[1], index |-> i, automatic |-> Item(j, i).ts = 0]
Writers(j, m, t) ==
    {i \in accepted[j] :
        Item(j, i).kind = "write" /\ Item(j, i).metric = m /\ stamps[j][i] = t}
\* DELETE without a board or with a condition on tags removes the events from a
\* timestamp on; its upper end, the condition itself and DRYRUN are left out.
Purged(j, m, t) ==
    \E i \in accepted[j] :
        LET item == Item(j, i)
        IN /\ item.kind = "delete" /\ item.metric = m /\ t >= item.ts
           /\ item.entities = {} \/ item.where
\* The last of several events of a batch with the same timestamp wins.
WriteEvents(j) ==
    events' = [m \in Metrics |-> IF m \notin JobMetrics[j] THEN events[m] ELSE
        [t \in 1..MaxTime |->
            IF Writers(j, m, t) # {} THEN Event(j, Max(Writers(j, m, t)))
            ELSE IF Purged(j, m, t) THEN NoItem ELSE events[m][t]]]

Touched(j, m) ==
    UNION {Item(j, i).entities : i \in {k \in accepted[j] : Item(j, k).metric = m}}
Changed(j) == {m \in JobMetrics[j] : Touched(j, m) # {}}

\* Defective variant: one version per changed score.
NextVersionPerScore(j, m) == version[m] + Cardinality(Touched(j, m))
NextVersion(j, m) == version[m] + 1

\* Absolute scores, one version per changed metric that has a row.
WriteScores(j) ==
    /\ scores' = [m \in Metrics |-> [e \in Entities |->
           IF m \in JobMetrics[j] /\ e \in Touched(j, m) THEN staged[j][m][e] ELSE scores[m][e]]]
    /\ registered' = registered \cup
           {Item(j, i).metric : i \in {k \in accepted[j] :
                Item(j, k).kind = "write" \/ (Item(j, k).kind = "set" /\ Item(j, k).entities # {})}}
    /\ version' = [m \in Metrics |->
           IF m \in Changed(j) \cap registered' THEN NextVersion(j, m) ELSE version[m]]

\* The last automatic timestamp becomes the clock; explicit ones never move it.
WriteClock(j) ==
    clock' = [m \in Metrics |->
        IF Automatic(j, m) = {} THEN clock[m] ELSE stamps[j][Max(Automatic(j, m))]]

\* What project() is told of a committed change.
Publication(j, m) ==
    [metric |-> m, previous |-> snapshot[j].version[m],
     old |-> [e \in Touched(j, m) |-> snapshot[j].scores[m][e]],
     new |-> [e \in Touched(j, m) |-> staged[j][m][e]]]

\* Scores after those items of a job that are in A.
Credit(j, A, sc) ==
    LET c[k \in 0..Last(j)] ==
            IF k = 0 THEN sc
            ELSE IF k \in A THEN Apply(Item(j, k), c[k - 1]) ELSE c[k - 1]
    IN c[Last(j)]
Record(j) ==
    /\ boards' = [m \in Metrics |->
           IF version'[m] # version[m] THEN Append(boards[m], scores'[m]) ELSE boards[m]]
    /\ credited' = Credit(j, accepted[j], credited)
    /\ durable' = durable \cup {<<j[1], i>> : i \in accepted[j]}

\* COMMIT; an error of it does not say whether it took effect, and then nothing is
\* published.
Commit(j) ==
    /\ pc[j] = "stamped"
    /\ WriteEvents(j) /\ WriteScores(j) /\ WriteClock(j) /\ Record(j)
    /\ locks' = {l \in locks : l[1] # j}
    /\ \/ /\ pc' = [pc EXCEPT ![j] = "committed"]
          /\ published' = published \cup {Publication(j, m) : m \in Changed(j)}
          /\ UNCHANGED failures
       \/ /\ failures < MaxFailures
          /\ failures' = failures + 1
          /\ pc' = [pc EXCEPT ![j] = "failed"]
          /\ UNCHANGED published
    /\ Forget(j)
    /\ UNCHANGED accepted

\* An error, a cancelled context or a crash of the server rolls back.
Rollback(j) ==
    /\ pc[j] \in {"locking", "locked", "read", "staged", "stamped"}
    /\ failures < MaxFailures
    /\ failures' = failures + 1
    /\ pc' = [pc EXCEPT ![j] = "failed"]
    /\ locks' = {l \in locks : l[1] # j}
    /\ Forget(j)
    /\ UNCHANGED <<db, accepted, history>>

Step(j) == Lock(j) \/ Read(j) \/ Stage(j) \/ Allocate(j) \/ Commit(j) \/ Rollback(j)
Next == \E j \in Jobs : Step(j)
Spec == Init /\ [][Next]_vars

-----------------------------------------------------------------------------
(* Results. *)

\* Positions of a job's items that failed.
LocalFailures(j) ==
    {k \in 1..Cardinality(JobItems[j]) :
        pc[j] = "failed" \/ Nth(JobItems[j], k) \notin accepted[j]}
\* copyGroupedWrites: they are reported as positions of the batch.
Reported(j) == {Nth(JobItems[j], k) : k \in LocalFailures(j)}

Ended(j) == pc[j] \in {"committed", "rejected", "failed"}

-----------------------------------------------------------------------------
(* Correctness. *)

Scores == [Metrics -> [Entities -> 0..MaxValue \cup {Absent}]]

\* Types of the state.
TypeOK ==
    /\ \A m \in Metrics, t \in 1..MaxTime :
          events[m][t] # NoItem => events[m][t].batch \in Batches
    /\ scores \in Scores /\ credited \in Scores
    /\ registered \subseteq Metrics
    /\ version \in [Metrics -> Nat]
    /\ clock \in [Metrics -> 0..MaxTime]
    /\ locks \subseteq Jobs \X Metrics \X BOOLEAN
    /\ \A j \in Jobs : pc[j] \in {"locking", "locked", "read", "staged", "stamped",
                                  "committed", "rejected", "failed"}
    /\ failures \in 0..MaxFailures
    /\ durable \subseteq Batches \X Nat

\* No increment is lost or counted twice, although every job writes absolute scores
\* computed from what it read (copyWritesWithPublisher, mutate).
ScoresExact == TypeOK /\ scores = credited

\* An item is reported as accepted only if it is durable, and as rejected only if it
\* is not; a failed commit may have taken effect (copyGroupedWrites).
ReportsExact ==
    \A j \in Jobs : Ended(j) =>
        LET all == JobItems[j]
            reported == Reported(j)
            kept == {i \in all : <<j[1], i>> \in durable}
        IN all \ reported \subseteq kept /\ (pc[j] # "failed" => reported \cap kept = {})

\* A DELETE from a board is for a metric that has a row.  One without has no version
\* that its removal could move on, and then the change is published all the same.
DeletesExist ==
    \A b \in Batches : \A i \in DOMAIN Items[b] :
        Items[b][i].kind = "delete" /\ Items[b][i].entities # {} => Items[b][i].metric \in Registered

\* What is published is exactly the step of its metric from the version it names to
\* the next one: the contract on which the ranking projection rests.
PublicationsExact ==
    \A p \in published :
        /\ p.previous + 2 \in DOMAIN boards[p.metric]
        /\ LET before == boards[p.metric][p.previous + 1]
               after == boards[p.metric][p.previous + 2]
           IN \A e \in Entities :
                IF e \in DOMAIN p.old
                THEN before[e] = p.old[e] /\ after[e] = p.new[e]
                ELSE before[e] = after[e]

\* The outcome of a transaction, as its callers and Redis are told of it, is the one it
\* had (copyGroupedWrites, projectWithin).
OutcomesExact == ReportsExact /\ PublicationsExact

FreshOnly ==
    \A m \in Metrics : events'[m] # events[m] =>
        \A t \in 1..MaxTime :
            LET new == events'[m][t]
            IN new # events[m][t] /\ new # NoItem /\ new.automatic =>
                 /\ events[m][t] = NoItem
                 /\ \A u \in t..MaxTime : events[m][u] # NoItem => ~events[m][u].automatic
\* An automatic event never replaces another event, and its timestamp is behind
\* those of all earlier automatic events of its metric, whichever server allocated
\* it (allocateBatchTimestamps).
AutomaticIsFresh == [][FreshOnly]_events

\* Waiting for locks never closes a circle: while a transaction has not ended, one
\* of them can go on (beginIngest).
NeverStuck ==
    (\E j \in Jobs : ~Ended(j)) =>
        \E j \in Jobs : ~Ended(j) /\ (pc[j] = "locking" => Granted(j))
=============================================================================
