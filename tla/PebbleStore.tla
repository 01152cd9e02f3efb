---------------------------- MODULE PebbleStore ----------------------------
(***************************************************************************)
(* The Pebble executor: mutations of one metric as atomic batches.         *)
(*                                                                         *)
(* A request locks the stripes of the entities, the metric or the replica  *)
(* operations it touches, in their order, stages one batch of events,      *)
(* index entries, scores, ranking keys and receipts from what it reads,    *)
(* and commits it synchronously.  Client requests also hold the server's   *)
(* lock of the metric; lines from a primary do not.  The tags of committed *)
(* events go to TagCounts afterwards.                                      *)
(***************************************************************************)
EXTENDS TagCounts, Integers, FiniteSetsExt, SequencesExt

CONSTANTS
    Times,          \* a set of numbers: timestamps
    Entities,       \* pairs of a board and an entity
    Requests,       \* the requests that may meet, each in [Writers -> Seq(query)]
    Ops, NoOp,      \* identifiers of replicated operations
    Metric,         \* lock key of a mutation without scores
    Stripe,         \* [Entities \cup Ops \cup {Metric} -> Nat]
    MinScore, MaxScore,     \* range of finite scores
    Legacy,         \* ranking keys written before scores had keys of their own
    NoEvent, Absent,
    MaxCrashes, MaxErrors   \* bounds on crashes and on commits that fail

ASSUME PebbleAssumption ==
    /\ Times \subseteq Nat
    /\ {MinScore, MaxScore} \subseteq Int /\ MinScore < 0 /\ 0 < MaxScore
    /\ Stripe \in [Entities \cup Ops \cup {Metric} -> Nat]
    /\ Legacy \subseteq Entities \X (MinScore..MaxScore)
    /\ {MaxCrashes, MaxErrors} \subseteq Nat

Scores == MinScore..MaxScore
IndexKeys == Tags \X Times
RankKeys == Entities \X Scores
Event == [value: Int, tags: SUBSET Tags]

VARIABLES
    events,         \* [Times -> Event or NoEvent]
    index,          \* idx: keys, [IndexKeys -> BOOLEAN]
    score,          \* lb-entity: keys, [Entities -> Scores or Absent]
    rank,           \* lb: keys, [RankKeys -> BOOLEAN]
    receipts,       \* repl-applied: keys
    queries,        \* the queries of each request
    pc,             \* progress of a request
    batch,          \* what it has staged
    committed,      \* its items that take effect
    mutex,          \* holder of the server's lock of the metric
    locks,          \* locked stripes <<request, stripe>>
    crashes, errors,
    truth           \* history: the committed items one after the other

db == <<events, index, score, rank, receipts>>
vars == <<tagVars, db, queries, pc, batch, committed, mutex, locks, crashes, errors, truth>>

\* A batch read through to the database.
Over(part, whole) ==
    [x \in DOMAIN whole |-> IF x \in DOMAIN part THEN part[x] ELSE whole[x]]
Flags(S, flag) == [x \in S |-> flag]
Put(new, part) == [x \in DOMAIN new \cup DOMAIN part |->
                      IF x \in DOMAIN new THEN new[x] ELSE part[x]]

EmptyBatch == [events |-> <<>>, index |-> <<>>, score |-> <<>>, rank |-> <<>>, receipts |-> {}]

Init ==
    /\ TagInit
    /\ events = [t \in Times |-> NoEvent]
    /\ index = Flags(IndexKeys, FALSE)
    /\ score = [e \in Entities |-> Absent]
    /\ rank = [k \in RankKeys |-> k \in Legacy]
    /\ receipts = {}
    /\ queries \in Requests
    /\ pc = [w \in Writers |-> "idle"]
    /\ batch = [w \in Writers |-> EmptyBatch]
    /\ committed = [w \in Writers |-> <<>>]
    /\ mutex = {}
    /\ locks = {}
    /\ crashes = 0 /\ errors = 0
    /\ truth = [events |-> events, score |-> [e \in Entities |->
                   IF \E v \in Scores : <<e, v>> \in Legacy
                   THEN CHOOSE v \in Scores : <<e, v>> \in Legacy ELSE Absent],
                applied |-> <<>>]

-----------------------------------------------------------------------------
(* Keys and reads. *)

\* GetWithLookupStats and LockedBatchLookup.Get: the entity's key, else the first
\* ranking key with its name, else zero.
Ranked(e) == {v \in Scores : rank[<<e, v>>]}
Get(e) == IF score[e] # Absent THEN score[e]
          ELSE IF Ranked(e) # {} THEN Max(Ranked(e)) ELSE 0

IndexOf(t, event) == IF event = NoEvent THEN {} ELSE event.tags \X {t}

\* BestIndexTag: the tag with most values, the first of equal ones.
BestIndexTag(where) ==
    CHOOSE t \in where : \A u \in where :
        count[t[1]] > count[u[1]] \/ (count[t[1]] = count[u[1]] /\ t[1] <= u[1])

Matches(t, where) == events[t] # NoEvent /\ where \subseteq events[t].tags

\* The events a filter finds through one of its tags.
Found(where, tag) == {t \in Times : index[<<tag, t>>] /\ Matches(t, where)}
Selected(where) ==
    IF where = {} THEN {t \in Times : events[t] # NoEvent} ELSE Found(where, BestIndexTag(where))

\* A page of an ordered list of keys: of those that count, offset are skipped and
\* limit are kept, all if it is zero.
Scan(keys, Counts(_), limit, offset) ==
    FoldLeft(LAMBDA st, k :
                CASE ~Counts(k) \/ (limit > 0 /\ Len(st.page) >= limit) -> st
                  [] Counts(k) /\ st.skip > 0 -> [st EXCEPT !.skip = @ - 1]
                  [] OTHER -> [st EXCEPT !.page = Append(@, k)],
             [skip |-> offset, page |-> <<>>], keys).page

AllTimes == SetToSortSeq(Times, LAMBDA x, y : x < y)
Ascending(S) == SelectSeq(AllTimes, LAMBDA t : t \in S)
Directed(list, desc) == IF desc THEN Reverse(list) ELSE list

\* ReadPage through the index of a tag, in one snapshot.
ReadPage(where, tag, limit, offset, desc) ==
    Scan(Directed(Ascending({t \in Times : index[<<tag, t>>]}), desc),
         LAMBDA t : Matches(t, where), limit, offset)

\* lbKey: sign and magnitude like the bits of a float, inverted.
Half == MaxScore - MinScore + 1
Bits(v) == IF v >= 0 THEN v ELSE Half - v
Inverted(v) == 2 * Half - 1 - Bits(v)
ScoreOrder == SetToSortSeq(Scores, LAMBDA x, y : Inverted(x) < Inverted(y))
AllRankKeys ==
    FlattenSeq([i \in DOMAIN ScoreOrder |-> SetToSeq(Entities \X {ScoreOrder[i]})])
RankOrder(keys) == SelectSeq(AllRankKeys, LAMBDA k : k \in keys)

\* TopN: forwards through the keys of the scores from zero, then backwards through
\* the others.
Present == {k \in RankKeys : rank[k]}
TopN(limit, offset) ==
    Scan(RankOrder({k \in Present : Inverted(k[2]) >= Half})
            \o Reverse(RankOrder({k \in Present : Inverted(k[2]) < Half})),
         LAMBDA k : TRUE, limit, offset)

-----------------------------------------------------------------------------
(* Staging. *)

\* Defective variant: the entries of the event before are deleted last.
StageEventDeletesLast(b, t, event) ==
    [b EXCEPT !.events = Put([x \in {t} |-> event], @),
              !.index = Put(Flags(IndexOf(t, Over(b.events, events)[t]), FALSE),
                        Put(Flags(IndexOf(t, event), TRUE), @))]
StageEvent(b, t, event) ==
    [b EXCEPT !.events = Put([x \in {t} |-> event], @),
              !.index = Put(Flags(IndexOf(t, event), TRUE),
                        Put(Flags(IndexOf(t, Over(b.events, events)[t]), FALSE), @))]

\* ScanDeleteWhere, in a snapshot of the database.
StageDelete(b, q) ==
    LET gone == {t \in Selected(q.where) : q.ts <= t /\ t < q.to}
    IN [b EXCEPT !.events = Put(Flags(gone, NoEvent), @),
                 !.index = Put(Flags(UNION {IndexOf(t, events[t]) : t \in gone}, FALSE), @)]

\* The scores after an item: the sum of a write, the value of a SET, none after a
\* DELETE.
Current(e, scores) == IF e \in DOMAIN scores THEN scores[e] ELSE Get(e)
ScoreAfter(q, before) ==
    CASE q.kind = "write" -> before + q.value
      [] q.kind = "set" -> q.value
      [] q.kind = "delete" -> Absent
Finite(q, scores) ==
    q.kind = "write" => \A e \in q.entities : Current(e, scores) + q.value \in Scores

\* Defective variant: the batch's own receipts are not looked at.
AppliedBefore(q, b) == q.op \in receipts
Applied(q, b) == q.op \in receipts \cup b.receipts

\* DELETE removes events unless it only names entities; DRYRUN removes nothing.
Purges(q) == q.kind = "delete" /\ ~q.dry /\ (q.entities = {} \/ q.where # {})
Touched(q) == IF q.kind = "delete" /\ q.dry THEN {} ELSE q.entities

\* One item: skipped if applied before, rejected alone if a sum is not finite.
StageItem(w, st, i) ==
    LET q == queries[w][i]
        b == CASE q.kind = "write" ->
                    StageEvent(st.batch, q.ts, [value |-> q.value, tags |-> q.tags])
               [] Purges(q) -> StageDelete(st.batch, q)
               [] OTHER -> st.batch
    IN IF Applied(q, st.batch) \/ ~Finite(q, st.scores) THEN st
       ELSE [batch |-> [b EXCEPT !.receipts = @ \cup ({q.op} \ {NoOp})],
             scores |-> Put([e \in Touched(q) |-> ScoreAfter(q, Current(e, st.scores))],
                            st.scores),
             done |-> Append(st.done, i)]

\* StageValueFromCurrent, once for each changed score.
StageScores(b, scores) ==
    LET kept == {e \in DOMAIN scores : scores[e] # Absent}
    IN [b EXCEPT !.score = scores,
                 !.rank = Put(Flags({<<e, scores[e]>> : e \in kept}, TRUE),
                              Flags({<<e, Get(e)>> : e \in DOMAIN scores}, FALSE))]

Staged(w) ==
    FoldLeft(LAMBDA st, i : StageItem(w, st, i),
             [batch |-> EmptyBatch, scores |-> <<>>, done |-> <<>>],
             [i \in DOMAIN queries[w] |-> i])

-----------------------------------------------------------------------------
(* Requests. *)

\* The server takes requests until it is closed.
Open == ~stopped /\ Closer \notin serving \cup Range(flushCh)

\* Lines from a primary carry an operation and do not take the metric's lock.
Client(w) == \A q \in Range(queries[w]) : q.op = NoOp

\* Defective variant: clients do not lock the metric.
BeginUnlocked(w) ==
    /\ pc[w] = "idle" /\ queries[w] # <<>> /\ Open
    /\ pc' = [pc EXCEPT ![w] = "locking"]
    /\ UNCHANGED <<queries, tagVars, db, batch, committed, mutex, locks, crashes, errors, truth>>

\* lockMutations of the server.
Begin(w) ==
    /\ pc[w] = "idle" /\ queries[w] # <<>> /\ Open
    /\ Client(w) => mutex = {}
    /\ mutex' = IF Client(w) THEN {w} ELSE mutex
    /\ pc' = [pc EXCEPT ![w] = "locking"]
    /\ UNCHANGED <<queries, tagVars, db, batch, committed, locks, crashes, errors, truth>>

\* Defective variant: the entities are not locked.
KeysWithoutEntities(q) == IF q.op = NoOp THEN {Metric} ELSE {q.op}
Keys(q) == (IF q.entities = {} THEN {Metric} ELSE q.entities) \cup ({q.op} \ {NoOp})
StripesOf(w) == {Stripe[k] : k \in UNION {Keys(q) : q \in Range(queries[w])}}
Held(w) == {s \in StripesOf(w) : <<w, s>> \in locks}

\* Defective variant: in any order.
NextStripes(w) == StripesOf(w) \ Held(w)
NextStripe(w) == {Min(StripesOf(w) \ Held(w))}

\* AtomicMutationManyTimed: the stripes in their order.
Lock(w) ==
    /\ pc[w] = "locking"
    /\ \E s \in NextStripe(w) :
          /\ \A v \in Writers : <<v, s>> \notin locks
          /\ locks' = locks \cup {<<w, s>>}
          /\ pc' = [pc EXCEPT ![w] =
                       IF Held(w) \cup {s} = StripesOf(w) THEN "locked" ELSE @]
    /\ UNCHANGED <<queries, tagVars, db, batch, committed, mutex, crashes, errors, truth>>

Stage(w) ==
    /\ pc[w] = "locked"
    /\ LET st == Staged(w)
       IN /\ batch' = [batch EXCEPT ![w] = StageScores(st.batch, st.scores)]
          /\ committed' = [committed EXCEPT ![w] = st.done]
    /\ pc' = [pc EXCEPT ![w] = "staged"]
    /\ UNCHANGED <<queries, tagVars, db, mutex, locks, crashes, errors, truth>>

Unlocked(w) == locks' = {l \in locks : l[1] # w}

\* What the committed items of a request do one after the other.
Happens(h, q) ==
    [events |-> [t \in Times |->
        CASE q.kind = "write" /\ t = q.ts -> [value |-> q.value, tags |-> q.tags]
          [] Purges(q) /\ q.ts <= t /\ t < q.to /\ h.events[t] # NoEvent
             /\ q.where \subseteq h.events[t].tags -> NoEvent
          [] OTHER -> h.events[t]],
     score |-> [e \in Entities |->
        IF e \in Touched(q)
        THEN ScoreAfter(q, IF h.score[e] = Absent THEN 0 ELSE h.score[e])
        ELSE h.score[e]],
     applied |-> IF q.op = NoOp THEN h.applied ELSE Append(h.applied, q.op)]

Commit(w) ==
    /\ pc[w] = "staged"
    /\ events' = Over(batch[w].events, events)
    /\ index' = Over(batch[w].index, index)
    /\ score' = Over(batch[w].score, score)
    /\ rank' = Over(batch[w].rank, rank)
    /\ receipts' = receipts \cup batch[w].receipts
    /\ disk' = Synced
    /\ truth' = FoldLeft(LAMBDA h, i : Happens(h, queries[w][i]), truth, committed[w])
    /\ Unlocked(w)
    /\ batch' = [batch EXCEPT ![w] = EmptyBatch]
    /\ pc' = [pc EXCEPT ![w] = "durable"]
    /\ UNCHANGED <<queries, marked, count, misread, updater, adding, recorded, committed, mutex, crashes, errors>>

\* An error of the commit fails every item.
CommitFails(w) ==
    /\ pc[w] = "staged"
    /\ errors < MaxErrors /\ errors' = errors + 1
    /\ Unlocked(w)
    /\ batch' = [batch EXCEPT ![w] = EmptyBatch]
    /\ committed' = [committed EXCEPT ![w] = <<>>]
    /\ pc' = [pc EXCEPT ![w] = "recorded"]
    /\ UNCHANGED <<queries, tagVars, db, mutex, crashes, truth>>

\* RecordCommittedEvent for each committed write.
RecordEvents(w) ==
    /\ pc[w] = "durable"
    /\ Record(w, UNION {queries[w][i].tags : i \in Range(committed[w])})
    /\ pc' = [pc EXCEPT ![w] = "recorded"]
    /\ UNCHANGED <<queries, counts, updater, waiting, db, batch, committed, mutex, locks, crashes, errors,
                   truth>>

\* The server releases the metric after the tags were added.
Finish(w) ==
    /\ pc[w] = "recorded" /\ Idle(w)
    /\ pc' = [pc EXCEPT ![w] = "done"]
    /\ committed' = [committed EXCEPT ![w] = <<>>]
    /\ mutex' = mutex \ {w}
    /\ UNCHANGED <<queries, tagVars, db, batch, locks, crashes, errors, truth>>

\* Storage.Close follows the end of all connections; then the process may start
\* again.
Close ==
    /\ \A w \in Writers : pc[w] \in {"idle", "done"}
    /\ CloseUpdater
    /\ UNCHANGED <<queries, db, pc, batch, committed, mutex, locks, crashes, errors, truth>>
Restart ==
    /\ stopped
    /\ Reopen(FALSE)
    /\ UNCHANGED <<queries, db, pc, batch, committed, mutex, locks, crashes, errors, truth>>

\* A crash ends every request; what was not committed never happened.
Crash ==
    /\ crashes < MaxCrashes /\ crashes' = crashes + 1
    /\ Reopen(TRUE)
    /\ pc' = [w \in Writers |-> IF pc[w] = "idle" THEN "idle" ELSE "done"]
    /\ batch' = [w \in Writers |-> EmptyBatch]
    /\ committed' = [w \in Writers |-> <<>>]
    /\ mutex' = {} /\ locks' = {}
    /\ UNCHANGED <<queries, db, errors, truth>>

Request(w) ==
    \/ Begin(w) \/ Lock(w) \/ Stage(w) \/ Commit(w) \/ CommitFails(w)
    \/ RecordEvents(w) \/ Finish(w)
Counting(w) == Add(w) \/ SendFlush(w)
Updating == Tick \/ Take \/ FlushCommit \/ FlushFails \/ Expire \/ WalSync

rest == <<db, queries, pc, batch, committed, mutex, locks, crashes, errors, truth>>
Next ==
    \/ \E w \in Writers : Request(w)
    \/ \E w \in Writers : Counting(w) /\ UNCHANGED rest
    \/ Updating /\ UNCHANGED rest
    \/ Close \/ Restart \/ Crash

Spec == Init /\ [][Next]_vars

-----------------------------------------------------------------------------
TypeOK ==
    /\ TagTypeOK
    /\ events \in [Times -> Event \cup {NoEvent}]
    /\ index \in [IndexKeys -> BOOLEAN] /\ rank \in [RankKeys -> BOOLEAN]
    /\ score \in [Entities -> Scores \cup {Absent}]
    /\ receipts \subseteq Ops
    /\ pc \in [Writers -> {"idle", "locking", "locked", "staged", "durable", "recorded", "done"}]
    /\ committed \in [Writers -> Seq(Nat)]
    /\ mutex \subseteq Writers /\ Cardinality(mutex) <= 1
    /\ locks \subseteq Writers \X Nat

Filters == {where \in SUBSET Tags : where # {} /\ \A t, u \in where : t[1] = u[1] => t = u}

\* Every page of a filtered read is that part of the matching events in order,
\* whichever of its tags the counts choose, although writers with other locks
\* leave index entries behind (ReadPage, StageEvent, ScanDeleteWhere).
ReadsExact ==
    \A where \in Filters : \A tag \in where : \A page \in {0, 1}, desc \in BOOLEAN :
        LET all == Directed(Ascending({t \in Times : Matches(t, where)}), desc)
        IN ReadPage(where, tag, page, page, desc)
             = IF page = 0 THEN all ELSE SubSeq(all, 2, Min({2, Len(all)}))

RankingDescends ==
    LET all == TopN(0, 0)
    IN /\ Range(all) = Present /\ Len(all) = Cardinality(Present)
       /\ \A i, j \in DOMAIN all : i < j => all[i][2] >= all[j][2]
       /\ \A i \in DOMAIN all : TopN(1, i - 1) = <<all[i]>>

\* An entity's score is what the committed items make of it one after the other, and
\* its only ranking key is the one of that score, also for entities from before
\* scores had keys of their own and after a batch of several writes to one entity
\* (executeMutation, executeWriteBatch, StageValueFromCurrent).  The ranking lists the
\* scores from the highest to the lowest, page by page, over the change of sign (TopN,
\* lbKey).
ScoresExact ==
    /\ TypeOK
    /\ \A e \in Entities :
          /\ Ranked(e) = {truth.score[e]} \ {Absent}
          /\ truth.score[e] # Absent => Get(e) = truth.score[e]
          /\ score[e] # Absent => score[e] = truth.score[e]
    /\ RankingDescends

\* The events are what the committed items make of them one after the other, at
\* the times that only clients write or that no DELETE reaches (lockMutations,
\* StageEvent, ScanDeleteWhere).
Ordered(t) ==
    \/ \A w \in Writers : ~Client(w) => \A q \in Range(queries[w]) : q.kind = "write" => q.ts # t
    \/ \A w \in Writers : \A q \in Range(queries[w]) : Purges(q) => t \notin q.ts..(q.to - 1)
EventsExact == \A t \in Times : Ordered(t) => events[t] = truth.events[t]

\* A replicated operation takes effect once, however often it arrives, in one batch
\* or in two at the same time, before or after a crash (executeWriteBatch,
\* executeMutation).
AppliedOnce == IsInjective(truth.applied) /\ receipts = Range(truth.applied)

\* Requests never wait for each other in a circle, nor for a flush that does not
\* come (lockMutations, AtomicMutationManyTimed, cardUpdater.Add).
Waits(w) == pc[w] = "locking" \/ (pc[w] = "recorded" /\ ~Idle(w))
NeverStuck ==
    (/\ \E w \in Writers : Waits(w)
     /\ \A w \in Writers : pc[w] \in {"idle", "done"} \/ Waits(w))
        => ENABLED (\/ \E w \in Writers : Lock(w) \/ Counting(w)
                    \/ Take \/ FlushCommit)
=============================================================================
