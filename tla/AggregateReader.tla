-------------------------- MODULE AggregateReader --------------------------
(***************************************************************************)
(* The reader of filtered aggregates of the Next Gen engine.               *)
(*                                                                         *)
(* Callers queue their reads.  A goroutine collects a wave of them, and a  *)
(* worker executes the wave: reads with the same metric and anchor tag     *)
(* share one statement over their common candidates, and if it fails each  *)
(* of them is executed alone.  Meanwhile events are written and deleted,   *)
(* callers are cancelled or reach their deadlines, and the engine closes.  *)
(***************************************************************************)
EXTENDS Naturals, Sequences, FiniteSets, FiniteSetsExt

CONSTANTS
    Reads,          \* requests, each submitted once
    Query,          \* [Reads -> [metric, where, from, to, agg]]; where holds tags
    Events,         \* events that come and go: [metric, ts, value, tags]
    Workers,        \* goroutines that execute waves
    QueueSize,      \* capacity of the queue
    WaveSize,       \* reads of a wave
    MaxTime,        \* the largest timestamp
    MaxSum,         \* the largest finite sum
    MaxChanges,     \* bound on changes of the events
    MaxFailures,    \* bound on failing statements
    MaxCancels      \* bound on callers that leave or reach their deadlines

ASSUME ReaderAssumption ==
    /\ \A r \in Reads : Query[r].where # {} /\ {Query[r].from, Query[r].to} \subseteq 0..MaxTime
    /\ \A e \in Events : {e.ts, e.value} \subseteq Nat /\ e.ts < MaxTime
    /\ {QueueSize, WaveSize} \subseteq Nat \ {0}
    /\ {MaxTime, MaxSum, MaxChanges, MaxFailures, MaxCancels} \subseteq Nat

VARIABLES
    closing,        \* the reader's context is cancelled
    ctx,            \* context of a caller: live, cancelled or expired
    caller,         \* progress of submit()
    anchor,         \* the tag of its filter that a read is grouped by
    queue,          \* reads admitted
    run,            \* progress of run()
    wave,           \* the wave being collected
    groups,         \* per worker: groups of its wave that are still to be executed
    alone,          \* per worker: reads it executes one by one, in any order
    answers,        \* what was sent on a read's result channel
    failures,       \* statements that have failed
    hist,           \* history: the sets of events, the last one is the present one
    since           \* history: the state at which a read began

vars == <<closing, ctx, caller, anchor, queue, run, wave, groups, alone, answers,
          failures, hist, since>>

-----------------------------------------------------------------------------
(* Statements. *)

Db == hist[Len(hist)]
To(r) == IF Query[r].to = 0 THEN MaxTime ELSE Query[r].to
Within(e, r) == Query[r].from <= e.ts /\ e.ts < To(r)

\* The row of a read over the events it matches.
Row(r, matched) ==
    [agg |-> Query[r].agg, count |-> Cardinality(matched),
     sum |-> IF Query[r].agg = "count" THEN 0 ELSE MapThenSumSet(LAMBDA e : e.value, matched)]
Overflows(row) == row.sum > MaxSum

\* aggregateDirect and aggregateCandidates.
Matched(r, events) ==
    {e \in events : e.metric = Query[r].metric /\ Query[r].where \subseteq e.tags /\ Within(e, r)}
Direct(r, events) == Row(r, Matched(r, events))

\* Defective variant: the candidates end with the range of the read that ends first.
CandidatesOfFirst(rs, events) ==
    {e \in events :
        /\ \E r \in rs : e.metric = Query[r].metric /\ anchor[r] \in e.tags
        /\ \E r \in rs : Query[r].from <= e.ts
        /\ \A r \in rs : e.ts < To(r)}
\* The events with one of the anchors of a group, from the first start of their ranges
\* to the last end; a range to the end of time has no end.
Candidates(rs, events) ==
    {e \in events :
        /\ \E r \in rs : e.metric = Query[r].metric /\ anchor[r] \in e.tags
        /\ \E r \in rs : Query[r].from <= e.ts
        /\ \E r \in rs : To(r) = MaxTime \/ e.ts < To(r)}
\* The statement of group(): each read joined with its candidates.
Joined(r, rs, events) ==
    Row(r, {e \in Candidates(rs, events) :
              anchor[r] \in e.tags /\ Query[r].where \ {anchor[r]} \subseteq e.tags
              /\ Within(e, r)})

Value(row) == [err |-> "none", row |-> row]
NoRow == [agg |-> "none", count |-> 0, sum |-> 0]
Failed(err) == [err |-> err, row |-> NoRow]
Result(row) == IF Overflows(row) THEN Failed("overflow") ELSE Value(row)

-----------------------------------------------------------------------------
Init ==
    /\ closing = FALSE
    /\ ctx = [r \in Reads |-> "live"]
    /\ caller = [r \in Reads |-> "new"]
    /\ anchor = [r \in Reads |-> CHOOSE a \in Query[r].where : TRUE]
    /\ queue = <<>>
    /\ run = "first"
    /\ wave = <<>>
    /\ groups = [w \in Workers |-> {}]
    /\ alone = [w \in Workers |-> {}]
    /\ answers = [r \in Reads |-> <<>>]
    /\ failures = 0
    /\ hist = <<Events>>
    /\ since = [r \in Reads |-> 0]

Live(r) == ctx[r] = "live"
Answer(rs, what(_)) ==
    answers' = [r \in Reads |-> IF r \in rs THEN Append(answers[r], what(r)) ELSE answers[r]]

workerVars == <<groups, alone>>
dbVars == <<hist, failures>>

-----------------------------------------------------------------------------
(* Callers. *)

\* filterAnchor: a tag of the filter; which one depends on estimates that may be old.
FilterAnchor(r) == Query[r].where

\* submit up to the select: refused if a context is done.  (A filter above 64 KiB is
\* executed by its caller, without the reader.)
Submit(r) ==
    /\ caller[r] = "new"
    /\ since' = [since EXCEPT ![r] = Len(hist)]
    /\ \/ /\ ~Live(r) \/ closing
          /\ caller' = [caller EXCEPT ![r] = "returned"]
          /\ UNCHANGED anchor
       \/ /\ Live(r) /\ ~closing
          /\ \E a \in FilterAnchor(r) : anchor' = [anchor EXCEPT ![r] = a]
          /\ caller' = [caller EXCEPT ![r] = "offering"]
    /\ UNCHANGED <<closing, ctx, queue, run, wave, workerVars, answers, dbVars>>

Enqueue(r) ==
    /\ caller[r] = "offering"
    /\ Len(queue) < QueueSize
    /\ queue' = Append(queue, r)
    /\ caller' = [caller EXCEPT ![r] = "waiting"]
    /\ UNCHANGED <<closing, ctx, anchor, run, wave, workerVars, answers, dbVars, since>>

\* Defective variant: submit does not wait for the end of run().
LeaveUnlessAdmitted(r) ==
    /\ \/ caller[r] \in {"offering", "waiting"} /\ ~Live(r)
       \/ caller[r] = "offering" /\ closing
    /\ caller' = [caller EXCEPT ![r] = "returned"]
    /\ UNCHANGED <<closing, ctx, anchor, queue, run, wave, workerVars, answers, dbVars, since>>
\* The caller leaves before its read is admitted, or without waiting for the answer.
Leave(r) ==
    /\ \/ caller[r] \in {"offering", "waiting"} /\ ~Live(r)
       \/ caller[r] = "offering" /\ closing
       \/ caller[r] = "waiting" /\ run = "done"
    /\ caller' = [caller EXCEPT ![r] = "returned"]
    /\ UNCHANGED <<closing, ctx, anchor, queue, run, wave, workerVars, answers, dbVars, since>>

Receive(r) ==
    /\ caller[r] = "waiting"
    /\ answers[r] # <<>>
    /\ caller' = [caller EXCEPT ![r] = "returned"]
    /\ UNCHANGED <<closing, ctx, anchor, queue, run, wave, workerVars, answers, dbVars, since>>

\* A client disconnects, or a deadline passes.
Cancel(r) ==
    /\ Live(r) /\ caller[r] # "returned"
    /\ Cardinality({q \in Reads : ~Live(q)}) < MaxCancels
    /\ \E why \in {"cancelled", "expired"} : ctx' = [ctx EXCEPT ![r] = why]
    /\ UNCHANGED <<closing, caller, anchor, queue, run, wave, workerVars, answers,
                   dbVars, since>>

Close ==
    /\ ~closing
    /\ closing' = TRUE
    /\ UNCHANGED <<ctx, caller, anchor, queue, run, wave, workerVars, answers, dbVars,
                   since>>

\* A transaction of another request writes or deletes an event.
Change ==
    /\ Len(hist) <= MaxChanges
    /\ \E e \in Events : hist' = Append(hist, IF e \in Db THEN Db \ {e} ELSE Db \cup {e})
    /\ UNCHANGED <<closing, ctx, caller, anchor, queue, run, wave, workerVars, answers,
                   failures, since>>

-----------------------------------------------------------------------------
(* run() *)

Idle(w) == groups[w] = {} /\ alone[w] = {}

TakeFirst ==
    /\ run = "first"
    /\ queue # <<>>
    /\ wave' = <<Head(queue)>>
    /\ queue' = Tail(queue)
    /\ run' = "collect"
    /\ UNCHANGED <<closing, ctx, caller, anchor, workerVars, answers, dbVars, since>>

Collect ==
    /\ run = "collect"
    /\ Len(wave) < WaveSize
    /\ queue # <<>>
    /\ wave' = Append(wave, Head(queue))
    /\ queue' = Tail(queue)
    /\ UNCHANGED <<closing, ctx, caller, anchor, run, workerVars, answers, dbVars, since>>

\* The wave is full, the timer fires or the engine is closing.
StopCollecting ==
    /\ run = "collect"
    /\ run' = "offer"
    /\ UNCHANGED <<closing, ctx, caller, anchor, queue, wave, workerVars, answers,
                   dbVars, since>>

Key(r) == <<Query[r].metric, anchor[r][1]>>

\* A worker takes the wave.  execute() answers the reads whose callers are gone and
\* groups the others by metric and anchor.
Offer(w) ==
    /\ run = "offer" /\ Idle(w)
    /\ LET live == {r \in Range(wave) : Live(r)}
       IN /\ groups' = [groups EXCEPT ![w] = {{r \in live : Key(r) = Key(q)} : q \in live}]
          /\ Answer(Range(wave) \ live, LAMBDA r : Failed("own"))
    /\ wave' = <<>>
    /\ run' = "first"
    /\ UNCHANGED <<closing, ctx, caller, anchor, queue, alone, dbVars, since>>

OfferCancelled ==
    /\ run = "offer" /\ closing
    /\ Answer(Range(wave), LAMBDA r : Failed("closed"))
    /\ wave' = <<>>
    /\ run' = "await"
    /\ UNCHANGED <<closing, ctx, caller, anchor, queue, workerVars, dbVars, since>>

\* run() ends: the workers are awaited, then the queue is drained.
Stop ==
    /\ \/ run = "first" /\ closing /\ run' = "await" /\ UNCHANGED <<queue, answers>>
       \/ /\ run = "await" /\ \A w \in Workers : Idle(w)
          /\ run' = "drain" /\ UNCHANGED <<queue, answers>>
       \/ /\ run = "drain" /\ queue # <<>>
          /\ Answer({Head(queue)}, LAMBDA r : Failed("closed"))
          /\ queue' = Tail(queue) /\ UNCHANGED run
       \/ run = "drain" /\ queue = <<>> /\ run' = "done" /\ UNCHANGED <<queue, answers>>
    /\ UNCHANGED <<closing, ctx, caller, anchor, wave, workerVars, dbVars, since>>

-----------------------------------------------------------------------------
(* execute() *)

\* The statement of a group is aborted by close(), by the earliest deadline, or when
\* every caller is gone.
Aborted(rs) ==
    closing \/ (\E r \in rs : ctx[r] = "expired") \/ (\A r \in rs : ~Live(r))

OneByOne(w, rs) == alone' = [alone EXCEPT ![w] = rs] /\ UNCHANGED answers

\* Defective variant: the error of the shared statement is everybody's.
RetryNobody(w, rs) == Answer(rs, LAMBDA r : Failed("aborted")) /\ UNCHANGED alone
\* What follows the failure of a shared statement.
Retry(w, rs) == OneByOne(w, rs)

\* group(): one snapshot for all reads.  An overflow fails the statement.
Group(w) ==
    /\ alone[w] = {}
    /\ \E rs \in groups[w] :
          /\ groups' = [groups EXCEPT ![w] = @ \ {rs}]
          /\ \/ /\ Cardinality(rs) = 1
                /\ Retry(w, rs)
                /\ UNCHANGED failures
             \/ /\ Cardinality(rs) > 1
                /\ \A r \in rs : ~Overflows(Joined(r, rs, Db))
                /\ Answer(rs, LAMBDA r : Value(Joined(r, rs, Db)))
                /\ UNCHANGED <<alone, failures>>
             \/ /\ Cardinality(rs) > 1
                /\ Aborted(rs) \/ \E r \in rs : Overflows(Joined(r, rs, Db))
                /\ Retry(w, rs)
                /\ UNCHANGED failures
             \/ /\ Cardinality(rs) > 1
                /\ failures < MaxFailures
                /\ failures' = failures + 1
                /\ Retry(w, rs)
    /\ UNCHANGED <<closing, ctx, caller, anchor, queue, run, wave, hist, since>>

\* direct(): a statement of its own; a caller that is gone gets the error of its context.
Alone(w) ==
    /\ \E r \in alone[w] :
          /\ \/ /\ ~Live(r)
                /\ Answer({r}, LAMBDA q : Failed("own"))
                /\ UNCHANGED failures
             \/ /\ Live(r)
                /\ Answer({r}, LAMBDA q : Result(Direct(r, Db)))
                /\ UNCHANGED failures
             \/ /\ Live(r) /\ closing
                /\ Answer({r}, LAMBDA q : Failed("aborted"))
                /\ UNCHANGED failures
             \/ /\ Live(r)
                /\ failures < MaxFailures
                /\ failures' = failures + 1
                /\ Answer({r}, LAMBDA q : Failed("failed"))
          /\ alone' = [alone EXCEPT ![w] = @ \ {r}]
    /\ UNCHANGED <<closing, ctx, caller, anchor, queue, run, wave, groups, hist, since>>

-----------------------------------------------------------------------------
CallerStep(r) == Submit(r) \/ Enqueue(r) \/ Leave(r) \/ Receive(r)
RunStep ==
    \/ TakeFirst \/ Collect \/ StopCollecting \/ OfferCancelled \/ Stop
    \/ \E w \in Workers : Offer(w)
WorkerStep(w) == Group(w) \/ Alone(w)

Next ==
    \/ \E r \in Reads : CallerStep(r) \/ Cancel(r)
    \/ RunStep
    \/ \E w \in Workers : WorkerStep(w)
    \/ Change \/ Close
Spec == Init /\ [][Next]_vars

\* Goroutines go on when they can; statements end, since each has a deadline.
\* Nothing is assumed of clients, writers and close().
Fairness ==
    /\ \A r \in Reads : WF_vars(Enqueue(r) \/ Leave(r) \/ Receive(r))
    /\ WF_vars(RunStep)
    /\ \A w \in Workers : WF_vars(WorkerStep(w))
LiveSpec == Spec /\ Fairness

-----------------------------------------------------------------------------
(* Correctness. *)

Errors == {"none", "own", "closed", "aborted", "failed", "overflow"}
Results(r) == [err : Errors, row : {NoRow} \cup {Row(r, matched) : matched \in SUBSET Events}]

\* Types of the state.  A second answer would block its sender for ever, as a result
\* channel holds one (submit, execute).
TypeOK ==
    /\ closing \in BOOLEAN
    /\ ctx \in [Reads -> {"live", "cancelled", "expired"}]
    /\ caller \in [Reads -> {"new", "offering", "waiting", "returned"}]
    /\ \A r \in Reads : anchor[r] \in Query[r].where
    /\ queue \in Seq(Reads) /\ Len(queue) <= QueueSize
    /\ run \in {"first", "collect", "offer", "await", "drain", "done"}
    /\ wave \in Seq(Reads) /\ Len(wave) <= WaveSize
    /\ groups \in [Workers -> SUBSET SUBSET Reads]
    /\ alone \in [Workers -> SUBSET Reads]
    /\ \A r \in Reads : answers[r] \in Seq(Results(r)) /\ Len(answers[r]) <= 1
    /\ failures \in 0..MaxFailures
    /\ hist \in Seq(SUBSET Events) /\ Len(hist) <= MaxChanges + 1
    /\ since \in [Reads -> 0..Len(hist)]

\* What a caller is given is the aggregate of exactly the events its own filter matches,
\* in one state of the database between its request and now, whichever reads shared the
\* statement ("an acknowledged write before a request therefore remains visible to it",
\* aggregateReader; group, aggregateDirect).
ReadsExact ==
    /\ TypeOK
    /\ \A r \in Reads : \A a \in Range(answers[r]) : a.err = "none" =>
          \E k \in since[r]..Len(hist) : a.row = Direct(r, hist[k])

\* "An overflow or canceled participant must not poison other independent reads"
\* (group): a read fails only by its own context, sum or statement, or because the engine
\* is closed.
Unpoisoned ==
    \A r \in Reads : \A a \in Range(answers[r]) :
        /\ a.err = "own" => ~Live(r)
        /\ a.err \in {"closed", "aborted"} => closing
        /\ a.err = "overflow" => \E k \in since[r]..Len(hist) : Overflows(Direct(r, hist[k]))

\* Every submit returns, also if its read is queued while run() ends (submit, run,
\* close).
Returns == \A r \in Reads : caller[r] = "offering" ~> caller[r] = "returned"
=============================================================================
