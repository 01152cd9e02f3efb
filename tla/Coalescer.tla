----------------------------- MODULE Coalescer -----------------------------
(***************************************************************************)
(* The write coalescer of the Next Gen engine.                             *)
(*                                                                         *)
(* Callers submit small chunks of writes to a bounded queue.  A goroutine  *)
(* collects them into waves of at most BatchSize items and hands each wave *)
(* to a worker, which executes it and answers every caller with the        *)
(* outcome of its own items.  A small wave, or one of a single metric, is  *)
(* one transaction; a larger one is split into jobs of whole metrics, each *)
(* a transaction of its own.  A caller may be cancelled or reach its       *)
(* deadline at any moment, and the engine may be closed.                   *)
(***************************************************************************)
EXTENDS Naturals, FiniteSets, SequencesExt

CONSTANTS
    Requests,       \* chunks, each submitted once
    Items,          \* number of items of a chunk
    Bad,            \* items <<r, i>> that the validation rejects
    Metric,         \* metric of an item <<r, i>>
    SplitSize,      \* items from which on a wave of several metrics is split
    Workers,        \* goroutines that execute waves
    QueueSize,      \* capacity of the queue
    BatchSize,      \* items of a wave
    WaveSize,       \* chunks of a wave
    MaxFaults       \* bound on failing transactions and on callers that are cancelled or
                    \* expire, together

ASSUME CoalescerAssumption ==
    /\ Items \in [Requests -> Nat \ {0}]
    /\ Bad \subseteq Requests \X Nat
    /\ \A r \in Requests : {<<r, i>> : i \in 1..Items[r]} \subseteq DOMAIN Metric
    /\ {QueueSize, BatchSize, WaveSize, SplitSize} \subseteq Nat \ {0}
    /\ MaxFaults \in Nat

VARIABLES
    closing,        \* the coalescer's context is cancelled
    ctx,            \* context of a caller: live, cancelled or expired
    caller,         \* progress of submit()
    queue,          \* chunks admitted
    run,            \* progress of run()
    carry,          \* the chunk that did not fit into the last wave, if any
    wave,           \* the wave being collected
    job, active,    \* per worker: its wave, and whether the wave is being executed
    exec,           \* per worker: progress of execute()
    answers,        \* what was sent on a chunk's result channel
    told,           \* what submit() returned
    failures,       \* transactions that have failed
    committed       \* items made durable

vars == <<closing, ctx, caller, queue, run, carry, wave, job, active, exec, answers, told,
          failures, committed>>

-----------------------------------------------------------------------------
\* The jobs that have not reported, what is reported of the batch's positions, the error
\* of the whole; the AfterFuncs that have not run, the counter of participants, and
\* whether it has cancelled the context.
NotExecuting ==
    [jobs |-> {}, rejected |-> {}, err |-> "none", hooks |-> {}, participants |-> 0,
     cancelled |-> FALSE]

Init ==
    /\ closing = FALSE
    /\ ctx = [r \in Requests |-> "live"]
    /\ caller = [r \in Requests |-> "new"]
    /\ queue = <<>>
    /\ run = "first"
    /\ carry = <<>>
    /\ wave = <<>>
    /\ job = [w \in Workers |-> <<>>]
    /\ active = {}
    /\ exec = [w \in Workers |-> NotExecuting]
    /\ answers = [r \in Requests |-> <<>>]
    /\ told = [r \in Requests |-> <<>>]
    /\ failures = 0
    /\ committed = {}

\* ingestResult: an error, and the rejected items of the chunk, each with the reason.
Failed(err) == [err |-> err, rejected |-> {}]
Answer(rs, what(_)) ==
    answers' = [r \in Requests |-> IF r \in rs THEN Append(answers[r], what(r)) ELSE answers[r]]
Live(r) == ctx[r] = "live"
MayFail == failures + Cardinality({r \in Requests : ~Live(r)}) < MaxFaults
Size(rs) == FoldSeq(LAMBDA r, n : Items[r] + n, 0, rs)

-----------------------------------------------------------------------------
(* Callers. *)

\* submit: the context may end between the check at its beginning and the send.
Enqueue(r) ==
    /\ caller[r] = "new"
    /\ Len(queue) < QueueSize
    /\ queue' = Append(queue, r)
    /\ caller' = [caller EXCEPT ![r] = "waiting"]
    /\ UNCHANGED <<closing, ctx, run, carry, wave, job, active, exec, answers, told, failures,
                   committed>>

\* The context is done, at the beginning or before the chunk was admitted, or the engine
\* is closing.
Abandon(r) ==
    /\ caller[r] = "new"
    /\ \/ ~Live(r) /\ told' = [told EXCEPT ![r] = <<Failed("own")>>]
       \/ closing /\ told' = [told EXCEPT ![r] = <<Failed("closed")>>]
    /\ caller' = [caller EXCEPT ![r] = "returned"]
    /\ UNCHANGED <<closing, ctx, queue, run, carry, wave, job, active, exec, answers, failures,
                   committed>>

\* Defective variant: a cancelled caller does not wait.
ReceiveOrLeave(r) ==
    /\ caller[r] = "waiting"
    /\ \/ answers[r] # <<>> /\ told' = [told EXCEPT ![r] = <<Head(answers[r])>>]
       \/ ~Live(r) /\ told' = [told EXCEPT ![r] = <<Failed("own")>>]
       \/ run = "done" /\ told' = [told EXCEPT ![r] = <<Failed("closed")>>]
    /\ caller' = [caller EXCEPT ![r] = "returned"]
    /\ UNCHANGED <<closing, ctx, queue, run, carry, wave, job, active, exec, answers, failures,
                   committed>>

\* An admitted chunk waits for its answer, or for the end of run() if the send
\* came after the queue was drained.
Receive(r) ==
    /\ caller[r] = "waiting"
    /\ \/ answers[r] # <<>> /\ told' = [told EXCEPT ![r] = <<Head(answers[r])>>]
       \/ /\ answers[r] = <<>> /\ run = "done"
          /\ told' = [told EXCEPT ![r] = <<Failed("closed")>>]
    /\ caller' = [caller EXCEPT ![r] = "returned"]
    /\ UNCHANGED <<closing, ctx, queue, run, carry, wave, job, active, exec, answers, failures,
                   committed>>

\* A client disconnects, or a deadline passes.
Cancel(r) ==
    /\ Live(r) /\ caller[r] # "returned"
    /\ MayFail
    /\ \E why \in {"cancelled", "expired"} : ctx' = [ctx EXCEPT ![r] = why]
    /\ UNCHANGED <<closing, caller, queue, run, carry, wave, job, active, exec, answers, told,
                   failures, committed>>

Close ==
    /\ ~closing
    /\ closing' = TRUE
    /\ UNCHANGED <<ctx, caller, queue, run, carry, wave, job, active, exec, answers, told,
                   failures, committed>>

-----------------------------------------------------------------------------
(* run() *)

\* The first chunk of a wave: the one carried over, or the next of the queue.
TakeFirst ==
    /\ run = "first"
    /\ carry \o queue # <<>>
    /\ LET first == Head(carry \o queue)
       IN IF Live(first)
          THEN wave' = <<first>> /\ run' = "collect" /\ UNCHANGED answers
          ELSE Answer({first}, LAMBDA r : Failed("own")) /\ UNCHANGED <<wave, run>>
    /\ carry' = <<>>
    /\ queue' = IF carry = <<>> THEN Tail(queue) ELSE queue
    /\ UNCHANGED <<closing, ctx, caller, job, active, exec, told, failures, committed>>

\* Defective variant: the chunk that does not fit is dropped.
CarriedNothing(r) == <<>>
Carried(r) == <<r>>

Collect ==
    /\ run = "collect"
    /\ Size(wave) < BatchSize /\ Len(wave) < WaveSize
    /\ queue # <<>>
    /\ LET next == Head(queue)
       IN \/ /\ ~Live(next)
             /\ Answer({next}, LAMBDA r : Failed("own"))
             /\ UNCHANGED <<wave, carry, run>>
          \/ /\ Live(next) /\ Size(wave) + Items[next] > BatchSize
             /\ carry' = Carried(next)
             /\ run' = "offer"
             /\ UNCHANGED <<wave, answers>>
          \/ /\ Live(next) /\ Size(wave) + Items[next] <= BatchSize
             /\ wave' = Append(wave, next)
             /\ UNCHANGED <<carry, run, answers>>
    /\ queue' = Tail(queue)
    /\ UNCHANGED <<closing, ctx, caller, job, active, exec, told, failures, committed>>

\* The wave is full, the timer fires or the engine is closing.
StopCollecting ==
    /\ run = "collect"
    /\ run' = "offer"
    /\ UNCHANGED <<closing, ctx, caller, queue, carry, wave, job, active, exec, answers, told,
                   failures, committed>>

\* An idle worker takes the wave; a closing run() answers the carried chunk and ends.
Offer(w) ==
    /\ run = "offer" /\ job[w] = <<>>
    /\ job' = [job EXCEPT ![w] = wave]
    /\ wave' = <<>>
    /\ IF closing
       THEN /\ Answer(ToSet(carry), LAMBDA r : Failed("closed"))
            /\ carry' = <<>> /\ run' = "drain"
       ELSE run' = "first" /\ UNCHANGED <<answers, carry>>
    /\ UNCHANGED <<closing, ctx, caller, queue, active, exec, told, failures, committed>>

OfferCancelled ==
    /\ run = "offer" /\ closing
    /\ Answer(ToSet(wave \o carry), LAMBDA r : Failed("closed"))
    /\ wave' = <<>> /\ carry' = <<>> /\ run' = "drain"
    /\ UNCHANGED <<closing, ctx, caller, queue, job, active, exec, told, failures, committed>>

\* run() ends: the queue is drained, then the workers are awaited.
Stop ==
    /\ \/ /\ run = "first" /\ carry = <<>> /\ closing
          /\ run' = "drain" /\ UNCHANGED <<queue, answers>>
       \/ /\ run = "drain" /\ queue # <<>>
          /\ Answer({Head(queue)}, LAMBDA r : Failed("closed"))
          /\ queue' = Tail(queue) /\ UNCHANGED run
       \/ /\ run = "drain" /\ queue = <<>>
          /\ run' = "await" /\ UNCHANGED <<queue, answers>>
       \/ /\ run = "await" /\ \A w \in Workers : job[w] = <<>>
          /\ run' = "done" /\ UNCHANGED <<queue, answers>>
    /\ UNCHANGED <<closing, ctx, caller, carry, wave, job, active, exec, told, failures, committed>>

-----------------------------------------------------------------------------
(* execute() *)

Participants(rs) == SelectSeq(rs, Live)
Batch(rs) == FlattenSeq([k \in DOMAIN rs |-> [i \in 1..Items[rs[k]] |-> <<rs[k], i>>]])

\* copyGroupedWrites: the transactions of a batch, as sets of positions.  A job has all
\* items of its metrics: it is a metric, or a stripe of metrics with the same hash.
MetricsOf(batch) == {Metric[batch[p]] : p \in DOMAIN batch}
Splits(batch) == Len(batch) >= SplitSize /\ Cardinality(MetricsOf(batch)) > 1
Stripes(batch, stripe) ==
    {{p \in DOMAIN batch : stripe[Metric[batch[p]]] = k} : k \in MetricsOf(batch)} \ {{}}
Jobs(batch) ==
    IF Splits(batch) THEN {Stripes(batch, s) : s \in [MetricsOf(batch) -> MetricsOf(batch)]}
    ELSE {{DOMAIN batch}}

\* Chunks whose callers are gone are answered; the others form the batch, and an
\* AfterFunc is registered with the context of each.
Execute(w) ==
    /\ job[w] # <<>> /\ w \notin active
    /\ job' = [job EXCEPT ![w] = Participants(@)]
    /\ Answer({r \in ToSet(job[w]) : ~Live(r)}, LAMBDA r : Failed("own"))
    /\ IF job'[w] = <<>>
       THEN UNCHANGED <<active, exec>>
       ELSE /\ active' = active \cup {w}
            /\ \E jobs \in Jobs(Batch(job'[w])) :
                  exec' = [exec EXCEPT ![w] = [NotExecuting EXCEPT
                             !.jobs = jobs, !.hooks = ToSet(job'[w]),
                             !.participants = Len(job'[w])]]
    /\ UNCHANGED <<closing, ctx, caller, queue, run, carry, wave, told, failures, committed>>

\* Defective variant: one cancelled caller aborts the work of the others.
LastOneAny(participants) == TRUE
LastOne(participants) == participants = 0

\* The AfterFunc of a participant whose context is done.
CallerGone(w, r) ==
    /\ w \in active /\ r \in exec[w].hooks /\ ~Live(r)
    /\ LET left == exec[w].participants - 1
       IN exec' = [exec EXCEPT ![w].hooks = @ \ {r}, ![w].participants = left,
                               ![w].cancelled = @ \/ LastOne(left)]
    /\ UNCHANGED <<closing, ctx, caller, queue, run, carry, wave, job, active, answers, told,
                   failures, committed>>

\* The context of the work is done: close(), the earliest deadline, or cancel().
Aborted(w) ==
    closing \/ exec[w].cancelled \/ \E r \in ToSet(job[w]) : ctx[r] = "expired"

\* What a job reports of its items: those the validation has rejected and, if its
\* transaction has failed and the wave is split, all the others with the error.  The
\* error of an undivided wave is the error of the whole.
Reported(w, items, invalid, err) ==
    exec' = [exec EXCEPT
        ![w].jobs = @ \ {items},
        ![w].rejected = @ \cup (invalid \X {"invalid"})
            \cup IF err # "none" /\ Splits(Batch(job[w])) THEN (items \ invalid) \X {err} ELSE {},
        ![w].err = IF Splits(Batch(job[w])) THEN @ ELSE err]

\* The transaction of a job has committed the items it has accepted.
JobCommits(w) ==
    /\ w \in active
    /\ \E items \in exec[w].jobs :
          LET batch == Batch(job[w])
              invalid == {p \in items : batch[p] \in Bad}
          IN /\ committed' = committed \cup {batch[p] : p \in items \ invalid}
             /\ Reported(w, items, invalid, "none")
    /\ UNCHANGED <<closing, ctx, caller, queue, run, carry, wave, job, active, answers, told,
                   failures>>

\* It has failed before the items were validated or after; whether a failed commit took
\* effect is not known.
JobFails(w) ==
    /\ w \in active
    /\ \E items \in exec[w].jobs, err \in {"aborted", "failed"} :
          LET batch == Batch(job[w])
              invalid == {p \in items : batch[p] \in Bad}
              durable == committed \cup {batch[p] : p \in items \ invalid}
          IN /\ \/ err = "aborted" /\ Aborted(w) /\ UNCHANGED failures
                \/ /\ err = "failed"
                   /\ MayFail /\ failures' = failures + 1
             /\ \/ Reported(w, items, {}, err) /\ UNCHANGED committed
                \/ /\ items # invalid /\ Reported(w, items, invalid, err)
                   /\ committed' \in {committed, durable}
    /\ UNCHANGED <<closing, ctx, caller, queue, run, carry, wave, job, active, answers, told>>

\* Defective variant: every chunk reads the rejections of the first one.
OffsetNone(rs, r) == 0
\* Where the items of chunk r begin in the batch.
Offset(rs, r) == Size(SubSeq(rs, 1, SelectInSeq(rs, LAMBDA q : q = r) - 1))

Outcome(rs, rejected, err) ==
    Answer(ToSet(rs), LAMBDA r :
        [err |-> err,
         rejected |-> {<<x[1] - Offset(rs, r), x[2]>> :
                       x \in {y \in rejected : y[1] - Offset(rs, r) \in 1..Items[r]}}])

\* copyGroupedWrites returns, and the callers are answered.
Finish(w) ==
    /\ w \in active /\ exec[w].jobs = {}
    /\ Outcome(job[w], exec[w].rejected, exec[w].err)
    /\ job' = [job EXCEPT ![w] = <<>>]
    /\ active' = active \ {w}
    /\ exec' = [exec EXCEPT ![w] = NotExecuting]
    /\ UNCHANGED <<closing, ctx, caller, queue, run, carry, wave, told, failures, committed>>

-----------------------------------------------------------------------------
CallerStep(r) == Enqueue(r) \/ Abandon(r) \/ Receive(r)
RunStep ==
    \/ TakeFirst \/ Collect \/ StopCollecting \/ OfferCancelled \/ Stop
    \/ \E w \in Workers : Offer(w)
WorkerStep(w) ==
    \/ Execute(w) \/ JobCommits(w) \/ JobFails(w) \/ Finish(w)
    \/ \E r \in Requests : CallerGone(w, r)
Next ==
    \/ \E r \in Requests : CallerStep(r) \/ Cancel(r)
    \/ RunStep
    \/ \E w \in Workers : WorkerStep(w)
    \/ Close
Spec == Init /\ [][Next]_vars

-----------------------------------------------------------------------------
(* Correctness. *)

Errors == {"none", "own", "closed", "aborted", "failed"}
Reasons == {"invalid", "aborted", "failed"}
Results == [err : Errors, rejected : SUBSET ((1..BatchSize) \X Reasons)]

\* Types of the state.  A second answer would block its sender for ever, as a
\* result channel holds one (submit, run, execute).
TypeOK ==
    /\ closing \in BOOLEAN
    /\ ctx \in [Requests -> {"live", "cancelled", "expired"}]
    /\ caller \in [Requests -> {"new", "waiting", "returned"}]
    /\ queue \in Seq(Requests) /\ Len(queue) <= QueueSize
    /\ run \in {"first", "collect", "offer", "drain", "await", "done"}
    /\ carry \in Seq(Requests) /\ Len(carry) <= 1
    /\ job \in [Workers -> Seq(Requests)]
    /\ \A rs \in {wave} \cup {job[w] : w \in Workers} : rs \in Seq(Requests) /\ Len(rs) <= WaveSize
    /\ active \subseteq Workers
    /\ exec \in [Workers ->
          [jobs : SUBSET SUBSET (1..BatchSize), rejected : SUBSET ((1..BatchSize) \X Reasons),
           err : Errors, hooks : SUBSET Requests, participants : Nat, cancelled : BOOLEAN]]
    /\ \A r \in Requests : \A a \in {answers[r], told[r]} :
          Len(a) <= 1 /\ ToSet(a) \subseteq Results
    /\ failures \in 0..MaxFaults
    /\ committed \subseteq Requests \X (1..BatchSize)

\* A caller is told of exactly its own items, wherever its chunk was in the wave and
\* however the wave was divided.  Without an error of the whole, an item that is not
\* reported is durable, and an invalid one is reported; "invalid" is said of nothing
\* else, and a valid item is reported only with the error of its own transaction, which
\* it shares with the chunk's other items of the metric.  Whatever is told, these items
\* are durable together or not at all, and nothing is durable of a chunk that was turned
\* away before its execution (execute, copyGroupedWrites).
Told(a) == {x[1] : x \in a.rejected}
AnswersAreExact ==
    \A r \in Requests : \A a \in ToSet(told[r]) :
        LET bad == {i \in 1..Items[r] : <<r, i>> \in Bad}
            good == (1..Items[r]) \ bad
            kept == {i \in 1..Items[r] : <<r, i>> \in committed}
        IN /\ \A x \in a.rejected : x[2] = "invalid" => x[1] \in bad
           /\ a.err \in {"own", "closed"} => kept = {}
           /\ a.err = "none" => bad \subseteq Told(a) /\ (1..Items[r]) \ Told(a) \subseteq kept
           /\ \A i, j \in good : Metric[<<r, i>>] = Metric[<<r, j>>] =>
                 /\ i \in kept <=> j \in kept
                 /\ i \in Told(a) <=> j \in Told(a)

\* When submit has returned, nothing will touch its items any more ("nobody may
\* race a late mutation of the Query timestamp", writeCoalescer), and no result is
\* sent twice, which would block its sender for ever (TypeOK).
Held == ToSet(wave) \cup ToSet(carry) \cup UNION {ToSet(job[w]) : w \in Workers}
           \cup IF run = "done" THEN {} ELSE ToSet(queue)
NothingAfterReturn ==
    TypeOK /\ \A r \in Requests : caller[r] = "returned" => r \notin Held

\* What a caller is told when it returns is final and exact (submit, execute).
AnswersAreFinal == AnswersAreExact /\ NothingAfterReturn

\* "Explicit cancellation of one dispatched caller cannot abort another caller's
\* durable transaction", and the work is aborted "when EVERY participant cancels"
\* (execute): what the callers are going to be told names an abort, of the whole or of
\* the items of one job, only after close(), after a deadline of a participant or when
\* every participant is gone; and once the AfterFuncs of all participants have run, in
\* whatever order and however late, the context is cancelled.
CallersIndependent ==
    \A w \in active :
        LET callers == ToSet(job[w])
            reasons == {exec[w].err} \cup {x[2] : x \in exec[w].rejected}
        IN /\ "aborted" \in reasons =>
                 closing \/ (\E r \in callers : ctx[r] = "expired") \/ \A r \in callers : ~Live(r)
           /\ exec[w].cancelled <=> exec[w].hooks = {}

\* No submit is left waiting, also when close() races with the enqueueing of its
\* chunk: when no goroutine can go on by itself, every submit has returned.
\* Transactions have a deadline, and no chunk goes back to an earlier stage (submit,
\* run).
Progress ==
    \/ \E r \in Requests : CallerStep(r)
    \/ RunStep
    \/ \E w \in Workers : WorkerStep(w)
NeverStuck ==
    ~ENABLED Progress => \A r \in Requests : caller[r] = "returned"
=============================================================================
