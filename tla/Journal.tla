------------------------------ MODULE Journal ------------------------------
(***************************************************************************)
(* The buffered writer of the Kotlin client.                               *)
(*                                                                         *)
(* record() appends an event to the open file of a journal directory.  A   *)
(* full or old file is sealed, which renames it from .open to .pending.    *)
(* One sender claims the oldest pending file by renaming it to .inflight,  *)
(* sends it as one WRITE_BATCH and renames it again according to the       *)
(* outcome; the next start recovers what a crash left behind.              *)
(*                                                                         *)
(* The process may crash between any two file operations, and inside a     *)
(* write.  What has been written is not lost with the process; loss of     *)
(* power is not modelled.  A request may be executed after the client has  *)
(* given up on it, or never.                                               *)
(***************************************************************************)
EXTENDS Integers, Sequences, FiniteSets, FiniteSetsExt

CONSTANTS
    BatchSize,      \* events per file
    CacheSize,      \* pending files the sender remembers
    MaxRetained,    \* admission limit of the journal
    MaxEvents,      \* bound on record() calls
    MaxFailures,    \* bound on failed connection attempts and unsent requests
    MaxFaults,      \* bound on I/O errors of the journal
    MaxCrashes,     \* bound on crashes
    MaxStops        \* bound on orderly shutdowns

ASSUME JournalAssumption ==
    /\ {BatchSize, CacheSize} \subseteq Nat \ {0}
    /\ {MaxRetained, MaxEvents, MaxFailures, MaxFaults, MaxCrashes, MaxStops} \subseteq Nat

VARIABLES
    files,          \* the directory
    sequence,       \* order number of the newest file
    wire,           \* requests the server may still execute
    replies,        \* answers of the server
    mode,           \* "up", "recovering" or "down"
    active,         \* order number of the open file, 0 if there is none
    accepting, broken, stopping,
    retained,       \* accounted size of the directory
    cache,          \* pendingCache: order numbers, the smallest one is the next
    pc, claim, failed,      \* the sender, its file, and the items that failed
    rebuild,        \* the recovered file being rewritten
    events,         \* number of record() calls
    admitted,       \* history: events record() has accepted
    sent,           \* history: events in the order they were transmitted
    executed,       \* history: how often the server executed each event
    confirmed,      \* history: events whose callback was told TRUE
    missed,         \* history: incomplete writes since the start, which retained leaves out
    failures, faults, crashes, stops

admission == <<active, accepting, broken, stopping>>
sender == <<pc, claim, failed>>
server == <<wire, replies, executed>>
client == <<events, admitted>>
account == <<retained, missed>>
bounds == <<failures, faults, crashes, stops>>
vars == <<files, sequence, server, mode, admission, account, cache, sender, rebuild,
          client, sent, confirmed, bounds>>

-----------------------------------------------------------------------------
(* Files.  A name is an order number with an extension; the items are events  *)
(* in the order of their frames; a torn file ends in an incomplete frame.     *)

Extensions == {"open", "pending", "inflight", "done", "uncertain", "partial",
               "damaged", "recovered", "rebuild", "result"}
NoFile == [order |-> 0, ext |-> "open", items |-> <<>>, torn |-> FALSE]

File(order, ext) ==
    CHOOSE f \in files : f.order = order /\ f.ext = ext
Moved(dir, order, from, to) ==
    {IF f.order = order /\ f.ext = from THEN [f EXCEPT !.ext = to] ELSE f : f \in dir}

\* The size of a directory, in frames; a result, an incomplete frame and an incomplete
\* result are as large as one.
Size(f) == IF f.ext = "result" THEN 1 ELSE Len(f.items) + IF f.torn THEN 1 ELSE 0
Frames(dir) == UNION {{f} \X (1..Size(f)) : f \in dir}
Sizes(dir) == Cardinality(Frames(dir))

Init ==
    /\ files = {}
    /\ sequence = 0
    /\ wire = {}
    /\ replies = {}
    /\ mode = "up"
    /\ active = 0
    /\ accepting = TRUE
    /\ broken = FALSE
    /\ stopping = FALSE
    /\ retained = 0
    /\ cache = {}
    /\ pc = "idle"
    /\ claim = 0
    /\ failed = {}
    /\ rebuild = NoFile
    /\ events = 0
    /\ admitted = {}
    /\ sent = <<>>
    /\ executed = [e \in 1..MaxEvents |-> 0]
    /\ confirmed = {}
    /\ missed = 0
    /\ failures = 0
    /\ faults = 0
    /\ crashes = 0
    /\ stops = 0

-----------------------------------------------------------------------------
(* Admission.  append, flushIfDue and stopAdmission exclude each other. *)

Sealed == Moved(files, active, "open", "pending")

\* The directory and the open file for one more frame: a file that is full, or that
\* the frame makes too long, is sealed and a new one is opened.
Full(long) == active # 0 /\ (Len(File(active, "open").items) >= BatchSize \/ long)
Directory(long) == IF Full(long) THEN Sealed ELSE files
Target(long) ==
    IF active # 0 /\ ~Full(long) THEN File(active, "open")
    ELSE [NoFile EXCEPT !.order = sequence + 1]
Write(long, file) ==
    /\ files' = (Directory(long) \ {Target(long)}) \cup {file}
    /\ active' = Target(long).order
    /\ sequence' = IF active # 0 /\ ~Full(long) THEN sequence ELSE sequence + 1

\* append writes a frame and record() returns TRUE.
Record ==
    /\ mode = "up" /\ accepting
    /\ events < MaxEvents
    /\ retained < MaxRetained
    /\ events' = events + 1
    /\ admitted' = admitted \cup {events'}
    /\ \E long \in BOOLEAN : Write(long, [Target(long) EXCEPT !.items = Append(@, events')])
    /\ retained' = retained + 1
    /\ UNCHANGED <<server, mode, accepting, broken, stopping, cache, sender, rebuild,
                   sent, confirmed, missed, bounds>>

\* The write fails half way: record() returns FALSE and admission ends.  What has been
\* written stays in the file and is not accounted for.
RecordFails ==
    /\ mode = "up" /\ accepting
    /\ events < MaxEvents
    /\ retained < MaxRetained
    /\ faults < MaxFaults
    /\ faults' = faults + 1
    /\ events' = events + 1
    /\ \E long \in BOOLEAN : Write(long, [Target(long) EXCEPT !.torn = TRUE])
    /\ accepting' = FALSE
    /\ missed' = missed + 1
    /\ UNCHANGED <<server, mode, broken, stopping, retained, cache, sender, rebuild,
                   admitted, sent, confirmed, failures, crashes, stops>>

\* The full file cannot be sealed: record() returns FALSE.  After an error of the
\* rename the file stays .open, but is no longer the one that is written.
SealFails ==
    /\ mode = "up" /\ accepting
    /\ events < MaxEvents
    /\ retained < MaxRetained
    /\ \E long \in BOOLEAN : Full(long)
    /\ faults < MaxFaults
    /\ faults' = faults + 1
    /\ events' = events + 1
    /\ active' \in {0, active}
    /\ UNCHANGED <<files, sequence, server, mode, accepting, broken, stopping, account,
                   cache, sender, rebuild, admitted, sent, confirmed, failures, crashes,
                   stops>>

\* flushIfDue, called by the flusher and by the sender.
FlushIfDue ==
    /\ mode = "up" /\ active # 0
    /\ files' = Sealed
    /\ active' = 0
    /\ UNCHANGED <<sequence, server, mode, accepting, broken, stopping, account, cache,
                   sender, rebuild, client, sent, confirmed, bounds>>

\* An I/O error of the flusher or of the sender: admission ends, sealing what
\* can be sealed, and the sender is cancelled or stops.
JournalFails ==
    /\ mode = "up"
    /\ faults < MaxFaults
    /\ faults' = faults + 1
    /\ accepting' = FALSE
    /\ broken' = TRUE
    /\ \/ files' = Sealed /\ active' = 0
       \/ UNCHANGED <<files, active>>
    /\ UNCHANGED <<sequence, server, mode, stopping, account, cache, sender, rebuild,
                   client, sent, confirmed, failures, crashes, stops>>

-----------------------------------------------------------------------------
(* The sender. *)

Pending == {f.order : f \in {g \in files : g.ext = "pending"}}
Oldest(orders) ==
    /\ \A n \in orders, m \in Pending \ orders : n < m
    /\ Cardinality(orders) = Min({CacheSize, Cardinality(Pending)})

\* oldestPending: the directory is read only when the cache is empty.
OldestPending ==
    /\ mode = "up" /\ pc = "idle"
    /\ IF cache = {} THEN cache' \in {orders \in SUBSET Pending : Oldest(orders)}
                     ELSE UNCHANGED cache
    /\ pc' = IF cache' = {} THEN "empty" ELSE "peeked"
    /\ UNCHANGED <<files, sequence, server, mode, admission, account, claim, failed,
                   rebuild, client, sent, confirmed, bounds>>

\* Defective variant: the sender always ends.
NothingPendingEnds ==
    /\ mode = "up" /\ pc = "empty"
    /\ pc' = "ended"
    /\ UNCHANGED <<files, sequence, server, mode, admission, account, cache, claim,
                   failed, rebuild, client, sent, confirmed, bounds>>

\* Nothing is pending: the sender ends if the client is shutting down.
NothingPending ==
    /\ mode = "up" /\ pc = "empty"
    /\ pc' = IF stopping THEN "ended" ELSE "idle"
    /\ UNCHANGED <<files, sequence, server, mode, admission, account, cache, claim,
                   failed, rebuild, client, sent, confirmed, bounds>>

\* The connection or the authentication fails.
ConnectFails ==
    /\ mode = "up" /\ pc = "peeked"
    /\ failures < MaxFailures
    /\ failures' = failures + 1
    /\ pc' = "idle"
    /\ UNCHANGED <<files, sequence, server, mode, admission, account, cache, claim,
                   failed, rebuild, client, sent, confirmed, faults, crashes,
                   stops>>

Peeked(n) == pc = "peeked" /\ n \in cache /\ \A m \in cache : n <= m

\* Defective variant: the damaged file is deleted.
DamagedDeleted ==
    /\ mode = "up"
    /\ \E n \in cache :
          /\ Peeked(n)
          /\ File(n, "pending").torn
          /\ files' = files \ {File(n, "pending")}
          /\ cache' = cache \ {n}
    /\ pc' = "idle"
    /\ UNCHANGED <<sequence, server, mode, admission, account, claim, failed,
                   rebuild, client, sent, confirmed, bounds>>

\* The file cannot be read to its end.
Damaged ==
    /\ mode = "up"
    /\ \E n \in cache :
          /\ Peeked(n)
          /\ File(n, "pending").torn
          /\ files' = Moved(files, n, "pending", "damaged")
          /\ cache' = cache \ {n}
    /\ pc' = "idle"
    /\ UNCHANGED <<sequence, server, mode, admission, account, claim, failed,
                   rebuild, client, sent, confirmed, bounds>>

\* The durable claim.
Claim ==
    /\ mode = "up"
    /\ \E n \in cache :
          /\ Peeked(n)
          /\ ~File(n, "pending").torn
          /\ files' = Moved(files, n, "pending", "inflight")
          /\ cache' = cache \ {n}
          /\ claim' = n
    /\ pc' = "claimed"
    /\ UNCHANGED <<sequence, server, mode, admission, account, failed, rebuild,
                   client, sent, confirmed, bounds>>

Items == Range(File(claim, "inflight").items)
MoveClaim(ext) == files' = Moved(files, claim, "inflight", ext)

\* Forgetting the cache matters: the file is older than what is in it.
\* Defective variant: the cache is kept.
CacheKept == cache
CacheAfterReturn == {}

\* The request fails with NOT_SENT: only then the file is pending again.
NotSent ==
    /\ mode = "up" /\ pc = "claimed"
    /\ failures < MaxFailures
    /\ failures' = failures + 1
    /\ MoveClaim("pending")
    /\ cache' = CacheAfterReturn
    /\ pc' = "idle"
    /\ UNCHANGED <<sequence, server, mode, admission, account, claim, failed,
                   rebuild, client, sent, confirmed, faults, crashes, stops>>

\* The first byte of the request is written.
Transmit ==
    /\ mode = "up" /\ pc = "claimed"
    /\ wire' = wire \cup {[order |-> claim, items |-> Items]}
    /\ sent' = sent \o File(claim, "inflight").items
    /\ pc' = "sent"
    /\ UNCHANGED <<files, sequence, replies, executed, mode, admission, account, cache,
                   claim, failed, rebuild, client, confirmed, bounds>>

\* A consistent result arrives.
Response ==
    /\ mode = "up" /\ pc = "sent"
    /\ \E r \in replies : r.order = claim /\ failed' = r.failed
    /\ pc' = IF failed' = {} THEN "accepted" ELSE "partial"
    /\ UNCHANGED <<files, sequence, server, mode, admission, account, cache, claim,
                   rebuild, client, sent, confirmed, bounds>>

\* No result, an inconsistent one, or an error while it is recorded.
Uncertain ==
    /\ mode = "up" /\ pc \in {"sent", "accepted", "partial", "saved", "unsaved"}
    /\ MoveClaim("uncertain")
    /\ failed' = {}
    /\ pc' = "idle"
    /\ UNCHANGED <<sequence, server, mode, admission, account, cache, claim,
                   rebuild, client, sent, confirmed, bounds>>

\* Everything was accepted: done, callbacks, then the file is deleted or, after
\* an error, left as it is.
Accepted ==
    /\ mode = "up" /\ pc = "accepted"
    /\ MoveClaim("done")
    /\ confirmed' = confirmed \cup Items
    /\ pc' = "done"
    /\ UNCHANGED <<sequence, server, mode, admission, account, cache, claim, failed,
                   rebuild, client, sent, bounds>>

Delete(f) ==
    /\ files' = files \ {f}
    /\ retained' = retained - Size(f)
    /\ UNCHANGED missed
DeleteDone ==
    /\ mode = "up" /\ pc = "done"
    /\ \/ Delete(File(claim, "done")) /\ UNCHANGED faults
       \/ /\ faults < MaxFaults /\ faults' = faults + 1
          /\ UNCHANGED <<files, account>>
    /\ pc' = "idle"
    /\ UNCHANGED <<sequence, server, mode, admission, cache, claim, failed,
                   rebuild, client, sent, confirmed, failures, crashes, stops>>

\* Something was refused: the result is saved, then the file is kept as partial.
SaveResult ==
    /\ mode = "up" /\ pc = "partial"
    /\ files' = files \cup {[NoFile EXCEPT !.order = claim, !.ext = "result"]}
    /\ retained' = retained + 1
    /\ pc' = "saved"
    /\ UNCHANGED <<sequence, server, mode, admission, cache, claim, failed,
                   rebuild, client, sent, confirmed, missed, bounds>>

\* The result is written half way or not synced: it stays there, is not accounted for, and
\* the batch is going to be uncertain.
SaveResultFails ==
    /\ mode = "up" /\ pc = "partial"
    /\ faults < MaxFaults
    /\ faults' = faults + 1
    /\ files' = files \cup {[NoFile EXCEPT !.order = claim, !.ext = "result"]}
    /\ missed' = missed + 1
    /\ pc' = "unsaved"
    /\ UNCHANGED <<sequence, server, mode, admission, retained, cache, claim, failed,
                   rebuild, client, sent, confirmed, failures, crashes, stops>>

Told == Items \ failed
Partial ==
    /\ mode = "up" /\ pc = "saved"
    /\ MoveClaim("partial")
    /\ confirmed' = confirmed \cup Told
    /\ failed' = {}
    /\ pc' = "idle"
    /\ UNCHANGED <<sequence, server, mode, admission, account, cache, claim,
                   rebuild, client, sent, bounds>>

\* sender.cancel() takes effect where the sender waits.
Cancel ==
    /\ mode = "up" /\ (stopping \/ broken)
    /\ \/ pc \in {"idle", "empty", "peeked"} /\ UNCHANGED <<files, cache>>
       \/ pc = "claimed" /\ MoveClaim("pending") /\ cache' = {}
       \/ pc = "sent" /\ MoveClaim("uncertain") /\ UNCHANGED cache
    /\ pc' = "ended"
    /\ UNCHANGED <<sequence, server, mode, admission, account, claim, failed,
                   rebuild, client, sent, confirmed, bounds>>

-----------------------------------------------------------------------------
(* The server (external): it executes a request once, now or later, refusing  *)
(* some items; a refused item may have been applied all the same.             *)

ServerExecute ==
    /\ \E m \in wire, refused \in SUBSET (1..MaxEvents), applied \in SUBSET (1..MaxEvents) :
          /\ refused \subseteq m.items /\ applied \subseteq refused
          /\ wire' = wire \ {m}
          /\ replies' = replies \cup {[order |-> m.order, failed |-> refused]}
          /\ executed' = [e \in 1..MaxEvents |->
                executed[e] + IF e \in (m.items \ refused) \cup applied THEN 1 ELSE 0]
    /\ UNCHANGED <<files, sequence, mode, admission, account, cache, sender, rebuild,
                   client, sent, confirmed, bounds>>

RequestLost ==
    /\ \E m \in wire : wire' = wire \ {m}
    /\ UNCHANGED <<files, sequence, replies, executed, mode, admission, account, cache,
                   sender, rebuild, client, sent, confirmed, bounds>>

-----------------------------------------------------------------------------
(* Shutdown, crash and recovery. *)

Shutdown ==
    /\ mode = "up" /\ ~stopping
    /\ stops < MaxStops
    /\ stops' = stops + 1
    /\ stopping' = TRUE
    /\ UNCHANGED <<files, sequence, server, mode, active, accepting, broken, account,
                   cache, sender, rebuild, client, sent, confirmed, failures, faults,
                   crashes>>

StopAdmission ==
    /\ mode = "up" /\ stopping /\ accepting
    /\ accepting' = FALSE
    /\ files' = Sealed
    /\ active' = 0
    /\ UNCHANGED <<sequence, server, mode, broken, stopping, account, cache, sender,
                   rebuild, client, sent, confirmed, bounds>>

\* The memory of the process is gone.
Forget ==
    /\ mode' = "down"
    /\ active' = 0
    /\ accepting' = FALSE
    /\ broken' = FALSE
    /\ stopping' = FALSE
    /\ retained' = 0
    /\ missed' = 0
    /\ cache' = {}
    /\ claim' = 0
    /\ failed' = {}
    /\ rebuild' = NoFile
    /\ replies' = {}

\* journal.close() seals again what could not be sealed before.
Close ==
    /\ mode = "up" /\ stopping /\ ~accepting
    /\ pc = "ended"
    /\ \/ files' = Sealed
       \/ broken /\ UNCHANGED files
    /\ Forget
    /\ pc' = "ended"
    /\ UNCHANGED <<sequence, wire, executed, client, sent, confirmed, bounds>>

\* A crash can leave an incomplete frame in the file that is being written.
Crash ==
    /\ mode # "down"
    /\ crashes < MaxCrashes
    /\ crashes' = crashes + 1
    /\ \/ UNCHANGED files
       \/ /\ active # 0
          /\ files' = (files \ {File(active, "open")})
                        \cup {[File(active, "open") EXCEPT !.torn = TRUE]}
    /\ Forget
    /\ pc' = "ended"
    /\ UNCHANGED <<sequence, wire, executed, client, sent, confirmed, failures, faults,
                   stops>>

Start ==
    /\ mode = "down"
    /\ mode' = "recovering"
    /\ retained' = Sizes(files)
    /\ UNCHANGED <<files, sequence, server, admission, cache, pc, claim, failed, rebuild,
                   client, sent, confirmed, missed, bounds>>

\* Defective variant: a claimed file is sent again.
ClaimedAgain == "pending"
ClaimedExtension == "uncertain"
RecoverInflight ==
    /\ mode = "recovering" /\ rebuild = NoFile
    /\ \E f \in files :
          f.ext = "inflight" /\ files' = Moved(files, f.order, "inflight", ClaimedExtension)
    /\ UNCHANGED <<sequence, server, mode, admission, account, cache, sender, rebuild,
                   client, sent, confirmed, bounds>>

RecoverDone ==
    /\ mode = "recovering" /\ rebuild = NoFile
    /\ \E f \in files : f.ext = "done" /\ Delete(f)
    /\ UNCHANGED <<sequence, server, mode, admission, cache, sender, rebuild, client,
                   sent, confirmed, bounds>>

\* The file is set aside, its complete frames are copied, the copy is synced and
\* becomes pending.
RecoverOpen ==
    /\ mode = "recovering" /\ rebuild = NoFile
    /\ \E f \in files :
          /\ f.ext = "open"
          /\ files' = Moved(files, f.order, "open", "recovered")
          /\ rebuild' = IF f.items = <<>> THEN NoFile
                        ELSE [f EXCEPT !.ext = "rebuild", !.torn = FALSE]
    /\ UNCHANGED <<sequence, server, mode, admission, account, cache, sender, client,
                   sent, confirmed, bounds>>

WriteRecovered ==
    /\ mode = "recovering" /\ rebuild # NoFile
    /\ IF rebuild \in files
       THEN /\ files' = Moved(files, rebuild.order, "rebuild", "pending")
            /\ rebuild' = NoFile
            /\ UNCHANGED account
       ELSE /\ files' = files \cup {rebuild}
            /\ retained' = retained + Size(rebuild)
            /\ UNCHANGED <<rebuild, missed>>
    /\ UNCHANGED <<sequence, server, mode, admission, cache, sender, client, sent,
                   confirmed, bounds>>

Recovered ==
    /\ mode = "recovering" /\ rebuild = NoFile
    /\ \A f \in files : f.ext \notin {"inflight", "done", "open"}
    /\ mode' = "up"
    /\ accepting' = TRUE
    /\ pc' = "idle"
    /\ UNCHANGED <<files, sequence, server, active, broken, stopping, account, cache,
                   claim, failed, rebuild, client, sent, confirmed, bounds>>

-----------------------------------------------------------------------------
SenderStep ==
    \/ OldestPending \/ NothingPending \/ ConnectFails \/ Damaged \/ Claim
    \/ NotSent \/ Transmit \/ Response \/ Uncertain \/ Accepted \/ DeleteDone
    \/ SaveResult \/ SaveResultFails \/ Partial \/ Cancel
Recovery == RecoverInflight \/ RecoverDone \/ RecoverOpen \/ WriteRecovered \/ Recovered
Next ==
    \/ Record \/ RecordFails \/ SealFails \/ FlushIfDue \/ JournalFails
    \/ SenderStep
    \/ ServerExecute \/ RequestLost
    \/ Shutdown \/ StopAdmission \/ Close \/ Crash \/ Start
    \/ Recovery

Spec == Init /\ [][Next]_vars

\* The threads of a running client go on; a client that is down is started
\* again.  Nothing is assumed about the server: a request that is not answered
\* times out (Uncertain).
Fairness ==
    /\ WF_vars(FlushIfDue)
    /\ WF_vars(OldestPending \/ NothingPending \/ Damaged \/ Claim \/ Transmit
               \/ Response \/ Uncertain \/ Accepted \/ DeleteDone \/ SaveResult \/ Partial)
    /\ WF_vars(StopAdmission) /\ WF_vars(Cancel) /\ WF_vars(Close)
    /\ WF_vars(Start) /\ WF_vars(Recovery)
LiveSpec == Spec /\ Fairness

-----------------------------------------------------------------------------
(* Correctness. *)

AllFiles == [order: Nat, ext: Extensions, items: Seq(1..MaxEvents), torn: BOOLEAN]
Phases == {"idle", "empty", "peeked", "claimed", "sent", "accepted", "done", "partial",
           "saved", "unsaved", "ended"}

\* Types of the state.
TypeOK ==
    /\ files \subseteq AllFiles
    /\ sequence \in Nat
    /\ wire \subseteq [order: Nat, items: SUBSET (1..MaxEvents)]
    /\ replies \subseteq [order: Nat, failed: SUBSET (1..MaxEvents)]
    /\ mode \in {"up", "recovering", "down"}
    /\ active \in Nat
    /\ {accepting, broken, stopping} \subseteq BOOLEAN
    /\ retained \in Int
    /\ cache \subseteq Nat
    /\ pc \in Phases
    /\ claim \in Nat
    /\ failed \subseteq 1..MaxEvents
    /\ rebuild \in AllFiles
    /\ events \in Nat
    /\ admitted \subseteq 1..MaxEvents
    /\ sent \in Seq(1..MaxEvents)
    /\ executed \in [1..MaxEvents -> Nat]
    /\ confirmed \subseteq 1..MaxEvents
    /\ {missed, failures, faults, crashes, stops} \subseteq Nat

\* No event is executed twice: neither a failed request nor a restart replays
\* what may have been executed (".inflight is a durable claim; restart never
\* automatically replays claimed batches", WriteJournal).
NeverReplayed == \A e \in 1..MaxEvents : executed[e] <= 1

\* An event that record() accepted is in a file of the directory until the server
\* has executed it: no crash, shutdown or error loses it; and a callback is told TRUE
\* only for an event the server has executed (append, seal, the handling of partial
\* results in sendLoop, the recovery in WriteJournal's init).
NothingLost ==
    /\ \A e \in admitted : executed[e] > 0 \/ \E f \in files : e \in Range(f.items)
    /\ \A e \in confirmed : executed[e] = 1

\* No event is transmitted for the first time behind a later one: the order of
\* record() survives returned files and restarts, as long as the journal meets no
\* I/O error (oldestPending, move).
SentInOrder ==
    faults = 0 =>
        \A j \in DOMAIN sent :
            \/ \E i \in 1..(j - 1) : sent[i] = sent[j]
            \/ \A i \in 1..(j - 1) : sent[i] < sent[j]

\* The accounted size is the size of the directory but for what incomplete writes have left
\* there since the start, at most one frame or result per I/O error: whatever is renamed,
\* rewritten, deleted or set aside, nothing else exceeds the admission limit or uses it up,
\* and a restart accounts for that as well (retainedBytes in append, writeRecovered,
\* saveResult, deleteDone and init).
RetainedExact ==
    TypeOK /\ (mode # "down" => retained + missed = Sizes(files) /\ missed <= faults)

\* Neither an event nor the account of the sizes is lost.
JournalExact == NothingLost /\ RetainedExact

\* Every accepted event is executed or ends in a file kept for inspection, unless
\* the journal met an I/O error (sendLoop, the recovery in
\* WriteJournal's init).
Settled(e) ==
    \A f \in files : e \in Range(f.items) => f.ext \notin {"open", "pending", "inflight"}
EventuallySettled == \A e \in 1..MaxEvents : e \in admitted ~> (Settled(e) \/ faults > 0)
=============================================================================
