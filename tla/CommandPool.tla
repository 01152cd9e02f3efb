---------------------------- MODULE CommandPool ----------------------------
(***************************************************************************)
(* The connection pool of the Kotlin client.                               *)
(*                                                                         *)
(* A request waits for a connection slot, hands it to a worker on an I/O   *)
(* thread and is suspended until the worker is done.  A timeout, the       *)
(* cancellation of the caller or close() can end the request at any        *)
(* moment, while the worker keeps the slot until it notices.  A failed     *)
(* request reports whether its command can have reached the server; the    *)
(* buffered writer repeats what is reported as NOT_SENT.                   *)
(***************************************************************************)
EXTENDS Naturals, Sequences, FiniteSets, Functions

CONSTANTS
    Requests,       \* requests, each made once
    Slots,          \* connection slots of the pool
    NoSlot,         \* the request holds no slot
    Limit,          \* requests that may wait for a slot
    MaxSockets      \* bound on sockets ever opened

ASSUME PoolAssumption ==
    /\ Limit \in Nat /\ MaxSockets \in Nat
    /\ NoSlot \notin Slots

VARIABLES
    closed,         \* the pool is closed
    available,      \* free slots
    queue,          \* requests suspended in receive()
    caller, worker, \* progress of a request and of its worker
    slot,           \* the slot of a request
    cancelled, sent, received,      \* flags of a request
    used,           \* the socket its worker writes to and reads from
    answer,         \* the request whose response it has read
    status,         \* what the caller was told
    shut,           \* slots closed for good
    socket, ready,  \* per slot: its socket (0 is none), handshake completed
    open,           \* open sockets
    sockets,        \* number of sockets opened
    inbox, replies, \* per socket: commands not yet executed, responses not yet read
    written         \* history: requests whose command reached the network

requestVars == <<slot, cancelled, sent, received, used, answer>>
slotVars == <<shut, socket, ready, open, sockets>>
server == <<inbox, replies>>
vars == <<closed, available, queue, caller, worker, requestVars, status, slotVars,
          server, written>>

-----------------------------------------------------------------------------
Init ==
    /\ closed = FALSE
    /\ available = Slots
    /\ queue = <<>>
    /\ caller = [r \in Requests |-> "new"]
    /\ worker = [r \in Requests |-> "none"]
    /\ slot = [r \in Requests |-> NoSlot]
    /\ cancelled = [r \in Requests |-> FALSE]
    /\ sent = [r \in Requests |-> FALSE]
    /\ received = [r \in Requests |-> FALSE]
    /\ used = [r \in Requests |-> 0]
    /\ answer = [r \in Requests |-> r]
    /\ status = [r \in Requests |-> "none"]
    /\ shut = {}
    /\ socket = [s \in Slots |-> 0]
    /\ ready = {}
    /\ open = {}
    /\ sockets = 0
    /\ inbox = [k \in 1..MaxSockets |-> <<>>]
    /\ replies = [k \in 1..MaxSockets |-> <<>>]
    /\ written = {}

\* RequestState.failure: the execution status of a failed write.
ExecutionStatus(r) ==
    CASE ~sent[r] -> "NOT_SENT"
      [] sent[r] /\ received[r] -> "RESPONSE_RECEIVED"
      [] OTHER -> "UNKNOWN"

\* Connection.invalidate
Invalidate(s) ==
    /\ open' = open \ {socket[s]}
    /\ socket' = [socket EXCEPT ![s] = 0]
    /\ ready' = ready \ {s}
    /\ UNCHANGED <<shut, sockets>>

\* Request r gives its slot up: it goes to the first waiting request or back to
\* the channel; a closed channel drops it.
GiveBack(r, phase) ==
    IF closed \/ queue = <<>>
    THEN /\ available' = IF closed THEN available ELSE available \cup {slot[r]}
         /\ caller' = [caller EXCEPT ![r] = phase]
         /\ slot' = [slot EXCEPT ![r] = NoSlot]
         /\ UNCHANGED queue
    ELSE /\ queue' = Tail(queue)
         /\ caller' = [caller EXCEPT ![r] = phase, ![Head(queue)] = "delivered"]
         /\ slot' = [slot EXCEPT ![r] = NoSlot, ![Head(queue)] = slot[r]]
         /\ UNCHANGED available

-----------------------------------------------------------------------------
(* The caller. *)

Waiting == {r \in Requests : caller[r] \in {"queued", "delivered"}}

\* Admission.acquire: a slot, a place in the queue, or a refusal.
Acquire(r) ==
    /\ caller[r] = "new"
    /\ \/ /\ ~closed /\ available # {}
          /\ \E s \in available :
                /\ available' = available \ {s}
                /\ slot' = [slot EXCEPT ![r] = s]
          /\ caller' = [caller EXCEPT ![r] = "waiting"]
          /\ worker' = [worker EXCEPT ![r] = "queued"]
          /\ UNCHANGED <<queue, status>>
       \/ /\ ~closed /\ available = {} /\ Cardinality(Waiting) < Limit
          /\ queue' = Append(queue, r)
          /\ caller' = [caller EXCEPT ![r] = "queued"]
          /\ UNCHANGED <<available, slot, worker, status>>
       \/ /\ closed \/ (available = {} /\ Cardinality(Waiting) >= Limit)
          /\ caller' = [caller EXCEPT ![r] = "ended"]
          /\ status' = [status EXCEPT ![r] = ExecutionStatus(r)]
          /\ UNCHANGED <<available, queue, slot, worker>>
    /\ UNCHANGED <<closed, cancelled, sent, received, used, answer, slotVars, server,
                   written>>

\* A request that received a slot goes on; blocking() dispatches its worker.
Resume(r) ==
    /\ caller[r] = "delivered"
    /\ caller' = [caller EXCEPT ![r] = "waiting"]
    /\ worker' = [worker EXCEPT ![r] = "queued"]
    /\ UNCHANGED <<closed, available, queue, requestVars, status, slotVars, server, written>>

\* The sequence without its element at i.
Without(seq, i) == [j \in 1..(Len(seq) - 1) |-> seq[IF j < i THEN j ELSE j + 1]]

\* It times out, is cancelled or the pool is closed while it waits for a slot; a
\* slot that was delivered but not taken is returned (onUndeliveredElement).
WaitFails(r) ==
    /\ status' = [status EXCEPT ![r] = ExecutionStatus(r)]
    /\ \/ /\ caller[r] = "queued"
          /\ \E i \in 1..Len(queue) : queue[i] = r /\ queue' = Without(queue, i)
          /\ caller' = [caller EXCEPT ![r] = "ended"]
          /\ UNCHANGED <<available, slot>>
       \/ caller[r] = "delivered" /\ GiveBack(r, "ended")
    /\ UNCHANGED <<closed, worker, cancelled, sent, received, used, answer, slotVars,
                   server, written>>

Started(r) == worker[r] \notin {"none", "queued", "refused", "finished"}

\* Defective variant: the socket is left open.
CancelOnly(r) ==
    /\ caller[r] = "waiting"
    /\ cancelled' = [cancelled EXCEPT ![r] = TRUE]
    /\ UNCHANGED slotVars
    /\ caller' = [caller EXCEPT ![r] = "cancelled"]
    /\ UNCHANGED <<closed, available, queue, worker, slot, sent, received, used, answer,
                   status, server, written>>

\* invokeOnCancellation, for a timeout, a cancelled caller or close(): the socket
\* of a worker that has started and not finished is closed.
CancelCaller(r) ==
    /\ caller[r] = "waiting"
    /\ cancelled' = [cancelled EXCEPT ![r] = TRUE]
    /\ IF Started(r) THEN Invalidate(slot[r]) ELSE UNCHANGED slotVars
    /\ caller' = [caller EXCEPT ![r] = "cancelled"]
    /\ UNCHANGED <<closed, available, queue, worker, slot, sent, received, used, answer,
                   status, server, written>>

\* The caller reports the failure, or the result of its worker; the deadline can
\* still expire between the result and its delivery.
Report(r) ==
    /\ \/ caller[r] \in {"cancelled", "resumed"} /\ status' = [status EXCEPT ![r] = ExecutionStatus(r)]
       \/ caller[r] = "resumed" /\ received[r] /\ status' = [status EXCEPT ![r] = "OK"]
    /\ caller' = [caller EXCEPT ![r] = "ended"]
    /\ UNCHANGED <<closed, available, queue, worker, requestVars, slotVars, server, written>>

-----------------------------------------------------------------------------
(* The worker. *)

\* An exception; after the first write it invalidates the connection.
\* Defective variant: the connection is kept.
FailKeepsSocket(r) == worker' = [worker EXCEPT ![r] = "failed"] /\ UNCHANGED slotVars
Fail(r) ==
    /\ worker' = [worker EXCEPT ![r] = "failed"]
    /\ IF sent[r] THEN Invalidate(slot[r]) ELSE UNCHANGED slotVars

\* Defective variant: the task of a cancelled request just returns.
StartOrReturn(r) ==
    /\ worker[r] = "queued"
    /\ worker' = [worker EXCEPT ![r] = IF cancelled[r] THEN "none" ELSE "started"]
    /\ UNCHANGED <<closed, available, queue, caller, requestVars, status, slotVars,
                   server, written>>

\* The task runs, unless the request was cancelled or its deadline has passed.
Start(r) ==
    /\ worker[r] = "queued"
    /\ \/ ~cancelled[r] /\ worker' = [worker EXCEPT ![r] = "started"]
       \/ worker' = [worker EXCEPT ![r] = "refused"]
    /\ UNCHANGED <<closed, available, queue, caller, requestVars, status, slotVars,
                   server, written>>

\* dial: the socket of the slot, if its handshake is complete, or a new one.
Refused(r) == slot[r] \in shut \/ closed \/ cancelled[r]
Dial(r) ==
    /\ worker[r] = "started"
    /\ IF Refused(r)
       THEN Fail(r) /\ UNCHANGED used
       ELSE IF slot[r] \in ready
       THEN /\ used' = [used EXCEPT ![r] = socket[slot[r]]]
            /\ worker' = [worker EXCEPT ![r] = "dialled"]
            /\ UNCHANGED slotVars
       ELSE /\ sockets < MaxSockets
            /\ sockets' = sockets + 1
            /\ open' = open \cup {sockets'}
            /\ socket' = [socket EXCEPT ![slot[r]] = sockets']
            /\ used' = [used EXCEPT ![r] = sockets']
            /\ worker' = [worker EXCEPT ![r] = "dialling"]
            /\ UNCHANGED <<shut, ready>>
    /\ UNCHANGED <<closed, available, queue, caller, slot, cancelled, sent, received,
                   answer, status, server, written>>

\* The handshake fails, or succeeds on a socket that may have been closed since.
Handshake(r) ==
    /\ worker[r] = "dialling"
    /\ \/ /\ used[r] \in open /\ socket[slot[r]] = used[r]
          /\ slot[r] \notin shut /\ ~cancelled[r]
          /\ ready' = ready \cup {slot[r]}
          /\ worker' = [worker EXCEPT ![r] = "dialled"]
          /\ UNCHANGED <<shut, socket, open, sockets>>
       \/ /\ worker' = [worker EXCEPT ![r] = "failed"]
          /\ Invalidate(slot[r])
    /\ UNCHANGED <<closed, available, queue, caller, requestVars, status, server, written>>

\* The last look at cancelled and at the deadline before the first write.
Check(r) ==
    /\ worker[r] = "dialled"
    /\ \/ ~cancelled[r] /\ worker' = [worker EXCEPT ![r] = "checked"] /\ UNCHANGED slotVars
       \/ Fail(r)
    /\ UNCHANGED <<closed, available, queue, caller, requestVars, status, server, written>>

\* state.sent.set(true)
MarkSent(r) ==
    /\ worker[r] = "checked"
    /\ sent' = [sent EXCEPT ![r] = TRUE]
    /\ worker' = [worker EXCEPT ![r] = "writing"]
    /\ UNCHANGED <<closed, available, queue, caller, slot, cancelled, received, used,
                   answer, status, slotVars, server, written>>

\* The command is written; on a closed socket nothing leaves, on an open one an
\* error does not say what left.
Write(r) ==
    /\ worker[r] = "writing"
    /\ \/ /\ used[r] \in open
          /\ written' = written \cup {r}
          /\ inbox' = [inbox EXCEPT ![used[r]] = Append(@, r)]
          /\ \/ worker' = [worker EXCEPT ![r] = "reading"] /\ UNCHANGED slotVars
             \/ Fail(r)
       \/ Fail(r) /\ UNCHANGED <<written, inbox>>
    /\ UNCHANGED <<closed, available, queue, caller, requestVars, status, replies>>

\* The next response of the socket is a result, or an error message, which leaves
\* the connection usable; or there is none, the deadline has passed or it makes no
\* sense.
Read(r) ==
    /\ worker[r] = "reading"
    /\ \/ /\ used[r] \in open /\ replies[used[r]] # <<>>
          /\ answer' = [answer EXCEPT ![r] = Head(replies[used[r]])]
          /\ replies' = [replies EXCEPT ![used[r]] = Tail(@)]
          /\ \/ /\ received' = [received EXCEPT ![r] = TRUE]
                /\ worker' = [worker EXCEPT ![r] = "succeeded"]
                /\ UNCHANGED slotVars
             \/ /\ worker' = [worker EXCEPT ![r] = "rejected"]
                /\ UNCHANGED <<received, slotVars>>
             \/ /\ Fail(r)
                /\ \E decoded \in BOOLEAN : received' = [received EXCEPT ![r] = decoded]
       \/ Fail(r) /\ UNCHANGED <<answer, received, replies>>
    /\ UNCHANGED <<closed, available, queue, caller, slot, cancelled, sent, used, status,
                   inbox, written>>

\* The worker is done: the slot is returned and the caller resumed.
Finish(r) ==
    /\ worker[r] \in {"refused", "succeeded", "rejected", "failed"}
    /\ worker' = [worker EXCEPT ![r] = "finished"]
    /\ GiveBack(r, IF caller[r] = "waiting" THEN "resumed" ELSE caller[r])
    /\ UNCHANGED <<closed, cancelled, sent, received, used, answer, status, slotVars,
                   server, written>>

-----------------------------------------------------------------------------
\* close(): the flag, which cancels the lifetime job and the channels ...
Close ==
    /\ ~closed
    /\ closed' = TRUE
    /\ available' = {}
    /\ UNCHANGED <<queue, caller, worker, requestVars, status, slotVars, server, written>>

\* ... and then one connection after the other.
CloseSlot(s) ==
    /\ closed /\ s \notin shut
    /\ shut' = shut \cup {s}
    /\ open' = open \ {socket[s]}
    /\ socket' = [socket EXCEPT ![s] = 0]
    /\ ready' = ready \ {s}
    /\ UNCHANGED <<closed, available, queue, caller, worker, requestVars, status, sockets,
                   server, written>>

\* The server (external) executes the commands of a socket in their order.
Serve(k) ==
    /\ inbox[k] # <<>>
    /\ replies' = [replies EXCEPT ![k] = Append(@, Head(inbox[k]))]
    /\ inbox' = [inbox EXCEPT ![k] = Tail(@)]
    /\ UNCHANGED <<closed, available, queue, caller, worker, requestVars, status, slotVars,
                   written>>

WorkerStep(r) ==
    Start(r) \/ Dial(r) \/ Handshake(r) \/ Check(r) \/ MarkSent(r) \/ Write(r) \/ Read(r)
    \/ Finish(r)
CallerStep(r) == Acquire(r) \/ Resume(r) \/ WaitFails(r) \/ CancelCaller(r) \/ Report(r)
Next ==
    \/ \E r \in Requests : CallerStep(r) \/ WorkerStep(r)
    \/ Close
    \/ \E s \in Slots : CloseSlot(s)
    \/ \E k \in 1..MaxSockets : Serve(k)
Spec == Init /\ [][Next]_vars

-----------------------------------------------------------------------------
(* Correctness. *)

WorkerPhases ==
    {"none", "queued", "refused", "started", "dialling", "dialled", "checked", "writing",
     "reading", "succeeded", "rejected", "failed", "finished"}

\* Types of the state.
TypeOK ==
    /\ closed \in BOOLEAN
    /\ available \subseteq Slots
    /\ queue \in Seq(Requests)
    /\ caller \in [Requests -> {"new", "queued", "delivered", "waiting", "cancelled",
                                "resumed", "ended"}]
    /\ worker \in [Requests -> WorkerPhases]
    /\ slot \in [Requests -> Slots \cup {NoSlot}]
    /\ cancelled \in [Requests -> BOOLEAN]
    /\ sent \in [Requests -> BOOLEAN]
    /\ received \in [Requests -> BOOLEAN]
    /\ used \in [Requests -> 0..MaxSockets]
    /\ answer \in [Requests -> Requests]
    /\ status \in [Requests -> {"none", "OK", "NOT_SENT", "UNKNOWN", "RESPONSE_RECEIVED"}]
    /\ shut \subseteq Slots
    /\ socket \in [Slots -> 0..MaxSockets]
    /\ ready \subseteq Slots
    /\ open \subseteq 1..MaxSockets
    /\ sockets \in 0..MaxSockets
    /\ inbox \in [1..MaxSockets -> Seq(Requests)]
    /\ replies \in [1..MaxSockets -> Seq(Requests)]
    /\ written \subseteq Requests

\* A request reported as NOT_SENT has not reached the network and never will,
\* although its worker may still be running ("NOT_SENT before the first command
\* write attempt", README.md of the client; failure, blocking and command).
NotSentIsTrue == \A r \in Requests : status[r] = "NOT_SENT" => r \notin written

\* A request reads its own response, however the earlier requests of its
\* connection ended (invalidate in command).
OwnResponse == \A r \in Requests : answer[r] = r

\* A slot is free, delivered to one request or used by one worker, and none is
\* lost while the pool is open.  The only socket open for a slot is its current one,
\* and none is open once the slot has been closed (channel, blocking, dial,
\* invalidate, close).
Holders(s) == {r \in Requests : slot[r] = s}
SlotsConserved ==
    /\ TypeOK
    /\ \A s \in Slots :
        /\ Cardinality(Holders(s)) <= 1
        /\ s \in available => Holders(s) = {}
        /\ ~closed => s \in available \/ Holders(s) # {}
    /\ open \subseteq Range(socket)
    /\ \A s \in shut : socket[s] = 0

\* Connections and responses stay matched: no slot is lost or used twice, and nobody
\* reads the response of another request (Admission, Connection.command).
ConnectionsExact == SlotsConserved /\ OwnResponse

\* No request is left hanging: when neither a caller nor a worker can go on by
\* itself, every request that has begun has ended and has given its slot back.
\* Timers fire and socket operations have deadlines, so nothing here waits for
\* the server; and a request never goes back to an earlier phase (timeouts and
\* cancellation in blocking, deadlines in dial and command).
Progress ==
    \E r \in Requests :
        WorkerStep(r) \/ Resume(r) \/ WaitFails(r) \/ CancelCaller(r) \/ Report(r)
NeverStuck ==
    ~ENABLED Progress =>
        \A r \in Requests : caller[r] # "new" => caller[r] = "ended" /\ slot[r] = NoSlot
=============================================================================
