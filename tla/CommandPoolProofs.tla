------------------------- MODULE CommandPoolProofs --------------------------
(***************************************************************************)
(* For every set of requests and slots and for every bound, wherever a     *)
(* timeout, a cancellation or close() meets a request: a request reported  *)
(* as NOT_SENT never reaches the network, no slot is lost or used twice,   *)
(* and nobody reads the response of another request.                       *)
(***************************************************************************)
EXTENDS CommandPool, TLAPS

In(x, seq) == \E i \in 1..Len(seq) : seq[i] = x
Distinct(seq) == \A i, j \in 1..Len(seq) : seq[i] = seq[j] => i = j

\* A request is queued once while it waits for a slot.
QueueInv == Distinct(queue) /\ \A r \in Requests : In(r, queue) <=> caller[r] = "queued"

\* A request has a slot from its delivery until its worker is done, and only a
\* cancelled request ends before its worker.
CallerInv(r) ==
    /\ slot[r] # NoSlot <=> caller[r] = "delivered" \/ worker[r] \notin {"none", "finished"}
    /\ caller[r] \in {"new", "queued", "delivered"} => worker[r] = "none" /\ ~cancelled[r]
    /\ caller[r] = "waiting" => worker[r] \notin {"none", "finished"} /\ ~cancelled[r]
    /\ caller[r] = "resumed" => worker[r] = "finished"
    /\ caller[r] = "cancelled" => cancelled[r] /\ worker[r] # "none"
    /\ caller[r] = "ended" => worker[r] \in {"none", "finished"} \/ cancelled[r]
    /\ status[r] # "none" => caller[r] = "ended"

SlotInv ==
    /\ \A r, q \in Requests : r # q /\ slot[r] # NoSlot => slot[r] # slot[q]
    /\ \A r \in Requests : slot[r] \notin available
    /\ ~closed => \A s \in Slots : s \in available \/ \E r \in Requests : slot[r] = s
    /\ closed => available = {}

\* Sockets are numbered as they are opened, and an open one belongs to one slot.
SocketInv ==
    /\ \A k \in open : \E s \in Slots : socket[s] = k
    /\ \A s, t \in Slots : s # t /\ socket[s] # 0 => socket[s] # socket[t]
    /\ \A s \in Slots : socket[s] <= sockets
    /\ \A s \in shut : socket[s] = 0
    /\ \A s \in Slots : socket[s] # 0 =>
          s \in ready \/ \E r \in Requests : slot[r] = s /\ worker[r] = "dialling"

\* A worker's socket is its slot's as long as it is open, and cancelling closes it.
UsedInv(r) ==
    /\ used[r] <= sockets
    /\ worker[r] \in {"dialling", "dialled", "checked", "writing", "reading"} /\ used[r] \in open =>
          socket[slot[r]] = used[r] /\ ~cancelled[r]
    /\ worker[r] \in {"writing", "reading"} => sent[r]

\* An open socket carries the command or the response of its reader and nothing else.
Reads(r, k) == worker[r] = "reading" /\ used[r] = k
PipeInv(k) ==
    /\ k > sockets => inbox[k] = <<>> /\ replies[k] = <<>>
    /\ k \in open =>
          /\ \A r \in Requests : Reads(r, k) =>
                \/ inbox[k] = <<r>> /\ replies[k] = <<>>
                \/ inbox[k] = <<>> /\ replies[k] = <<r>>
          /\ (\A r \in Requests : ~Reads(r, k)) => inbox[k] = <<>> /\ replies[k] = <<>>

SentInv(r) ==
    /\ r \in written => sent[r]
    /\ status[r] = "NOT_SENT" => r \notin written
    /\ answer[r] = r

IInv ==
    /\ TypeOK /\ QueueInv /\ SlotInv /\ SocketInv
    /\ \A r \in Requests : CallerInv(r) /\ UsedInv(r) /\ SentInv(r)
    /\ \A k \in 1..MaxSockets : PipeInv(k)

-----------------------------------------------------------------------------
(* The queue. *)

LEMMA AppendQueue ==
    ASSUME NEW S, NEW seq \in Seq(S), NEW x \in S, Distinct(seq), ~In(x, seq)
    PROVE  /\ Append(seq, x) \in Seq(S) /\ Distinct(Append(seq, x))
           /\ \A y : In(y, Append(seq, x)) <=> In(y, seq) \/ y = x
<1> DEFINE new == Append(seq, x)
<1>1. /\ new \in Seq(S) /\ Len(seq) \in Nat /\ Len(new) = Len(seq) + 1
      /\ \A i \in 1..Len(seq) : new[i] = seq[i]
      /\ new[Len(seq) + 1] = x
  OBVIOUS
<1>2. \A i \in 1..Len(new) : i \in 1..Len(seq) \/ i = Len(seq) + 1
  BY <1>1
<1>3. \A i \in 1..Len(seq) : i \in 1..Len(new)
  BY <1>1
<1>4. Len(seq) + 1 \in 1..Len(new)
  BY <1>1
<1> HIDE DEF new
<1>5. Distinct(new)
  BY <1>1, <1>2 DEF Distinct, In
<1>6. \A y : In(y, new) <=> In(y, seq) \/ y = x
  BY <1>1, <1>2, <1>3, <1>4, Zenon DEF In
<1> QED
  BY <1>1, <1>5, <1>6 DEF new

LEMMA TailQueue ==
    ASSUME NEW S, NEW seq \in Seq(S), seq # <<>>, Distinct(seq)
    PROVE  /\ Tail(seq) \in Seq(S) /\ Distinct(Tail(seq))
           /\ Head(seq) \in S /\ In(Head(seq), seq)
           /\ \A y : In(y, Tail(seq)) <=> In(y, seq) /\ y # Head(seq)
<1> DEFINE new == Tail(seq)
<1>1. /\ new \in Seq(S) /\ Len(seq) \in Nat \ {0} /\ Len(new) = Len(seq) - 1
      /\ \A i \in 1..Len(new) : new[i] = seq[i + 1]
      /\ Head(seq) = seq[1] /\ seq[1] \in S
  OBVIOUS
<1>2. \A i \in 1..Len(new) : i + 1 \in 1..Len(seq) /\ i + 1 # 1
  BY <1>1
<1>3. \A i \in 1..Len(seq) : i = 1 \/ \E j \in 1..Len(new) : i = j + 1
  <2> SUFFICES ASSUME NEW i \in 1..Len(seq), i # 1 PROVE \E j \in 1..Len(new) : i = j + 1
    OBVIOUS
  <2>1. i - 1 \in 1..Len(new) /\ i = (i - 1) + 1
    BY <1>1
  <2> QED
    BY <2>1
<1>4. 1 \in 1..Len(seq)
  BY <1>1
<1> HIDE DEF new
<1>5. Distinct(new)
  <2> SUFFICES ASSUME NEW i \in 1..Len(new), NEW j \in 1..Len(new), new[i] = new[j] PROVE i = j
    BY DEF Distinct
  <2>1. i + 1 = j + 1
    BY <1>1, <1>2 DEF Distinct
  <2> QED
    BY <2>1
<1>6. \A y : In(y, new) <=> In(y, seq) /\ y # Head(seq)
  <2>1. ASSUME NEW i \in 1..Len(new) PROVE In(new[i], seq) /\ new[i] # Head(seq)
    BY <1>1, <1>2, <1>4, Zenon DEF In, Distinct
  <2>2. ASSUME NEW y, In(y, seq), y # Head(seq) PROVE In(y, new)
    <3>1. PICK i \in 1..Len(seq) : seq[i] = y
      BY <2>2 DEF In
    <3>2. i # 1
      BY <1>1, <2>2, <3>1
    <3>3. PICK j \in 1..Len(new) : i = j + 1
      BY <1>3, <3>2
    <3> QED
      BY <1>1, <3>1, <3>3 DEF In
  <2> QED
    BY <2>1, <2>2, Zenon DEF In
<1> QED
  BY <1>1, <1>4, <1>5, <1>6 DEF new, In

LEMMA WithoutQueue ==
    ASSUME NEW S, NEW seq \in Seq(S), Distinct(seq), NEW k \in 1..Len(seq)
    PROVE  /\ Without(seq, k) \in Seq(S) /\ Distinct(Without(seq, k))
           /\ \A y : In(y, Without(seq, k)) <=> In(y, seq) /\ y # seq[k]
<1> DEFINE new == Without(seq, k)
           at(i) == IF i < k THEN i ELSE i + 1
<1>1. Len(seq) \in Nat /\ k \in Nat /\ 1 <= k /\ k <= Len(seq)
  OBVIOUS
<1>2. \A i \in 1..(Len(seq) - 1) : at(i) \in 1..Len(seq) /\ at(i) # k
  BY <1>1
<1>3. \A i, j \in 1..(Len(seq) - 1) : at(i) = at(j) => i = j
  BY <1>1
<1>4. \A i \in 1..Len(seq) : i = k \/ \E j \in 1..(Len(seq) - 1) : i = at(j)
  <2> SUFFICES ASSUME NEW i \in 1..Len(seq), i # k PROVE \E j \in 1..(Len(seq) - 1) : i = at(j)
    OBVIOUS
  <2>1. CASE i < k
    BY <1>1, <2>1
  <2>2. CASE i > k
    <3>1. i - 1 \in 1..(Len(seq) - 1) /\ i = at(i - 1)
      BY <1>1, <2>2
    <3> QED
      BY <3>1
  <2> QED
    BY <1>1, <2>1, <2>2
<1> HIDE DEF at
<1>5. new = [i \in 1..(Len(seq) - 1) |-> seq[at(i)]]
  BY DEF Without, at
<1>6. Len(seq) - 1 \in Nat
  BY <1>1
<1>7. new \in Seq(S) /\ Len(new) = Len(seq) - 1
  <2>1. \A i \in 1..Len(seq) : seq[i] \in S
    OBVIOUS
  <2>2. new \in [1..(Len(seq) - 1) -> S]
    BY <1>2, <1>5, <2>1
  <2> QED
    BY <1>5, <1>6, <2>2, SMTT(30)
<1>8. \A i \in 1..Len(new) : new[i] = seq[at(i)]
  BY <1>5, <1>7
<1> HIDE DEF new
<1>9. Distinct(new)
  <2> SUFFICES ASSUME NEW i \in 1..Len(new), NEW j \in 1..Len(new), new[i] = new[j] PROVE i = j
    BY Zenon DEF Distinct
  <2>1. at(i) \in 1..Len(seq) /\ at(j) \in 1..Len(seq) /\ seq[at(i)] = seq[at(j)]
    BY <1>2, <1>7, <1>8, Zenon
  <2>2. at(i) = at(j)
    BY <2>1, Zenon DEF Distinct
  <2> QED
    BY <1>3, <1>7, <2>2, Zenon
<1>10. \A y : In(y, new) <=> In(y, seq) /\ y # seq[k]
  <2>1. ASSUME NEW i \in 1..Len(new) PROVE In(new[i], seq) /\ new[i] # seq[k]
    BY <1>2, <1>7, <1>8, Zenon DEF In, Distinct
  <2>2. ASSUME NEW y, In(y, seq), y # seq[k] PROVE In(y, new)
    <3>1. PICK i \in 1..Len(seq) : seq[i] = y
      BY <2>2, Zenon DEF In
    <3>2. PICK j \in 1..Len(new) : i = at(j)
      BY <1>4, <1>7, <2>2, <3>1, Zenon
    <3> QED
      BY <1>8, <3>1, <3>2, Zenon DEF In
  <2> QED
    BY <2>1, <2>2, Zenon DEF In
<1> QED
  BY <1>7, <1>9, <1>10, Zenon DEF new

-----------------------------------------------------------------------------
(* Types. *)

\* A slot goes back to the channel, or is dropped by a closed one ...
Returns(r, phase) ==
    /\ available' = IF closed THEN available ELSE available \cup {slot[r]}
    /\ caller' = [caller EXCEPT ![r] = phase]
    /\ slot' = [slot EXCEPT ![r] = NoSlot]
    /\ UNCHANGED queue

\* ... or to the first request in the queue.
Passes(r, phase, h) ==
    /\ h # r /\ caller[h] = "queued"
    /\ queue' \in Seq(Requests) /\ Distinct(queue')
    /\ \A y : In(y, queue') <=> In(y, queue) /\ y # h
    /\ caller' = [caller EXCEPT ![r] = phase, ![h] = "delivered"]
    /\ slot' = [slot EXCEPT ![r] = NoSlot, ![h] = slot[r]]
    /\ UNCHANGED available

LEMMA GiveBackEffect ==
    ASSUME TypeOK, QueueInv, NEW r \in Requests, caller[r] # "queued", NEW phase, GiveBack(r, phase)
    PROVE  Returns(r, phase) \/ \E h \in Requests : ~closed /\ Passes(r, phase, h)
<1>1. CASE closed \/ queue = <<>>
  BY <1>1, Zenon DEF GiveBack, Returns
<1>2. CASE ~(closed \/ queue = <<>>)
  <2>1. queue \in Seq(Requests) /\ Distinct(queue) /\ queue # <<>>
    BY <1>2, Zenon DEF TypeOK, QueueInv
  <2>2. /\ Tail(queue) \in Seq(Requests) /\ Distinct(Tail(queue))
        /\ Head(queue) \in Requests /\ In(Head(queue), queue)
        /\ \A y : In(y, Tail(queue)) <=> In(y, queue) /\ y # Head(queue)
    BY <2>1, TailQueue, Zenon
  <2>3. caller[Head(queue)] = "queued" /\ Head(queue) # r
    BY <2>2, Zenon DEF QueueInv
  <2>4. Passes(r, phase, Head(queue))
    BY <1>2, <2>2, <2>3, Zenon DEF GiveBack, Passes
  <2> QED
    BY <1>2, <2>2, <2>4, Zenon
<1> QED
  BY <1>1, <1>2, Zenon

Callers == {"new", "queued", "delivered", "waiting", "cancelled", "resumed", "ended"}

LEMMA GiveBackType ==
    ASSUME TypeOK, QueueInv, NEW r \in Requests, caller[r] # "queued", slot[r] \in Slots,
           NEW phase \in Callers, GiveBack(r, phase)
    PROVE  /\ available' \subseteq Slots /\ queue' \in Seq(Requests)
           /\ caller' \in [Requests -> Callers]
           /\ slot' \in [Requests -> Slots \cup {NoSlot}]
<1>1. /\ available \subseteq Slots /\ queue \in Seq(Requests) /\ caller \in [Requests -> Callers]
      /\ slot \in [Requests -> Slots \cup {NoSlot}]
  BY Zenon DEF TypeOK, Callers
<1>2. CASE Returns(r, phase)
  BY <1>1, <1>2 DEF Returns
<1>3. ASSUME NEW h \in Requests, Passes(r, phase, h)
      PROVE  /\ available' \subseteq Slots /\ queue' \in Seq(Requests)
             /\ caller' \in [Requests -> Callers]
             /\ slot' \in [Requests -> Slots \cup {NoSlot}]
  BY <1>1, <1>3, SMTT(30) DEF Passes, Callers
<1> QED
  BY <1>2, <1>3, GiveBackEffect, Zenon

\* The state of connections and of the server.
SlotsType ==
    /\ shut \subseteq Slots /\ socket \in [Slots -> 0..MaxSockets] /\ ready \subseteq Slots
    /\ open \subseteq 1..MaxSockets /\ sockets \in 0..MaxSockets

LEMMA SlotVarsType ==
    ASSUME TypeOK, NEW s, Invalidate(s) \/ UNCHANGED slotVars
    PROVE  SlotsType'
<1>1. SlotsType
  BY Zenon DEF TypeOK, SlotsType
<1>2. CASE Invalidate(s)
  <2>1. 0 \in 0..MaxSockets
    BY PoolAssumption
  <2> QED
    BY <1>1, <1>2, <2>1, Zenon DEF Invalidate, SlotsType
<1>3. CASE UNCHANGED slotVars
  BY <1>1, <1>3, Zenon DEF slotVars, SlotsType
<1> QED
  BY <1>2, <1>3

LEMMA CallerType ==
    ASSUME IInv, NEW r \in Requests, CallerStep(r)
    PROVE  TypeOK'
<1> USE DEF Callers
<1>1. TypeOK /\ QueueInv /\ CallerInv(r)
  BY Zenon DEF IInv
<1>2. ExecutionStatus(r) \in {"none", "OK", "NOT_SENT", "UNKNOWN", "RESPONSE_RECEIVED"}
  BY Zenon DEF ExecutionStatus
<1>3. CASE Acquire(r)
  <2> DEFINE Rest == UNCHANGED <<closed, cancelled, sent, received, used, answer, slotVars,
                                 server, written>>
             Goal == /\ available' \subseteq Slots /\ slot' \in [Requests -> Slots \cup {NoSlot}]
                     /\ caller' \in [Requests -> Callers] /\ worker' \in [Requests -> WorkerPhases]
                     /\ queue' \in Seq(Requests)
                     /\ status' \in [Requests -> {"none", "OK", "NOT_SENT", "UNKNOWN",
                                                  "RESPONSE_RECEIVED"}]
  <2>0. /\ available \subseteq Slots /\ slot \in [Requests -> Slots \cup {NoSlot}]
        /\ caller \in [Requests -> Callers] /\ worker \in [Requests -> WorkerPhases]
        /\ queue \in Seq(Requests)
        /\ status \in [Requests -> {"none", "OK", "NOT_SENT", "UNKNOWN", "RESPONSE_RECEIVED"}]
        /\ "queued" \in WorkerPhases
    BY <1>1, Zenon DEF TypeOK, WorkerPhases
  <2>1. Rest
    BY <1>3, Zenon DEF Acquire
  <2>2. ASSUME NEW s \in available,
               available' = available \ {s}, slot' = [slot EXCEPT ![r] = s],
               caller' = [caller EXCEPT ![r] = "waiting"],
               worker' = [worker EXCEPT ![r] = "queued"], UNCHANGED <<queue, status>>
        PROVE  Goal
    BY <2>0, <2>2
  <2>3. ASSUME queue' = Append(queue, r), caller' = [caller EXCEPT ![r] = "queued"],
               UNCHANGED <<available, slot, worker, status>>
        PROVE  Goal
    BY <2>0, <2>3
  <2>4. ASSUME caller' = [caller EXCEPT ![r] = "ended"],
               status' = [status EXCEPT ![r] = ExecutionStatus(r)],
               UNCHANGED <<available, queue, slot, worker>>
        PROVE  Goal
    BY <1>2, <2>0, <2>4
  <2>5. Goal
    <3> HIDE DEF Goal
    <3> QED
      BY <1>3, <2>2, <2>3, <2>4, Zenon DEF Acquire
  <2> QED
    BY <1>1, <2>1, <2>5, Zenon DEF TypeOK, slotVars, server
<1>4. CASE Resume(r)
  BY <1>1, <1>4 DEF Resume, TypeOK, WorkerPhases, requestVars, slotVars, server
<1>5. CASE WaitFails(r)
  <2>1. status' \in [Requests -> {"none", "OK", "NOT_SENT", "UNKNOWN", "RESPONSE_RECEIVED"}]
    BY <1>1, <1>2, <1>5, Zenon DEF WaitFails, TypeOK
  <2>2. CASE caller[r] = "queued"
    <3>1. PICK i \in 1..Len(queue) : queue' = Without(queue, i)
      BY <1>5, <2>2, Zenon DEF WaitFails
    <3>2. queue' \in Seq(Requests)
      BY <1>1, <3>1, WithoutQueue, Zenon DEF TypeOK, QueueInv
    <3>3. caller' \in [Requests -> Callers] /\ UNCHANGED <<available, slot>>
      BY <1>1, <1>5, <2>2, Zenon DEF WaitFails, TypeOK
    <3> QED
      BY <1>1, <1>5, <2>1, <3>2, <3>3, Zenon DEF WaitFails, TypeOK, slotVars, server
  <2>3. CASE caller[r] = "delivered"
    <3>1. GiveBack(r, "ended") /\ slot[r] \in Slots /\ caller[r] # "queued"
      BY <1>1, <1>5, <2>3, Zenon DEF WaitFails, CallerInv, TypeOK
    <3>2. /\ available' \subseteq Slots /\ queue' \in Seq(Requests)
          /\ caller' \in [Requests -> Callers]
          /\ slot' \in [Requests -> Slots \cup {NoSlot}]
      BY <1>1, <3>1, GiveBackType, Zenon
    <3> QED
      BY <1>1, <1>5, <2>1, <3>2, Zenon DEF WaitFails, TypeOK, slotVars, server
  <2> QED
    BY <1>5, <2>2, <2>3, Zenon DEF WaitFails
<1>6. CASE CancelCaller(r)
  <2>1. SlotsType'
    BY <1>1, <1>6, SlotVarsType, Zenon DEF CancelCaller
  <2> QED
    BY <1>1, <1>6, <2>1, Zenon DEF CancelCaller, TypeOK, SlotsType, server
<1>7. CASE Report(r)
  BY <1>1, <1>2, <1>7, ZenonT(30) DEF Report, TypeOK, requestVars, slotVars, server
<1> QED
  BY <1>3, <1>4, <1>5, <1>6, <1>7, Zenon DEF CallerStep

LEMMA WorkerType ==
    ASSUME IInv, NEW r \in Requests, WorkerStep(r)
    PROVE  TypeOK'
<1>1. TypeOK /\ QueueInv /\ CallerInv(r)
  BY Zenon DEF IInv
<1> DEFINE To(phase) == worker' = [worker EXCEPT ![r] = phase]
<1>2. worker \in [Requests -> WorkerPhases]
  BY <1>1, Zenon DEF TypeOK
<1>3. \A phase \in WorkerPhases : To(phase) => worker' \in [Requests -> WorkerPhases]
  BY <1>2, Zenon
<1>4. Fail(r) => worker' \in [Requests -> WorkerPhases] /\ SlotsType'
  <2>1. "failed" \in WorkerPhases
    BY Zenon DEF WorkerPhases
  <2> QED
    BY <1>1, <1>3, <2>1, SlotVarsType, Zenon DEF Fail
<1>5. UNCHANGED slotVars => SlotsType'
  BY <1>1, SlotVarsType, Zenon
<1>6. CASE Start(r)
  <2>1. "started" \in WorkerPhases /\ "refused" \in WorkerPhases
    BY Zenon DEF WorkerPhases
  <2> QED
    BY <1>1, <1>3, <1>6, <2>1, Zenon DEF Start, TypeOK, requestVars, slotVars, server
<1>7. CASE Dial(r)
  <2>1. "dialled" \in WorkerPhases /\ "dialling" \in WorkerPhases
    BY Zenon DEF WorkerPhases
  <2>2. slot[r] \in Slots
    BY <1>1, <1>7, Zenon DEF Dial, CallerInv, TypeOK
  <2>3. worker' \in [Requests -> WorkerPhases]
    BY <1>3, <1>4, <1>7, <2>1, Zenon DEF Dial
  <2>4. SlotsType' /\ used' \in [Requests -> 0..MaxSockets]
    <3>1. used \in [Requests -> 0..MaxSockets] /\ SlotsType
      BY <1>1, Zenon DEF TypeOK, SlotsType
    <3>2. CASE Fail(r) /\ UNCHANGED used
      BY <1>4, <3>1, <3>2, Zenon
    <3>3. CASE used' = [used EXCEPT ![r] = socket[slot[r]]] /\ UNCHANGED slotVars
      BY <1>5, <2>2, <3>1, <3>3, Zenon DEF SlotsType
    <3>4. CASE /\ sockets < MaxSockets
               /\ sockets' = sockets + 1
               /\ open' = open \cup {sockets'}
               /\ socket' = [socket EXCEPT ![slot[r]] = sockets']
               /\ used' = [used EXCEPT ![r] = sockets']
               /\ UNCHANGED <<shut, ready>>
      <4>1. sockets' \in 0..MaxSockets /\ sockets' \in 1..MaxSockets
        BY <3>1, <3>4, PoolAssumption DEF SlotsType
      <4> QED
        BY <3>1, <3>4, <4>1, Zenon DEF SlotsType
    <3> QED
      BY <1>7, <3>2, <3>3, <3>4, Zenon DEF Dial
  <2> QED
    BY <1>1, <1>7, <2>3, <2>4, Zenon DEF Dial, TypeOK, SlotsType, server
<1>8. CASE Handshake(r)
  <2>1. "dialled" \in WorkerPhases /\ "failed" \in WorkerPhases
    BY Zenon DEF WorkerPhases
  <2>2. slot[r] \in Slots
    BY <1>1, <1>8, Zenon DEF Handshake, CallerInv, TypeOK
  <2>3. SlotsType'
    BY <1>1, <1>8, <2>2, SlotVarsType, Zenon DEF Handshake, TypeOK, SlotsType
  <2> QED
    BY <1>1, <1>3, <1>8, <2>1, <2>3, Zenon DEF Handshake, TypeOK, SlotsType, requestVars, server
<1>9. CASE Check(r)
  <2>1. "checked" \in WorkerPhases
    BY Zenon DEF WorkerPhases
  <2>2. worker' \in [Requests -> WorkerPhases] /\ SlotsType'
    BY <1>3, <1>4, <1>5, <1>9, <2>1, Zenon DEF Check
  <2> QED
    BY <1>1, <1>9, <2>2, Zenon DEF Check, TypeOK, SlotsType, requestVars, server
<1>10. CASE MarkSent(r)
  <2>1. "writing" \in WorkerPhases
    BY Zenon DEF WorkerPhases
  <2> QED
    BY <1>1, <1>3, <1>10, <2>1, Zenon DEF MarkSent, TypeOK, slotVars, server
<1>11. CASE Write(r)
  <2>1. "reading" \in WorkerPhases
    BY Zenon DEF WorkerPhases
  <2>2. worker' \in [Requests -> WorkerPhases] /\ SlotsType'
    BY <1>3, <1>4, <1>5, <1>11, <2>1, Zenon DEF Write
  <2>3. inbox' \in [1..MaxSockets -> Seq(Requests)]
    <3>1. inbox \in [1..MaxSockets -> Seq(Requests)]
      BY <1>1, Zenon DEF TypeOK
    <3>2. \A q \in Seq(Requests) : Append(q, r) \in Seq(Requests)
      OBVIOUS
    <3>3. \/ UNCHANGED inbox
          \/ inbox' = [inbox EXCEPT ![used[r]] = Append(@, r)] /\ used[r] \in open
      BY <1>11, Zenon DEF Write
    <3>4. used[r] \in open => used[r] \in 1..MaxSockets
      BY <1>1, Zenon DEF TypeOK
    <3> QED
      BY <3>1, <3>2, <3>3, <3>4, Zenon
  <2>4. written' \subseteq Requests
    BY <1>1, <1>11, Zenon DEF Write, TypeOK
  <2> QED
    BY <1>1, <1>11, <2>2, <2>3, <2>4, Zenon DEF Write, TypeOK, SlotsType, requestVars
<1>12. CASE Read(r)
  <2>1. "succeeded" \in WorkerPhases /\ "rejected" \in WorkerPhases
    BY Zenon DEF WorkerPhases
  <2>2. worker' \in [Requests -> WorkerPhases] /\ SlotsType'
    BY <1>3, <1>4, <1>5, <1>12, <2>1, Zenon DEF Read
  <2>3. received' \in [Requests -> BOOLEAN]
    BY <1>1, <1>12, Zenon DEF Read, TypeOK
  <2>4. answer' \in [Requests -> Requests] /\ replies' \in [1..MaxSockets -> Seq(Requests)]
    <3>1. answer \in [Requests -> Requests] /\ replies \in [1..MaxSockets -> Seq(Requests)]
      BY <1>1, Zenon DEF TypeOK
    <3>2. \A q \in Seq(Requests) : q # <<>> => Head(q) \in Requests /\ Tail(q) \in Seq(Requests)
      OBVIOUS
    <3>3. \/ UNCHANGED <<answer, replies>>
          \/ /\ used[r] \in open /\ replies[used[r]] # <<>>
             /\ answer' = [answer EXCEPT ![r] = Head(replies[used[r]])]
             /\ replies' = [replies EXCEPT ![used[r]] = Tail(@)]
      BY <1>12, Zenon DEF Read
    <3>4. used[r] \in open => used[r] \in 1..MaxSockets
      BY <1>1, Zenon DEF TypeOK
    <3>5. answer' \in [Requests -> Requests]
      BY <3>1, <3>2, <3>3, <3>4, ZenonT(30)
    <3>6. replies' \in [1..MaxSockets -> Seq(Requests)]
      <4>1. CASE UNCHANGED replies
        BY <3>1, <4>1, Zenon
      <4>2. ASSUME used[r] \in 1..MaxSockets, replies[used[r]] # <<>>,
                   replies' = [replies EXCEPT ![used[r]] = Tail(@)]
            PROVE  replies' \in [1..MaxSockets -> Seq(Requests)]
        <5>1. Tail(replies[used[r]]) \in Seq(Requests)
          BY <3>1, <3>2, <4>2, Zenon
        <5> QED
          BY <3>1, <4>2, <5>1, Zenon
      <4> QED
        BY <3>3, <3>4, <4>1, <4>2, Zenon
    <3> QED
      BY <3>5, <3>6
  <2> QED
    BY <1>1, <1>12, <2>2, <2>3, <2>4, Zenon DEF Read, TypeOK, SlotsType
<1>13. CASE Finish(r)
  <2>1. "finished" \in WorkerPhases
    BY Zenon DEF WorkerPhases
  <2>2. slot[r] \in Slots /\ caller[r] # "queued" /\ caller[r] \in Callers
    BY <1>1, <1>13, Zenon DEF Finish, CallerInv, TypeOK, Callers
  <2>3. (IF caller[r] = "waiting" THEN "resumed" ELSE caller[r]) \in Callers
    BY <2>2, Zenon DEF Callers
  <2>4. /\ available' \subseteq Slots /\ queue' \in Seq(Requests)
        /\ caller' \in [Requests -> Callers]
        /\ slot' \in [Requests -> Slots \cup {NoSlot}]
    BY <1>1, <1>13, <2>2, <2>3, GiveBackType, Zenon DEF Finish
  <2> QED
    BY <1>1, <1>3, <1>13, <2>1, <2>4, Zenon DEF Finish, TypeOK, Callers, slotVars, server
<1> QED
  BY <1>6, <1>7, <1>8, <1>9, <1>10, <1>11, <1>12, <1>13, Zenon DEF WorkerStep

LEMMA TypeStep ==
    ASSUME IInv, [Next]_vars
    PROVE  TypeOK'
<1>1. TypeOK
  BY Zenon DEF IInv
<1>2. CASE Close
  BY <1>1, <1>2, Zenon DEF Close, TypeOK, requestVars, slotVars, server
<1>3. ASSUME NEW s \in Slots, CloseSlot(s) PROVE TypeOK'
  <2>1. 0 \in 0..MaxSockets
    BY PoolAssumption
  <2> QED
    BY <1>1, <1>3, <2>1, Zenon DEF CloseSlot, TypeOK, requestVars, server
<1>4. ASSUME NEW k \in 1..MaxSockets, Serve(k) PROVE TypeOK'
  <2>1. \A q \in Seq(Requests) : q # <<>> => Head(q) \in Requests /\ Tail(q) \in Seq(Requests)
    OBVIOUS
  <2>2. \A q \in Seq(Requests) : \A x \in Requests : Append(q, x) \in Seq(Requests)
    OBVIOUS
  <2>3. inbox \in [1..MaxSockets -> Seq(Requests)] /\ replies \in [1..MaxSockets -> Seq(Requests)]
    BY <1>1, Zenon DEF TypeOK
  <2>4. inbox' \in [1..MaxSockets -> Seq(Requests)] /\ replies' \in [1..MaxSockets -> Seq(Requests)]
    BY <1>4, <2>1, <2>2, <2>3, Zenon DEF Serve
  <2> QED
    BY <1>1, <1>4, <2>4, Zenon DEF Serve, TypeOK, requestVars, slotVars
<1>5. CASE UNCHANGED vars
  BY <1>1, <1>5, Zenon DEF vars, TypeOK, requestVars, slotVars, server
<1> QED
  BY <1>2, <1>3, <1>4, <1>5, CallerType, WorkerType, Zenon DEF Next

-----------------------------------------------------------------------------
(* The queue and the slots. *)

LEMMA QueueStep ==
    ASSUME IInv, [Next]_vars
    PROVE  QueueInv'
<1>1. TypeOK /\ QueueInv /\ \A r \in Requests : CallerInv(r)
  BY Zenon DEF IInv
<1>2. caller \in [Requests -> Callers] /\ queue \in Seq(Requests) /\ Distinct(queue)
  BY <1>1, Zenon DEF TypeOK, QueueInv, Callers
<1>3. CASE UNCHANGED <<queue, caller>>
  BY <1>1, <1>3, Zenon DEF QueueInv, Distinct, In
<1>4. ASSUME NEW r \in Requests, NEW phase, UNCHANGED queue, phase # "queued", caller[r] # "queued",
             caller' = [caller EXCEPT ![r] = phase]
      PROVE  QueueInv'
  BY <1>1, <1>2, <1>4, ZenonT(30) DEF QueueInv, Distinct, In
<1>5. ASSUME NEW r \in Requests, NEW phase, phase # "queued", caller[r] # "queued",
             GiveBack(r, phase)
      PROVE  QueueInv'
  <2>1. CASE Returns(r, phase)
    BY <1>4, <1>5, <2>1, Zenon DEF Returns
  <2>2. ASSUME NEW h \in Requests, Passes(r, phase, h) PROVE QueueInv'
    <3>1. Distinct(queue') /\ \A y : In(y, queue') <=> In(y, queue) /\ y # h
      BY <2>2, Zenon DEF Passes
    <3>2. ASSUME NEW q \in Requests PROVE In(q, queue') <=> caller'[q] = "queued"
      <4>1. caller'[q] = IF q = h THEN "delivered" ELSE IF q = r THEN phase ELSE caller[q]
        BY <1>2, <2>2, Zenon DEF Passes
      <4>2. In(q, queue) <=> caller[q] = "queued"
        BY <1>1, Zenon DEF QueueInv
      <4> QED
        BY <1>5, <3>1, <4>1, <4>2, Zenon
    <3> QED
      BY <3>1, <3>2, Zenon DEF QueueInv, In, Distinct
  <2> QED
    BY <1>1, <1>5, <2>1, <2>2, GiveBackEffect, Zenon
<1>6. ASSUME NEW r \in Requests, Acquire(r) PROVE QueueInv'
  <2>1. CASE UNCHANGED queue
    <3>1. ASSUME caller' = [caller EXCEPT ![r] = "waiting"] PROVE QueueInv'
      BY <1>4, <1>6, <2>1, <3>1, Zenon DEF Acquire
    <3>2. ASSUME caller' = [caller EXCEPT ![r] = "ended"] PROVE QueueInv'
      BY <1>4, <1>6, <2>1, <3>2, Zenon DEF Acquire
    <3>3. ASSUME caller' = [caller EXCEPT ![r] = "queued"], queue' = Append(queue, r) PROVE FALSE
      BY <1>2, <2>1, <3>3
    <3> QED
      BY <1>6, <3>1, <3>2, <3>3, Zenon DEF Acquire
  <2>2. CASE queue' = Append(queue, r) /\ caller' = [caller EXCEPT ![r] = "queued"]
    <3>1. ~In(r, queue)
      BY <1>1, <1>6, Zenon DEF QueueInv, Acquire
    <3>2. Distinct(queue') /\ \A y : In(y, queue') <=> In(y, queue) \/ y = r
      BY <1>2, <2>2, <3>1, AppendQueue, Zenon
    <3>3. ASSUME NEW q \in Requests PROVE In(q, queue') <=> caller'[q] = "queued"
      BY <1>1, <1>2, <2>2, <3>2, Zenon DEF QueueInv
    <3> QED
      BY <3>2, <3>3, Zenon DEF QueueInv, In, Distinct
  <2> QED
    BY <1>6, <2>1, <2>2, Zenon DEF Acquire
<1>7. ASSUME NEW r \in Requests, WaitFails(r) PROVE QueueInv'
  <2>1. CASE caller[r] = "queued"
    <3>1. PICK i \in 1..Len(queue) : queue[i] = r /\ queue' = Without(queue, i)
      BY <1>7, <2>1, Zenon DEF WaitFails
    <3>2. Distinct(queue') /\ \A y : In(y, queue') <=> In(y, queue) /\ y # r
      BY <1>2, <3>1, WithoutQueue, Zenon
    <3>3. caller' = [caller EXCEPT ![r] = "ended"]
      BY <1>7, <2>1, Zenon DEF WaitFails
    <3>4. ASSUME NEW q \in Requests PROVE In(q, queue') <=> caller'[q] = "queued"
      BY <1>1, <1>2, <3>2, <3>3, Zenon DEF QueueInv
    <3> QED
      BY <3>2, <3>4, Zenon DEF QueueInv, In, Distinct
  <2>2. CASE caller[r] = "delivered"
    BY <1>5, <1>7, <2>2, Zenon DEF WaitFails
  <2> QED
    BY <1>7, <2>1, <2>2, Zenon DEF WaitFails
<1>8. ASSUME NEW r \in Requests, CallerStep(r) PROVE QueueInv'
  <2>1. CASE Resume(r)
    BY <1>4, <2>1, Zenon DEF Resume
  <2>2. CASE CancelCaller(r)
    BY <1>4, <2>2, Zenon DEF CancelCaller
  <2>3. CASE Report(r)
    BY <1>4, <2>3, Zenon DEF Report
  <2> QED
    BY <1>6, <1>7, <1>8, <2>1, <2>2, <2>3, Zenon DEF CallerStep
<1>9. ASSUME NEW r \in Requests, WorkerStep(r) PROVE QueueInv'
  <2>1. CASE Finish(r)
    <3>1. caller[r] # "queued"
      BY <1>1, <2>1, Zenon DEF CallerInv, Finish
    <3>2. (IF caller[r] = "waiting" THEN "resumed" ELSE caller[r]) # "queued"
      BY <3>1, Zenon
    <3> QED
      BY <1>5, <2>1, <3>1, <3>2, Zenon DEF Finish
  <2> QED
    BY <1>3, <1>9, <2>1, Zenon DEF WorkerStep, Start, Dial, Handshake, Check, MarkSent, Write, Read
<1> QED
  BY <1>3, <1>8, <1>9, Zenon DEF Next, Close, CloseSlot, Serve, vars

LEMMA SlotStep ==
    ASSUME IInv, [Next]_vars
    PROVE  SlotInv'
<1>1. TypeOK /\ QueueInv /\ SlotInv /\ \A r \in Requests : CallerInv(r)
  BY Zenon DEF IInv
<1>2. slot \in [Requests -> Slots \cup {NoSlot}] /\ available \subseteq Slots /\ NoSlot \notin Slots
  BY <1>1, PoolAssumption, Zenon DEF TypeOK
<1>3. CASE UNCHANGED <<closed, available, slot>>
  BY <1>1, <1>3, Zenon DEF SlotInv
<1>4. ASSUME NEW r \in Requests, slot[r] = NoSlot, ~closed, NEW s \in available, UNCHANGED closed,
             available' = available \ {s}, slot' = [slot EXCEPT ![r] = s]
      PROVE  SlotInv'
  <2>1. \A q \in Requests : slot'[q] = IF q = r THEN s ELSE slot[q]
    BY <1>2, <1>4, Zenon
  <2>2. s \in Slots /\ s # NoSlot /\ \A q \in Requests : slot[q] # s
    BY <1>1, <1>2, <1>4, Zenon DEF SlotInv
  <2>3. \A a, b \in Requests : a # b /\ slot'[a] # NoSlot => slot'[a] # slot'[b]
    BY <1>1, <2>1, <2>2, Zenon DEF SlotInv
  <2>4. \A a \in Requests : slot'[a] \notin available'
    <3>1. \A a \in Requests : slot[a] \notin available
      BY <1>1, Zenon DEF SlotInv
    <3>2. available' = available \ {s}
      BY <1>4
    <3> QED
      BY <2>1, <3>1, <3>2, Zenon
  <2>5. ASSUME NEW t \in Slots PROVE t \in available' \/ \E a \in Requests : slot'[a] = t
    <3>1. CASE t = s
      BY <2>1, <3>1, Zenon
    <3>2. CASE t \in available /\ t # s
      BY <1>4, <3>2, Zenon
    <3>3. ASSUME NEW a \in Requests, slot[a] = t PROVE slot'[a] = t
      <4>1. a # r
        BY <1>2, <1>4, <3>3, Zenon
      <4> QED
        BY <2>1, <3>3, <4>1, Zenon
    <3> QED
      BY <1>1, <1>4, <3>1, <3>2, <3>3, Zenon DEF SlotInv
  <2> QED
    BY <1>4, <2>3, <2>4, <2>5, Zenon DEF SlotInv
<1>5. ASSUME NEW r \in Requests, NEW phase, slot[r] \in Slots, UNCHANGED closed, Returns(r, phase)
      PROVE  SlotInv'
  <2>1. \A q \in Requests : slot'[q] = IF q = r THEN NoSlot ELSE slot[q]
    BY <1>2, <1>5, Zenon DEF Returns
  <2>2. available' = IF closed THEN {} ELSE available \cup {slot[r]}
    BY <1>1, <1>5, Zenon DEF Returns, SlotInv
  <2>3. \A a, b \in Requests : a # b /\ slot'[a] # NoSlot => slot'[a] # slot'[b]
    BY <1>1, <2>1, Zenon DEF SlotInv
  <2>4. \A a \in Requests : slot'[a] \notin available'
    BY <1>1, <1>2, <1>5, <2>1, <2>2, ZenonT(30) DEF SlotInv
  <2>5. ASSUME NEW t \in Slots, ~closed PROVE t \in available' \/ \E a \in Requests : slot'[a] = t
    BY <1>1, <2>1, <2>2, <2>5, Zenon DEF SlotInv
  <2> QED
    BY <1>5, <2>2, <2>3, <2>4, <2>5, Zenon DEF SlotInv
<1>6. ASSUME NEW r \in Requests, NEW phase, slot[r] \in Slots, UNCHANGED closed,
             NEW h \in Requests, ~closed, Passes(r, phase, h)
      PROVE  SlotInv'
  <2>1. \A q \in Requests : slot'[q] = IF q = h THEN slot[r] ELSE IF q = r THEN NoSlot ELSE slot[q]
    BY <1>2, <1>6, Zenon DEF Passes
  <2>2. h # r /\ slot[h] = NoSlot /\ available' = available /\ slot[r] # NoSlot
    BY <1>1, <1>2, <1>6, Zenon DEF Passes, CallerInv
  <2>3. \A a, b \in Requests : a # b /\ slot'[a] # NoSlot => slot'[a] # slot'[b]
    <3>1. \A a, b \in Requests : a # b /\ slot[a] # NoSlot => slot[a] # slot[b]
      BY <1>1, Zenon DEF SlotInv
    <3>2. ASSUME NEW a \in Requests, NEW b \in Requests, a # b, slot'[a] # NoSlot
          PROVE  slot'[a] # slot'[b]
      <4>1. CASE a = h
        BY <2>1, <2>2, <3>1, <3>2, <4>1, Zenon
      <4>2. CASE a # h /\ b = h
        BY <2>1, <2>2, <3>1, <3>2, <4>2, Zenon
      <4>3. CASE a # h /\ b # h
        BY <2>1, <2>2, <3>1, <3>2, <4>3, Zenon
      <4> QED
        BY <4>1, <4>2, <4>3
    <3> QED
      BY <3>2, Zenon
  <2>4. \A a \in Requests : slot'[a] \notin available'
    BY <1>1, <1>2, <2>1, <2>2, Zenon DEF SlotInv
  <2>5. ASSUME NEW t \in Slots PROVE t \in available' \/ \E a \in Requests : slot'[a] = t
    <3>1. CASE t \in available
      BY <2>2, <3>1, Zenon
    <3>2. ASSUME NEW a \in Requests, slot[a] = t PROVE \E b \in Requests : slot'[b] = t
      <4>1. CASE a = r
        BY <2>1, <3>2, <4>1, Zenon
      <4>2. CASE a # r
        <5>1. a # h
          BY <1>2, <2>2, <3>2, Zenon
        <5> QED
          BY <2>1, <3>2, <4>2, <5>1, Zenon
      <4> QED
        BY <4>1, <4>2
    <3> QED
      BY <1>1, <1>6, <3>1, <3>2, Zenon DEF SlotInv
  <2> QED
    BY <1>6, <2>3, <2>4, <2>5, Zenon DEF SlotInv
<1>7. ASSUME NEW r \in Requests, NEW phase, slot[r] \in Slots, UNCHANGED closed,
             caller[r] # "queued", GiveBack(r, phase)
      PROVE  SlotInv'
  BY <1>1, <1>5, <1>6, <1>7, GiveBackEffect, Zenon
<1>8. ASSUME NEW r \in Requests, CallerStep(r) PROVE SlotInv'
  <2>1. CASE Acquire(r)
    <3>1. slot[r] = NoSlot
      BY <1>1, <2>1, Zenon DEF CallerInv, Acquire
    <3>2. UNCHANGED closed
      BY <2>1, Zenon DEF Acquire
    <3> QED
      BY <1>3, <1>4, <2>1, <3>1, <3>2, Zenon DEF Acquire
  <2>2. CASE WaitFails(r)
    <3>1. caller[r] = "delivered" => slot[r] \in Slots
      BY <1>1, <1>2, Zenon DEF CallerInv
    <3> QED
      BY <1>3, <1>7, <2>2, <3>1, Zenon DEF WaitFails
  <2> QED
    BY <1>3, <1>8, <2>1, <2>2, Zenon DEF CallerStep, Resume, CancelCaller, Report, requestVars
<1>9. ASSUME NEW r \in Requests, WorkerStep(r) PROVE SlotInv'
  <2>1. CASE Finish(r)
    <3>1. slot[r] \in Slots /\ caller[r] # "queued"
      BY <1>1, <1>2, <2>1, Zenon DEF CallerInv, Finish
    <3> QED
      BY <1>7, <2>1, <3>1, Zenon DEF Finish
  <2> QED
    BY <1>3, <1>9, <2>1, Zenon
    DEF WorkerStep, Start, Dial, Handshake, Check, MarkSent, Write, Read, requestVars
<1>10. CASE Close
  <2>1. closed' /\ available' = {} /\ slot' = slot
    BY <1>10, Zenon DEF Close, requestVars
  <2> QED
    BY <1>1, <2>1, Zenon DEF SlotInv
<1> QED
  BY <1>3, <1>8, <1>9, <1>10, Zenon DEF Next, CloseSlot, Serve, vars, requestVars

LEMMA GiveBackAt ==
    ASSUME TypeOK, QueueInv, NEW r \in Requests, NEW q \in Requests, NEW phase, GiveBack(r, phase),
           caller[r] # "queued", slot[r] \in Slots
    PROVE  /\ caller'[r] = phase /\ slot'[r] = NoSlot
           /\ q # r => \/ caller'[q] = caller[q] /\ slot'[q] = slot[q]
                       \/ caller[q] = "queued" /\ caller'[q] = "delivered" /\ slot'[q] # NoSlot
<1>1. /\ caller \in [Requests -> Callers] /\ slot \in [Requests -> Slots \cup {NoSlot}]
      /\ NoSlot \notin Slots
  BY PoolAssumption, Zenon DEF TypeOK, Callers
<1>2. CASE Returns(r, phase)
  BY <1>1, <1>2, Zenon DEF Returns
<1>3. ASSUME NEW h \in Requests, Passes(r, phase, h)
      PROVE  /\ caller'[r] = phase /\ slot'[r] = NoSlot
             /\ q # r => \/ caller'[q] = caller[q] /\ slot'[q] = slot[q]
                         \/ caller[q] = "queued" /\ caller'[q] = "delivered" /\ slot'[q] # NoSlot
  <2>1. h # r /\ caller[h] = "queued"
    BY <1>3, Zenon DEF Passes
  <2>2. \A x \in Requests :
          /\ caller'[x] = IF x = h THEN "delivered" ELSE IF x = r THEN phase ELSE caller[x]
          /\ slot'[x] = IF x = h THEN slot[r] ELSE IF x = r THEN NoSlot ELSE slot[x]
    BY <1>1, <1>3, Zenon DEF Passes
  <2>3. slot[r] # NoSlot
    BY <1>1, Zenon
  <2> QED
    BY <2>1, <2>2, <2>3
<1> QED
  BY <1>2, <1>3, GiveBackEffect, Zenon

LEMMA CallerStepInv ==
    ASSUME IInv, [Next]_vars, NEW q \in Requests
    PROVE  CallerInv(q)'
<1>1. TypeOK /\ QueueInv /\ \A r \in Requests : CallerInv(r)
  BY Zenon DEF IInv
<1>2. /\ caller \in [Requests -> Callers] /\ worker \in [Requests -> WorkerPhases]
      /\ slot \in [Requests -> Slots \cup {NoSlot}] /\ cancelled \in [Requests -> BOOLEAN]
      /\ status \in [Requests -> {"none", "OK", "NOT_SENT", "UNKNOWN", "RESPONSE_RECEIVED"}]
      /\ NoSlot \notin Slots
  BY <1>1, PoolAssumption, Zenon DEF TypeOK, Callers
<1>3. CallerInv(q)
  BY <1>1
<1>4. CASE /\ caller'[q] = caller[q] /\ worker'[q] = worker[q] /\ slot'[q] = slot[q]
           /\ cancelled'[q] = cancelled[q] /\ status'[q] = status[q]
  BY <1>3, <1>4, Zenon DEF CallerInv
<1>5. ASSUME NEW r \in Requests, NEW phase, GiveBack(r, phase), caller[r] # "queued",
             slot[r] \in Slots
      PROVE  /\ caller'[r] = phase /\ slot'[r] = NoSlot
             /\ q # r => \/ caller'[q] = caller[q] /\ slot'[q] = slot[q]
                         \/ caller[q] = "queued" /\ caller'[q] = "delivered" /\ slot'[q] # NoSlot
  BY <1>1, <1>5, GiveBackAt, Zenon
<1>6. ASSUME NEW r \in Requests, Acquire(r) PROVE CallerInv(q)'
  <2>1. /\ caller[r] = "new" /\ worker[r] = "none" /\ slot[r] = NoSlot /\ status[r] = "none"
        /\ ~cancelled[r] /\ UNCHANGED cancelled
    BY <1>1, <1>6, Zenon DEF Acquire, CallerInv
  <2>2. CASE q # r
    <3>1. caller'[q] = caller[q] /\ worker'[q] = worker[q] /\ slot'[q] = slot[q] /\ status'[q] = status[q]
      BY <1>2, <1>6, <2>2, Zenon DEF Acquire
    <3> QED
      BY <1>4, <2>1, <3>1
  <2>3. CASE q = r
    <3>1. ASSUME NEW s \in available, slot' = [slot EXCEPT ![r] = s],
                 caller' = [caller EXCEPT ![r] = "waiting"],
                 worker' = [worker EXCEPT ![r] = "queued"], UNCHANGED status
          PROVE  CallerInv(q)'
      <4>1. s # NoSlot
        BY <1>1, <1>2, Zenon DEF TypeOK
      <4>2. caller'[q] = "waiting" /\ worker'[q] = "queued" /\ slot'[q] # NoSlot
        BY <1>2, <2>3, <3>1, <4>1, Zenon
      <4> QED
        BY <2>1, <2>3, <3>1, <4>2, Zenon DEF CallerInv
    <3>2. ASSUME caller' = [caller EXCEPT ![r] = "queued"], UNCHANGED <<slot, worker, status>>
          PROVE  CallerInv(q)'
      BY <1>2, <2>1, <2>3, <3>2, Zenon DEF CallerInv
    <3>3. ASSUME caller' = [caller EXCEPT ![r] = "ended"], UNCHANGED <<slot, worker>>
          PROVE  CallerInv(q)'
      BY <1>2, <2>1, <2>3, <3>3, Zenon DEF CallerInv
    <3> QED
      BY <1>6, <3>1, <3>2, <3>3, Zenon DEF Acquire
  <2> QED
    BY <2>2, <2>3
<1>7. ASSUME NEW r \in Requests, WaitFails(r) PROVE CallerInv(q)'
  <2>1. UNCHANGED <<worker, cancelled>> /\ worker[r] = "none"
    BY <1>1, <1>7, Zenon DEF WaitFails, CallerInv
  <2>2. status' = [status EXCEPT ![r] = ExecutionStatus(r)]
    BY <1>7, Zenon DEF WaitFails
  <2>3. /\ caller'[r] = "ended" /\ slot'[r] = NoSlot
        /\ q # r => \/ caller'[q] = caller[q] /\ slot'[q] = slot[q]
                    \/ caller[q] = "queued" /\ caller'[q] = "delivered" /\ slot'[q] # NoSlot
    <3>1. CASE caller[r] = "queued"
      <4>1. slot[r] = NoSlot /\ caller' = [caller EXCEPT ![r] = "ended"] /\ slot' = slot
        BY <1>1, <1>7, <3>1, Zenon DEF WaitFails, CallerInv
      <4> QED
        BY <1>2, <4>1, Zenon
    <3>2. CASE caller[r] = "delivered" /\ GiveBack(r, "ended")
      <4>1. slot[r] \in Slots /\ caller[r] # "queued"
        BY <1>1, <1>2, <3>2, Zenon DEF CallerInv
      <4> QED
        BY <1>5, <3>2, <4>1
    <3> QED
      BY <1>7, <3>1, <3>2, Zenon DEF WaitFails
  <2>4. CASE q = r
    BY <2>1, <2>3, <2>4, Zenon DEF CallerInv
  <2>5. CASE q # r
    <3>1. status'[q] = status[q]
      BY <1>2, <2>2, <2>5, Zenon
    <3>2. CASE caller'[q] = caller[q] /\ slot'[q] = slot[q]
      BY <1>4, <2>1, <3>1, <3>2
    <3>3. CASE caller[q] = "queued" /\ caller'[q] = "delivered" /\ slot'[q] # NoSlot
      BY <1>3, <2>1, <3>1, <3>3, Zenon DEF CallerInv
    <3> QED
      BY <2>3, <2>5, <3>2, <3>3
  <2> QED
    BY <2>4, <2>5
<1>8. ASSUME NEW r \in Requests, Resume(r) PROVE CallerInv(q)'
  <2>1. /\ caller' = [caller EXCEPT ![r] = "waiting"] /\ worker' = [worker EXCEPT ![r] = "queued"]
        /\ caller[r] = "delivered" /\ UNCHANGED <<slot, cancelled, status>>
    BY <1>8, Zenon DEF Resume, requestVars
  <2>2. CASE q = r
    <3>1. caller'[q] = "waiting" /\ worker'[q] = "queued"
      BY <1>2, <2>1, <2>2, Zenon
    <3> QED
      BY <1>3, <2>1, <2>2, <3>1, Zenon DEF CallerInv
  <2>3. CASE q # r
    BY <1>2, <1>4, <2>1, <2>3, Zenon
  <2> QED
    BY <2>2, <2>3
<1>9. ASSUME NEW r \in Requests, CancelCaller(r) PROVE CallerInv(q)'
  <2>1. /\ caller' = [caller EXCEPT ![r] = "cancelled"] /\ cancelled' = [cancelled EXCEPT ![r] = TRUE]
        /\ caller[r] = "waiting" /\ UNCHANGED <<slot, worker, status>>
    BY <1>9, Zenon DEF CancelCaller
  <2>2. CASE q = r
    <3>1. caller'[q] = "cancelled" /\ cancelled'[q]
      BY <1>2, <2>1, <2>2, Zenon
    <3> QED
      BY <1>3, <2>1, <2>2, <3>1, Zenon DEF CallerInv
  <2>3. CASE q # r
    BY <1>2, <1>4, <2>1, <2>3, Zenon
  <2> QED
    BY <2>2, <2>3
<1>10. ASSUME NEW r \in Requests, Report(r) PROVE CallerInv(q)'
  <2>1. /\ caller' = [caller EXCEPT ![r] = "ended"] /\ caller[r] \in {"cancelled", "resumed"}
        /\ UNCHANGED <<slot, worker, cancelled>>
        /\ \E x : status' = [status EXCEPT ![r] = x]
    BY <1>10, Zenon DEF Report, requestVars
  <2>2. CASE q = r
    <3>1. caller'[q] = "ended"
      BY <1>2, <2>1, <2>2, Zenon
    <3> QED
      BY <1>3, <2>1, <2>2, <3>1, Zenon DEF CallerInv
  <2>3. CASE q # r
    BY <1>2, <1>4, <2>1, <2>3, Zenon
  <2> QED
    BY <2>2, <2>3
<1>11. ASSUME NEW r \in Requests, NEW phase, phase \notin {"none", "finished"},
              worker[r] \notin {"none", "finished"}, worker' = [worker EXCEPT ![r] = phase],
              UNCHANGED <<caller, slot, cancelled, status>>
       PROVE  CallerInv(q)'
  <2>1. CASE q = r
    <3>1. worker'[q] = phase
      BY <1>2, <1>11, <2>1, Zenon
    <3> QED
      BY <1>3, <1>11, <2>1, <3>1, Zenon DEF CallerInv
  <2>2. CASE q # r
    BY <1>2, <1>4, <1>11, <2>2, Zenon
  <2> QED
    BY <2>1, <2>2
<1>12. ASSUME NEW r \in Requests, Finish(r) PROVE CallerInv(q)'
  <2> DEFINE phase == IF caller[r] = "waiting" THEN "resumed" ELSE caller[r]
  <2>1. /\ worker' = [worker EXCEPT ![r] = "finished"] /\ UNCHANGED <<cancelled, status>>
        /\ GiveBack(r, phase) /\ worker[r] \notin {"none", "finished"}
    BY <1>12, Zenon DEF Finish
  <2>2. slot[r] \in Slots /\ caller[r] \notin {"new", "queued", "delivered"}
    BY <1>1, <1>2, <2>1, Zenon DEF CallerInv
  <2>3. /\ caller'[r] = phase /\ slot'[r] = NoSlot
        /\ q # r => \/ caller'[q] = caller[q] /\ slot'[q] = slot[q]
                    \/ caller[q] = "queued" /\ caller'[q] = "delivered" /\ slot'[q] # NoSlot
    BY <1>5, <2>1, <2>2, Zenon
  <2>4. CASE q = r
    <3>1. worker'[q] = "finished"
      BY <1>2, <2>1, <2>4, Zenon
    <3>2. phase \notin {"new", "queued", "delivered", "waiting"}
      BY <2>2, Zenon
    <3>3. phase = "cancelled" => cancelled[q]
      BY <1>3, <2>4, Zenon DEF CallerInv
    <3>4. status[q] # "none" => phase = "ended"
      BY <1>3, <2>4, Zenon DEF CallerInv
    <3> QED
      BY <2>1, <2>3, <2>4, <3>1, <3>2, <3>3, <3>4, Zenon DEF CallerInv
  <2>5. CASE q # r
    <3>1. worker'[q] = worker[q]
      BY <1>2, <2>1, <2>5, Zenon
    <3>2. CASE caller'[q] = caller[q] /\ slot'[q] = slot[q]
      BY <1>4, <2>1, <3>1, <3>2
    <3>3. CASE caller[q] = "queued" /\ caller'[q] = "delivered" /\ slot'[q] # NoSlot
      BY <1>3, <2>1, <3>1, <3>3, Zenon DEF CallerInv
    <3> QED
      BY <2>3, <2>5, <3>2, <3>3
  <2> QED
    BY <2>4, <2>5
<1>13. ASSUME NEW r \in Requests, WorkerStep(r) PROVE CallerInv(q)'
  <2>1. CASE Start(r)
    BY <1>11, <2>1, Zenon DEF Start, requestVars
  <2>2. CASE Dial(r)
    BY <1>11, <2>2, Zenon DEF Dial, Fail
  <2>3. CASE Handshake(r)
    BY <1>11, <2>3, Zenon DEF Handshake, requestVars
  <2>4. CASE Check(r)
    BY <1>11, <2>4, Zenon DEF Check, Fail, requestVars
  <2>5. CASE MarkSent(r)
    BY <1>11, <2>5, Zenon DEF MarkSent
  <2>6. CASE Write(r)
    BY <1>11, <2>6, Zenon DEF Write, Fail, requestVars
  <2>7. CASE Read(r)
    BY <1>11, <2>7, Zenon DEF Read, Fail
  <2> QED
    BY <1>12, <1>13, <2>1, <2>2, <2>3, <2>4, <2>5, <2>6, <2>7, Zenon DEF WorkerStep
<1> QED
  BY <1>4, <1>6, <1>7, <1>8, <1>9, <1>10, <1>13, Zenon
  DEF Next, CallerStep, Close, CloseSlot, Serve, vars, requestVars

-----------------------------------------------------------------------------
(* Sockets. *)

\* A step of one request leaves the workers of the others alone.
LEMMA Others ==
    ASSUME IInv, NEW r \in Requests, CallerStep(r) \/ WorkerStep(r), NEW d \in Requests, d # r
    PROVE  /\ worker'[d] = worker[d] /\ used'[d] = used[d] /\ cancelled'[d] = cancelled[d]
           /\ sent'[d] = sent[d]
           /\ worker[d] # "none" => slot'[d] = slot[d]
<1>1. TypeOK /\ QueueInv /\ CallerInv(r) /\ CallerInv(d)
  BY Zenon DEF IInv
<1>2. /\ worker \in [Requests -> WorkerPhases] /\ used \in [Requests -> 0..MaxSockets]
      /\ slot \in [Requests -> Slots \cup {NoSlot}] /\ cancelled \in [Requests -> BOOLEAN]
      /\ sent \in [Requests -> BOOLEAN]
  BY <1>1, Zenon DEF TypeOK
<1>3. \A phase : worker' = [worker EXCEPT ![r] = phase] => worker'[d] = worker[d]
  BY <1>2, Zenon
<1>4. ASSUME NEW phase, GiveBack(r, phase), caller[r] # "queued", slot[r] \in Slots
      PROVE  worker[d] # "none" => slot'[d] = slot[d]
  <2>1. caller[d] = "queued" => worker[d] = "none"
    BY <1>1, Zenon DEF CallerInv
  <2> QED
    BY <1>1, <1>4, <2>1, GiveBackAt, Zenon
<1>5. CASE CallerStep(r)
  <2>1. CASE Acquire(r)
    BY <1>2, <2>1, Zenon DEF Acquire
  <2>2. CASE Resume(r)
    BY <1>3, <2>2, Zenon DEF Resume, requestVars
  <2>3. CASE WaitFails(r)
    <3>1. caller[r] = "delivered" => slot[r] \in Slots
      BY <1>1, <1>2, Zenon DEF CallerInv
    <3> QED
      BY <1>4, <2>3, <3>1, Zenon DEF WaitFails
  <2>4. CASE CancelCaller(r)
    BY <1>2, <2>4, Zenon DEF CancelCaller
  <2> QED
    BY <1>5, <2>1, <2>2, <2>3, <2>4, Zenon DEF CallerStep, Report, requestVars
<1>6. CASE WorkerStep(r)
  <2>1. CASE Start(r)
    BY <1>3, <2>1, Zenon DEF Start, requestVars
  <2>2. CASE Dial(r)
    BY <1>2, <1>3, <2>2, Zenon DEF Dial, Fail
  <2>3. CASE Handshake(r)
    BY <1>3, <2>3, Zenon DEF Handshake, requestVars
  <2>4. CASE Check(r)
    BY <1>3, <2>4, Zenon DEF Check, Fail, requestVars
  <2>5. CASE MarkSent(r)
    BY <1>2, <1>3, <2>5, Zenon DEF MarkSent
  <2>6. CASE Write(r)
    BY <1>3, <2>6, Zenon DEF Write, Fail, requestVars
  <2>7. CASE Read(r)
    BY <1>3, <2>7, Zenon DEF Read, Fail
  <2>8. CASE Finish(r)
    <3>1. caller[r] # "queued" /\ slot[r] \in Slots
      BY <1>1, <1>2, <2>8, Zenon DEF CallerInv, Finish
    <3> QED
      BY <1>3, <1>4, <2>8, <3>1, Zenon DEF Finish
  <2> QED
    BY <1>6, <2>1, <2>2, <2>3, <2>4, <2>5, <2>6, <2>7, <2>8, Zenon DEF WorkerStep
<1> QED
  BY <1>5, <1>6

\* The socket of a slot is closed, with or without the slot.
Drop(s) ==
    /\ open' = open \ {socket[s]}
    /\ socket' = [socket EXCEPT ![s] = 0]
    /\ ready' = ready \ {s}
    /\ sockets' = sockets
    /\ shut' \in {shut, shut \cup {s}}

\* A worker opens a socket, and a handshake succeeds.
Opens(r) ==
    /\ worker[r] = "started" /\ slot[r] \in Slots /\ ~Refused(r) /\ slot[r] \notin ready
    /\ sockets < MaxSockets
    /\ sockets' = sockets + 1
    /\ open' = open \cup {sockets'}
    /\ socket' = [socket EXCEPT ![slot[r]] = sockets']
    /\ used' = [used EXCEPT ![r] = sockets']
    /\ worker' = [worker EXCEPT ![r] = "dialling"]
    /\ UNCHANGED <<shut, ready, slot, cancelled, inbox, replies>>
Shakes(r) ==
    /\ worker[r] = "dialling" /\ slot[r] \in Slots
    /\ used[r] \in open /\ socket[slot[r]] = used[r] /\ ~cancelled[r]
    /\ ready' = ready \cup {slot[r]}
    /\ worker' = [worker EXCEPT ![r] = "dialled"]
    /\ UNCHANGED <<shut, socket, open, sockets, slot, used, cancelled, inbox, replies>>

\* What a step of one request does to the connections.
LEMMA Effects ==
    ASSUME IInv, NEW r \in Requests, CallerStep(r) \/ WorkerStep(r)
    PROVE  \/ /\ UNCHANGED slotVars
              /\ worker[r] = "dialling" => worker'[r] = "dialling" /\ slot'[r] = slot[r]
           \/ slot[r] \in Slots /\ Drop(slot[r])
           \/ Opens(r) \/ Shakes(r)
<1>1. TypeOK /\ CallerInv(r)
  BY Zenon DEF IInv
<1>2. worker \in [Requests -> WorkerPhases] /\ slot \in [Requests -> Slots \cup {NoSlot}]
  BY <1>1, Zenon DEF TypeOK
<1>3. worker[r] \notin {"none", "finished"} => slot[r] \in Slots
  BY <1>1, <1>2, Zenon DEF CallerInv
<1>4. Invalidate(slot[r]) => Drop(slot[r])
  BY Zenon DEF Invalidate, Drop
<1>5. Fail(r) => UNCHANGED slotVars \/ Drop(slot[r])
  BY <1>4, Zenon DEF Fail
<1>6. CASE CallerStep(r)
  <2>1. CASE caller[r] \in {"new", "queued", "delivered"}
    <3>1. worker[r] = "none"
      BY <1>1, <2>1, Zenon DEF CallerInv
    <3> QED
      BY <1>6, <2>1, <3>1, Zenon DEF CallerStep, Acquire, Resume, WaitFails, CancelCaller, Report
  <2>2. CASE CancelCaller(r)
    <3>1. CASE Started(r)
      BY <1>3, <1>4, <2>2, <3>1, Zenon DEF CancelCaller, Started
    <3>2. CASE ~Started(r)
      BY <2>2, <3>2, Zenon DEF CancelCaller, Started
    <3> QED
      BY <3>1, <3>2
  <2>3. CASE Report(r)
    BY <2>3, Zenon DEF Report, requestVars
  <2> QED
    BY <1>6, <2>1, <2>2, <2>3, Zenon DEF CallerStep, Acquire, Resume, WaitFails
<1>7. CASE WorkerStep(r)
  <2>1. CASE Start(r)
    BY <2>1, Zenon DEF Start
  <2>2. CASE Dial(r)
    BY <1>3, <1>5, <2>2, Zenon DEF Dial, Opens, server
  <2>3. CASE Handshake(r)
    BY <1>3, <1>4, <2>3, Zenon DEF Handshake, Shakes, requestVars, server
  <2>4. CASE Check(r)
    BY <1>3, <1>5, <2>4, Zenon DEF Check
  <2>5. CASE MarkSent(r)
    BY <2>5, Zenon DEF MarkSent
  <2>6. CASE Write(r)
    BY <1>3, <1>5, <2>6, Zenon DEF Write
  <2>7. CASE Read(r)
    BY <1>3, <1>5, <2>7, Zenon DEF Read
  <2>8. CASE Finish(r)
    BY <2>8, Zenon DEF Finish
  <2> QED
    BY <1>7, <2>1, <2>2, <2>3, <2>4, <2>5, <2>6, <2>7, <2>8, Zenon DEF WorkerStep
<1> QED
  BY <1>6, <1>7

\* SocketInv survives the loss of a socket ...
LEMMA DropSocket ==
    ASSUME IInv, NEW s \in Slots, Drop(s),
           \A d \in Requests : worker[d] = "dialling" /\ slot[d] # s =>
                                  worker'[d] = "dialling" /\ slot'[d] = slot[d]
    PROVE  SocketInv'
<1>1. SocketInv /\ socket \in [Slots -> 0..MaxSockets]
  BY Zenon DEF IInv, TypeOK
<1>2. \A t \in Slots : socket'[t] = IF t = s THEN 0 ELSE socket[t]
  BY <1>1, Zenon DEF Drop
<1>3. ASSUME NEW k \in open' PROVE \E t \in Slots : socket'[t] = k
  <2>1. k \in open /\ k # socket[s]
    BY <1>3, Zenon DEF Drop
  <2>2. PICK t \in Slots : socket[t] = k
    BY <1>1, <2>1, Zenon DEF SocketInv
  <2> QED
    BY <1>2, <2>1, <2>2, Zenon
<1>4. ASSUME NEW t \in Slots, NEW u \in Slots, t # u, socket'[t] # 0 PROVE socket'[t] # socket'[u]
  <2>1. t # s /\ socket'[t] = socket[t]
    BY <1>2, <1>4, Zenon
  <2>2. socket[t] # 0 /\ socket[t] # socket[u]
    BY <1>1, <1>4, <2>1, Zenon DEF SocketInv
  <2> QED
    BY <1>2, <2>1, <2>2, Zenon
<1>5. \A t \in Slots : socket'[t] <= sockets'
  <2>1. 0 <= sockets /\ sockets' = sockets
    BY DEF IInv, TypeOK, Drop
  <2> QED
    BY <1>1, <1>2, <2>1, Zenon DEF SocketInv
<1>6. \A t \in shut' : socket'[t] = 0
  <2>1. \A t \in shut' : t = s \/ (t \in shut /\ t \in Slots)
    BY Zenon DEF Drop, IInv, TypeOK
  <2> QED
    BY <1>1, <1>2, <2>1, Zenon DEF SocketInv
<1>7. ASSUME NEW t \in Slots, socket'[t] # 0
      PROVE  t \in ready' \/ \E d \in Requests : slot'[d] = t /\ worker'[d] = "dialling"
  <2>1. t # s /\ socket[t] # 0
    BY <1>2, <1>7, Zenon
  <2>2. t \in ready => t \in ready'
    BY <2>1, Zenon DEF Drop
  <2>3. t \in ready \/ \E d \in Requests : slot[d] = t /\ worker[d] = "dialling"
    BY <1>1, <2>1, Zenon DEF SocketInv
  <2> QED
    BY <2>1, <2>2, <2>3, Zenon
<1> QED
  BY <1>3, <1>4, <1>5, <1>6, <1>7, Zenon DEF SocketInv

\* ... and a new one, whose slot has none.
LEMMA OpensFresh ==
    ASSUME IInv, NEW r \in Requests, Opens(r)
    PROVE  socket[slot[r]] = 0
<1>1. SocketInv /\ SlotInv /\ slot[r] \in Slots /\ NoSlot \notin Slots
  BY PoolAssumption, Zenon DEF IInv, Opens
<1>2. ASSUME socket[slot[r]] # 0 PROVE FALSE
  <2>1. PICK d \in Requests : slot[d] = slot[r] /\ worker[d] = "dialling"
    BY <1>1, <1>2, Zenon DEF SocketInv, Opens
  <2>2. d = r
    BY <1>1, <2>1, Zenon DEF SlotInv
  <2> QED
    BY <2>1, <2>2, Zenon DEF Opens
<1> QED
  BY <1>2

LEMMA OpenSocket ==
    ASSUME IInv, NEW r \in Requests, Opens(r),
           \A d \in Requests : d # r /\ worker[d] = "dialling" =>
                                  worker'[d] = "dialling" /\ slot'[d] = slot[d]
    PROVE  SocketInv'
<1>1. /\ SocketInv /\ socket \in [Slots -> 0..MaxSockets] /\ sockets \in Nat /\ sockets' = sockets + 1
      /\ open \subseteq 1..MaxSockets /\ worker \in [Requests -> WorkerPhases]
  <2>1. sockets \in 0..MaxSockets
    BY Zenon DEF IInv, TypeOK
  <2>2. sockets \in Nat
    BY <2>1
  <2> QED
    BY <2>2, Zenon DEF IInv, TypeOK, Opens
<1>2. slot[r] \in Slots /\ socket[slot[r]] = 0 /\ slot[r] \notin shut
  BY OpensFresh, Zenon DEF Opens, Refused
<1>3. \A t \in Slots : socket'[t] = IF t = slot[r] THEN sockets' ELSE socket[t]
  BY <1>1, <1>2, Zenon DEF Opens
<1>4. ASSUME NEW k \in open' PROVE \E t \in Slots : socket'[t] = k
  <2>1. CASE k = sockets'
    BY <1>2, <1>3, <2>1, Zenon
  <2>2. CASE k \in open
    <3>1. PICK t \in Slots : socket[t] = k
      BY <1>1, <2>2, Zenon DEF SocketInv
    <3>2. k # 0
      BY <1>1, <2>2
    <3> QED
      BY <1>2, <1>3, <3>1, <3>2, Zenon
  <2> QED
    BY <1>4, <2>1, <2>2, Zenon DEF Opens
<1>5. \A t \in Slots : socket[t] # sockets' /\ socket'[t] <= sockets'
  BY <1>1, <1>3 DEF SocketInv
<1>6. ASSUME NEW t \in Slots, NEW u \in Slots, t # u, socket'[t] # 0 PROVE socket'[t] # socket'[u]
  <2>1. CASE t = slot[r]
    BY <1>3, <1>5, <1>6, <2>1, Zenon
  <2>2. CASE t # slot[r]
    <3>1. socket'[t] = socket[t] /\ socket[t] # sockets'
      BY <1>3, <1>5, <2>2, Zenon
    <3>2. socket[t] # socket[u]
      BY <1>1, <1>6, <3>1, Zenon DEF SocketInv
    <3> QED
      BY <1>3, <3>1, <3>2, Zenon
  <2> QED
    BY <2>1, <2>2
<1>7. \A t \in shut' : socket'[t] = 0
  <2>1. shut' = shut /\ shut \subseteq Slots
    BY Zenon DEF Opens, IInv, TypeOK
  <2> QED
    BY <1>1, <1>2, <1>3, <2>1, ZenonT(30) DEF SocketInv
<1>8. ASSUME NEW t \in Slots, socket'[t] # 0
      PROVE  t \in ready' \/ \E d \in Requests : slot'[d] = t /\ worker'[d] = "dialling"
  <2>1. slot'[r] = slot[r] /\ worker'[r] = "dialling" /\ ready' = ready /\ worker[r] = "started"
    BY <1>1, Zenon DEF Opens
  <2>2. CASE t = slot[r]
    BY <2>1, <2>2, Zenon
  <2>3. CASE t # slot[r]
    <3>1. t \in ready \/ \E d \in Requests : slot[d] = t /\ worker[d] = "dialling"
      BY <1>1, <1>3, <1>8, <2>3, Zenon DEF SocketInv
    <3> QED
      BY <2>1, <3>1, Zenon
  <2> QED
    BY <2>2, <2>3
<1> QED
  BY <1>4, <1>5, <1>6, <1>7, <1>8, Zenon DEF SocketInv

LEMMA SocketStep ==
    ASSUME IInv, [Next]_vars
    PROVE  SocketInv'
<1>1. SocketInv /\ TypeOK
  BY Zenon DEF IInv
<1>2. ASSUME UNCHANGED slotVars,
             \A d \in Requests : worker[d] = "dialling" => worker'[d] = "dialling" /\ slot'[d] = slot[d]
      PROVE  SocketInv'
  <2>1. UNCHANGED <<shut, socket, ready, open, sockets>>
    BY <1>2, Zenon DEF slotVars
  <2>2. ASSUME NEW t \in Slots, socket[t] # 0
        PROVE  t \in ready \/ \E d \in Requests : slot'[d] = t /\ worker'[d] = "dialling"
    <3>1. t \in ready \/ \E d \in Requests : slot[d] = t /\ worker[d] = "dialling"
      BY <1>1, <2>2, Zenon DEF SocketInv
    <3> QED
      BY <1>2, <3>1, Zenon
  <2> QED
    BY <1>1, <2>1, <2>2, Zenon DEF SocketInv
<1>3. ASSUME NEW r \in Requests, CallerStep(r) \/ WorkerStep(r) PROVE SocketInv'
  <2>1. ASSUME NEW d \in Requests, d # r, worker[d] = "dialling"
        PROVE  worker'[d] = "dialling" /\ slot'[d] = slot[d]
    <3>1. worker'[d] = worker[d] /\ (worker[d] # "none" => slot'[d] = slot[d])
      BY <1>3, <2>1, Others, Zenon
    <3> QED
      BY <2>1, <3>1, Zenon
  <2>2. CASE /\ UNCHANGED slotVars
             /\ worker[r] = "dialling" => worker'[r] = "dialling" /\ slot'[r] = slot[r]
    BY <1>2, <2>1, <2>2, Zenon
  <2>3. CASE slot[r] \in Slots /\ Drop(slot[r])
    <3>1. \A d \in Requests : worker[d] = "dialling" /\ slot[d] # slot[r] =>
                                  worker'[d] = "dialling" /\ slot'[d] = slot[d]
      BY <2>1, Zenon
    <3> QED
      BY <2>3, <3>1, DropSocket, Zenon
  <2>4. CASE Opens(r)
    BY <2>1, <2>4, OpenSocket, Zenon
  <2>5. CASE Shakes(r)
    <3>1. UNCHANGED <<shut, socket, open, sockets, slot>> /\ ready' = ready \cup {slot[r]}
      BY <2>5, Zenon DEF Shakes
    <3>2. ASSUME NEW t \in Slots, socket[t] # 0
          PROVE  t \in ready' \/ \E d \in Requests : slot'[d] = t /\ worker'[d] = "dialling"
      <4>1. t \in ready \/ \E d \in Requests : slot[d] = t /\ worker[d] = "dialling"
        BY <1>1, <3>2, Zenon DEF SocketInv
      <4> QED
        BY <2>1, <3>1, <4>1, Zenon
    <3> QED
      BY <1>1, <3>1, <3>2, Zenon DEF SocketInv
  <2> QED
    BY <1>3, <2>2, <2>3, <2>4, <2>5, Effects, Zenon
<1>4. ASSUME NEW s \in Slots, CloseSlot(s) PROVE SocketInv'
  <2>1. Drop(s) /\ UNCHANGED <<worker, slot>>
    BY <1>4, Zenon DEF CloseSlot, Drop, requestVars
  <2> QED
    BY <2>1, DropSocket, Zenon
<1> QED
  BY <1>2, <1>3, <1>4, Zenon DEF Next, Close, Serve, vars, requestVars

-----------------------------------------------------------------------------
(* Workers and what they read. *)

Using == {"dialling", "dialled", "checked", "writing", "reading"}

\* An open socket is used by one worker.
LEMMA OneUser ==
    ASSUME IInv, NEW x \in Requests, NEW y \in Requests, worker[x] \in Using, worker[y] \in Using,
           used[x] = used[y], used[x] \in open
    PROVE  x = y
<1>1. socket[slot[x]] = used[x] /\ socket[slot[y]] = used[x]
  BY Zenon DEF IInv, UsedInv, Using
<1>2. slot[x] \in Slots /\ slot[y] \in Slots /\ slot[x] # NoSlot
  BY Zenon DEF IInv, CallerInv, TypeOK, Using
<1>3. used[x] # 0
  <2>1. used[x] \in 1..MaxSockets
    BY Zenon DEF IInv, TypeOK
  <2> QED
    BY <2>1
<1>4. slot[x] = slot[y]
  <2>1. \A s, t \in Slots : s # t /\ socket[s] # 0 => socket[s] # socket[t]
    BY Zenon DEF IInv, SocketInv
  <2> QED
    BY <1>1, <1>2, <1>3, <2>1, Zenon
<1> QED
  BY <1>2, <1>4, Zenon DEF IInv, SlotInv

\* A worker that does not move, by what happens to the connections.
Rests(q) ==
    /\ worker'[q] = worker[q] /\ used'[q] = used[q] /\ cancelled'[q] = cancelled[q]
    /\ sent'[q] = sent[q]
    /\ worker[q] # "none" => slot'[q] = slot[q]

LEMMA RestsUsed ==
    ASSUME IInv, NEW q \in Requests, Rests(q)
    PROVE  /\ UNCHANGED <<socket, open, sockets>> => UsedInv(q)'
           /\ \A s \in Slots : Drop(s) => UsedInv(q)'
           /\ \A r \in Requests : r # q /\ Opens(r) => UsedInv(q)'
<1>1. /\ UsedInv(q) /\ SocketInv /\ socket \in [Slots -> 0..MaxSockets]
      /\ used[q] \in 0..MaxSockets /\ sockets \in 0..MaxSockets
  BY Zenon DEF IInv, TypeOK
<1>2. worker[q] \in Using => slot[q] \in Slots /\ slot'[q] = slot[q]
  BY Zenon DEF IInv, CallerInv, TypeOK, Using, Rests
<1>3. worker'[q] \in {"writing", "reading"} => sent'[q]
  BY <1>1, Zenon DEF UsedInv, Rests
<1>4. ASSUME UNCHANGED <<socket, open, sockets>> PROVE UsedInv(q)'
  BY <1>1, <1>2, <1>3, <1>4, Zenon DEF UsedInv, Rests, Using
<1>5. ASSUME NEW s \in Slots, Drop(s) PROVE UsedInv(q)'
  <2>1. used'[q] <= sockets'
    BY <1>1, <1>5, Zenon DEF UsedInv, Rests, Drop
  <2>2. ASSUME worker'[q] \in Using, used'[q] \in open'
        PROVE  socket'[slot'[q]] = used'[q] /\ ~cancelled'[q]
    <3>1. worker[q] \in Using /\ used[q] \in open /\ used[q] # socket[s]
      BY <1>5, <2>2, Zenon DEF Rests, Drop
    <3>2. socket[slot[q]] = used[q] /\ ~cancelled[q]
      BY <1>1, <3>1, Zenon DEF UsedInv, Using
    <3>3. socket'[slot[q]] = socket[slot[q]]
      BY <1>1, <1>2, <1>5, <3>1, <3>2, Zenon DEF Drop
    <3> QED
      BY <1>2, <3>1, <3>2, <3>3, Zenon DEF Rests
  <2> QED
    BY <1>3, <2>1, <2>2, Zenon DEF UsedInv, Using
<1>6. ASSUME NEW r \in Requests, r # q, Opens(r) PROVE UsedInv(q)'
  <2>1. sockets' = sockets + 1 /\ used'[q] = used[q]
    BY <1>6, Zenon DEF Opens, Rests
  <2>2. used[q] <= sockets
    BY <1>1, Zenon DEF UsedInv
  <2>3. used'[q] <= sockets' /\ used[q] # sockets'
    BY <1>1, <2>1, <2>2
  <2>4. ASSUME worker'[q] \in Using, used'[q] \in open'
        PROVE  socket'[slot'[q]] = used'[q] /\ ~cancelled'[q]
    <3>0. worker'[q] = worker[q] /\ open' = open \cup {sockets'}
      BY <1>6, Zenon DEF Rests, Opens
    <3>1. worker[q] \in Using /\ used[q] \in open
      BY <2>1, <2>3, <2>4, <3>0, Zenon
    <3>2. socket[slot[q]] = used[q] /\ ~cancelled[q]
      BY <1>1, <3>1, Zenon DEF UsedInv, Using
    <3>3. slot[q] # slot[r]
      <4>1. slot[q] # NoSlot
        BY <1>2, <3>1, PoolAssumption, Zenon
      <4> QED
        BY <1>6, <4>1, Zenon DEF IInv, SlotInv
    <3>4. socket'[slot[q]] = socket[slot[q]]
      BY <1>1, <1>2, <1>6, <3>1, <3>3, Zenon DEF Opens
    <3> QED
      BY <1>2, <2>1, <3>1, <3>2, <3>4, Zenon DEF Rests
  <2> QED
    BY <1>3, <2>3, <2>4, Zenon DEF UsedInv, Using
<1> QED
  BY <1>4, <1>5, <1>6, Zenon

\* The worker that moves.
LEMMA OwnUsed ==
    ASSUME IInv, TypeOK', NEW r \in Requests, CallerStep(r) \/ WorkerStep(r)
    PROVE  UsedInv(r)'
<1>1. /\ UsedInv(r) /\ SocketInv /\ CallerInv(r) /\ worker \in [Requests -> WorkerPhases]
      /\ used \in [Requests -> 0..MaxSockets] /\ sockets \in 0..MaxSockets
      /\ cancelled \in [Requests -> BOOLEAN] /\ sent \in [Requests -> BOOLEAN]
      /\ slot \in [Requests -> Slots \cup {NoSlot}] /\ socket \in [Slots -> 0..MaxSockets]
  BY Zenon DEF IInv, TypeOK
<1>2. ASSUME worker'[r] \notin Using, used' = used, sockets' = sockets PROVE UsedInv(r)'
  BY <1>1, <1>2, Zenon DEF UsedInv, Using
<1>3. ASSUME worker[r] \in Using, UNCHANGED <<socket, open, sockets, slot, used, cancelled>>,
             worker'[r] \in {"writing", "reading"} => sent'[r]
      PROVE  UsedInv(r)'
  BY <1>1, <1>3, Zenon DEF UsedInv, Using
<1>4. ASSUME NEW phase, worker' = [worker EXCEPT ![r] = phase] PROVE worker'[r] = phase
  BY <1>1, <1>4, Zenon
<1>5. Fail(r) => sockets' = sockets /\ worker'[r] = "failed"
  BY <1>4, Zenon DEF Fail, Invalidate, slotVars
<1>6. "failed" \notin Using
  BY Zenon DEF Using
<1>7. Fail(r) /\ UNCHANGED used => UsedInv(r)'
  BY <1>2, <1>5, <1>6, Zenon
<1>8. UNCHANGED slotVars => UNCHANGED <<socket, open, sockets>>
  BY Zenon DEF slotVars
<1>9. CASE CallerStep(r)
  <2>1. CASE Acquire(r) \/ Resume(r) \/ WaitFails(r)
    <3>1. worker[r] = "none" /\ UNCHANGED <<used, sockets>>
      BY <1>1, <2>1, Zenon DEF CallerInv, Acquire, Resume, WaitFails, slotVars, requestVars
    <3>2. worker'[r] \in {"none", "queued"}
      BY <1>4, <2>1, <3>1, Zenon DEF Acquire, Resume, WaitFails
    <3> QED
      BY <1>2, <3>1, <3>2, Zenon DEF Using
  <2>2. CASE CancelCaller(r)
    <3>1. UNCHANGED <<worker, used, slot, sent>>
      BY <2>2, Zenon DEF CancelCaller
    <3>2. CASE Started(r)
      <4>1. open' = open \ {socket[slot[r]]} /\ sockets' = sockets
        BY <2>2, <3>2, Zenon DEF CancelCaller, Invalidate
      <4> QED
        BY <1>1, <3>1, <4>1, Zenon DEF UsedInv
    <3>3. CASE ~Started(r)
      <4>1. sockets' = sockets /\ worker[r] \notin Using
        BY <2>2, <3>3, Zenon DEF CancelCaller, Started, slotVars, Using
      <4> QED
        BY <1>2, <3>1, <4>1, Zenon
    <3> QED
      BY <3>2, <3>3
  <2>3. CASE Report(r)
    BY <1>1, <2>3, Zenon DEF Report, requestVars, slotVars, UsedInv
  <2> QED
    BY <1>9, <2>1, <2>2, <2>3, Zenon DEF CallerStep
<1>10. CASE WorkerStep(r)
  <2>1. CASE Start(r) \/ Finish(r)
    <3>1. UNCHANGED <<used, sockets>>
      BY <2>1, Zenon DEF Start, Finish, slotVars, requestVars
    <3>2. worker'[r] \in {"started", "refused", "finished"}
      BY <1>4, <2>1, Zenon DEF Start, Finish
    <3> QED
      BY <1>2, <3>1, <3>2, Zenon DEF Using
  <2>2. CASE Dial(r)
    <3>1. slot[r] \in Slots
      BY <1>1, <2>2, Zenon DEF CallerInv, Dial
    <3>2. ASSUME ~Refused(r), used' = [used EXCEPT ![r] = socket[slot[r]]],
                 worker' = [worker EXCEPT ![r] = "dialled"], UNCHANGED slotVars,
                 UNCHANGED <<slot, cancelled>>
          PROVE  UsedInv(r)'
      <4>1. used'[r] = socket[slot[r]] /\ worker'[r] = "dialled" /\ UNCHANGED <<socket, open, sockets>>
        BY <1>1, <1>8, <3>2, Zenon
      <4> QED
        BY <1>1, <3>1, <3>2, <4>1, Zenon DEF UsedInv, SocketInv, Refused
    <3>3. ASSUME ~Refused(r), used' = [used EXCEPT ![r] = sockets'],
                 worker' = [worker EXCEPT ![r] = "dialling"],
                 socket' = [socket EXCEPT ![slot[r]] = sockets'],
                 UNCHANGED <<slot, cancelled>>
          PROVE  UsedInv(r)'
      <4>1. used'[r] = sockets' /\ worker'[r] = "dialling" /\ socket'[slot'[r]] = sockets'
        BY <1>1, <3>1, <3>3, Zenon
      <4>2. sockets' <= sockets'
        <5>1. sockets' \in 0..MaxSockets
          BY Zenon DEF TypeOK
        <5> QED
          BY <5>1
      <4> QED
        BY <3>3, <4>1, <4>2, Zenon DEF UsedInv, Refused
    <3> QED
      BY <1>7, <2>2, <3>2, <3>3, Zenon DEF Dial
  <2>3. CASE Handshake(r)
    <3>1. worker[r] \in Using /\ UNCHANGED <<used, slot, cancelled>>
      BY <2>3, Zenon DEF Handshake, requestVars, Using
    <3>2. CASE Invalidate(slot[r]) /\ worker' = [worker EXCEPT ![r] = "failed"]
      <4>1. sockets' = sockets /\ worker'[r] = "failed"
        BY <1>4, <3>2, Zenon DEF Invalidate
      <4> QED
        BY <1>2, <1>6, <3>1, <4>1, Zenon
    <3>3. CASE /\ worker' = [worker EXCEPT ![r] = "dialled"]
               /\ UNCHANGED <<shut, socket, open, sockets>>
      <4>1. worker'[r] = "dialled"
        BY <1>4, <3>3
      <4> QED
        BY <1>3, <3>1, <3>3, <4>1, Zenon
    <3> QED
      BY <2>3, <3>2, <3>3, Zenon DEF Handshake
  <2>4. CASE Check(r)
    <3>1. worker[r] \in Using /\ UNCHANGED <<used, slot, cancelled>>
      BY <2>4, Zenon DEF Check, requestVars, Using
    <3>2. ASSUME worker' = [worker EXCEPT ![r] = "checked"], UNCHANGED slotVars PROVE UsedInv(r)'
      <4>1. worker'[r] = "checked"
        BY <1>4, <3>2
      <4> QED
        BY <1>3, <1>8, <3>1, <3>2, <4>1, Zenon
    <3> QED
      BY <1>7, <2>4, <3>1, <3>2, Zenon DEF Check
  <2>5. CASE MarkSent(r)
    <3>1. worker[r] \in Using /\ UNCHANGED <<used, slot, cancelled>> /\ UNCHANGED slotVars
      BY <2>5, Zenon DEF MarkSent, Using
    <3>2. sent'[r]
      BY <1>1, <2>5, Zenon DEF MarkSent
    <3> QED
      BY <1>3, <1>8, <3>1, <3>2, Zenon
  <2>6. CASE Write(r)
    <3>1. worker[r] \in Using /\ UNCHANGED <<used, slot, cancelled>> /\ sent'[r]
      BY <1>1, <2>6, Zenon DEF Write, requestVars, Using, UsedInv
    <3>2. CASE UNCHANGED slotVars
      BY <1>3, <1>8, <3>1, <3>2, Zenon
    <3> QED
      BY <1>7, <2>6, <3>1, <3>2, Zenon DEF Write
  <2>7. CASE Read(r)
    <3>1. UNCHANGED used
      BY <2>7, Zenon DEF Read
    <3>2. CASE ~Fail(r)
      <4>1. worker'[r] \in {"succeeded", "rejected"} /\ UNCHANGED slotVars
        BY <1>4, <2>7, <3>2, Zenon DEF Read
      <4> QED
        BY <1>2, <1>8, <3>1, <4>1, Zenon DEF Using
    <3> QED
      BY <1>7, <3>1, <3>2
  <2> QED
    BY <1>10, <2>1, <2>2, <2>3, <2>4, <2>5, <2>6, <2>7, Zenon DEF WorkerStep
<1> QED
  BY <1>9, <1>10

LEMMA UsedStep ==
    ASSUME IInv, TypeOK', [Next]_vars, NEW q \in Requests
    PROVE  UsedInv(q)'
<1>1. ASSUME NEW r \in Requests, CallerStep(r) \/ WorkerStep(r), r # q PROVE UsedInv(q)'
  <2>1. Rests(q)
    BY <1>1, Others, Zenon DEF Rests
  <2>2. UNCHANGED slotVars \/ Shakes(r) => UNCHANGED <<socket, open, sockets>>
    BY Zenon DEF slotVars, Shakes
  <2> QED
    BY <1>1, <2>1, <2>2, Effects, RestsUsed, Zenon
<1>2. CASE UNCHANGED <<worker, used, cancelled, sent, slot>>
  <2>1. Rests(q)
    BY <1>2, Zenon DEF Rests
  <2>2. ASSUME NEW s \in Slots, CloseSlot(s) PROVE UsedInv(q)'
    <3>1. Drop(s)
      BY <2>2, Zenon DEF CloseSlot, Drop
    <3> QED
      BY <2>1, <3>1, RestsUsed, Zenon
  <2>3. CASE UNCHANGED <<socket, open, sockets>>
    BY <2>1, <2>3, RestsUsed, Zenon
  <2>4. (\E r \in Requests : CallerStep(r) \/ WorkerStep(r)) => UsedInv(q)'
    BY <1>1, OwnUsed, Zenon
  <2> QED
    BY <2>2, <2>3, <2>4, Zenon DEF Next, Close, Serve, vars, slotVars
<1>3. CASE \E r \in Requests : CallerStep(r) \/ WorkerStep(r)
  BY <1>1, <1>3, OwnUsed, Zenon
<1> QED
  BY <1>2, <1>3, Zenon DEF Next, Close, CloseSlot, Serve, vars, requestVars

LEMMA PipeFrame ==
    ASSUME IInv, NEW k \in 1..MaxSockets, sockets' = sockets, open' \subseteq open,
           inbox'[k] = inbox[k], replies'[k] = replies[k],
           k \in open' => \A x \in Requests : Reads(x, k)' <=> Reads(x, k)
    PROVE  PipeInv(k)'
<1>1. PipeInv(k)
  BY Zenon DEF IInv
<1>2. k > sockets' => inbox'[k] = <<>> /\ replies'[k] = <<>>
  BY <1>1, Zenon DEF PipeInv
<1>3. ASSUME k \in open'
      PROVE  /\ \A r \in Requests : Reads(r, k)' =>
                   \/ inbox'[k] = <<r>> /\ replies'[k] = <<>>
                   \/ inbox'[k] = <<>> /\ replies'[k] = <<r>>
             /\ (\A r \in Requests : ~Reads(r, k)') => inbox'[k] = <<>> /\ replies'[k] = <<>>
  <2>1. k \in open /\ \A x \in Requests : Reads(x, k)' <=> Reads(x, k)
    BY <1>3
  <2> HIDE DEF Reads
  <2> QED
    BY <1>1, <2>1, Zenon DEF PipeInv
<1> QED
  BY <1>2, <1>3, Zenon DEF PipeInv

\* A failure before the write leaves the socket to the next request, and one after
\* it closes the socket.
LEMMA FailPipe ==
    ASSUME IInv, NEW r \in Requests, Fail(r), NEW k \in 1..MaxSockets
    PROVE  /\ sockets' = sockets /\ open' \subseteq open
           /\ worker[r] \in {"writing", "reading"} => used[r] \notin open'
<1>1. worker[r] \in {"writing", "reading"} =>
          sent[r] /\ (used[r] \in open => socket[slot[r]] = used[r])
  BY Zenon DEF IInv, UsedInv
<1>2. CASE sent[r]
  <2>1. open' = open \ {socket[slot[r]]} /\ sockets' = sockets
    BY <1>2, Zenon DEF Fail, Invalidate
  <2> QED
    BY <1>1, <2>1, Zenon
<1>3. CASE ~sent[r]
  BY <1>1, <1>3, Zenon DEF Fail, slotVars
<1> QED
  BY <1>2, <1>3

LEMMA WritePipe ==
    ASSUME IInv, NEW r \in Requests, Write(r), NEW k \in 1..MaxSockets
    PROVE  PipeInv(k)'
<1>1. /\ worker \in [Requests -> WorkerPhases] /\ inbox \in [1..MaxSockets -> Seq(Requests)]
      /\ UNCHANGED <<used, replies>> /\ worker[r] = "writing"
  BY Zenon DEF IInv, TypeOK, Write, requestVars
<1>2. \E phase \in {"reading", "failed"} : worker' = [worker EXCEPT ![r] = phase]
  BY Zenon DEF Write, Fail
<1>3. ASSUME NEW x \in Requests, x # r \/ worker'[r] # "reading" \/ used[r] # k
      PROVE  Reads(x, k)' <=> Reads(x, k)
  BY <1>1, <1>2, <1>3, Zenon DEF Reads
<1>4. sockets' = sockets /\ open' \subseteq open
  BY FailPipe, Zenon DEF Write, slotVars
<1>5. CASE UNCHANGED inbox /\ Fail(r)
  <2>1. worker'[r] # "reading"
    BY <1>1, <1>5, Zenon DEF Fail
  <2>2. \A x \in Requests : Reads(x, k)' <=> Reads(x, k)
    BY <1>3, <2>1, Zenon
  <2> QED
    BY <1>1, <1>4, <1>5, <2>2, PipeFrame, Zenon
<1>6. CASE inbox' = [inbox EXCEPT ![used[r]] = Append(@, r)] /\ used[r] \in open
  <2>1. CASE used[r] # k
    <3>1. \A x \in Requests : Reads(x, k)' <=> Reads(x, k)
      BY <1>3, <2>1, Zenon
    <3>2. inbox'[k] = inbox[k]
      BY <1>1, <1>6, <2>1, Zenon
    <3> QED
      BY <1>1, <1>4, <3>1, <3>2, PipeFrame, Zenon
  <2>2. CASE used[r] = k
    <3>1. \A x \in Requests : ~Reads(x, k)
      BY <1>1, <1>6, <2>2, OneUser, Zenon DEF Reads, Using
    <3>2. inbox[k] = <<>> /\ replies[k] = <<>>
      BY <1>6, <2>2, <3>1, Zenon DEF IInv, PipeInv
    <3>3. inbox'[k] = <<r>> /\ replies'[k] = <<>>
      <4>1. inbox'[k] = Append(<<>>, r)
        BY <1>1, <1>6, <2>2, <3>2, Zenon
      <4>2. Append(<<>>, r) = <<r>>
        OBVIOUS
      <4> QED
        BY <1>1, <3>2, <4>1, <4>2
    <3>4. ~(k > sockets')
      <4>1. used[r] <= sockets /\ used[r] \in 0..MaxSockets /\ sockets \in 0..MaxSockets
        BY Zenon DEF IInv, UsedInv, TypeOK
      <4> QED
        BY <1>4, <2>2, <4>1
    <3>5. CASE Fail(r)
      <4>1. k \notin open'
        BY <1>1, <2>2, <3>5, FailPipe, Zenon
      <4> QED
        BY <3>4, <4>1, Zenon DEF PipeInv
    <3>6. CASE worker' = [worker EXCEPT ![r] = "reading"]
      <4>1. Reads(r, k)'
        BY <1>1, <2>2, <3>6, Zenon DEF Reads
      <4>2. \A x \in Requests : Reads(x, k)' => x = r
        BY <1>3, <3>1, Zenon
      <4> HIDE DEF Reads
      <4> QED
        BY <3>3, <3>4, <4>1, <4>2, Zenon DEF PipeInv
    <3> QED
      BY <1>6, <3>5, <3>6, Zenon DEF Write
  <2> QED
    BY <2>1, <2>2
<1> QED
  BY <1>5, <1>6, Zenon DEF Write

\* The response that a request reads is its own.
LEMMA OwnReply ==
    ASSUME IInv, NEW r \in Requests, worker[r] = "reading", used[r] \in open, replies[used[r]] # <<>>
    PROVE  inbox[used[r]] = <<>> /\ replies[used[r]] = <<r>>
<1>1. used[r] \in 1..MaxSockets
  BY Zenon DEF IInv, TypeOK
<1>2. PipeInv(used[r]) /\ Reads(r, used[r])
  BY <1>1, Zenon DEF IInv, Reads
<1> QED
  BY <1>1, <1>2, Zenon DEF PipeInv

LEMMA ReadPipe ==
    ASSUME IInv, NEW r \in Requests, Read(r), NEW k \in 1..MaxSockets
    PROVE  PipeInv(k)'
<1>1. /\ worker \in [Requests -> WorkerPhases] /\ replies \in [1..MaxSockets -> Seq(Requests)]
      /\ UNCHANGED <<used, inbox>> /\ worker[r] = "reading"
  BY Zenon DEF IInv, TypeOK, Read
<1>2. \E phase \in {"succeeded", "rejected", "failed"} : worker' = [worker EXCEPT ![r] = phase]
  BY Zenon DEF Read, Fail
<1>3. /\ \A x \in Requests : x # r => (Reads(x, k)' <=> Reads(x, k))
      /\ used[r] # k => (Reads(r, k)' <=> Reads(r, k))
      /\ ~Reads(r, k)'
  BY <1>1, <1>2, Zenon DEF Reads
<1>4. sockets' = sockets /\ open' \subseteq open
  BY FailPipe, Zenon DEF Read, slotVars
<1>5. CASE used[r] # k
  <2>1. replies'[k] = replies[k]
    BY <1>1, <1>5, Zenon DEF Read
  <2>2. \A x \in Requests : Reads(x, k)' <=> Reads(x, k)
    BY <1>3, <1>5, Zenon
  <2> QED
    BY <1>1, <1>4, <2>1, <2>2, PipeFrame, Zenon
<1>6. CASE used[r] = k
  <2>1. ~(k > sockets')
    <3>1. used[r] <= sockets /\ used[r] \in 0..MaxSockets /\ sockets \in 0..MaxSockets
      BY Zenon DEF IInv, UsedInv, TypeOK
    <3> QED
      BY <1>4, <1>6, <3>1
  <2>2. CASE Fail(r)
    <3>1. k \notin open'
      BY <1>1, <1>6, <2>2, FailPipe, Zenon
    <3> QED
      BY <2>1, <3>1, Zenon DEF PipeInv
  <2>3. CASE /\ used[r] \in open /\ replies[used[r]] # <<>>
             /\ replies' = [replies EXCEPT ![used[r]] = Tail(@)]
    <3>1. inbox[k] = <<>> /\ replies[k] = <<r>>
      BY <1>1, <1>6, <2>3, OwnReply, Zenon
    <3>2. inbox'[k] = <<>> /\ replies'[k] = <<>>
      <4>1. replies'[k] = Tail(<<r>>)
        BY <1>1, <1>6, <2>3, <3>1, Zenon
      <4>2. Tail(<<r>>) = <<>>
        OBVIOUS
      <4> QED
        BY <1>1, <3>1, <4>1, <4>2
    <3>3. \A x \in Requests : ~Reads(x, k)'
      <4>1. ASSUME NEW x \in Requests, Reads(x, k), x # r PROVE FALSE
        BY <1>1, <1>6, <2>3, <4>1, OneUser, Zenon DEF Reads, Using
      <4> QED
        BY <1>3, <4>1, Zenon
    <3> HIDE DEF Reads
    <3> QED
      BY <2>1, <3>2, <3>3, Zenon DEF PipeInv
  <2> QED
    BY <2>2, <2>3, Zenon DEF Read
<1> QED
  BY <1>5, <1>6

LEMMA OpensPipe ==
    ASSUME IInv, NEW r \in Requests, Opens(r), NEW k \in 1..MaxSockets
    PROVE  PipeInv(k)'
<1>1. /\ worker \in [Requests -> WorkerPhases] /\ used \in [Requests -> 0..MaxSockets]
      /\ sockets \in 0..MaxSockets /\ PipeInv(k) /\ open \subseteq 1..MaxSockets
      /\ \A x \in Requests : used[x] <= sockets
  BY Zenon DEF IInv, TypeOK, UsedInv
<1>2. UNCHANGED <<inbox, replies>> /\ sockets' = sockets + 1 /\ open' = open \cup {sockets'}
  BY Zenon DEF Opens
<1>3. worker'[r] = "dialling" /\ worker[r] = "started"
  BY <1>1, Zenon DEF Opens
<1>4. \A x \in Requests : x # r => worker'[x] = worker[x] /\ used'[x] = used[x]
  BY <1>1, Zenon DEF Opens
<1>5. \A x \in Requests : Reads(x, k)' <=> Reads(x, k)
  BY <1>3, <1>4, Zenon DEF Reads
<1>6. k > sockets' => k > sockets
  BY <1>1, <1>2
<1>7. k = sockets' => k > sockets /\ \A x \in Requests : used[x] # k
  BY <1>1, <1>2
<1>8. k > sockets => inbox[k] = <<>> /\ replies[k] = <<>>
  BY <1>1, Zenon DEF PipeInv
<1>9. CASE k = sockets'
  <2>1. inbox'[k] = <<>> /\ replies'[k] = <<>> /\ \A x \in Requests : ~Reads(x, k)'
    BY <1>2, <1>5, <1>7, <1>8, <1>9, Zenon DEF Reads
  <2> HIDE DEF Reads
  <2> QED
    BY <2>1, Zenon DEF PipeInv
<1>10. CASE k # sockets'
  <2>1. k \in open' <=> k \in open
    BY <1>2, <1>10, Zenon
  <2> HIDE DEF Reads
  <2> QED
    BY <1>1, <1>2, <1>5, <1>6, <1>8, <2>1, Zenon DEF PipeInv
<1> QED
  BY <1>9, <1>10

LEMMA ServePipe ==
    ASSUME IInv, NEW c \in 1..MaxSockets, Serve(c), NEW k \in 1..MaxSockets
    PROVE  PipeInv(k)'
<1>1. /\ inbox \in [1..MaxSockets -> Seq(Requests)] /\ replies \in [1..MaxSockets -> Seq(Requests)]
      /\ PipeInv(k) /\ UNCHANGED <<worker, used, open, sockets>>
  BY Zenon DEF IInv, TypeOK, Serve, requestVars, slotVars
<1>2. \A x \in Requests : Reads(x, k)' <=> Reads(x, k)
  BY <1>1, Zenon DEF Reads
<1>3. CASE c # k
  <2>1. inbox'[k] = inbox[k] /\ replies'[k] = replies[k]
    BY <1>1, <1>3, Zenon DEF Serve
  <2> QED
    BY <1>1, <1>2, <2>1, PipeFrame, Zenon
<1>4. CASE c = k
  <2>1. /\ inbox[k] # <<>> /\ inbox'[k] = Tail(inbox[k])
        /\ replies'[k] = Append(replies[k], Head(inbox[k]))
    BY <1>1, <1>4, Zenon DEF Serve
  <2>2. ~(k > sockets)
    BY <1>1, <2>1, Zenon DEF PipeInv
  <2>3. ASSUME k \in open
        PROVE  \E r \in Requests : Reads(r, k) /\ inbox[k] = <<r>> /\ replies[k] = <<>>
    <3> HIDE DEF Reads
    <3> QED
      BY <1>1, <2>1, <2>3, Zenon DEF PipeInv
  <2>4. CASE k \notin open
    BY <1>1, <2>2, <2>4, Zenon DEF PipeInv
  <2>5. CASE k \in open
    <3>1. PICK r \in Requests : Reads(r, k) /\ inbox[k] = <<r>> /\ replies[k] = <<>>
      BY <2>3, <2>5
    <3>2. inbox'[k] = <<>> /\ replies'[k] = <<r>>
      BY <2>1, <3>1
    <3>3. \A x \in Requests : Reads(x, k) => x = r
      BY <2>5, <3>1, OneUser, Zenon DEF Reads, Using
    <3> HIDE DEF Reads
    <3> QED
      BY <1>1, <1>2, <2>2, <3>1, <3>2, <3>3, Zenon DEF PipeInv
  <2> QED
    BY <2>4, <2>5
<1> QED
  BY <1>3, <1>4

LEMMA PipeStep ==
    ASSUME IInv, [Next]_vars, NEW k \in 1..MaxSockets
    PROVE  PipeInv(k)'
<1>1. worker \in [Requests -> WorkerPhases] /\ used \in [Requests -> 0..MaxSockets]
  BY Zenon DEF IInv, TypeOK
<1>2. ASSUME UNCHANGED <<worker, used, inbox, replies>>, sockets' = sockets, open' \subseteq open
      PROVE  PipeInv(k)'
  <2>1. \A x \in Requests : Reads(x, k)' <=> Reads(x, k)
    BY <1>2, Zenon DEF Reads
  <2> QED
    BY <1>2, <2>1, PipeFrame, Zenon
<1>3. ASSUME NEW r \in Requests, CallerStep(r) \/ WorkerStep(r), UNCHANGED <<inbox, replies>>,
             \/ worker[r] # "reading" /\ worker'[r] # "reading"
             \/ UNCHANGED <<worker, used>>
      PROVE  PipeInv(k)'
  <2>1. ASSUME NEW x \in Requests PROVE Reads(x, k)' <=> Reads(x, k)
    <3>1. CASE x = r
      BY <1>3, <3>1, Zenon DEF Reads
    <3>2. CASE x # r
      BY <1>3, <3>2, Others, Zenon DEF Reads
    <3> QED
      BY <3>1, <3>2
  <2>2. CASE sockets' = sockets /\ open' \subseteq open
    BY <1>3, <2>1, <2>2, PipeFrame, Zenon
  <2>3. UNCHANGED slotVars \/ Drop(slot[r]) \/ Shakes(r) => sockets' = sockets /\ open' \subseteq open
    BY Zenon DEF slotVars, Drop, Shakes
  <2> QED
    BY <1>3, <2>2, <2>3, Effects, OpensPipe, Zenon
<1>4. ASSUME NEW r \in Requests, CallerStep(r) PROVE PipeInv(k)'
  <2>1. UNCHANGED <<inbox, replies>>
    BY <1>4, Zenon DEF CallerStep, Acquire, Resume, WaitFails, CancelCaller, Report, server
  <2>2. CASE CancelCaller(r) \/ Report(r)
    BY <1>3, <1>4, <2>1, <2>2, Zenon DEF CancelCaller, Report, requestVars
  <2>3. CASE Acquire(r) \/ Resume(r) \/ WaitFails(r)
    <3>1. worker[r] = "none"
      BY <2>3, Zenon DEF Acquire, Resume, WaitFails, IInv, CallerInv
    <3>2. worker'[r] \in {"none", "queued"}
      BY <1>1, <2>3, <3>1, Zenon DEF Acquire, Resume, WaitFails
    <3> QED
      BY <1>3, <1>4, <2>1, <3>1, <3>2, Zenon
  <2> QED
    BY <1>4, <2>2, <2>3, Zenon DEF CallerStep
<1>5. ASSUME NEW r \in Requests, WorkerStep(r) PROVE PipeInv(k)'
  <2>1. CASE Write(r)
    BY <2>1, WritePipe
  <2>2. CASE Read(r)
    BY <2>2, ReadPipe
  <2>3. CASE Start(r) \/ Dial(r) \/ Handshake(r) \/ Check(r) \/ MarkSent(r) \/ Finish(r)
    <3>1. UNCHANGED <<inbox, replies>>
      BY <2>3, Zenon DEF Start, Dial, Handshake, Check, MarkSent, Finish, server
    <3>2. worker[r] # "reading"
      BY <2>3, Zenon DEF Start, Dial, Handshake, Check, MarkSent, Finish
    <3>3. worker'[r] # "reading"
      <4>1. \E phase \in WorkerPhases \ {"reading"} : worker' = [worker EXCEPT ![r] = phase]
        BY <2>3, Zenon DEF Start, Dial, Handshake, Check, MarkSent, Finish, Fail, WorkerPhases
      <4> QED
        BY <1>1, <4>1, Zenon
    <3> QED
      BY <1>3, <1>5, <3>1, <3>2, <3>3, Zenon
  <2> QED
    BY <1>5, <2>1, <2>2, <2>3, Zenon DEF WorkerStep
<1>6. CASE Close \/ UNCHANGED vars
  BY <1>2, <1>6, Zenon DEF Close, vars, slotVars, requestVars, server
<1>7. ASSUME NEW s \in Slots, CloseSlot(s) PROVE PipeInv(k)'
  BY <1>2, <1>7, Zenon DEF CloseSlot, requestVars, server
<1> QED
  BY <1>4, <1>5, <1>6, <1>7, ServePipe, Zenon DEF Next

LEMMA SentStep ==
    ASSUME IInv, [Next]_vars, NEW q \in Requests
    PROVE  SentInv(q)'
<1>1. /\ SentInv(q) /\ CallerInv(q) /\ UsedInv(q) /\ sent \in [Requests -> BOOLEAN]
      /\ answer \in [Requests -> Requests]
      /\ status \in [Requests -> {"none", "OK", "NOT_SENT", "UNKNOWN", "RESPONSE_RECEIVED"}]
  BY Zenon DEF IInv, TypeOK
<1>2. ASSUME written' = written, answer'[q] = answer[q], sent[q] => sent'[q],
             status'[q] = status[q] \/ status'[q] = "OK" \/ status'[q] = ExecutionStatus(q)
      PROVE  SentInv(q)'
  <2>1. ExecutionStatus(q) = "NOT_SENT" => ~sent[q]
    BY Zenon DEF ExecutionStatus
  <2>2. q \in written => sent[q]
    BY <1>1, Zenon DEF SentInv
  <2>3. status'[q] = "NOT_SENT" => q \notin written
    BY <1>1, <1>2, <2>1, <2>2, Zenon DEF SentInv
  <2> QED
    BY <1>1, <1>2, <2>3, Zenon DEF SentInv
<1>3. ASSUME NEW r \in Requests, CallerStep(r) PROVE SentInv(q)'
  <2>1. UNCHANGED <<written, answer, sent>>
    BY <1>3, Zenon
    DEF CallerStep, Acquire, Resume, WaitFails, CancelCaller, Report, requestVars
  <2>2. \/ UNCHANGED status
        \/ \E x \in {"OK", ExecutionStatus(r)} : status' = [status EXCEPT ![r] = x]
    BY <1>3, Zenon DEF CallerStep, Acquire, Resume, WaitFails, CancelCaller, Report
  <2>3. status'[q] = status[q] \/ status'[q] = "OK" \/ status'[q] = ExecutionStatus(q)
    BY <1>1, <2>2, Zenon
  <2> QED
    BY <1>2, <2>1, <2>3, Zenon
<1>4. ASSUME NEW r \in Requests, Write(r) PROVE SentInv(q)'
  <2>1. UNCHANGED <<answer, sent, status>> /\ worker[r] = "writing"
    BY <1>4, Zenon DEF Write, requestVars
  <2>2. CASE written' = written \/ q # r
    <3>1. q \in written' <=> q \in written
      BY <1>4, <2>2, Zenon DEF Write
    <3> QED
      BY <1>1, <2>1, <3>1, Zenon DEF SentInv
  <2>3. CASE q = r /\ used[r] \in open
    <3>1. sent[q] /\ ~cancelled[q]
      BY <1>1, <2>1, <2>3, Zenon DEF UsedInv
    <3>2. status[q] # "NOT_SENT"
      BY <1>1, <2>1, <2>3, <3>1, Zenon DEF CallerInv
    <3> QED
      BY <1>1, <2>1, <3>1, <3>2, Zenon DEF SentInv
  <2> QED
    BY <1>4, <2>2, <2>3, Zenon DEF Write
<1>5. ASSUME NEW r \in Requests, Read(r) PROVE SentInv(q)'
  <2>1. UNCHANGED <<written, sent, status>>
    BY <1>5, Zenon DEF Read
  <2>2. CASE UNCHANGED answer
    BY <1>2, <2>1, <2>2, Zenon
  <2>3. CASE /\ used[r] \in open /\ replies[used[r]] # <<>>
             /\ answer' = [answer EXCEPT ![r] = Head(replies[used[r]])]
    <3>1. replies[used[r]] = <<r>>
      BY <1>5, <2>3, OwnReply, Zenon DEF Read
    <3>2. Head(<<r>>) = r
      OBVIOUS
    <3>3. answer' = [answer EXCEPT ![r] = r] /\ answer[q] = q
      BY <1>1, <2>3, <3>1, <3>2, Zenon DEF SentInv
    <3>4. answer'[q] = answer[q]
      BY <1>1, <3>3, Zenon
    <3> QED
      BY <1>2, <2>1, <3>4, Zenon
  <2> QED
    BY <1>5, <2>2, <2>3, Zenon DEF Read
<1>6. ASSUME NEW r \in Requests, WorkerStep(r) PROVE SentInv(q)'
  <2>1. CASE MarkSent(r)
    <3>1. UNCHANGED <<written, answer, status>> /\ (sent[q] => sent'[q])
      BY <1>1, <2>1, Zenon DEF MarkSent
    <3> QED
      BY <1>2, <3>1, Zenon
  <2>2. CASE Start(r) \/ Dial(r) \/ Handshake(r) \/ Check(r) \/ Finish(r)
    <3>1. UNCHANGED <<written, answer, sent, status>>
      BY <2>2, Zenon DEF Start, Dial, Handshake, Check, Finish, requestVars
    <3> QED
      BY <1>2, <3>1, Zenon
  <2> QED
    BY <1>4, <1>5, <1>6, <2>1, <2>2, Zenon DEF WorkerStep
<1> QED
  BY <1>2, <1>3, <1>6, Zenon DEF Next, Close, CloseSlot, Serve, vars, requestVars

-----------------------------------------------------------------------------
(* The invariant holds. *)

LEMMA InitInv ==
    ASSUME Init
    PROVE  IInv
<1>1. 0 \in 0..MaxSockets /\ 0 <= 0
  BY PoolAssumption
<1>2. <<>> \in Seq(Requests) /\ ~\E i \in 1..Len(<<>>) : TRUE
  OBVIOUS
<1>3. TypeOK
  BY <1>1, <1>2, Zenon DEF Init, TypeOK, WorkerPhases
<1>4. QueueInv
  BY <1>2, Zenon DEF Init, QueueInv, Distinct, In
<1>5. SlotInv /\ SocketInv
  <2>1. \A r \in Requests : slot[r] = NoSlot
    BY Zenon DEF Init
  <2>2. SlotInv
    BY <2>1, PoolAssumption, Zenon DEF Init, SlotInv
  <2>3. SocketInv
    BY <1>1, Zenon DEF Init, SocketInv
  <2> QED
    BY <2>2, <2>3
<1>6. ASSUME NEW r \in Requests PROVE CallerInv(r) /\ UsedInv(r) /\ SentInv(r)
  BY <1>1, Zenon DEF Init, CallerInv, UsedInv, SentInv
<1>7. ASSUME NEW k \in 1..MaxSockets PROVE PipeInv(k)
  BY Zenon DEF Init, PipeInv
<1> QED
  BY <1>3, <1>4, <1>5, <1>6, <1>7, Zenon DEF IInv

LEMMA StepInv ==
    ASSUME IInv, [Next]_vars
    PROVE  IInv'
<1>1. TypeOK'
  BY TypeStep
<1>2. QueueInv' /\ SlotInv' /\ SocketInv'
  BY QueueStep, SlotStep, SocketStep
<1>3. \A r \in Requests : CallerInv(r)' /\ UsedInv(r)' /\ SentInv(r)'
  BY <1>1, CallerStepInv, UsedStep, SentStep
<1>4. \A k \in 1..MaxSockets : PipeInv(k)'
  BY PipeStep
<1> QED
  BY <1>1, <1>2, <1>3, <1>4, Zenon DEF IInv

LEMMA InvHolds == Spec => []IInv
BY InitInv, StepInv, PTL DEF Spec

\* What a caller is told to be NOT_SENT has not reached the network and never will,
\* although its worker may still be running (RequestState.failure, blocking and
\* command): it is safe for the buffered writer to send it again.
THEOREM NotSentIsSafe == Spec => []NotSentIsTrue
<1>1. IInv => NotSentIsTrue
  BY Zenon DEF IInv, SentInv, NotSentIsTrue
<1> QED
  BY <1>1, InvHolds, PTL

FS == INSTANCE FiniteSetTheorems

LEMMA FewHolders ==
    ASSUME NEW S, \A x, y \in S : x = y
    PROVE  Cardinality(S) <= 1
<1>1. FS!Cardinality(S) = Cardinality(S)
  BY Zenon DEF FS!Cardinality, Cardinality, FS!IsFiniteSet, IsFiniteSet
<1>2. CASE S = {}
  BY <1>1, <1>2, FS!FS_EmptySet, SMTT(30)
<1>3. ASSUME NEW x \in S PROVE Cardinality(S) <= 1
  <2>1. S = {x}
    BY Zenon
  <2>2. FS!Cardinality({x}) = 1
    BY FS!FS_Singleton, Zenon
  <2> QED
    BY <1>1, <2>1, <2>2, SMTT(30)
<1> QED
  BY <1>2, <1>3

\* No slot is lost or used twice, the open sockets are those of the slots, and a
\* request reads its own response, wherever timeouts, cancellation and close()
\* meet the workers (channel, blocking, dial, invalidate and command).
THEOREM ConnectionsStayMatched == Spec => []ConnectionsExact
<1>1. ASSUME IInv PROVE ConnectionsExact
  <2>1. OwnResponse /\ TypeOK
    BY <1>1, Zenon DEF IInv, SentInv, OwnResponse
  <2>2. ASSUME NEW s \in Slots
        PROVE  /\ Cardinality(Holders(s)) <= 1
               /\ s \in available => Holders(s) = {}
               /\ ~closed => s \in available \/ Holders(s) # {}
    <3>1. \A x, y \in Holders(s) : x = y
      BY <1>1, PoolAssumption, ZenonT(30) DEF IInv, SlotInv, Holders
    <3>2. s \in available => Holders(s) = {}
      BY <1>1, ZenonT(30) DEF IInv, SlotInv, Holders
    <3>3. ~closed => s \in available \/ Holders(s) # {}
      BY <1>1, Zenon DEF IInv, SlotInv, Holders
    <3> QED
      BY <3>1, <3>2, <3>3, FewHolders, ZenonT(30)
  <2>3. open \subseteq Range(socket)
    <3>1. DOMAIN socket = Slots /\ \A k \in open : \E s \in Slots : socket[s] = k
      BY <1>1, ZenonT(30) DEF IInv, SocketInv, TypeOK
    <3> QED
      BY <3>1, Zenon DEF Range
  <2>4. \A s \in shut : socket[s] = 0
    BY <1>1, Zenon DEF IInv, SocketInv
  <2> QED
    BY <2>1, <2>2, <2>3, <2>4, ZenonT(30) DEF ConnectionsExact, SlotsConserved
<1> QED
  BY <1>1, InvHolds, PTL
=============================================================================
