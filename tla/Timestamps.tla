----------------------------- MODULE Timestamps -----------------------------
(***************************************************************************)
(* Allocation of automatic timestamps for one metric of a batch            *)
(* (allocateBatchTimestampsWithClocks).                                    *)
(*                                                                         *)
(* The transaction holds the metric's lock, so the occupied positions do   *)
(* not change.  They are read in pages of at most Limit rows, and a page   *)
(* that is full may hide further rows behind its last one.                 *)
(***************************************************************************)
EXTENDS Integers, FiniteSets, Sequences

CONSTANTS
    MaxInt,         \* math.MaxInt64
    Limit,          \* rows of a page
    Span,           \* least width of a page
    MaxCount        \* bound on the timestamps of a batch

ASSUME TimestampsAssumption ==
    /\ MaxInt \in Nat \ {0} /\ Limit \in Nat \ {0} /\ Span \in Nat \ {0}
    /\ MaxCount \in Nat \ {0}

VARIABLES
    occupied,       \* timestamps of the metric's events
    reserved,       \* explicit timestamps of the same batch
    count,          \* timestamps to allocate
    last,           \* the persisted clock of the metric
    pc,
    start,          \* first candidate
    candidate, end, page, allocated

inputs == <<occupied, reserved, count, last>>
vars == <<inputs, pc, start, candidate, end, page, allocated>>

-----------------------------------------------------------------------------
Init ==
    /\ occupied \in SUBSET (1..MaxInt)
    /\ reserved \in SUBSET (1..MaxInt)
    /\ count \in 1..MaxCount
    /\ last \in 0..MaxInt
    /\ pc = "start"
    /\ start = 0 /\ candidate = 0 /\ end = 0
    /\ page = {}
    /\ allocated = <<>>

\* nextTimestamp: the wall clock, or one more than the previous value, which wraps.
NextTimestamp(old, wall) ==
    IF wall > old THEN wall ELSE IF old = MaxInt THEN -MaxInt - 1 ELSE old + 1

\* Defective variant: the candidate is not moved behind the persisted clock.
FirstCandidateUnchecked(now, l) == IF now <= 0 THEN 1 ELSE now
FirstCandidate(now, l) == IF now <= l THEN l + 1 ELSE now

Start ==
    /\ pc = "start"
    /\ \/ last >= MaxInt - 1 /\ pc' = "exhausted" /\ UNCHANGED <<start, candidate>>
       \/ /\ last < MaxInt - 1
          /\ \E old \in 0..MaxInt, wall \in 0..MaxInt :
                start' = FirstCandidate(NextTimestamp(old, wall), last)
          /\ candidate' = start'
          /\ pc' = "page"
    /\ UNCHANGED <<inputs, end, page, allocated>>

\* Defective variant: the page of a candidate near the limit is empty.
EndStuck(from, span) == IF span < MaxInt - from THEN from + span ELSE from
End(from, span) == IF span < MaxInt - from THEN from + span ELSE MaxInt

Width ==
    LET needed == count - Len(allocated) + Cardinality(reserved)
    IN IF needed > Span THEN needed ELSE Span

\* ORDER BY ts LIMIT $4: the first Limit rows of the window, or all of them.
IsPage(rows, window) ==
    /\ rows \subseteq window
    /\ Cardinality(rows) <= Limit
    /\ rows # window => Cardinality(rows) = Limit
    /\ \A r \in rows, w \in window : w <= r => w \in rows

FetchPage ==
    /\ pc = "page"
    /\ end' = End(candidate, Width)
    /\ \E rows \in SUBSET {o \in occupied : candidate <= o /\ o < end'} :
          /\ IsPage(rows, {o \in occupied : candidate <= o /\ o < end'})
          /\ page' = rows
    /\ pc' = "scan"
    /\ UNCHANGED <<inputs, start, candidate, allocated>>

\* Defective variant: a full page is taken for the whole window.
PageExhaustedNever == FALSE
\* "A full page may have adjacent occupied positions beyond its end."
PageExhausted == Cardinality(page) = Limit /\ \A p \in page : p < candidate

\* One turn of the loop over the candidates ...
Scan ==
    /\ pc = "scan"
    /\ Len(allocated) < count /\ candidate < end /\ ~PageExhausted
    /\ allocated' = IF candidate \in reserved \cup page THEN allocated
                    ELSE Append(allocated, candidate)
    /\ candidate' = candidate + 1
    /\ UNCHANGED <<inputs, pc, start, end, page>>

\* Defective variant: a page without enough free positions ends the search.
EndPageGivesUp ==
    /\ pc = "scan"
    /\ Len(allocated) >= count \/ candidate >= end \/ PageExhausted
    /\ pc' = IF Len(allocated) >= count THEN "done" ELSE "exhausted"
    /\ UNCHANGED <<inputs, start, candidate, end, page, allocated>>

\* ... and its end.
EndPage ==
    /\ pc = "scan"
    /\ Len(allocated) >= count \/ candidate >= end \/ PageExhausted
    /\ pc' = IF Len(allocated) >= count THEN "done"
             ELSE IF candidate >= MaxInt THEN "exhausted" ELSE "page"
    /\ UNCHANGED <<inputs, start, candidate, end, page, allocated>>

Next == Start \/ FetchPage \/ Scan \/ EndPage
Spec == Init /\ [][Next]_vars
LiveSpec == Spec /\ WF_vars(Next)

-----------------------------------------------------------------------------
(* Correctness. *)

\* Types of the state.
TypeOK ==
    /\ occupied \subseteq 1..MaxInt /\ reserved \subseteq 1..MaxInt
    /\ count \in 1..MaxCount /\ last \in 0..MaxInt
    /\ pc \in {"start", "page", "scan", "done", "exhausted"}
    /\ start \in 0..MaxInt /\ candidate \in 0..MaxInt /\ end \in 0..MaxInt
    /\ page \subseteq occupied
    /\ allocated \in Seq(1..MaxInt)

Free == {t \in 1..MaxInt : t \notin occupied /\ t \notin reserved}

\* The timestamps allocated so far are exactly the free ones from the first
\* candidate on: none belongs to an event or to an explicit write of the batch,
\* and none is skipped, wherever the pages end.
FirstFree ==
    \A t \in 1..MaxInt :
        (\E i \in DOMAIN allocated : allocated[i] = t) <=>
            (start <= t /\ t < candidate /\ t \in Free)

\* They increase, behind the persisted clock, which therefore never goes back
\* when the last of them becomes the new clock.
Increasing ==
    /\ \A i \in DOMAIN allocated : last < allocated[i]
    /\ \A i, j \in DOMAIN allocated : i < j => allocated[i] < allocated[j]

\* The timestamps are the first free ones, in increasing order.
AllocationExact == FirstFree /\ Increasing

\* The space is reported exhausted only when too few free timestamps are left.
ExhaustedIsTrue ==
    pc = "exhausted" =>
        \/ last >= MaxInt - 1
        \/ Cardinality({t \in Free : start <= t /\ t < MaxInt}) < count

\* The allocation ends (every page moves the candidate).
Terminates == <>(pc \in {"done", "exhausted"})
=============================================================================
