-------------------------- MODULE TimestampsProofs --------------------------
(* Proofs about Timestamps, for every page size and every width of the integers. *)
EXTENDS Timestamps, FiniteSetTheorems, SequenceTheorems, TLAPS

\* While the candidates of a page are scanned, an occupied position of its window
\* is on the page or behind the last row of a full page.
PageComplete ==
    pc = "scan" =>
        \A t \in occupied : candidate <= t /\ t < end =>
            t \in page \/ (Cardinality(page) = Limit /\ \A p \in page : p < t)

\* Where the candidate stands.
Position ==
    /\ pc = "start" => allocated = <<>> /\ start = 0 /\ candidate = 0
    /\ pc \in {"page", "scan", "done"} => last < start /\ start <= candidate
    /\ start <= candidate
    /\ \A i \in DOMAIN allocated : allocated[i] < candidate

\* The inductive invariant.
IInv == TypeOK /\ Position /\ PageComplete /\ FirstFree /\ Increasing

\* The width of a page is a positive number.
LEMMA WidthPositive ==
    ASSUME TypeOK PROVE Width \in Nat \ {0}
<1>1. IsFiniteSet(1..MaxInt)
  BY FS_Interval, TimestampsAssumption
<1>2. IsFiniteSet(reserved)
  BY <1>1, FS_Subset, Zenon DEF TypeOK
<1>3. Cardinality(reserved) \in Nat
  BY <1>2, FS_CardinalityType, Zenon
<1>4. count \in Int /\ Len(allocated) \in Nat
  BY TimestampsAssumption DEF TypeOK
<1>5. QED
  BY <1>3, <1>4, TimestampsAssumption DEF Width

\* The window of a page ends within the integers.
LEMMA EndInRange ==
    ASSUME NEW from \in 0..MaxInt, NEW span \in Nat \ {0}
    PROVE  End(from, span) \in 0..MaxInt
BY TimestampsAssumption DEF End

LEMMA InitIInv ==
    ASSUME Init PROVE IInv
BY TimestampsAssumption DEF Init, IInv, TypeOK, Position, PageComplete, FirstFree, Increasing

LEMMA StartIInv ==
    ASSUME IInv, Start PROVE IInv'
<1> USE TimestampsAssumption DEF Start, IInv, inputs
<1>1. CASE last >= MaxInt - 1 /\ pc' = "exhausted" /\ UNCHANGED <<start, candidate>>
  <2>1. TypeOK'
    BY <1>1, Zenon DEF TypeOK
  <2>2. Position' /\ PageComplete'
    BY <1>1, Zenon DEF Position, PageComplete
  <2>3. FirstFree' /\ Increasing'
    BY <1>1, Zenon DEF FirstFree, Increasing, Free
  <2> QED
    BY <2>1, <2>2, <2>3, Zenon
<1>2. CASE last < MaxInt - 1 /\ pc' = "page"
  <2>1. PICK old \in 0..MaxInt, wall \in 0..MaxInt :
            start' = FirstCandidate(NextTimestamp(old, wall), last)
    BY <1>2, Zenon
  <2>2. NextTimestamp(old, wall) \in Int /\ NextTimestamp(old, wall) <= MaxInt
    BY DEF NextTimestamp
  <2>3. start' \in 1..MaxInt /\ last < start' /\ candidate' = start'
    BY <1>2, <2>1, <2>2 DEF FirstCandidate, TypeOK
  <2>4. allocated' = <<>> /\ allocated = <<>>
    BY Zenon DEF Position
  <2>5. TypeOK'
    BY <1>2, <2>3 DEF TypeOK
  <2>6. Position' /\ PageComplete'
    BY <1>2, <2>3, <2>4 DEF Position, PageComplete, TypeOK
  <2>7. FirstFree' /\ Increasing'
    BY <2>3, <2>4 DEF FirstFree, Increasing, Free
  <2> QED
    BY <2>5, <2>6, <2>7, Zenon
<1> QED
  BY <1>1, <1>2, Zenon

LEMMA FetchPageIInv ==
    ASSUME IInv, FetchPage PROVE IInv'
<1> USE TimestampsAssumption DEF FetchPage, IInv, inputs
<1> DEFINE window == {o \in occupied : candidate <= o /\ o < end'}
<1>1. end' \in 0..MaxInt
  BY WidthPositive, EndInRange, Zenon DEF TypeOK
<1>2. page' \subseteq window /\ IsPage(page', window)
  BY Zenon
<1>3. TypeOK'
  BY <1>1, <1>2, Zenon DEF TypeOK
<1>4. Position' /\ FirstFree' /\ Increasing'
  BY Zenon DEF Position, FirstFree, Increasing, Free
<1>5. PageComplete'
  <2> SUFFICES ASSUME NEW t \in occupied, candidate <= t, t < end', t \notin page'
               PROVE  Cardinality(page') = Limit /\ \A p \in page' : p < t
    BY Zenon DEF PageComplete
  <2>1. t \in window
    BY Zenon
  <2>2. Cardinality(page') = Limit
    BY <1>2, <2>1, Zenon DEF IsPage
  <2>3. ASSUME NEW p \in page' PROVE p < t
    BY <1>2, <2>1, <2>3 DEF IsPage, TypeOK
  <2> QED
    BY <2>2, <2>3, Zenon
<1> QED
  BY <1>3, <1>4, <1>5, Zenon

\* The candidate under inspection is occupied exactly when it is on the page.
LEMMA OnPage ==
    ASSUME TypeOK, PageComplete, pc = "scan", candidate < end, ~PageExhausted
    PROVE  candidate \in occupied <=> candidate \in page
BY DEF TypeOK, PageComplete, PageExhausted

LEMMA ScanIInv ==
    ASSUME IInv, Scan PROVE IInv'
<1> USE TimestampsAssumption DEF Scan, IInv, inputs
<1>1. candidate \in 1..MaxInt /\ candidate < MaxInt /\ candidate' = candidate + 1
      /\ last < start /\ start <= candidate /\ last \in Nat
  BY DEF TypeOK, Position
<1>2. candidate \in occupied <=> candidate \in page
  BY OnPage, Zenon
<1>3. PageComplete'
  BY <1>1 DEF PageComplete, TypeOK
<1>4. CASE candidate \in reserved \cup page
  <2>1. allocated' = allocated
    BY <1>4, Zenon
  <2>2. candidate \notin Free
    BY <1>2, <1>4, Zenon DEF Free
  <2>3. TypeOK' /\ Increasing'
    BY <1>1, <2>1 DEF TypeOK, Increasing
  <2>4. Position'
    BY <1>1, <2>1 DEF Position, TypeOK
  <2>5. FirstFree'
    BY <1>1, <2>1, <2>2 DEF FirstFree, Free, TypeOK
  <2> QED
    BY <1>3, <2>3, <2>4, <2>5, Zenon
<1>5. CASE candidate \notin reserved \cup page
  <2>1. allocated' = Append(allocated, candidate)
    BY <1>5, Zenon
  <2>2. candidate \in Free
    BY <1>1, <1>2, <1>5, Zenon DEF Free
  <2>3. /\ DOMAIN allocated' = 1..(Len(allocated) + 1)
        /\ DOMAIN allocated = 1..Len(allocated)
        /\ Len(allocated) \in Nat
        /\ allocated'[Len(allocated) + 1] = candidate
        /\ \A i \in DOMAIN allocated : allocated'[i] = allocated[i]
    BY <1>1, <2>1 DEF TypeOK
  <2>4. TypeOK'
    <3>1. allocated' \in Seq(1..MaxInt)
      <4>1. allocated \in Seq(1..MaxInt) /\ candidate \in 1..MaxInt
        BY <1>1, Zenon DEF TypeOK
      <4> HIDE DEF Scan, IInv
      <4> QED
        BY <2>1, <4>1, AppendProperties, Zenon
    <3> QED
      BY <1>1, <3>1 DEF TypeOK
  <2>5. Position'
    BY <1>1, <2>3 DEF Position, TypeOK
  <2>6. FirstFree'
    <3>1. ASSUME NEW t \in 1..MaxInt
          PROVE  (\E i \in DOMAIN allocated' : allocated'[i] = t) <=>
                    ((\E i \in DOMAIN allocated : allocated[i] = t) \/ t = candidate)
      BY <2>3
    <3>2. Free' = Free
      BY Zenon DEF Free
    <3>3. ASSUME NEW t \in 1..MaxInt
          PROVE  (\E i \in DOMAIN allocated' : allocated'[i] = t) <=>
                    (start <= t /\ t < candidate + 1 /\ t \in Free)
      <4>1. start \in Int /\ candidate \in Int
        BY DEF TypeOK
      <4>2. (\E i \in DOMAIN allocated : allocated[i] = t) <=>
                (start <= t /\ t < candidate /\ t \in Free)
        BY Zenon DEF FirstFree
      <4>3. t < candidate + 1 <=> t < candidate \/ t = candidate
        BY <4>1
      <4> HIDE DEF Scan, IInv
      <4> QED
        BY <1>1, <2>2, <3>1, <4>2, <4>3, Zenon
    <3> QED
      BY <1>1, <3>2, <3>3, ZenonT(30) DEF FirstFree
  <2>7. Increasing'
    <3>1. \A i \in DOMAIN allocated : allocated[i] < candidate
      BY Zenon DEF Position
    <3>2. \A i \in DOMAIN allocated : allocated[i] \in Int
      BY DEF TypeOK
    <3>3. \A i \in DOMAIN allocated' : last < allocated'[i]
      <4>1. last < candidate
        BY <1>1 DEF TypeOK
      <4> HIDE DEF Scan, IInv
      <4>2. \A i \in DOMAIN allocated : last < allocated[i]
        BY Zenon DEF Increasing, IInv
      <4> QED
        BY <2>3, <4>1, <4>2
    <3>4. ASSUME NEW i \in DOMAIN allocated', NEW j \in DOMAIN allocated', i < j
          PROVE  allocated'[i] < allocated'[j]
      BY <2>3, <3>1, <3>4 DEF Increasing
    <3> QED
      BY <3>3, <3>4, Zenon DEF Increasing
  <2> QED
    BY <1>3, <2>4, <2>5, <2>6, <2>7, Zenon
<1> QED
  BY <1>4, <1>5, Zenon

LEMMA EndPageIInv ==
    ASSUME IInv, EndPage PROVE IInv'
BY Zenon DEF EndPage, IInv, inputs, TypeOK, Position, PageComplete, FirstFree, Increasing, Free

\* The invariant holds in every state.
LEMMA Invariance ==
    Spec => []IInv
<1>1. Init => IInv
  BY InitIInv, Zenon
<1>2. IInv /\ [Next]_vars => IInv'
  <2> SUFFICES ASSUME IInv, [Next]_vars PROVE IInv'
    BY Zenon
  <2>1. CASE Start
    BY <2>1, StartIInv, Zenon
  <2>2. CASE FetchPage
    BY <2>2, FetchPageIInv, Zenon
  <2>3. CASE Scan
    BY <2>3, ScanIInv, Zenon
  <2>4. CASE EndPage
    BY <2>4, EndPageIInv, Zenon
  <2>5. CASE UNCHANGED vars
    BY <2>5, Zenon DEF vars, inputs, IInv, TypeOK, Position, PageComplete, FirstFree, Increasing, Free
  <2> QED
    BY <2>1, <2>2, <2>3, <2>4, <2>5, Zenon DEF Next
<1> QED
  BY <1>1, <1>2, PTL DEF Spec

\* The state has its types; no candidate leaves the integers.
THEOREM AllocationTyped ==
    Spec => []TypeOK
<1>1. IInv => TypeOK
  BY Zenon DEF IInv
<1> QED
  BY <1>1, Invariance, PTL

\* For every page size: the timestamps allocated are exactly the first free ones, in
\* increasing order and behind the persisted clock.
THEOREM AllocatesFirstFree ==
    Spec => []AllocationExact
<1>1. IInv => AllocationExact
  BY Zenon DEF IInv, AllocationExact
<1> QED
  BY <1>1, Invariance, PTL

\* The space is exhausted at the clock's limit, or when the candidates have reached
\* the end of the integers with timestamps still missing.
ExhaustedAtEnd ==
    pc = "exhausted" => last >= MaxInt - 1 \/ (candidate >= MaxInt /\ Len(allocated) < count)

LEMMA ExhaustedInvariance ==
    Spec => []ExhaustedAtEnd
<1>1. Init => ExhaustedAtEnd
  BY Zenon DEF Init, ExhaustedAtEnd
<1>2. IInv /\ ExhaustedAtEnd /\ [Next]_vars => ExhaustedAtEnd'
  <2> SUFFICES ASSUME IInv, ExhaustedAtEnd, [Next]_vars PROVE ExhaustedAtEnd'
    BY Zenon
  <2>1. CASE Start \/ FetchPage \/ Scan
    BY <2>1, Zenon DEF Start, FetchPage, Scan, ExhaustedAtEnd, inputs
  <2>2. CASE EndPage
    <3>1. Len(allocated) \in Nat /\ count \in Nat
      BY TimestampsAssumption DEF IInv, TypeOK
    <3> QED
      BY <2>2, <3>1 DEF EndPage, ExhaustedAtEnd, inputs
  <2>3. CASE UNCHANGED vars
    BY <2>3, Zenon DEF ExhaustedAtEnd, vars, inputs
  <2> QED
    BY <2>1, <2>2, <2>3, Zenon DEF Next
<1> QED
  BY <1>1, <1>2, Invariance, PTL DEF Spec

\* A sequence has at most as many elements as its length.
LEMMA FewElements ==
    ASSUME NEW S, NEW seq \in Seq(S), NEW T,
           \A t \in T : \E i \in DOMAIN seq : seq[i] = t,
           \A i \in DOMAIN seq : seq[i] \in T
    PROVE  Cardinality(T) <= Len(seq)
<1>1. Len(seq) \in Nat /\ DOMAIN seq = 1..Len(seq)
  OBVIOUS
<1>2. IsFiniteSet(1..Len(seq)) /\ Cardinality(1..Len(seq)) = Len(seq)
  <2>1. 1 \in Int /\ Len(seq) \in Int
    BY <1>1
  <2>2. /\ IsFiniteSet(1..Len(seq))
        /\ Cardinality(1..Len(seq)) = IF 1 > Len(seq) THEN 0 ELSE Len(seq) - 1 + 1
    BY <2>1, FS_Interval, Zenon
  <2>3. (IF 1 > Len(seq) THEN 0 ELSE Len(seq) - 1 + 1) = Len(seq)
    BY <1>1
  <2> QED
    BY <2>2, <2>3
<1>3. seq \in Surjection(1..Len(seq), T)
  BY <1>1 DEF Surjection
<1>4. Cardinality(T) <= Cardinality(1..Len(seq))
  BY <1>2, <1>3, FS_Surjection, ZenonT(30)
<1> QED
  BY <1>2, <1>4, Zenon

\* For every page size: the allocation gives up only when fewer free timestamps than
\* it needs are left between its first candidate and the end of the integers.
THEOREM ExhaustionIsReal ==
    Spec => []ExhaustedIsTrue
<1>1. ASSUME IInv, ExhaustedAtEnd PROVE ExhaustedIsTrue
  <2> SUFFICES ASSUME pc = "exhausted", candidate >= MaxInt, Len(allocated) < count
               PROVE  Cardinality({t \in Free : start <= t /\ t < MaxInt}) < count
    BY <1>1, Zenon DEF ExhaustedAtEnd, ExhaustedIsTrue
  <2> DEFINE T == {t \in Free : start <= t /\ t < MaxInt}
  <2>1. /\ candidate = MaxInt /\ allocated \in Seq(1..MaxInt)
        /\ count \in Nat /\ Len(allocated) \in Nat
    BY <1>1, TimestampsAssumption DEF IInv, TypeOK
  <2>2. ASSUME NEW t \in 1..MaxInt
        PROVE  (\E i \in DOMAIN allocated : allocated[i] = t) <=> t \in T
    BY <1>1, <2>1, Zenon DEF IInv, FirstFree
  <2>3. \A t \in T : \E i \in DOMAIN allocated : allocated[i] = t
    BY <2>2, Zenon DEF Free
  <2>4. \A i \in DOMAIN allocated : allocated[i] \in T
    <3>1. \A i \in DOMAIN allocated : allocated[i] \in 1..MaxInt
      BY <2>1, LenProperties, ElementOfSeq, Zenon
    <3> QED
      BY <2>2, <3>1, Zenon
  <2>5. Cardinality(T) <= Len(allocated)
    <3> HIDE DEF T
    <3> QED
      BY <2>1, <2>3, <2>4, FewElements, Zenon
  <2>6. T \subseteq 1..MaxInt /\ MaxInt \in Int
    BY TimestampsAssumption DEF Free
  <2>7. Cardinality(T) \in Nat
    <3>1. IsFiniteSet(1..MaxInt)
      BY <2>6, FS_Interval
    <3>2. IsFiniteSet(T)
      BY <2>6, <3>1, FS_Subset, Zenon
    <3> QED
      BY <3>2, FS_CardinalityType, Zenon
  <2>8. Cardinality(T) < count
    <3> HIDE DEF T
    <3> QED
      BY <2>1, <2>5, <2>7
  <2> QED
    BY <2>8, Zenon
<1> QED
  BY <1>1, Invariance, ExhaustedInvariance, PTL
=============================================================================
