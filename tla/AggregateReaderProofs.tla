----------------------- MODULE AggregateReaderProofs ------------------------
(***************************************************************************)
(* For every set of reads, events and workers and for every bound: a read  *)
(* that shares a statement is answered as if it were alone, and no read    *)
(* fails because of another one.                                           *)
(***************************************************************************)
EXTENDS AggregateReader, TLAPS

Distinct(seq) == \A i, j \in DOMAIN seq : seq[i] = seq[j] => i = j

\* Where a read is: in the queue, in the wave, or with a worker.
Queued(r) == r \in Range(queue)
Collected(r) == r \in Range(wave)
Grouped(w, r) == \E rs \in groups[w] : r \in rs
With(w, r) == Grouped(w, r) \/ r \in alone[w]
Pending(r) == Queued(r) \/ Collected(r) \/ \E w \in Workers : With(w, r)

\* A read is in one place until it is answered.
PlaceInv(r) ==
    /\ Queued(r) => ~Collected(r) /\ \A w \in Workers : ~With(w, r)
    /\ Collected(r) => \A w \in Workers : ~With(w, r)
    /\ \A w \in Workers : r \in alone[w] => ~Grouped(w, r)
    /\ \A v, w \in Workers : With(v, r) /\ With(w, r) => v = w
    /\ Pending(r) => answers[r] = <<>>
    /\ caller[r] \in {"new", "offering"} => ~Pending(r) /\ answers[r] = <<>>

\* The reads of a group have one metric and one anchor key, and no two groups of a
\* worker share a read.
GroupInv(w) ==
    /\ \A rs \in groups[w] : \A r, q \in rs : Key(r) = Key(q)
    /\ \A rs, ss \in groups[w] : rs # ss => rs \cap ss = {}

\* An answer tells what it should.
Right(r, a) ==
    /\ a.err = "none" => \E k \in since[r]..Len(hist) : a.row = Direct(r, hist[k])
    /\ a.err = "own" => ~Live(r)
    /\ a.err \in {"closed", "aborted"} => closing
    /\ a.err = "overflow" => \E k \in since[r]..Len(hist) : Overflows(Direct(r, hist[k]))

\* Functions of the reads, a history that is not empty, and a run that ends because of
\* close(), and reads that began in a state of the history.
DomainInv ==
    /\ DOMAIN anchor = Reads /\ DOMAIN answers = Reads
    /\ anchor = [r \in Reads |-> anchor[r]] /\ answers = [r \in Reads |-> answers[r]]
    /\ hist # <<>>
    /\ run \in {"await", "drain", "done"} => closing
    /\ \A r \in Reads : caller[r] # "new" => since[r] \in 1..Len(hist)

IInv ==
    /\ TypeOK /\ DomainInv /\ Distinct(queue) /\ Distinct(wave)
    /\ \A r \in Reads : PlaceInv(r) /\ \A a \in Range(answers[r]) : Right(r, a)
    /\ \A w \in Workers : GroupInv(w)

-----------------------------------------------------------------------------
(* Sequences without repetition. *)

LEMMA AppendSeq ==
    ASSUME NEW S, NEW seq \in Seq(S), NEW x \in S
    PROVE  /\ Append(seq, x) \in Seq(S) /\ Len(Append(seq, x)) = Len(seq) + 1
           /\ Range(Append(seq, x)) = Range(seq) \cup {x}
           /\ Distinct(seq) /\ x \notin Range(seq) => Distinct(Append(seq, x))
<1> DEFINE new == Append(seq, x)
<1>1. /\ new \in Seq(S) /\ Len(seq) \in Nat /\ Len(new) = Len(seq) + 1
      /\ DOMAIN new = 1..(Len(seq) + 1) /\ DOMAIN seq = 1..Len(seq)
      /\ \A i \in 1..Len(seq) : new[i] = seq[i]
      /\ new[Len(seq) + 1] = x
  OBVIOUS
<1>2. \A i \in DOMAIN new : i \in DOMAIN seq \/ i = Len(seq) + 1
  BY <1>1
<1>3. (\A i \in DOMAIN seq : i \in DOMAIN new) /\ Len(seq) + 1 \in DOMAIN new
  BY <1>1
<1>4. \A i \in DOMAIN seq : new[i] = seq[i]
  BY <1>1, Zenon
<1> HIDE DEF new
<1>5. Range(new) = Range(seq) \cup {x}
  <2>1. ASSUME NEW y \in Range(new) PROVE y \in Range(seq) \cup {x}
    BY <1>1, <1>2, <1>4, Zenon DEF Range
  <2>2. ASSUME NEW y \in Range(seq) \cup {x} PROVE y \in Range(new)
    BY <1>1, <1>3, <1>4, Zenon DEF Range
  <2> QED
    BY <2>1, <2>2, Zenon
<1>6. ASSUME Distinct(seq), x \notin Range(seq) PROVE Distinct(new)
  <2>1. \A i \in DOMAIN seq : seq[i] # x
    BY <1>6, Zenon DEF Range
  <2> QED
    BY <1>1, <1>2, <1>4, <1>6, <2>1, Zenon DEF Distinct
<1> QED
  BY <1>1, <1>5, <1>6 DEF new

LEMMA TailSeq ==
    ASSUME NEW S, NEW seq \in Seq(S), seq # <<>>, Distinct(seq)
    PROVE  /\ Tail(seq) \in Seq(S) /\ Distinct(Tail(seq)) /\ Len(Tail(seq)) <= Len(seq)
           /\ Head(seq) \in S /\ Head(seq) \in Range(seq)
           /\ Range(Tail(seq)) = Range(seq) \ {Head(seq)}
<1> DEFINE new == Tail(seq)
<1>1. /\ new \in Seq(S) /\ Len(seq) \in Nat \ {0} /\ Len(new) = Len(seq) - 1
      /\ DOMAIN new = 1..(Len(seq) - 1) /\ DOMAIN seq = 1..Len(seq)
      /\ \A i \in 1..(Len(seq) - 1) : new[i] = seq[i + 1]
      /\ Head(seq) = seq[1] /\ Head(seq) \in S
  OBVIOUS
<1>2. \A i \in DOMAIN new : i + 1 \in DOMAIN seq /\ i + 1 # 1 /\ new[i] = seq[i + 1]
  BY <1>1
<1>3. \A i \in DOMAIN seq : i = 1 \/ \E j \in DOMAIN new : i = j + 1
  <2>1. ASSUME NEW i \in DOMAIN seq, i # 1 PROVE i - 1 \in DOMAIN new /\ i = (i - 1) + 1
    BY <1>1, <2>1
  <2> QED
    BY <2>1
<1>4. 1 \in DOMAIN seq
  BY <1>1
<1>5. \A i, j \in DOMAIN new : i + 1 = j + 1 => i = j
  BY <1>1
<1>6. Len(new) <= Len(seq)
  BY <1>1
<1> HIDE DEF new
<1>7. Distinct(new)
  BY <1>2, <1>5, Zenon DEF Distinct
<1>8. Head(seq) \in Range(seq)
  BY <1>1, <1>4, Zenon DEF Range
<1>9. ASSUME NEW y \in Range(new) PROVE y \in Range(seq) /\ y # Head(seq)
  <2>1. PICK i \in DOMAIN new : y = new[i]
    BY <1>9, Zenon DEF Range
  <2>2. y = seq[i + 1] /\ i + 1 \in DOMAIN seq /\ i + 1 # 1
    BY <1>2, <2>1, Zenon
  <2> QED
    BY <1>1, <1>4, <2>2, Zenon DEF Range, Distinct
<1>10. ASSUME NEW y \in Range(seq), y # Head(seq) PROVE y \in Range(new)
  <2>1. PICK i \in DOMAIN seq : y = seq[i]
    BY <1>10, Zenon DEF Range
  <2>2. i # 1
    BY <1>1, <1>10, <2>1, Zenon
  <2>3. PICK j \in DOMAIN new : i = j + 1
    BY <1>3, <2>2, Zenon
  <2>4. new[j] = y
    BY <1>2, <2>1, <2>3, Zenon
  <2> QED
    BY <2>3, <2>4, Zenon DEF Range
<1>11. Range(new) = Range(seq) \ {Head(seq)}
  BY <1>9, <1>10, Zenon
<1> QED
  BY <1>1, <1>6, <1>7, <1>8, <1>11 DEF new

-----------------------------------------------------------------------------
(* Statements. *)

\* A read gets from the common candidates of its group what it would get alone.
LEMMA JoinedIsDirect ==
    ASSUME TypeOK, NEW rs \in SUBSET Reads, NEW r \in rs, NEW events \in SUBSET Events,
           \A q \in rs : Key(q) = Key(r)
    PROVE  Joined(r, rs, events) = Direct(r, events)
<1> DEFINE own == {e \in Candidates(rs, events) :
                     /\ anchor[r] \in e.tags /\ Query[r].where \ {anchor[r]} \subseteq e.tags
                     /\ Within(e, r)}
<1>1. anchor[r] \in Query[r].where /\ \A q \in rs : Query[q].metric = Query[r].metric
  <2>1. anchor[r] \in Query[r].where
    BY Zenon DEF TypeOK
  <2>2. ASSUME NEW q \in rs PROVE Query[q].metric = Query[r].metric
    BY DEF Key
  <2> QED
    BY <2>1, <2>2
<1>2. ASSUME NEW e \in own PROVE e \in Matched(r, events)
  BY <1>1, <1>2, Zenon DEF Matched, Candidates
<1>3. ASSUME NEW e \in Matched(r, events) PROVE e \in own
  <2>1. /\ e \in events /\ e.metric = Query[r].metric /\ Query[r].where \subseteq e.tags
        /\ Within(e, r)
    BY <1>3, Zenon DEF Matched
  <2>2. anchor[r] \in e.tags
    BY <1>1, <2>1, Zenon
  <2>3. e \in Candidates(rs, events)
    BY <2>1, <2>2, Zenon DEF Candidates, Within
  <2> QED
    BY <2>1, <2>2, <2>3, Zenon
<1>4. own = Matched(r, events)
  BY <1>2, <1>3, Zenon
<1> QED
  BY <1>4, Zenon DEF Joined, Direct

LEMMA ResultTypes ==
    ASSUME NEW r \in Reads, NEW events \in SUBSET Events
    PROVE  /\ \A err \in Errors : Failed(err) \in Results(r)
           /\ Value(Direct(r, events)) \in Results(r)
           /\ Result(Direct(r, events)) \in Results(r)
<1> DEFINE rows == {NoRow} \cup {Row(r, matched) : matched \in SUBSET Events}
<1>1. Direct(r, events) \in rows /\ NoRow \in rows
  BY Zenon DEF Direct, Matched
<1>2. "none" \in Errors /\ "overflow" \in Errors
  BY Zenon DEF Errors
<1>3. \A err \in Errors : \A row \in rows :
        [err |-> err, row |-> row] \in [err : Errors, row : rows]
  <2> HIDE DEF rows
  <2> QED
    OBVIOUS
<1>4. Results(r) = [err : Errors, row : rows]
  BY Zenon DEF Results
<1> HIDE DEF rows
<1> QED
  BY <1>1, <1>2, <1>3, <1>4, Zenon DEF Failed, Value, Result

LEMMA RightValues ==
    ASSUME NEW r \in Reads, NEW events, NEW k \in since[r]..Len(hist), hist[k] = events
    PROVE  Right(r, Value(Direct(r, events))) /\ Right(r, Result(Direct(r, events)))
<1>1. /\ Value(Direct(r, events)).err = "none" /\ Value(Direct(r, events)).row = Direct(r, events)
      /\ Failed("overflow").err = "overflow"
  BY Zenon DEF Value, Failed
<1>2. Right(r, Value(Direct(r, events)))
  BY <1>1, Zenon DEF Right
<1>3. Overflows(Direct(r, events)) => Right(r, Failed("overflow"))
  BY <1>1, Zenon DEF Right
<1>4. \/ Overflows(Direct(r, events)) /\ Result(Direct(r, events)) = Failed("overflow")
      \/ Result(Direct(r, events)) = Value(Direct(r, events))
  BY Zenon DEF Result
<1> QED
  BY <1>2, <1>3, <1>4

LEMMA RightErrors ==
    ASSUME NEW r \in Reads
    PROVE  /\ Right(r, Failed("failed"))
           /\ ~Live(r) => Right(r, Failed("own"))
           /\ closing => Right(r, Failed("closed")) /\ Right(r, Failed("aborted"))
<1>1. \A err : Failed(err).err = err
  BY Zenon DEF Failed
<1> QED
  BY <1>1 DEF Right

-----------------------------------------------------------------------------
(* What a step does to a read. *)

\* A read is told nothing new, or it leaves with an answer that is right.
Tells(x) ==
    \/ answers'[x] = answers[x]
    \/ /\ Pending(x) /\ ~Pending(x)'
       /\ \E v \in Results(x) : Right(x, v)' /\ answers'[x] = Append(answers[x], v)

Places == <<queue, wave, groups, alone>>

LEMMA SamePlaces ==
    ASSUME IInv, UNCHANGED <<Places, answers>>, NEW x \in Reads,
           caller'[x] \in {"new", "offering"} => caller[x] \in {"new", "offering"}
    PROVE  PlaceInv(x)' /\ Tells(x)
<1>1. PlaceInv(x) /\ UNCHANGED <<queue, wave, groups, alone, answers>>
  BY Zenon DEF IInv, Places
<1>2. PlaceInv(x)'
  BY <1>1, Zenon DEF PlaceInv, Pending, With, Queued, Collected, Grouped
<1> QED
  BY <1>1, <1>2, Zenon DEF Tells

LEMMA EnqueuePlaces ==
    ASSUME IInv, NEW r \in Reads, Enqueue(r), NEW x \in Reads
    PROVE  PlaceInv(x)' /\ Tells(x) /\ Distinct(queue')
<1>1. PlaceInv(x) /\ PlaceInv(r) /\ queue \in Seq(Reads) /\ Distinct(queue)
  BY Zenon DEF IInv, TypeOK
<1>2. /\ queue' = Append(queue, r) /\ caller[r] = "offering"
      /\ caller' = [caller EXCEPT ![r] = "waiting"]
      /\ UNCHANGED <<wave, groups, alone, answers>>
  BY Zenon DEF Enqueue, workerVars
<1>3. ~Pending(r) /\ answers[r] = <<>>
  BY <1>1, <1>2, Zenon DEF PlaceInv
<1>4. Range(queue') = Range(queue) \cup {r} /\ Distinct(queue')
  <2>1. r \notin Range(queue)
    BY <1>3, Zenon DEF Pending, Queued
  <2>2. /\ Range(Append(queue, r)) = Range(queue) \cup {r}
        /\ Distinct(queue) /\ r \notin Range(queue) => Distinct(Append(queue, r))
    BY <1>1, AppendSeq, SMTT(30)
  <2> QED
    BY <1>1, <1>2, <2>1, <2>2, Zenon
<1>5. CASE x = r
  <2>1. caller'[x] = "waiting"
    BY <1>2, <1>5, Zenon DEF IInv, TypeOK
  <2>2. ~Collected(x)' /\ \A w \in Workers : ~With(w, x)' /\ ~Grouped(w, x)' /\ x \notin alone'[w]
    BY <1>2, <1>3, <1>5, Zenon DEF Pending, With, Collected, Grouped
  <2> QED
    BY <1>2, <1>3, <1>4, <1>5, <2>1, <2>2, Zenon DEF PlaceInv, Tells
<1>6. CASE x # r
  <2>1. caller'[x] = caller[x]
    BY <1>2, <1>6, Zenon DEF IInv, TypeOK
  <2>2. Queued(x)' <=> Queued(x)
    BY <1>4, <1>6, Zenon DEF Queued
  <2>3. /\ Collected(x)' <=> Collected(x)
        /\ \A w \in Workers : (Grouped(w, x)' <=> Grouped(w, x)) /\ alone'[w] = alone[w]
    BY <1>2, Zenon DEF Collected, Grouped
  <2> HIDE DEF Queued, Collected, Grouped
  <2> QED
    BY <1>1, <1>2, <1>4, <2>1, <2>2, <2>3, Zenon DEF PlaceInv, Tells, Pending, With
<1> QED
  BY <1>5, <1>6

LEMMA CollectPlaces ==
    ASSUME IInv, TakeFirst \/ Collect, NEW x \in Reads
    PROVE  PlaceInv(x)' /\ Tells(x) /\ Distinct(queue') /\ Distinct(wave')
<1>1. /\ \A y \in Reads : PlaceInv(y)
      /\ queue \in Seq(Reads) /\ Distinct(queue) /\ wave \in Seq(Reads) /\ Distinct(wave)
  BY Zenon DEF IInv, TypeOK
<1>2. /\ queue # <<>> /\ queue' = Tail(queue) /\ UNCHANGED <<caller, groups, alone, answers>>
      /\ wave' = <<Head(queue)>> \/ wave' = Append(wave, Head(queue))
  BY Zenon DEF TakeFirst, Collect, workerVars
<1> DEFINE h == Head(queue)
<1>3. h \in Reads /\ h \in Range(queue) /\ Range(queue') = Range(queue) \ {h} /\ Distinct(queue')
  BY <1>1, <1>2, TailSeq, Zenon
<1> HIDE DEF h
<1>4. /\ ~Collected(h) /\ answers[h] = <<>> /\ caller[h] \notin {"new", "offering"}
      /\ \A w \in Workers : ~With(w, h)
  BY <1>1, <1>3, Zenon DEF PlaceInv, Queued, Pending
<1>5. Range(wave') \subseteq Range(wave) \cup {h} /\ h \in Range(wave') /\ Distinct(wave')
  <2>1. CASE wave' = <<h>>
    <3>1. Range(<<h>>) = {h} /\ Distinct(<<h>>)
      BY DEF Range, Distinct
    <3> QED
      BY <2>1, <3>1, Zenon
  <2>2. CASE wave' = Append(wave, h)
    <3>1. h \notin Range(wave) /\ wave \in Seq(Reads) /\ Distinct(wave)
      BY <1>1, <1>4, Zenon DEF Collected
    <3>2. h \in Reads
      BY <1>3, Zenon
    <3>3. Range(Append(wave, h)) = Range(wave) \cup {h} /\ Distinct(Append(wave, h))
      BY <3>1, <3>2, AppendSeq
    <3> QED
      BY <2>2, <3>3, Zenon
  <2> QED
    BY <1>2, <2>1, <2>2 DEF h
<1>6. CASE x = h
  <2>1. ~Queued(x)' /\ \A w \in Workers : ~With(w, x)' /\ ~Grouped(w, x)' /\ x \notin alone'[w]
    BY <1>2, <1>3, <1>4, <1>6, Zenon DEF Queued, With, Grouped
  <2> HIDE DEF Queued, With, Grouped
  <2> QED
    BY <1>2, <1>3, <1>4, <1>5, <1>6, <2>1, Zenon DEF PlaceInv, Tells
<1>7. CASE x # h
  <2>1. (Queued(x)' <=> Queued(x)) /\ (Collected(x)' => Collected(x))
    BY <1>3, <1>5, <1>7, Zenon DEF Queued, Collected
  <2>2. \A w \in Workers : (Grouped(w, x)' <=> Grouped(w, x)) /\ alone'[w] = alone[w]
    BY <1>2, Zenon DEF Grouped
  <2> HIDE DEF Queued, Collected, Grouped
  <2> QED
    BY <1>1, <1>2, <1>3, <1>5, <2>1, <2>2, Zenon DEF PlaceInv, Tells, Pending, With
<1> QED
  BY <1>6, <1>7

\* The wave goes to a worker, or is answered because the engine is closing.
LEMMA OfferPlaces ==
    ASSUME IInv, NEW w \in Workers, Offer(w), NEW x \in Reads
    PROVE  PlaceInv(x)' /\ Tells(x) /\ GroupInv(w)'
<1>1. /\ PlaceInv(x) /\ wave \in Seq(Reads) /\ groups \in [Workers -> SUBSET SUBSET Reads]
      /\ groups[w] = {} /\ alone[w] = {} /\ answers = [r \in Reads |-> answers[r]]
  BY Zenon DEF IInv, TypeOK, Offer, Idle, DomainInv
<1> DEFINE live == {r \in Range(wave) : Live(r)}
           new == {{r \in live : Key(r) = Key(q)} : q \in live}
<1>2. /\ groups' = [groups EXCEPT ![w] = new] /\ wave' = <<>>
      /\ UNCHANGED <<closing, ctx, caller, anchor, queue, alone, hist, since>>
      /\ answers' = [r \in Reads |-> IF r \in Range(wave) \ live THEN Append(answers[r], Failed("own"))
                                                                 ELSE answers[r]]
  BY Zenon DEF Offer, Answer, dbVars
<1>3. groups'[w] = new /\ \A v \in Workers : v # w => groups'[v] = groups[v]
  BY <1>1, <1>2, Zenon
<1>4. GroupInv(w)'
  <2>1. \A r : Key(r)' = Key(r)
    BY <1>2, Zenon DEF Key
  <2>2. \A rs \in new : \A r, q \in rs : Key(r) = Key(q)
    BY Zenon
  <2>3. ASSUME NEW rs \in new, NEW ss \in new, rs # ss PROVE rs \cap ss = {}
    <3>1. PICK q \in live : rs = {r \in live : Key(r) = Key(q)}
      BY <2>3, Zenon
    <3>2. PICK p \in live : ss = {r \in live : Key(r) = Key(p)}
      BY <2>3, Zenon
    <3>3. Key(q) # Key(p)
      BY <2>3, <3>1, <3>2, Zenon
    <3> QED
      BY <3>1, <3>2, <3>3, Zenon
  <2> HIDE DEF new
  <2> QED
    BY <1>3, <2>1, <2>2, <2>3, Zenon DEF GroupInv
<1>5. ~Collected(x)'
  <2>1. Range(<<>>) = {}
    BY DEF Range
  <2> QED
    BY <1>2, <2>1, Zenon DEF Collected
<1>6. /\ Grouped(w, x)' <=> x \in live
      /\ \A v \in Workers : v # w => (Grouped(v, x)' <=> Grouped(v, x))
      /\ ~Grouped(w, x)
  <2>1. (\E rs \in new : x \in rs) <=> x \in live
    <3>1. ASSUME x \in live PROVE \E rs \in new : x \in rs
      <4>1. {r \in live : Key(r) = Key(x)} \in new /\ x \in {r \in live : Key(r) = Key(x)}
        BY <3>1, Zenon
      <4> QED
        BY <4>1, Zenon
    <3>2. ASSUME NEW rs \in new, x \in rs PROVE x \in live
      BY <3>2, Zenon
    <3> QED
      BY <3>1, <3>2, Zenon
  <2> HIDE DEF new, live
  <2>2. Grouped(w, x)' <=> x \in live
    BY <1>3, <2>1, Zenon DEF Grouped
  <2> QED
    BY <1>1, <1>3, <2>2, Zenon DEF Grouped
<1>9. caller'[x] = caller[x] /\ \A v \in Workers : alone'[v] = alone[v]
  BY <1>2, Zenon
<1>7. CASE x \in Range(wave)
  <2>1. /\ Collected(x) /\ ~Queued(x) /\ (\A v \in Workers : ~With(v, x)) /\ answers[x] = <<>>
        /\ caller[x] \notin {"new", "offering"}
    BY <1>1, <1>7, Zenon DEF PlaceInv, Collected, Pending
  <2>2. \A v \in Workers : ~Grouped(v, x) /\ x \notin alone'[v]
    BY <1>2, <2>1, Zenon DEF With
  <2>3. ~Queued(x)'
    BY <1>2, <2>1, Zenon DEF Queued
  <2>4. CASE x \in live
    <3>1. answers'[x] = answers[x]
      BY <1>2, <2>4, Zenon
    <3>2. \A v \in Workers : With(v, x)' => v = w
      BY <1>6, <2>2, Zenon DEF With
    <3> HIDE DEF Queued, Collected, Grouped, live
    <3> QED
      BY <1>4, <1>5, <1>9, <2>1, <2>2, <2>3, <3>1, <3>2, Zenon DEF PlaceInv, Tells
  <2>5. CASE x \notin live
    <3>1. answers'[x] = Append(answers[x], Failed("own")) /\ ~Live(x)
      BY <1>2, <1>7, <2>5, Zenon
    <3>2. \A v \in Workers : ~With(v, x)' /\ ~Grouped(v, x)'
      BY <1>6, <2>2, <2>5, Zenon DEF With
    <3>3. Pending(x) /\ ~Pending(x)'
      BY <1>5, <2>1, <2>3, <3>2, Zenon DEF Pending
    <3>4. Right(x, Failed("own"))
      BY <3>1, RightErrors, Zenon
    <3>5. Right(x, Failed("own"))' /\ Failed("own") \in Results(x)
      <4>1. Right(x, Failed("own"))'
        BY <1>2, <3>4, Zenon DEF Right, Live
      <4>2. "own" \in Errors /\ {} \in SUBSET Events
        BY Zenon DEF Errors
      <4> QED
        BY <4>1, <4>2, ResultTypes, Zenon
    <3> HIDE DEF Queued, Collected, Grouped, live
    <3> QED
      BY <1>4, <1>5, <1>9, <2>1, <2>2, <2>3, <3>1, <3>2, <3>3, <3>5, Zenon DEF PlaceInv, Tells
  <2> QED
    BY <2>4, <2>5
<1>8. CASE x \notin Range(wave)
  <2>1. answers'[x] = answers[x]
    BY <1>2, <1>8, Zenon
  <2>2. \A v \in Workers : (Grouped(v, x)' <=> Grouped(v, x)) /\ alone'[v] = alone[v]
    BY <1>2, <1>6, <1>8, Zenon
  <2>3. Queued(x)' <=> Queued(x)
    BY <1>2, Zenon DEF Queued
  <2> HIDE DEF Queued, Collected, Grouped
  <2> QED
    BY <1>1, <1>4, <1>5, <1>9, <2>1, <2>2, <2>3, Zenon DEF PlaceInv, Tells, Pending, With
<1> QED
  BY <1>4, <1>7, <1>8

LEMMA Stays ==
    ASSUME NEW x \in Reads, PlaceInv(x), caller'[x] = caller[x], answers'[x] = answers[x],
           Queued(x)' => Queued(x), Collected(x)' => Collected(x),
           \A w \in Workers : /\ Grouped(w, x)' => Grouped(w, x)
                              /\ x \in alone'[w] => x \in alone[w]
    PROVE  PlaceInv(x)' /\ Tells(x)
<1>1. \A w \in Workers : With(w, x)' => With(w, x)
  BY Zenon DEF With
<1>2. Pending(x)' => Pending(x)
  BY <1>1, Zenon DEF Pending
<1> QED
  BY <1>1, <1>2, Zenon DEF PlaceInv, Tells

LEMMA Answered ==
    ASSUME NEW x \in Reads, PlaceInv(x), Pending(x), ~Pending(x)', caller'[x] = caller[x],
           NEW v \in Results(x), Right(x, v), UNCHANGED <<closing, ctx, hist, since>>,
           answers'[x] = Append(answers[x], v)
    PROVE  PlaceInv(x)' /\ Tells(x)
<1>1. Right(x, v)'
  BY Zenon DEF Right, Live
<1>2. caller'[x] \notin {"new", "offering"}
  BY Zenon DEF PlaceInv
<1>3. ~Queued(x)' /\ ~Collected(x)' /\ \A w \in Workers : ~With(w, x)'
  BY Zenon DEF Pending
<1>4. \A w \in Workers : x \notin alone'[w]
  BY <1>3, Zenon DEF With
<1> QED
  BY <1>1, <1>2, <1>3, <1>4, Zenon DEF PlaceInv, Tells

LEMMA ErrorTypes ==
    ASSUME NEW x \in Reads
    PROVE  \A err \in {"own", "closed", "aborted", "failed"} : Failed(err) \in Results(x)
<1>1. \A err \in {"own", "closed", "aborted", "failed"} : err \in Errors
  BY Zenon DEF Errors
<1>2. {} \in SUBSET Events
  BY Zenon
<1> QED
  BY <1>1, <1>2, ResultTypes, Zenon

LEMMA ClosedPlaces ==
    ASSUME IInv, OfferCancelled, NEW x \in Reads
    PROVE  PlaceInv(x)' /\ Tells(x)
<1>1. PlaceInv(x) /\ answers = [r \in Reads |-> answers[r]]
  BY Zenon DEF IInv, DomainInv
<1>2. /\ closing /\ wave' = <<>>
      /\ UNCHANGED <<closing, ctx, caller, queue, groups, alone, hist, since>>
      /\ answers' = [r \in Reads |-> IF r \in Range(wave) THEN Append(answers[r], Failed("closed"))
                                                           ELSE answers[r]]
  BY Zenon DEF OfferCancelled, Answer, dbVars, workerVars
<1>3. ~Collected(x)'
  <2>1. Range(<<>>) = {}
    BY DEF Range
  <2> QED
    BY <1>2, <2>1, Zenon DEF Collected
<1>4. /\ caller'[x] = caller[x] /\ (Queued(x)' <=> Queued(x))
      /\ \A w \in Workers : (Grouped(w, x)' <=> Grouped(w, x)) /\ alone'[w] = alone[w]
  BY <1>2, Zenon DEF Queued, Grouped
<1>5. CASE Collected(x)
  <2>1. answers'[x] = Append(answers[x], Failed("closed"))
    BY <1>2, <1>5, Zenon DEF Collected
  <2>2. Right(x, Failed("closed")) /\ Failed("closed") \in Results(x)
    BY <1>2, RightErrors, ErrorTypes, Zenon
  <2>3. Pending(x) /\ ~Queued(x) /\ \A w \in Workers : ~With(w, x)
    BY <1>1, <1>5, Zenon DEF PlaceInv, Pending
  <2>4. ~Pending(x)'
    BY <1>3, <1>4, <2>3, Zenon DEF Pending, With
  <2> QED
    BY <1>1, <1>2, <1>4, <2>1, <2>2, <2>3, <2>4, Answered, Zenon
<1>6. CASE ~Collected(x)
  <2>1. answers'[x] = answers[x]
    BY <1>2, <1>6, Zenon DEF Collected
  <2> QED
    BY <1>1, <1>3, <1>4, <2>1, Stays, Zenon
<1> QED
  BY <1>5, <1>6

LEMMA StopPlaces ==
    ASSUME IInv, Stop, NEW x \in Reads
    PROVE  PlaceInv(x)' /\ Tells(x) /\ Distinct(queue')
<1>1. /\ PlaceInv(x) /\ answers = [r \in Reads |-> answers[r]]
      /\ queue \in Seq(Reads) /\ Distinct(queue) /\ (run = "drain" => closing)
  BY Zenon DEF IInv, DomainInv, TypeOK
<1>2. UNCHANGED <<closing, ctx, caller, wave, groups, alone, hist, since>>
  BY Zenon DEF Stop, dbVars, workerVars
<1>3. /\ caller'[x] = caller[x] /\ (Collected(x)' <=> Collected(x))
      /\ \A w \in Workers : (Grouped(w, x)' <=> Grouped(w, x)) /\ alone'[w] = alone[w]
  BY <1>2, Zenon DEF Collected, Grouped
<1>4. CASE queue' = queue /\ answers' = answers
  <2>1. (Queued(x)' <=> Queued(x)) /\ answers'[x] = answers[x] /\ Distinct(queue')
    BY <1>1, <1>4, Zenon DEF Queued
  <2> QED
    BY <1>1, <1>3, <2>1, Stays, Zenon
<1>5. CASE /\ run = "drain" /\ queue # <<>> /\ queue' = Tail(queue)
           /\ Answer({Head(queue)}, LAMBDA r : Failed("closed"))
  <2> DEFINE h == Head(queue)
  <2>1. answers' = [r \in Reads |-> IF r \in {h} THEN Append(answers[r], Failed("closed"))
                                                  ELSE answers[r]]
    BY <1>5, Zenon DEF Answer
  <2>2. h \in Range(queue) /\ Range(queue') = Range(queue) \ {h} /\ Distinct(queue')
    BY <1>1, <1>5, TailSeq, Zenon
  <2> HIDE DEF h
  <2>3. CASE x = h
    <3>1. answers'[x] = Append(answers[x], Failed("closed"))
      BY <2>1, <2>3, Zenon
    <3>2. Right(x, Failed("closed")) /\ Failed("closed") \in Results(x)
      BY <1>1, <1>5, RightErrors, ErrorTypes, Zenon
    <3>3. Queued(x) /\ ~Queued(x)'
      BY <2>2, <2>3, Zenon DEF Queued
    <3>4. Pending(x) /\ ~Collected(x) /\ \A w \in Workers : ~With(w, x)
      BY <1>1, <3>3, Zenon DEF PlaceInv, Pending
    <3>5. ~Pending(x)'
      BY <1>3, <3>3, <3>4, Zenon DEF Pending, With
    <3>6. PlaceInv(x)' /\ Tells(x)
      BY <1>1, <1>2, <1>3, <3>1, <3>2, <3>4, <3>5, Answered, Zenon
    <3> QED
      BY <2>2, <3>6, Zenon
  <2>4. CASE x # h
    <3>1. answers'[x] = answers[x] /\ (Queued(x)' => Queued(x))
      BY <2>1, <2>2, <2>4, Zenon DEF Queued
    <3>2. PlaceInv(x)' /\ Tells(x)
      BY <1>1, <1>3, <3>1, Stays, Zenon
    <3> QED
      BY <2>2, <3>2, Zenon
  <2> QED
    BY <2>3, <2>4
<1> QED
  BY <1>4, <1>5, Zenon DEF Stop

LEMMA Present ==
    ASSUME IInv, NEW x \in Reads
    PROVE  /\ Len(hist) \in since[x]..Len(hist) /\ Db \in SUBSET Events
           /\ hist[Len(hist)] = Db
<1>1. hist \in Seq(SUBSET Events) /\ hist # <<>> /\ since \in [Reads -> 0..Len(hist)]
  BY Zenon DEF IInv, TypeOK, DomainInv
<1>2. Len(hist) \in Nat /\ hist[Len(hist)] \in SUBSET Events
  BY <1>1
<1>3. since[x] \in 0..Len(hist)
  BY <1>1, Zenon
<1>4. Len(hist) \in since[x]..Len(hist)
  BY <1>2, <1>3
<1> QED
  BY <1>2, <1>4, Zenon DEF Db

LEMMA AlonePlaces ==
    ASSUME IInv, NEW w \in Workers, Alone(w), NEW x \in Reads
    PROVE  PlaceInv(x)' /\ Tells(x)
<1>1. /\ PlaceInv(x) /\ answers = [r \in Reads |-> answers[r]]
      /\ alone \in [Workers -> SUBSET Reads]
  BY Zenon DEF IInv, DomainInv, TypeOK
<1>2. PICK r \in alone[w] :
        /\ \/ ~Live(r) /\ Answer({r}, LAMBDA q : Failed("own"))
           \/ Answer({r}, LAMBDA q : Result(Direct(r, Db)))
           \/ closing /\ Answer({r}, LAMBDA q : Failed("aborted"))
           \/ Answer({r}, LAMBDA q : Failed("failed"))
        /\ alone' = [alone EXCEPT ![w] = @ \ {r}]
  BY Zenon DEF Alone
<1>3. r \in Reads
  BY <1>1, <1>2, Zenon
<1>4. UNCHANGED <<closing, ctx, caller, queue, wave, groups, hist, since>>
  BY Zenon DEF Alone
<1>5. /\ caller'[x] = caller[x] /\ (Queued(x)' <=> Queued(x)) /\ (Collected(x)' <=> Collected(x))
      /\ \A v \in Workers : Grouped(v, x)' <=> Grouped(v, x)
  BY <1>4, Zenon DEF Queued, Collected, Grouped
<1>6. alone'[w] = alone[w] \ {r} /\ \A v \in Workers : v # w => alone'[v] = alone[v]
  BY <1>1, <1>2, Zenon
<1>7. PICK val \in Results(r) :
        /\ Right(r, val)
        /\ answers' = [q \in Reads |-> IF q \in {r} THEN Append(answers[q], val) ELSE answers[q]]
  <2>1. CASE ~Live(r) /\ Answer({r}, LAMBDA q : Failed("own"))
    <3>1. Right(r, Failed("own")) /\ Failed("own") \in Results(r)
      BY <1>3, <2>1, RightErrors, ErrorTypes, Zenon
    <3> QED
      BY <2>1, <3>1, Zenon DEF Answer
  <2>2. CASE Answer({r}, LAMBDA q : Result(Direct(r, Db)))
    <3>1. Right(r, Result(Direct(r, Db)))
      BY <1>3, Present, RightValues, Zenon
    <3>2. Result(Direct(r, Db)) \in Results(r)
      BY <1>3, Present, ResultTypes, Zenon
    <3> QED
      BY <2>2, <3>1, <3>2, Zenon DEF Answer
  <2>3. CASE closing /\ Answer({r}, LAMBDA q : Failed("aborted"))
    <3>1. Right(r, Failed("aborted")) /\ Failed("aborted") \in Results(r)
      BY <1>3, <2>3, RightErrors, ErrorTypes, Zenon
    <3> QED
      BY <2>3, <3>1, Zenon DEF Answer
  <2>4. CASE Answer({r}, LAMBDA q : Failed("failed"))
    <3>1. Right(r, Failed("failed")) /\ Failed("failed") \in Results(r)
      BY <1>3, RightErrors, ErrorTypes, Zenon
    <3> QED
      BY <2>4, <3>1, Zenon DEF Answer
  <2> QED
    BY <1>2, <2>1, <2>2, <2>3, <2>4, Zenon
<1>8. CASE x = r
  <2>1. answers'[x] = Append(answers[x], val)
    BY <1>3, <1>7, <1>8, Zenon
  <2>2. With(w, x) /\ x \in alone[w]
    BY <1>2, <1>8, Zenon DEF With
  <2>3. /\ Pending(x) /\ ~Queued(x) /\ ~Collected(x) /\ ~Grouped(w, x)
        /\ \A v \in Workers : v # w => ~With(v, x)
    BY <1>1, <2>2, Zenon DEF PlaceInv, Pending
  <2>4. \A v \in Workers : ~With(v, x)'
    <3>1. ~With(w, x)'
      BY <1>5, <1>6, <1>8, <2>3, Zenon DEF With
    <3>2. ASSUME NEW v \in Workers, v # w PROVE ~With(v, x)'
      BY <1>5, <1>6, <2>3, <3>2, Zenon DEF With
    <3> QED
      BY <3>1, <3>2, Zenon
  <2>5. ~Pending(x)'
    BY <1>5, <2>3, <2>4, Zenon DEF Pending
  <2>6. val \in Results(x) /\ Right(x, val)
    BY <1>7, <1>8
  <2> QED
    BY <1>1, <1>4, <1>5, <2>1, <2>3, <2>5, <2>6, Answered, Zenon
<1>9. CASE x # r
  <2>1. answers'[x] = answers[x]
    BY <1>7, <1>9, Zenon
  <2>2. ASSUME NEW v \in Workers PROVE x \in alone'[v] => x \in alone[v]
    BY <1>6, Zenon
  <2> QED
    BY <1>1, <1>5, <2>1, <2>2, Stays, Zenon
<1> QED
  BY <1>8, <1>9

LEMMA GroupPlaces ==
    ASSUME IInv, NEW w \in Workers, Group(w), NEW x \in Reads
    PROVE  PlaceInv(x)' /\ Tells(x) /\ GroupInv(w)'
<1>1. /\ PlaceInv(x) /\ GroupInv(w) /\ answers = [r \in Reads |-> answers[r]] /\ TypeOK
      /\ alone \in [Workers -> SUBSET Reads] /\ groups \in [Workers -> SUBSET SUBSET Reads]
  BY Zenon DEF IInv, DomainInv, TypeOK
<1>2. PICK rs \in groups[w] :
        /\ groups' = [groups EXCEPT ![w] = @ \ {rs}]
        /\ \/ alone' = [alone EXCEPT ![w] = rs] /\ UNCHANGED answers
           \/ Answer(rs, LAMBDA r : Value(Joined(r, rs, Db))) /\ UNCHANGED alone
  BY Zenon DEF Group, Retry, OneByOne
<1>3. alone[w] = {} /\ UNCHANGED <<closing, ctx, caller, anchor, queue, wave, hist, since>>
  BY Zenon DEF Group
<1>4. rs \in SUBSET Reads
  BY <1>1, <1>2, Zenon
<1>5. caller'[x] = caller[x] /\ (Queued(x)' <=> Queued(x)) /\ (Collected(x)' <=> Collected(x))
  BY <1>3, Zenon DEF Queued, Collected
<1>6. groups'[w] = groups[w] \ {rs} /\ \A v \in Workers : v # w => groups'[v] = groups[v]
  BY <1>1, <1>2, Zenon
<1>7. \A v \in Workers : Grouped(v, x)' => Grouped(v, x)
  <2>1. Grouped(w, x)' => Grouped(w, x)
    BY <1>6, Zenon DEF Grouped
  <2>2. ASSUME NEW v \in Workers, v # w PROVE Grouped(v, x)' => Grouped(v, x)
    BY <1>6, <2>2, Zenon DEF Grouped
  <2> QED
    BY <2>1, <2>2, Zenon
<1>8. GroupInv(w)'
  <2>1. \A r : Key(r)' = Key(r)
    BY <1>3, Zenon DEF Key
  <2> QED
    BY <1>1, <1>6, <2>1, Zenon DEF GroupInv
<1>9. CASE x \in rs
  <2>1. With(w, x) /\ Grouped(w, x)
    BY <1>2, <1>9, Zenon DEF With, Grouped
  <2>2. /\ Pending(x) /\ ~Queued(x) /\ ~Collected(x) /\ answers[x] = <<>>
        /\ \A v \in Workers : v # w => ~With(v, x)
        /\ caller[x] \notin {"new", "offering"}
    BY <1>1, <2>1, Zenon DEF PlaceInv, Pending
  <2>3. ~Grouped(w, x)'
    <3>1. \A ss \in groups[w] : ss # rs => ss \cap rs = {}
      BY <1>1, <1>2, Zenon DEF GroupInv
    <3> QED
      BY <1>6, <1>9, <3>1, Zenon DEF Grouped
  <2>4. \A v \in Workers : v # w => ~Grouped(v, x)' /\ x \notin alone[v]
    BY <1>7, <2>2, Zenon DEF With
  <2>5. CASE alone' = [alone EXCEPT ![w] = rs] /\ UNCHANGED answers
    <3>1. \A v \in Workers : v # w => alone'[v] = alone[v]
      BY <1>1, <2>5, Zenon
    <3>2. \A v \in Workers : ~Grouped(v, x)' /\ (With(v, x)' => v = w)
      BY <2>3, <2>4, <3>1, Zenon DEF With
    <3>3. answers'[x] = answers[x] /\ answers'[x] = <<>> /\ caller'[x] \notin {"new", "offering"}
      BY <1>5, <2>2, <2>5, Zenon
    <3>4. ~Queued(x)' /\ ~Collected(x)'
      BY <1>5, <2>2, Zenon
    <3>5. PlaceInv(x)' /\ Tells(x)
      <4> HIDE DEF With, Grouped
      <4> QED
        BY <3>2, <3>3, <3>4, Zenon DEF PlaceInv, Tells
    <3> QED
      BY <1>8, <3>5, Zenon
  <2>6. CASE Answer(rs, LAMBDA r : Value(Joined(r, rs, Db))) /\ UNCHANGED alone
    <3>1. answers' = [r \in Reads |-> IF r \in rs THEN Append(answers[r], Value(Joined(r, rs, Db)))
                                                  ELSE answers[r]]
      BY <2>6, Zenon DEF Answer
    <3>2. answers'[x] = Append(answers[x], Value(Joined(x, rs, Db)))
      BY <1>9, <3>1, Zenon
    <3>3. \A q \in rs : Key(q) = Key(x)
      BY <1>1, <1>2, <1>9, Zenon DEF GroupInv
    <3>4. Joined(x, rs, Db) = Direct(x, Db)
      BY <1>1, <1>4, <1>9, <3>3, Present, JoinedIsDirect, Zenon
    <3>5. Right(x, Value(Direct(x, Db))) /\ Value(Direct(x, Db)) \in Results(x)
      BY Present, RightValues, ResultTypes, Zenon
    <3>6. \A v \in Workers : ~With(v, x)'
      <4>1. \A v \in Workers : alone'[v] = alone[v]
        BY <2>6, Zenon
      <4> QED
        BY <1>3, <2>3, <2>4, <4>1, Zenon DEF With
    <3>7. ~Pending(x)'
      BY <1>5, <2>2, <3>6, Zenon DEF Pending
    <3>8. answers'[x] = Append(answers[x], Value(Direct(x, Db)))
      BY <3>2, <3>4, Zenon
    <3>9. PlaceInv(x)' /\ Tells(x)
      BY <1>1, <1>3, <1>5, <2>2, <3>5, <3>7, <3>8, Answered, Zenon
    <3> QED
      BY <1>8, <3>9, Zenon
  <2> QED
    BY <1>2, <2>5, <2>6
<1>10. CASE x \notin rs
  <2>1. answers'[x] = answers[x]
    BY <1>2, <1>10, Zenon DEF Answer
  <2>2. ASSUME NEW v \in Workers PROVE x \in alone'[v] => x \in alone[v]
    BY <1>1, <1>2, <1>10, Zenon
  <2>3. PlaceInv(x)' /\ Tells(x)
    BY <1>1, <1>5, <1>7, <2>1, <2>2, Stays, Zenon
  <2> QED
    BY <1>8, <2>3, Zenon
<1> QED
  BY <1>9, <1>10

LEMMA StepPlaces ==
    ASSUME IInv, [Next]_vars
    PROVE  /\ \A x \in Reads : PlaceInv(x)' /\ Tells(x)
           /\ Distinct(queue') /\ Distinct(wave')
<1>1. /\ Distinct(queue) /\ Distinct(wave)
      /\ caller \in [Reads -> {"new", "offering", "waiting", "returned"}]
  BY Zenon DEF IInv, TypeOK
<1> SUFFICES ASSUME NEW x \in Reads
             PROVE  PlaceInv(x)' /\ Tells(x) /\ Distinct(queue') /\ Distinct(wave')
  <2>1. ASSUME Reads = {} PROVE Distinct(queue') /\ Distinct(wave')
    <3>1. queue = <<>> /\ wave = <<>>
      <4>1. queue \in Seq(Reads) /\ wave \in Seq(Reads)
        BY Zenon DEF IInv, TypeOK
      <4> QED
        BY <2>1, <4>1
    <3>2. queue' = <<>> /\ (wave' = wave \/ wave' = <<>>)
      BY <2>1, <3>1, Zenon DEF Next, vars, RunStep, WorkerStep, Change, Close, TakeFirst, Collect,
         StopCollecting, OfferCancelled, Stop, Offer, Group, Alone
    <3> QED
      BY <1>1, <3>1, <3>2, Zenon
  <2> QED
    BY <2>1, Zenon
<1>2. CASE \E r \in Reads : Submit(r) \/ Leave(r) \/ Receive(r)
  <2>1. PICK r \in Reads : Submit(r) \/ Leave(r) \/ Receive(r)
    BY <1>2, Zenon
  <2>2. /\ UNCHANGED <<queue, wave, groups, alone, answers>>
        /\ \/ caller[r] = "new" /\ caller' = [caller EXCEPT ![r] = "offering"]
           \/ caller' = [caller EXCEPT ![r] = "returned"]
    BY <2>1, Zenon DEF Submit, Leave, Receive, workerVars
  <2>3. caller'[x] \in {"new", "offering"} => caller[x] \in {"new", "offering"}
    <3>1. CASE x = r
      BY <1>1, <2>2, <3>1, Zenon
    <3>2. CASE x # r
      BY <1>1, <2>2, <3>2, Zenon
    <3> QED
      BY <3>1, <3>2, Zenon
  <2> QED
    BY <1>1, <2>2, <2>3, SamePlaces, Zenon DEF Places
<1>3. CASE \E r \in Reads : Enqueue(r)
  <2>1. PICK r \in Reads : Enqueue(r)
    BY <1>3, Zenon
  <2>2. wave' = wave
    BY <2>1, Zenon DEF Enqueue
  <2> QED
    BY <1>1, <2>1, <2>2, EnqueuePlaces, Zenon
<1>4. CASE \/ (\E r \in Reads : Cancel(r)) \/ Close \/ Change \/ StopCollecting
           \/ UNCHANGED vars
  <2>1. UNCHANGED <<queue, wave, groups, alone, answers, caller>>
    BY <1>4, Zenon DEF Cancel, Close, Change, StopCollecting, vars, workerVars
  <2> QED
    BY <1>1, <2>1, SamePlaces, Zenon DEF Places
<1>5. CASE TakeFirst \/ Collect
  BY <1>5, CollectPlaces, Zenon
<1>6. CASE OfferCancelled
  <2>1. queue' = queue /\ wave' = <<>>
    BY <1>6, Zenon DEF OfferCancelled
  <2>2. Distinct(<<>>)
    BY DEF Distinct
  <2> QED
    BY <1>1, <1>6, <2>1, <2>2, ClosedPlaces, Zenon
<1>7. CASE Stop
  <2>1. wave' = wave
    BY <1>7, Zenon DEF Stop
  <2> QED
    BY <1>1, <1>7, <2>1, StopPlaces, Zenon
<1>8. CASE \E w \in Workers : Offer(w)
  <2>1. PICK w \in Workers : Offer(w)
    BY <1>8, Zenon
  <2>2. queue' = queue /\ wave' = <<>>
    BY <2>1, Zenon DEF Offer
  <2>3. Distinct(<<>>)
    BY DEF Distinct
  <2> QED
    BY <1>1, <2>1, <2>2, <2>3, OfferPlaces, Zenon
<1>9. CASE \E w \in Workers : Group(w) \/ Alone(w)
  <2>1. PICK w \in Workers : Group(w) \/ Alone(w)
    BY <1>9, Zenon
  <2>2. queue' = queue /\ wave' = wave
    BY <2>1, Zenon DEF Group, Alone
  <2> QED
    BY <1>1, <2>1, <2>2, GroupPlaces, AlonePlaces, Zenon
<1> QED
  BY <1>2, <1>3, <1>4, <1>5, <1>6, <1>7, <1>8, <1>9, Zenon
     DEF Next, CallerStep, RunStep, WorkerStep

-----------------------------------------------------------------------------
(* What a step leaves as it is. *)

LEMMA Context ==
    ASSUME IInv, [Next]_vars
    PROVE  /\ closing => closing'
           /\ closing' \in BOOLEAN /\ ctx' \in [Reads -> {"live", "cancelled", "expired"}]
           /\ \A x \in Reads : ~Live(x) => ~Live(x)'
<1>1. closing \in BOOLEAN /\ ctx \in [Reads -> {"live", "cancelled", "expired"}]
  BY Zenon DEF IInv, TypeOK
<1>2. CASE Close
  BY <1>1, <1>2, Zenon DEF Close, Live
<1>3. CASE \E r \in Reads : Cancel(r)
  <2>1. PICK r \in Reads, why \in {"cancelled", "expired"} :
          closing' = closing /\ ctx' = [ctx EXCEPT ![r] = why]
    BY <1>3, Zenon DEF Cancel
  <2>2. ctx' \in [Reads -> {"live", "cancelled", "expired"}]
    BY <1>1, <2>1
  <2>3. why # "live"
    BY <2>1
  <2>4. ASSUME NEW x \in Reads, ~Live(x) PROVE ~Live(x)'
    BY <1>1, <2>1, <2>3, <2>4, Zenon DEF Live
  <2> QED
    BY <1>1, <2>1, <2>2, <2>4, Zenon
<1>4. CASE UNCHANGED <<closing, ctx>>
  BY <1>1, <1>4, Zenon DEF Live
<1>5. UNCHANGED <<closing, ctx>> \/ Close \/ \E r \in Reads : Cancel(r)
  BY Zenon DEF Next, CallerStep, RunStep, WorkerStep, vars, Submit, Enqueue, Leave, Receive,
     Change, TakeFirst, Collect, StopCollecting, Offer, OfferCancelled, Stop, Group, Alone
<1> QED
  BY <1>2, <1>3, <1>4, <1>5, Zenon

LEMMA History ==
    ASSUME IInv, [Next]_vars
    PROVE  /\ hist' \in Seq(SUBSET Events) /\ Len(hist') <= MaxChanges + 1 /\ hist' # <<>>
           /\ Len(hist) \in Nat /\ Len(hist') \in Nat /\ Len(hist) <= Len(hist')
           /\ \A k \in 1..Len(hist) : hist'[k] = hist[k]
<1>1. /\ hist \in Seq(SUBSET Events) /\ Len(hist) <= MaxChanges + 1 /\ hist # <<>>
      /\ MaxChanges \in Nat
  BY ReaderAssumption, Zenon DEF IInv, TypeOK, DomainInv
<1>2. CASE Change
  <2>1. Db \in SUBSET Events
    BY <1>1 DEF Db
  <2>2. PICK e \in Events :
          hist' = Append(hist, IF e \in Db THEN Db \ {e} ELSE Db \cup {e})
    BY <1>2, Zenon DEF Change
  <2>3. (IF e \in Db THEN Db \ {e} ELSE Db \cup {e}) \in SUBSET Events
    BY <2>1, Zenon
  <2>4. Len(hist) <= MaxChanges
    BY <1>2, Zenon DEF Change
  <2> QED
    BY <1>1, <2>2, <2>3, <2>4
<1>3. CASE UNCHANGED hist
  BY <1>1, <1>3
<1>4. UNCHANGED hist \/ Change
  BY Zenon DEF Next, CallerStep, RunStep, WorkerStep, vars, dbVars, Submit, Enqueue, Leave,
     Receive, Cancel, Close, TakeFirst, Collect, StopCollecting, Offer, OfferCancelled, Stop,
     Group, Alone
<1> QED
  BY <1>2, <1>3, <1>4, Zenon

\* When a read begins and by which tag it is grouped is settled before it is queued.
LEMMA Beginning ==
    ASSUME IInv, [Next]_vars, NEW x \in Reads
    PROVE  /\ caller[x] = "new" \/ (since'[x] = since[x] /\ anchor'[x] = anchor[x])
           /\ since'[x] \in 0..Len(hist') /\ anchor'[x] \in Query[x].where
           /\ caller'[x] # "new" => since'[x] \in 1..Len(hist')
           /\ since' = [r \in Reads |-> since'[r]]
           /\ DOMAIN anchor' = Reads /\ anchor' = [r \in Reads |-> anchor'[r]]
<1>1. /\ since \in [Reads -> 0..Len(hist)] /\ \A r \in Reads : anchor[r] \in Query[r].where
      /\ caller \in [Reads -> {"new", "offering", "waiting", "returned"}]
      /\ DOMAIN anchor = Reads /\ anchor = [r \in Reads |-> anchor[r]]
      /\ \A r \in Reads : caller[r] # "new" => since[r] \in 1..Len(hist)
      /\ hist \in Seq(SUBSET Events) /\ hist # <<>>
  BY Zenon DEF IInv, TypeOK, DomainInv
<1>2. Len(hist) \in Nat /\ Len(hist') \in Nat /\ Len(hist) <= Len(hist')
  BY History, Zenon
<1>3. /\ \A n \in 0..Len(hist) : n \in 0..Len(hist')
      /\ \A n \in 1..Len(hist) : n \in 1..Len(hist')
      /\ Len(hist) \in 1..Len(hist') /\ Len(hist) \in 0..Len(hist')
  <2>1. Len(hist) >= 1
    BY <1>1
  <2> QED
    BY <1>2, <2>1
<1>4. CASE \E r \in Reads : Submit(r)
  <2>1. PICK r \in Reads : Submit(r)
    BY <1>4, Zenon
  <2>2. /\ caller[r] = "new" /\ since' = [since EXCEPT ![r] = Len(hist)]
        /\ anchor' = anchor \/ \E a \in Query[r].where : anchor' = [anchor EXCEPT ![r] = a]
        /\ \A y \in Reads : y # r => caller'[y] = caller[y]
    BY <1>1, <2>1, Zenon DEF Submit, FilterAnchor
  <2>3. DOMAIN anchor' = Reads /\ anchor' = [q \in Reads |-> anchor'[q]]
    <3>1. CASE anchor' = anchor
      BY <1>1, <3>1, Zenon
    <3>2. CASE \E a \in Query[r].where : anchor' = [anchor EXCEPT ![r] = a]
      <4>1. PICK a \in Query[r].where : anchor' = [anchor EXCEPT ![r] = a]
        BY <3>2, Zenon
      <4> QED
        BY <1>1, <4>1
    <3> QED
      BY <2>2, <3>1, <3>2, Zenon
  <2>4. since' = [q \in Reads |-> since'[q]]
    BY <1>1, <2>2
  <2>5. CASE x = r
    <3>1. since'[x] = Len(hist) /\ anchor'[x] \in Query[x].where
      BY <1>1, <2>2, <2>5, Zenon
    <3> QED
      BY <1>3, <2>2, <2>3, <2>4, <2>5, <3>1, Zenon
  <2>6. CASE x # r
    <3>1. since'[x] = since[x] /\ anchor'[x] = anchor[x] /\ caller'[x] = caller[x]
      BY <1>1, <2>2, <2>6, Zenon
    <3> QED
      BY <1>1, <1>3, <2>3, <2>4, <3>1, Zenon
  <2> QED
    BY <2>5, <2>6
<1>5. CASE UNCHANGED <<since, anchor>> /\ (caller'[x] # "new" => caller[x] # "new")
  BY <1>1, <1>3, <1>5, Zenon
<1>6. \/ \E r \in Reads : Submit(r)
      \/ UNCHANGED <<since, anchor>> /\ (caller'[x] # "new" => caller[x] # "new")
  <2>1. CASE \E r \in Reads : Enqueue(r) \/ Leave(r) \/ Receive(r)
    <3>1. PICK r \in Reads : Enqueue(r) \/ Leave(r) \/ Receive(r)
      BY <2>1, Zenon
    <3>2. /\ UNCHANGED <<since, anchor>> /\ caller[r] # "new"
          /\ \A y \in Reads : y # r => caller'[y] = caller[y]
      BY <1>1, <3>1, Zenon DEF Enqueue, Leave, Receive
    <3> QED
      BY <3>2, Zenon
  <2>2. \/ \E r \in Reads : Submit(r) \/ Enqueue(r) \/ Leave(r) \/ Receive(r)
        \/ UNCHANGED <<since, anchor, caller>>
    BY Zenon DEF Next, CallerStep, RunStep, WorkerStep, vars, Cancel, Close, Change, TakeFirst,
       Collect, StopCollecting, Offer, OfferCancelled, Stop, Group, Alone
  <2> QED
    BY <2>1, <2>2, Zenon
<1> QED
  BY <1>4, <1>5, <1>6, Zenon

LEMMA StaysRight ==
    ASSUME IInv, [Next]_vars, NEW x \in Reads, NEW a \in Range(answers[x]), Right(x, a)
    PROVE  Right(x, a)'
<1>1. caller[x] # "new"
  <2>1. Range(<<>>) = {}
    BY DEF Range
  <2>2. answers[x] # <<>>
    BY <2>1, Zenon
  <2> QED
    BY <2>2, Zenon DEF IInv, PlaceInv
<1>2. since'[x] = since[x] /\ since[x] \in 1..Len(hist)
  BY <1>1, Beginning, Zenon DEF IInv, DomainInv
<1>3. /\ Len(hist) \in Nat /\ Len(hist') \in Nat /\ Len(hist) <= Len(hist')
      /\ \A k \in 1..Len(hist) : hist'[k] = hist[k]
  BY History, Zenon
<1>4. ASSUME NEW k \in since[x]..Len(hist)
      PROVE  k \in since'[x]..Len(hist') /\ hist'[k] = hist[k]
  <2>1. k \in 1..Len(hist) /\ k \in since[x]..Len(hist')
    BY <1>2, <1>3
  <2> QED
    BY <1>2, <1>3, <2>1, Zenon
<1>5. (closing => closing') /\ (~Live(x) => ~Live(x)')
  BY Context, Zenon
<1>6. a.err = "none" => \E k \in since'[x]..Len(hist') : a.row = Direct(x, hist'[k])
  <2>1. ASSUME a.err = "none" PROVE \E k \in since'[x]..Len(hist') : a.row = Direct(x, hist'[k])
    <3>1. PICK k \in since[x]..Len(hist) : a.row = Direct(x, hist[k])
      BY <2>1, Zenon DEF Right
    <3>2. k \in since'[x]..Len(hist') /\ hist'[k] = hist[k]
      BY <1>4, Zenon
    <3>3. a.row = Direct(x, hist'[k])
      BY <3>1, <3>2
    <3> QED
      BY <3>2, <3>3, Zenon
  <2> QED
    BY <2>1
<1>7. a.err = "overflow" => \E k \in since'[x]..Len(hist') : Overflows(Direct(x, hist'[k]))
  <2>1. ASSUME a.err = "overflow"
        PROVE  \E k \in since'[x]..Len(hist') : Overflows(Direct(x, hist'[k]))
    <3>1. PICK k \in since[x]..Len(hist) : Overflows(Direct(x, hist[k]))
      BY <2>1, Zenon DEF Right
    <3>2. k \in since'[x]..Len(hist') /\ hist'[k] = hist[k]
      BY <1>4, Zenon
    <3>3. Overflows(Direct(x, hist'[k]))
      BY <3>1, <3>2
    <3> QED
      BY <3>2, <3>3, Zenon
  <2> QED
    BY <2>1
<1>9. (a.err = "own" => ~Live(x)') /\ (a.err \in {"closed", "aborted"} => closing')
  BY <1>5, Zenon DEF Right
<1> QED
  BY <1>6, <1>7, <1>9, Zenon DEF Right

LEMMA StepAnswers ==
    ASSUME IInv, [Next]_vars, NEW x \in Reads
    PROVE  /\ answers'[x] \in Seq(Results(x)) /\ Len(answers'[x]) <= 1
           /\ \A a \in Range(answers'[x]) : Right(x, a)'
<1>1. /\ answers[x] \in Seq(Results(x)) /\ Len(answers[x]) <= 1 /\ PlaceInv(x)
      /\ \A a \in Range(answers[x]) : Right(x, a)
  BY Zenon DEF IInv, TypeOK
<1>2. Tells(x)
  BY StepPlaces, Zenon
<1>3. CASE answers'[x] = answers[x]
  <2>1. \A a \in Range(answers[x]) : Right(x, a)'
    BY <1>1, StaysRight, Zenon
  <2> QED
    BY <1>1, <1>3, <2>1, Zenon
<1>4. CASE /\ Pending(x)
           /\ \E v \in Results(x) : Right(x, v)' /\ answers'[x] = Append(answers[x], v)
  <2>1. PICK v \in Results(x) : Right(x, v)' /\ answers'[x] = Append(answers[x], v)
    BY <1>4, Zenon
  <2>2. answers[x] = <<>>
    BY <1>1, <1>4, Zenon DEF PlaceInv
  <2>3. /\ Append(<<>>, v) \in Seq(Results(x)) /\ Len(Append(<<>>, v)) <= 1
        /\ Range(Append(<<>>, v)) = {v}
    <3> HIDE DEF Results
    <3>1. Append(<<>>, v) = <<v>> /\ <<v>> \in Seq(Results(x)) /\ Len(<<v>>) = 1
      OBVIOUS
    <3>2. Range(<<v>>) = {v}
      BY DEF Range
    <3> QED
      BY <3>1, <3>2
  <2> QED
    BY <2>1, <2>2, <2>3, Zenon
<1> QED
  BY <1>2, <1>3, <1>4, Zenon DEF Tells

\* The anchors of the reads of a group do not change.
LEMMA StepGroups ==
    ASSUME IInv, [Next]_vars, NEW w \in Workers
    PROVE  GroupInv(w)'
<1>1. GroupInv(w) /\ groups \in [Workers -> SUBSET SUBSET Reads]
  BY Zenon DEF IInv, TypeOK
<1>2. CASE groups'[w] = groups[w]
  <2>1. ASSUME NEW rs \in groups[w], NEW r \in rs PROVE Key(r)' = Key(r)
    <3>1. r \in Reads
      BY <1>1, Zenon
    <3>2. Pending(r)
      BY Zenon DEF Pending, With, Grouped
    <3>3. caller[r] # "new"
      BY <3>1, <3>2, Zenon DEF IInv, PlaceInv
    <3>4. anchor'[r] = anchor[r]
      BY <3>1, <3>3, Beginning, Zenon
    <3> QED
      BY <3>4, Zenon DEF Key
  <2>2. \A rs \in groups[w] : \A r, q \in rs : Key(r)' = Key(q)'
    BY <1>1, <2>1, Zenon DEF GroupInv
  <2> QED
    BY <1>1, <1>2, <2>2, Zenon DEF GroupInv
<1>3. CASE Offer(w) \/ Group(w)
  <2>1. ASSUME NEW x \in Reads PROVE GroupInv(w)'
    BY <1>3, OfferPlaces, GroupPlaces, Zenon
  <2>2. ASSUME Reads = {} PROVE GroupInv(w)'
    <3>1. groups'[w] \subseteq groups[w] \/ groups'[w] = {}
      <4>1. wave \in Seq(Reads)
        BY Zenon DEF IInv, TypeOK
      <4>2. Range(wave) = {}
        BY <2>2, <4>1 DEF Range
      <4> QED
        BY <1>1, <1>3, <4>2, ZenonT(30) DEF Offer, Group
    <3>2. \A rs \in groups'[w] : rs = {}
      BY <1>1, <2>2, <3>1, Zenon
    <3> QED
      BY <3>2, Zenon DEF GroupInv
  <2> QED
    BY <2>1, <2>2, Zenon
<1>4. groups'[w] = groups[w] \/ Offer(w) \/ Group(w)
  <2>1. CASE \E v \in Workers : v # w /\ (Offer(v) \/ Group(v))
    BY <1>1, <2>1, Zenon DEF Offer, Group
  <2>2. CASE UNCHANGED groups
    BY <2>2, Zenon
  <2>3. UNCHANGED groups \/ \E v \in Workers : Offer(v) \/ Group(v)
    BY Zenon DEF Next, CallerStep, RunStep, WorkerStep, vars, workerVars, Submit, Enqueue, Leave,
       Receive, Cancel, Close, Change, TakeFirst, Collect, StopCollecting, OfferCancelled, Stop, Alone
  <2> QED
    BY <2>1, <2>2, <2>3, Zenon
<1> QED
  BY <1>2, <1>3, <1>4, Zenon

LEMMA StepQueues ==
    ASSUME IInv, [Next]_vars
    PROVE  /\ queue' \in Seq(Reads) /\ Len(queue') <= QueueSize
           /\ wave' \in Seq(Reads) /\ Len(wave') <= WaveSize
<1>1. /\ queue \in Seq(Reads) /\ Len(queue) <= QueueSize /\ Distinct(queue)
      /\ wave \in Seq(Reads) /\ Len(wave) <= WaveSize
      /\ QueueSize \in Nat \ {0} /\ WaveSize \in Nat \ {0}
  BY ReaderAssumption, Zenon DEF IInv, TypeOK
<1>2. /\ <<>> \in Seq(Reads) /\ Len(<<>>) <= WaveSize
      /\ \A r \in Reads : <<r>> \in Seq(Reads) /\ Len(<<r>>) <= WaveSize
  BY <1>1
<1>3. ASSUME NEW seq \in Seq(Reads), NEW r \in Reads, NEW n \in Nat, Len(seq) < n
      PROVE  Append(seq, r) \in Seq(Reads) /\ Len(Append(seq, r)) <= n
  BY <1>3
<1>4. ASSUME queue # <<>>
      PROVE  Tail(queue) \in Seq(Reads) /\ Len(Tail(queue)) <= QueueSize /\ Head(queue) \in Reads
  BY <1>1, <1>4
<1>5. CASE \E r \in Reads : Enqueue(r)
  <2>1. PICK r \in Reads : Enqueue(r)
    BY <1>5, Zenon
  <2>2. queue' = Append(queue, r) /\ Len(queue) < QueueSize /\ wave' = wave
    BY <2>1, Zenon DEF Enqueue
  <2> QED
    BY <1>1, <1>3, <2>2, Zenon
<1>6. CASE TakeFirst
  BY <1>1, <1>2, <1>4, <1>6, Zenon DEF TakeFirst
<1>7. CASE Collect
  BY <1>1, <1>3, <1>4, <1>7, Zenon DEF Collect
<1>8. CASE queue' = queue /\ wave' = <<>>
  BY <1>1, <1>2, <1>8, Zenon
<1>9. CASE queue # <<>> /\ queue' = Tail(queue) /\ wave' = wave
  BY <1>1, <1>4, <1>9, Zenon
<1>10. CASE UNCHANGED <<queue, wave>>
  BY <1>1, <1>10, Zenon
<1>11. \/ (\E r \in Reads : Enqueue(r)) \/ TakeFirst \/ Collect
       \/ queue' = queue /\ wave' = <<>>
       \/ queue # <<>> /\ queue' = Tail(queue) /\ wave' = wave
       \/ UNCHANGED <<queue, wave>>
  BY Zenon DEF Next, CallerStep, RunStep, WorkerStep, vars, Submit, Leave, Receive, Cancel,
     Close, Change, StopCollecting, Offer, OfferCancelled, Stop, Group, Alone
<1> QED
  BY <1>5, <1>6, <1>7, <1>8, <1>9, <1>10, <1>11, Zenon

LEMMA StepWorkers ==
    ASSUME IInv, [Next]_vars
    PROVE  /\ groups' \in [Workers -> SUBSET SUBSET Reads]
           /\ alone' \in [Workers -> SUBSET Reads]
<1>1. /\ groups \in [Workers -> SUBSET SUBSET Reads] /\ alone \in [Workers -> SUBSET Reads]
      /\ wave \in Seq(Reads)
  BY Zenon DEF IInv, TypeOK
<1>2. CASE UNCHANGED <<groups, alone>>
  BY <1>1, <1>2, Zenon
<1>3. ASSUME NEW w \in Workers, Offer(w) PROVE groups' \in [Workers -> SUBSET SUBSET Reads]
  <2> DEFINE live == {r \in Range(wave) : Live(r)}
             G == {{r \in live : Key(r) = Key(q)} : q \in live}
  <2>1. groups' = [groups EXCEPT ![w] = G]
    BY <1>3, Zenon DEF Offer
  <2>4. \A rs \in G : rs \subseteq Range(wave)
    BY Zenon
  <2> HIDE DEF G
  <2>2. Range(wave) \subseteq Reads
    BY <1>1 DEF Range
  <2>3. G \in SUBSET SUBSET Reads
    BY <2>2, <2>4, Zenon
  <2> QED
    BY <1>1, <2>1, <2>3, Zenon
<1>4. ASSUME NEW w \in Workers, Group(w)
      PROVE  groups' \in [Workers -> SUBSET SUBSET Reads] /\ alone' \in [Workers -> SUBSET Reads]
  <2>1. PICK rs \in groups[w] : /\ groups' = [groups EXCEPT ![w] = @ \ {rs}]
                                /\ alone' = alone \/ alone' = [alone EXCEPT ![w] = rs]
    BY <1>4, Zenon DEF Group, Retry, OneByOne
  <2>2. rs \in SUBSET Reads /\ groups[w] \ {rs} \in SUBSET SUBSET Reads
    BY <1>1, Zenon
  <2> QED
    BY <1>1, <2>1, <2>2, Zenon
<1>5. ASSUME NEW w \in Workers, Alone(w) PROVE alone' \in [Workers -> SUBSET Reads]
  <2>1. PICK r : alone' = [alone EXCEPT ![w] = @ \ {r}]
    BY <1>5, Zenon DEF Alone
  <2>2. alone[w] \ {r} \in SUBSET Reads
    BY <1>1, Zenon
  <2> QED
    BY <1>1, <2>1, <2>2, Zenon
<1>6. \/ UNCHANGED <<groups, alone>>
      \/ \E w \in Workers : \/ Offer(w) /\ alone' = alone
                            \/ Group(w)
                            \/ Alone(w) /\ groups' = groups
  BY Zenon DEF Next, CallerStep, RunStep, WorkerStep, vars, workerVars, Submit, Enqueue, Leave,
     Receive, Cancel, Close, Change, TakeFirst, Collect, StopCollecting, OfferCancelled, Stop,
     Offer, Alone
<1> QED
  BY <1>1, <1>2, <1>3, <1>4, <1>5, <1>6, Zenon

LEMMA StepRest ==
    ASSUME IInv, [Next]_vars
    PROVE  /\ caller' \in [Reads -> {"new", "offering", "waiting", "returned"}]
           /\ run' \in {"first", "collect", "offer", "await", "drain", "done"}
           /\ run' \in {"await", "drain", "done"} => closing'
           /\ failures' \in 0..MaxFailures
           /\ DOMAIN answers' = Reads /\ answers' = [r \in Reads |-> answers'[r]]
<1>1. /\ caller \in [Reads -> {"new", "offering", "waiting", "returned"}]
      /\ run \in {"first", "collect", "offer", "await", "drain", "done"}
      /\ run \in {"await", "drain", "done"} => closing
      /\ failures \in 0..MaxFailures /\ MaxFailures \in Nat
      /\ DOMAIN answers = Reads /\ answers = [r \in Reads |-> answers[r]]
  BY ReaderAssumption, Zenon DEF IInv, TypeOK, DomainInv
<1>2. caller' \in [Reads -> {"new", "offering", "waiting", "returned"}]
  <2>1. \/ UNCHANGED caller
        \/ \E r \in Reads, c \in {"offering", "waiting", "returned"} :
              caller' = [caller EXCEPT ![r] = c]
    BY Zenon DEF Next, CallerStep, RunStep, WorkerStep, vars, Submit, Enqueue, Leave, Receive,
       Cancel, Close, Change, TakeFirst, Collect, StopCollecting, Offer, OfferCancelled, Stop,
       Group, Alone
  <2> QED
    BY <1>1, <2>1
<1>3. /\ run' \in {"first", "collect", "offer", "await", "drain", "done"}
      /\ run' \in {"await", "drain", "done"} => closing'
  <2>1. \/ run' = run
        \/ run' \in {"first", "collect", "offer"}
        \/ run' \in {"await", "drain", "done"} /\ (closing \/ run \in {"await", "drain"})
    BY Zenon DEF Next, CallerStep, RunStep, WorkerStep, vars, Submit, Enqueue, Leave, Receive,
       Cancel, Close, Change, TakeFirst, Collect, StopCollecting, Offer, OfferCancelled, Stop,
       Group, Alone
  <2>2. closing => closing'
    BY Context, Zenon
  <2> QED
    BY <1>1, <2>1, <2>2
<1>4. failures' \in 0..MaxFailures
  <2>1. failures' = failures \/ (failures < MaxFailures /\ failures' = failures + 1)
    BY Zenon DEF Next, CallerStep, RunStep, WorkerStep, vars, dbVars, Submit, Enqueue, Leave,
       Receive, Cancel, Close, Change, TakeFirst, Collect, StopCollecting, Offer, OfferCancelled,
       Stop, Group, Alone
  <2> QED
    BY <1>1, <2>1
<1>5. DOMAIN answers' = Reads /\ answers' = [r \in Reads |-> answers'[r]]
  <2>1. ASSUME NEW w \in Workers, Offer(w)
        PROVE  DOMAIN answers' = Reads /\ answers' = [r \in Reads |-> answers'[r]]
    <3>1. PICK rs : answers' = [r \in Reads |-> IF r \in rs THEN Append(answers[r], Failed("own"))
                                                             ELSE answers[r]]
      BY <2>1, Zenon DEF Offer, Answer
    <3> QED
      BY <3>1
  <2>2. ASSUME \E rs : Answer(rs, LAMBDA r : Failed("closed"))
        PROVE  DOMAIN answers' = Reads /\ answers' = [r \in Reads |-> answers'[r]]
    <3>1. PICK rs : answers' = [r \in Reads |-> IF r \in rs THEN Append(answers[r], Failed("closed"))
                                                             ELSE answers[r]]
      BY <2>2, Zenon DEF Answer
    <3> QED
      BY <3>1
  <2>3. ASSUME NEW w \in Workers, Group(w)
        PROVE  DOMAIN answers' = Reads /\ answers' = [r \in Reads |-> answers'[r]]
    <3>1. \/ answers' = answers
          \/ \E rs : answers' = [r \in Reads |-> IF r \in rs
                                                THEN Append(answers[r], Value(Joined(r, rs, Db)))
                                                ELSE answers[r]]
      BY <2>3, Zenon DEF Group, Retry, OneByOne, Answer
    <3> HIDE DEF Value, Joined, Db
    <3> QED
      BY <1>1, <3>1
  <2>4. ASSUME NEW w \in Workers, Alone(w)
        PROVE  DOMAIN answers' = Reads /\ answers' = [r \in Reads |-> answers'[r]]
    <3>1. PICK r \in alone[w] :
            \/ Answer({r}, LAMBDA q : Failed("own"))
            \/ Answer({r}, LAMBDA q : Result(Direct(r, Db)))
            \/ Answer({r}, LAMBDA q : Failed("aborted"))
            \/ Answer({r}, LAMBDA q : Failed("failed"))
      BY <2>4, Zenon DEF Alone
    <3> DEFINE Told(v) == [q \in Reads |-> IF q \in {r} THEN Append(answers[q], v) ELSE answers[q]]
    <3>2. \/ answers' = Told(Failed("own")) \/ answers' = Told(Result(Direct(r, Db)))
          \/ answers' = Told(Failed("aborted")) \/ answers' = Told(Failed("failed"))
      BY <3>1, Zenon DEF Answer
    <3>3. \A v : DOMAIN Told(v) = Reads /\ Told(v) = [q \in Reads |-> Told(v)[q]]
      OBVIOUS
    <3> HIDE DEF Told
    <3> QED
      BY <3>2, <3>3
  <2>5. \/ UNCHANGED answers
        \/ \E rs : Answer(rs, LAMBDA r : Failed("closed"))
        \/ \E w \in Workers : Offer(w) \/ Group(w) \/ Alone(w)
    BY Zenon DEF Next, CallerStep, RunStep, WorkerStep, vars, Submit, Enqueue, Leave, Receive,
       Cancel, Close, Change, TakeFirst, Collect, StopCollecting, OfferCancelled, Stop
  <2> QED
    BY <1>1, <2>1, <2>2, <2>3, <2>4, <2>5, Zenon
<1> QED
  BY <1>2, <1>3, <1>4, <1>5, Zenon

LEMMA StepInv ==
    ASSUME IInv, [Next]_vars
    PROVE  IInv'
<1>1. /\ \A x \in Reads : PlaceInv(x)' /\ \A a \in Range(answers'[x]) : Right(x, a)'
      /\ Distinct(queue') /\ Distinct(wave')
  BY StepPlaces, StepAnswers, Zenon
<1>2. \A w \in Workers : GroupInv(w)'
  BY StepGroups, Zenon
<1>3. hist' # <<>> /\ hist' \in Seq(SUBSET Events) /\ Len(hist') <= MaxChanges + 1
  BY History, Zenon
<1>4. /\ since' \in [Reads -> 0..Len(hist')] /\ \A r \in Reads : anchor'[r] \in Query[r].where
      /\ \A r \in Reads : caller'[r] # "new" => since'[r] \in 1..Len(hist')
      /\ DOMAIN anchor' = Reads /\ anchor' = [r \in Reads |-> anchor'[r]]
  <2>1. ASSUME NEW x \in Reads PROVE since' \in [Reads -> 0..Len(hist')]
    <3>1. since' = [r \in Reads |-> since'[r]] /\ \A r \in Reads : since'[r] \in 0..Len(hist')
      BY Beginning, Zenon
    <3> QED
      BY <3>1, Zenon
  <2>2. ASSUME Reads = {}
        PROVE  since' = since /\ anchor' = anchor
    BY <2>2, Zenon DEF Next, RunStep, WorkerStep, vars, Close, Change, TakeFirst, Collect,
       StopCollecting, Offer, OfferCancelled, Stop, Group, Alone
  <2>3. /\ since \in [Reads -> 0..Len(hist)]
        /\ DOMAIN anchor = Reads /\ anchor = [r \in Reads |-> anchor[r]]
    BY Zenon DEF IInv, TypeOK, DomainInv
  <2>4. ASSUME Reads = {} PROVE since' \in [Reads -> 0..Len(hist')]
    BY <2>2, <2>3, <2>4
  <2>5. DOMAIN anchor' = Reads /\ anchor' = [r \in Reads |-> anchor'[r]]
    BY <2>2, <2>3, Beginning, Zenon
  <2> QED
    BY <2>1, <2>4, <2>5, Beginning, Zenon
<1>5. TypeOK'
  BY <1>3, <1>4, Context, StepQueues, StepWorkers, StepRest, StepAnswers, Zenon DEF TypeOK
<1>6. DomainInv'
  BY <1>3, <1>4, StepRest, Zenon DEF DomainInv
<1> QED
  BY <1>1, <1>2, <1>5, <1>6, Zenon DEF IInv

LEMMA InitInv == Init => IInv
<1> SUFFICES ASSUME Init PROVE IInv
  OBVIOUS
<1>1. Range(<<>>) = {} /\ Distinct(<<>>) /\ Len(<<>>) = 0
  BY DEF Range, Distinct
<1>2. \A S : <<>> \in Seq(S)
  OBVIOUS
<1>3. QueueSize \in Nat /\ WaveSize \in Nat /\ MaxFailures \in Nat /\ MaxChanges \in Nat
  BY ReaderAssumption, Zenon
<1>4. hist = <<Events>> /\ Len(hist) = 1 /\ hist # <<>> /\ hist \in Seq(SUBSET Events)
  BY DEF Init
<1>5. /\ 0 <= QueueSize /\ 0 <= WaveSize /\ 0 \in 0..MaxFailures
      /\ 1 <= MaxChanges + 1 /\ 0 \in 0..1 /\ 0 <= 1
  BY <1>3
<1>6. TypeOK
  <2>1. \A r \in Reads : anchor[r] \in Query[r].where
    BY ReaderAssumption, Zenon DEF Init
  <2>2. \A r \in Reads : answers[r] \in Seq(Results(r)) /\ Len(answers[r]) <= 1
    BY <1>1, <1>2, <1>5, Zenon DEF Init
  <2>3. since \in [Reads -> 0..Len(hist)]
    BY <1>4, <1>5, Zenon DEF Init
  <2>4. /\ queue \in Seq(Reads) /\ Len(queue) <= QueueSize
        /\ wave \in Seq(Reads) /\ Len(wave) <= WaveSize
    BY <1>1, <1>2, <1>5, Zenon DEF Init
  <2>5. Len(hist) <= MaxChanges + 1
    BY <1>4, <1>5, Zenon
  <2> QED
    BY <1>4, <1>5, <2>1, <2>2, <2>3, <2>4, <2>5, Zenon DEF Init, TypeOK
<1>7. DomainInv
  <2>1. /\ DOMAIN anchor = Reads /\ DOMAIN answers = Reads
        /\ anchor = [r \in Reads |-> anchor[r]] /\ answers = [r \in Reads |-> answers[r]]
    BY DEF Init
  <2>2. run = "first" /\ \A r \in Reads : caller[r] = "new"
    BY Zenon DEF Init
  <2> QED
    BY <1>4, <2>1, <2>2, Zenon DEF DomainInv
<1>8. ASSUME NEW r \in Reads PROVE PlaceInv(r) /\ \A a \in Range(answers[r]) : Right(r, a)
  <2>1. answers[r] = <<>> /\ Range(answers[r]) = {} /\ Range(queue) = {} /\ Range(wave) = {}
    BY <1>1, Zenon DEF Init
  <2>2. \A w \in Workers : groups[w] = {} /\ alone[w] = {}
    BY Zenon DEF Init
  <2>3. ~Queued(r) /\ ~Collected(r) /\ \A w \in Workers : ~With(w, r) /\ ~Grouped(w, r)
    BY <2>1, <2>2, Zenon DEF Queued, Collected, With, Grouped
  <2>4. ~Pending(r)
    BY <2>3, Zenon DEF Pending
  <2> QED
    BY <2>1, <2>3, <2>4, Zenon DEF PlaceInv
<1>9. \A w \in Workers : GroupInv(w)
  BY Zenon DEF Init, GroupInv
<1>10. Distinct(queue) /\ Distinct(wave)
  BY <1>1, Zenon DEF Init
<1> QED
  BY <1>6, <1>7, <1>8, <1>9, <1>10, Zenon DEF IInv

LEMMA InvHolds == Spec => []IInv
<1>1. IInv /\ [Next]_vars => IInv'
  BY StepInv, Zenon
<1> QED
  BY InitInv, <1>1, PTL DEF Spec

-----------------------------------------------------------------------------
\* For every set of reads, events and workers: what group() and direct() answer a read
\* with is the aggregate of exactly the events its own filter matches in one state of
\* the database between its request and the answer, and it is answered at most once.
THEOREM SharedReadsAreExact == Spec => []ReadsExact
<1>1. IInv => ReadsExact
  BY Zenon DEF IInv, Right, ReadsExact
<1> QED
  BY <1>1, InvHolds, PTL

\* For every set of reads, events and workers: an overflow, a deadline or a cancelled
\* caller in a shared statement of group() fails no other read.
THEOREM FailuresArePrivate == Spec => []Unpoisoned
<1>1. IInv => Unpoisoned
  BY Zenon DEF IInv, Right, Unpoisoned
<1> QED
  BY <1>1, InvHolds, PTL
=============================================================================
