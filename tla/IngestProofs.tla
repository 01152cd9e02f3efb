---------------------------- MODULE IngestProofs ----------------------------
(***************************************************************************)
(* For every set of metrics, stripes and requests and every bound: the     *)
(* absolute scores that transactions write add up to the committed items,  *)
(* automatic events replace nothing and follow one another, waiting for    *)
(* locks never closes a circle, and callers and the ranking projection are *)
(* told what happened.  A job that has all its locks shares a metric only  *)
(* with jobs that do not change it, so what it has read stays current      *)
(* until it commits.                                                       *)
(***************************************************************************)
EXTENDS Ingest, TLAPS

\* A leaf is for Zenon unless it names another prover.
USE ZenonT(90)

-----------------------------------------------------------------------------
(* Numbers. *)

\* The facts about numbers and finite sets that the lemmas use; they are proved last.
Counting ==
    /\ \A T \in SUBSET Nat : T # {} => \E x \in T : \A y \in T : x <= y
    /\ IsFiniteSet({}) /\ Cardinality({}) = 0
    /\ \A n \in Nat : IsFiniteSet(1..n)
    /\ \A S : IsFiniteSet(S) =>
          /\ Cardinality(S) \in Nat
          /\ \A T \in SUBSET S : IsFiniteSet(T) /\ Cardinality(T) <= Cardinality(S)
          /\ \A T \in SUBSET S : Cardinality(T) = Cardinality(S) => T = S
          /\ \A x : IsFiniteSet(S \cup {x})
          /\ \A x : x \notin S => Cardinality(S \cup {x}) = Cardinality(S) + 1
          /\ IsFiniteSet({l[2] : l \in S})

LEMMA Least ==
    ASSUME Counting, NEW T \in SUBSET Nat, T # {}
    PROVE  \E x \in T : \A y \in T : x <= y
BY DEF Counting

LEMMA SizeType ==
    ASSUME Counting, NEW S, IsFiniteSet(S)
    PROVE  Cardinality(S) \in Nat
BY DEF Counting

LEMMA SubsetSize ==
    ASSUME Counting, NEW S, IsFiniteSet(S), NEW T \in SUBSET S
    PROVE  /\ IsFiniteSet(T) /\ Cardinality(T) <= Cardinality(S)
           /\ Cardinality(T) = Cardinality(S) => T = S
BY DEF Counting

LEMMA AddSize ==
    ASSUME Counting, NEW S, IsFiniteSet(S), NEW x
    PROVE  IsFiniteSet(S \cup {x}) /\ (x \notin S => Cardinality(S \cup {x}) = Cardinality(S) + 1)
BY DEF Counting

LEMMA EmptySize ==
    ASSUME Counting, NEW S, IsFiniteSet(S)
    PROVE  Cardinality(S) = 0 <=> S = {}
<1>1. Cardinality({}) = 0 /\ {} \in SUBSET S
  BY DEF Counting
<1> QED
  BY <1>1, SubsetSize

LEMMA SingletonSize ==
    ASSUME Counting, NEW x
    PROVE  Cardinality({x}) = 1
<1>1. IsFiniteSet({}) /\ Cardinality({}) = 0 /\ x \notin {} /\ {} \cup {x} = {x}
  BY DEF Counting
<1>2. Cardinality({} \cup {x}) = Cardinality({}) + 1
  BY <1>1, AddSize
<1> QED
  BY <1>1, <1>2, SMT

LEMMA IntervalFinite ==
    ASSUME Counting, NEW a \in Nat \ {0}, NEW b \in Nat
    PROVE  IsFiniteSet(a..b)
<1>1. a..b \subseteq 1..b
  BY SMT
<1>2. IsFiniteSet(1..b)
  BY DEF Counting
<1> QED
  BY <1>1, <1>2, SubsetSize

LEMMA MinIs ==
    ASSUME Counting, NEW T \in SUBSET Nat, T # {}
    PROVE  Min(T) \in T /\ \A y \in T : Min(T) <= y
  BY Least DEF Min

LEMMA Greatest ==
    ASSUME Counting, NEW T \in SUBSET Nat, T # {}, IsFiniteSet(T)
    PROVE  \E x \in T : \A y \in T : y <= x
<1> DEFINE Unbounded(U) == \A x \in U : \E y \in U : ~(y <= x)
           Sizes == {n \in Nat : \E U \in SUBSET Nat :
                        U # {} /\ IsFiniteSet(U) /\ Cardinality(U) = n /\ Unbounded(U)}
<1>1. ASSUME Sizes # {} PROVE FALSE
  <2>1. PICK n \in Sizes : \A k \in Sizes : n <= k
    <3> HIDE DEF Unbounded
    <3> QED
      BY <1>1, Least
  <2>2. PICK U \in SUBSET Nat : U # {} /\ IsFiniteSet(U) /\ Cardinality(U) = n /\ Unbounded(U)
    BY <2>1
  <2>3. PICK x \in U : TRUE
    BY <2>2
  <2> DEFINE W == U \ {x}
  <2>4. IsFiniteSet(W) /\ Cardinality(W) = n - 1 /\ n - 1 \in Nat
    <3>1. IsFiniteSet(W) /\ x \notin W /\ W \cup {x} = U
      BY <2>2, <2>3, SubsetSize
    <3>2. Cardinality(W \cup {x}) = Cardinality(W) + 1 /\ Cardinality(W) \in Nat
      BY <3>1, AddSize, SizeType
    <3>3. Cardinality(U) = Cardinality(W) + 1
      BY <3>1, <3>2
    <3> HIDE DEF W
    <3> QED
      BY <2>2, <3>1, <3>2, <3>3, SMT
  <2>5. CASE U \ {x} = {}
    BY <2>2, <2>3, <2>5, SMT
  <2>6. CASE U \ {x} # {}
    <3>1. ~Unbounded(U \ {x})
      <4>1. n - 1 \notin Sizes
        BY <2>1, <2>4, SMT
      <4> QED
        BY <2>4, <2>6, <4>1
    <3>2. PICK y \in U \ {x} : \A z \in U \ {x} : z <= y
      BY <3>1
    <3> QED
      BY <2>2, <2>3, <3>2, SMT
  <2> QED
    BY <2>5, <2>6
<1>2. Unbounded(T) => Cardinality(T) \in Sizes
  BY SizeType
<1> QED
  BY <1>1, <1>2

LEMMA MaxIs ==
    ASSUME Counting, NEW T \in SUBSET Nat, T # {}, IsFiniteSet(T)
    PROVE  Max(T) \in T /\ \A y \in T : y <= Max(T)
<1>1. \E x \in T : \A y \in T : x >= y
  BY Greatest
<1>2. Max(T) \in T /\ \A y \in T : Max(T) >= y
  BY <1>1 DEF Max
<1> QED
  BY <1>2

-----------------------------------------------------------------------------
(* Positions in a finite set of numbers. *)

LEMMA RankIs ==
    ASSUME Counting, NEW S \in SUBSET Nat, IsFiniteSet(S), NEW x \in S
    PROVE  Rank(S, x) \in 1..Cardinality(S)
<1> DEFINE R == {y \in S : y <= x}
<1>1. R \subseteq S /\ R # {}
  BY SMT
<1> HIDE DEF R
<1>2. IsFiniteSet(R) /\ Cardinality(R) <= Cardinality(S)
  BY <1>1, SubsetSize
<1>3. Cardinality(R) \in Nat \ {0} /\ Cardinality(S) \in Nat
  BY <1>1, <1>2, SizeType, EmptySize
<1>4. Cardinality(R) \in 1..Cardinality(S)
  BY <1>2, <1>3, SMT
<1> QED
  BY <1>4 DEF Rank, R

LEMMA RankGrows ==
    ASSUME Counting, NEW S \in SUBSET Nat, IsFiniteSet(S), NEW x \in S, NEW y \in S, x < y
    PROVE  Rank(S, x) < Rank(S, y)
<1> DEFINE R == {z \in S : z <= x}
           Q == {z \in S : z <= y}
<1>1. R \subseteq Q /\ R # Q /\ Q \subseteq S
  <2>1. y \in Q /\ y \notin R
    BY SMT
  <2>2. \A z \in S : z <= x => z <= y
    BY SMT
  <2>3. R \subseteq Q
    BY <2>2
  <2> QED
    BY <2>1, <2>3
<1> HIDE DEF R, Q
<1>2. IsFiniteSet(Q)
  BY <1>1, SubsetSize
<1>3. IsFiniteSet(R) /\ Cardinality(R) <= Cardinality(Q) /\ Cardinality(R) # Cardinality(Q)
  BY <1>1, <1>2, SubsetSize
<1>4. Cardinality(R) < Cardinality(Q)
  BY <1>2, <1>3, SizeType, SMT
<1> QED
  BY <1>4 DEF Rank, R, Q

LEMMA RankTaken ==
    ASSUME Counting, NEW S \in SUBSET Nat, IsFiniteSet(S), NEW k \in 1..Cardinality(S)
    PROVE  \E x \in S : Rank(S, x) = k
<1> DEFINE Free1 == {n \in 1..Cardinality(S) : \A x \in S : Rank(S, x) # n}
<1>1. Cardinality(S) \in Nat
  BY SizeType
<1>2. ASSUME Free1 # {} PROVE FALSE
  <2>0. Free1 \in SUBSET Nat
    BY <1>1, SMT
  <2>1. PICK n \in Free1 : \A l \in Free1 : n <= l
    <3> HIDE DEF Free1
    <3> QED
      BY <1>2, <2>0, Least
  <2>2. n \in 1..Cardinality(S) /\ \A x \in S : Rank(S, x) # n
    BY <2>1
  <2>3. CASE n = 1
    <3>1. S # {}
      BY <1>1, <2>2, EmptySize, SMT
    <3>2. PICK x \in S : \A y \in S : x <= y
      BY <3>1, Least
    <3>3. {y \in S : y <= x} = {x}
      <4>1. \A y \in S : y <= x <=> y = x
        BY <3>2, SMT
      <4> QED
        BY <4>1
    <3>4. Rank(S, x) = 1
      BY <3>3, SingletonSize DEF Rank
    <3> QED
      BY <2>2, <2>3, <3>2, <3>4
  <2>4. CASE n # 1
    <3>1. n - 1 \in 1..Cardinality(S) /\ n - 1 \notin Free1
      BY <1>1, <2>1, <2>2, <2>4, SMT
    <3>2. PICK x \in S : Rank(S, x) = n - 1
      BY <3>1
    <3> DEFINE R == {y \in S : y <= x}
               Above == {y \in S : x < y}
    <3>3. Above # {}
      <4>1. ASSUME Above = {} PROVE R = S
        <5>1. \A y \in S : y <= x
          BY <4>1, SMT
        <5> QED
          BY <5>1
      <4>2. Cardinality(R) = n - 1
        BY <3>2 DEF Rank
      <4>3. n - 1 # Cardinality(S)
        BY <1>1, <2>2, SMT
      <4> QED
        BY <4>1, <4>2, <4>3
    <3>4. PICK z \in Above : \A y \in Above : z <= y
      <4>1. Above \in SUBSET Nat
        OBVIOUS
      <4> HIDE DEF Above
      <4> QED
        BY <3>3, <4>1, Least
    <3>5. {y \in S : y <= z} = R \cup {z} /\ z \notin R /\ R \subseteq S /\ z \in S
      <4>1. z \in S /\ x < z /\ \A y \in S : x < y => z <= y
        BY <3>4
      <4>2. ~(z <= x) /\ \A y \in S : y <= z <=> y <= x \/ y = z
        BY <4>1, SMT
      <4> QED
        BY <4>1, <4>2
    <3>6. IsFiniteSet(R) /\ Cardinality(R) = n - 1
      BY <3>2, <3>5, SubsetSize DEF Rank
    <3>7. Cardinality(R \cup {z}) = (n - 1) + 1
      BY <3>5, <3>6, AddSize
    <3>8. Rank(S, z) = n
      BY <2>2, <3>5, <3>7, SMT DEF Rank
    <3> QED
      BY <2>2, <3>5, <3>8
  <2> QED
    BY <2>3, <2>4
<1> QED
  BY <1>2

LEMMA NthIs ==
    ASSUME Counting, NEW S \in SUBSET Nat, IsFiniteSet(S), NEW k \in 1..Cardinality(S)
    PROVE  Nth(S, k) \in S /\ Rank(S, Nth(S, k)) = k
  BY RankTaken DEF Nth

LEMMA NthGrows ==
    ASSUME Counting, NEW S \in SUBSET Nat, IsFiniteSet(S),
           NEW k \in 1..Cardinality(S), NEW l \in 1..Cardinality(S), k < l
    PROVE  Nth(S, k) < Nth(S, l)
<1>1. Nth(S, k) \in S /\ Rank(S, Nth(S, k)) = k /\ Nth(S, l) \in S /\ Rank(S, Nth(S, l)) = l
  BY NthIs
<1>2. Nth(S, l) < Nth(S, k) => l < k
  BY <1>1, RankGrows
<1>3. Nth(S, l) # Nth(S, k)
  BY <1>1, SMT
<1>4. Cardinality(S) \in Nat
  BY SizeType
<1>5. \A x \in Nat, y \in Nat : x # y /\ ~(y < x) => x < y
  BY SMT
<1>6. k \in Nat /\ l \in Nat /\ ~(l < k)
  BY <1>4, SMT
<1> QED
  BY <1>1, <1>2, <1>3, <1>5, <1>6

LEMMA NthOfRank ==
    ASSUME Counting, NEW S \in SUBSET Nat, IsFiniteSet(S), NEW x \in S
    PROVE  Rank(S, x) \in 1..Cardinality(S) /\ Nth(S, Rank(S, x)) = x
<1>1. Rank(S, x) \in 1..Cardinality(S)
  BY RankIs
<1> DEFINE y == Nth(S, Rank(S, x))
<1>2. y \in S /\ Rank(S, y) = Rank(S, x)
  BY <1>1, NthIs
<1> HIDE DEF y
<1>3. (x < y => Rank(S, x) < Rank(S, y)) /\ (y < x => Rank(S, y) < Rank(S, x))
  BY <1>2, RankGrows
<1>4. Rank(S, x) \in Nat
  BY <1>1, SizeType, SMT
<1>5. x = y
  BY <1>2, <1>3, <1>4, SMT
<1> QED
  BY <1>1, <1>5 DEF y

-----------------------------------------------------------------------------
(* Recursion over the items of a batch. *)

LEMMA Induct ==
    ASSUME Counting, NEW N \in Nat, NEW S, 0 \in S, \A k \in 1..N : k - 1 \in S => k \in S
    PROVE  \A k \in 0..N : k \in S
<1> DEFINE Bad == {k \in 0..N : k \notin S}
<1>1. ASSUME Bad # {} PROVE FALSE
  <2>1. Bad \in SUBSET Nat
    BY SMT
  <2>2. PICK n \in Bad : \A k \in Bad : n <= k
    <3> HIDE DEF Bad
    <3> QED
      BY <1>1, <2>1, Least
  <2>3. n \in 0..N /\ n \notin S /\ n # 0
    BY <2>2
  <2>4. n \in 1..N /\ n - 1 \in 0..N /\ ~(n <= n - 1)
    BY <2>3, SMT
  <2>5. n - 1 \in S
    BY <2>2, <2>4
  <2> QED
    BY <2>3, <2>4, <2>5
<1> QED
  BY <1>1

Solves(F, N, V, b, G) ==
    F \in [0..N -> V] /\ F[0] = b /\ \A k \in 1..N : F[k] = G[k][F[k - 1]]

LEMMA RecursionExists ==
    ASSUME Counting, NEW N \in Nat, NEW V, NEW b \in V, NEW G \in [1..N -> [V -> V]]
    PROVE  \E F : Solves(F, N, V, b, G)
<1> DEFINE Upto(n) == \E F \in [0..n -> V] : F[0] = b /\ \A k \in 1..n : F[k] = G[k][F[k - 1]]
           S == {n \in 0..N : Upto(n)}
<1>1. 0 \in S
  <2>1. [i \in 0..0 |-> b] \in [0..0 -> V] /\ [i \in 0..0 |-> b][0] = b
    BY SMT
  <2>2. 1..0 = {} /\ 0 \in 0..N
    BY SMT
  <2>3. Upto(0)
    BY <2>1, <2>2
  <2> QED
    BY <2>2, <2>3
<1>2. ASSUME NEW n \in 1..N, n - 1 \in S PROVE n \in S
  <2>1. PICK F \in [0..(n - 1) -> V] : F[0] = b /\ \A k \in 1..(n - 1) : F[k] = G[k][F[k - 1]]
    BY <1>2
  <2> DEFINE v == G[n][F[n - 1]]
             H == [i \in 0..n |-> IF i = n THEN v ELSE F[i]]
  <2>2. v \in V
    BY <1>2, SMT
  <2> HIDE DEF v
  <2>3. H \in [0..n -> V]
    BY <2>2, SMT
  <2>4. H[0] = b /\ H[n] = v /\ \A k \in 1..(n - 1) : H[k] = F[k] /\ H[k - 1] = F[k - 1]
    BY <2>1, SMT
  <2>5. H[n - 1] = F[n - 1]
    BY SMT
  <2>6. \A k \in 1..n : k = n \/ k \in 1..(n - 1)
    BY SMT
  <2> HIDE DEF H
  <2>7. \A k \in 1..n : H[k] = G[k][H[k - 1]]
    BY <2>1, <2>4, <2>5, <2>6 DEF v
  <2>8. Upto(n)
    BY <2>3, <2>4, <2>7
  <2>9. n \in 0..N
    BY SMT
  <2> QED
    BY <2>8, <2>9
<1>3. \A k \in 0..N : k \in S
  <2> HIDE DEF S
  <2> QED
    BY <1>1, <1>2, Induct
<1>4. N \in 0..N
  BY SMT
<1> QED
  BY <1>3, <1>4 DEF Solves

-----------------------------------------------------------------------------
(* Jobs and their items. *)

LEMMA ItemFields ==
    ASSUME Counting, NEW x \in ItemType
    PROVE  /\ x.kind \in {"write", "set", "delete"} /\ x.metric \in Metrics
           /\ x.ts \in 0..MaxTime /\ x.ts \in Nat /\ x.value \in Nat
           /\ x.entities \subseteq Entities
<1>1. MaxTime \in Nat
  BY IngestAssumption
<1> QED
  BY <1>1, SMT DEF ItemType

LEMMA ElementTyped ==
    ASSUME Counting, NEW V, NEW s \in Seq(V)
    PROVE  Len(s) \in Nat /\ \A i \in 1..Len(s) : s[i] \in V
BY SMT

LEMMA JobFacts ==
    ASSUME Counting, NEW j \in Jobs
    PROVE  /\ j \in Batches \X Stripes /\ j[1] \in Batches /\ j[2] \in Stripes
           /\ Last(j) \in Nat
           /\ \A i \in 1..Last(j) : Item(j, i) \in ItemType
           /\ JobItems[j] = {i \in 1..Last(j) : Stripe[Item(j, i).metric] = j[2]}
           /\ JobItems[j] \subseteq 1..Last(j) /\ JobItems[j] \subseteq Nat
           /\ JobItems[j] # {} /\ IsFiniteSet(JobItems[j])
           /\ JobMetrics[j] = {Item(j, i).metric : i \in JobItems[j]}
           /\ JobMetrics[j] # {} /\ JobMetrics[j] \subseteq Metrics /\ JobMetrics[j] \subseteq Nat
<1>1. j \in Batches \X Stripes /\ JobItems[j] # {}
  BY DEF Jobs
<1>2. j[1] \in Batches /\ j[2] \in Stripes
  BY <1>1
<1>3. Items[j[1]] \in Seq(ItemType)
  BY <1>2, IngestAssumption
<1>4. Last(j) \in Nat /\ \A i \in 1..Last(j) : Item(j, i) \in ItemType
  BY <1>3, ElementTyped DEF Last, Item
<1>5. JobItems[j] = {i \in 1..Last(j) : Stripe[Item(j, i).metric] = j[2]}
  BY <1>1 DEF JobItems
<1>6. JobItems[j] \subseteq 1..Last(j)
  BY <1>5
<1>7. 1..Last(j) \subseteq Nat /\ IsFiniteSet(1..Last(j))
  BY <1>4, IntervalFinite, SMT
<1>8. IsFiniteSet(JobItems[j])
  BY <1>6, <1>7, SubsetSize
<1>9. JobMetrics[j] = {Item(j, i).metric : i \in JobItems[j]}
  BY DEF JobMetrics
<1>10. \A i \in JobItems[j] : Item(j, i).metric \in Metrics
  BY <1>4, <1>6, ItemFields
<1>11. Metrics \subseteq Nat
  BY IngestAssumption
<1>12. JobMetrics[j] # {} /\ JobMetrics[j] \subseteq Metrics
  BY <1>1, <1>9, <1>10
<1>13. JobItems[j] \subseteq Nat /\ JobMetrics[j] \subseteq Nat
  BY <1>6, <1>7, <1>11, <1>12
<1> QED
  BY <1>1, <1>2, <1>4, <1>5, <1>6, <1>8, <1>9, <1>12, <1>13

LEMMA ItemOfJob ==
    ASSUME Counting, NEW j \in Jobs, NEW i \in JobItems[j]
    PROVE  Item(j, i) \in ItemType /\ Item(j, i).metric \in JobMetrics[j]
<1>1. JobItems[j] \subseteq 1..Last(j) /\ JobMetrics[j] = {Item(j, k).metric : k \in JobItems[j]}
  BY JobFacts
<1>2. \A k \in 1..Last(j) : Item(j, k) \in ItemType
  BY JobFacts
<1> QED
  BY <1>1, <1>2

\* copyGroupedWrites puts an item into one job.
LEMMA OneJob ==
    ASSUME Counting, NEW j \in Jobs, NEW k \in Jobs, j[1] = k[1], NEW i \in JobItems[j], i \in JobItems[k]
    PROVE  j = k
<1>1. Item(j, i) = Item(k, i)
  BY DEF Item
<1>2. j[2] = k[2]
  <2>1. JobItems[j] = {n \in 1..Last(j) : Stripe[Item(j, n).metric] = j[2]}
    BY JobFacts
  <2>2. JobItems[k] = {n \in 1..Last(k) : Stripe[Item(k, n).metric] = k[2]}
    BY JobFacts
  <2> QED
    BY <1>1, <2>1, <2>2
<1>3. j \in Batches \X Stripes /\ k \in Batches \X Stripes
  BY JobFacts
<1> QED
  BY <1>2, <1>3, SMT

EventType == [batch: Batches, index: Nat, automatic: BOOLEAN]
Values == 0..MaxValue \cup {Absent}
Phases == {"locking", "locked", "read", "staged", "stamped", "committed", "rejected", "failed"}

\* Scores with values in V, of the metrics in D.
Table(D, V) == [D -> [Entities -> V]]
\* A function on the jobs.
Shaped(f) == f = [j \in Jobs |-> f[j]]

TypeInv ==
    /\ events \in [Metrics -> [1..MaxTime -> {NoItem} \cup EventType]]
    /\ scores \in Table(Metrics, Values)
    /\ registered \subseteq Metrics /\ Registered \subseteq registered
    /\ version \in [Metrics -> Nat] /\ clock \in [Metrics -> 0..MaxTime]
    /\ locks \subseteq Jobs \X Metrics \X BOOLEAN /\ IsFiniteSet(locks)
    /\ pc \in [Jobs -> Phases]
    /\ Shaped(snapshot) /\ Shaped(accepted) /\ Shaped(staged) /\ Shaped(stamps)
    /\ \A j \in Jobs : accepted[j] \subseteq JobItems[j]
    /\ failures \in 0..MaxFailures
    /\ durable \subseteq Batches \X Nat

\* A job takes the locks of its metrics in their order, has all of them while it reads
\* and writes, and none when it has ended.
LockProgress(j) ==
    /\ pc[j] = "locking" =>
          /\ Held(j) # JobMetrics[j]
          /\ \A m \in Held(j), n \in JobMetrics[j] \ Held(j) : m < n
    /\ pc[j] \in {"locked", "read", "staged", "stamped"} => Held(j) = JobMetrics[j]
    /\ Ended(j) => Held(j) = {}

\* The locks are those that beginIngest takes, and two jobs have a metric only if both
\* share it.
LockInv ==
    /\ \A l \in locks : l[2] \in JobMetrics[l[1]] /\ l[3] = Exclusive(l[1], l[2])
    /\ \A k, l \in locks : k[2] = l[2] /\ k[1] # l[1] => ~k[3] /\ ~l[3]
    /\ \A j \in Jobs : LockProgress(j)

\* What a job has read is still current.
SnapshotInv(j) ==
    pc[j] \in {"read", "staged", "stamped"} =>
        snapshot[j] = [version |-> Restrict(version, JobMetrics[j]),
                       scores |-> Restrict(scores, JobMetrics[j]),
                       clock |-> Restrict(clock, JobMetrics[j])]

\* What a job has staged is what its accepted items make of what it has read.
StagedInv(j) ==
    pc[j] \in {"staged", "stamped"} =>
        /\ staged[j] \in Table(JobMetrics[j], Values)
        /\ staged[j] = Credit(j, accepted[j], snapshot[j].scores)

\* The timestamp of an automatic item is free and behind the clock, and later ones are
\* behind it.
StampIs(j, i, m, at) ==
    /\ at[i] \in 1..MaxTime /\ clock[m] < at[i] /\ events[m][at[i]] = NoItem
    /\ \A k \in Automatic(j, m) : i < k => at[i] < at[k]
StampInv(j) ==
    pc[j] = "stamped" =>
        \A i \in accepted[j] : IsAutomatic(j, i) => StampIs(j, i, Item(j, i).metric, stamps[j])

ClockInv ==
    \A m \in Metrics, t \in 1..MaxTime :
        events[m][t] # NoItem /\ events[m][t].automatic => t <= clock[m]

DurableInv ==
    /\ \A d \in durable : \E j \in Jobs :
          j[1] = d[1] /\ d[2] \in accepted[j] /\ pc[j] \in {"committed", "failed"}
    /\ \A j \in Jobs :
          /\ pc[j] = "committed" => \A i \in accepted[j] : <<j[1], i>> \in durable
          /\ pc[j] = "rejected" => accepted[j] = {}

BoardInv ==
    /\ boards \in [Metrics -> Seq([Entities -> Values])]
    /\ \A m \in Metrics :
          Len(boards[m]) = version[m] + 1 /\ boards[m][version[m] + 1] = scores[m]
    /\ \A p \in published : p.metric \in Metrics /\ p.previous \in Nat

-----------------------------------------------------------------------------
(* Scores after the items of a job. *)

Amount == Nat \cup {Absent}

LEMMA NewScoreType ==
    ASSUME Counting, NEW item \in ItemType, NEW old \in Amount
    PROVE  NewScore(item, old) \in Amount
<1>1. item.value \in Nat
  BY ItemFields
<1> QED
  BY <1>1, SMT DEF NewScore, Amount

LEMMA ValuesAreAmounts ==
    /\ Values \subseteq Amount
    /\ \A n \in Amount : (n # Absent => n <= MaxValue) => n \in Values
<1>1. MaxValue \in Nat
  BY IngestAssumption
<1> QED
  BY <1>1, SMT DEF Values, Amount

\* What an item makes of a score.
After(item, m, e, old) ==
    IF m = item.metric /\ e \in item.entities THEN NewScore(item, old) ELSE old

Applies(item, m, e, sc) == Apply(item, sc)[m][e] = After(item, m, e, sc[m][e])

LEMMA ApplyAt ==
    ASSUME Counting, NEW D, NEW sc \in Table(D, Amount), NEW item \in ItemType, item.metric \in D,
           NEW m \in D, NEW e \in Entities
    PROVE  Applies(item, m, e, sc)
<1> DEFINE row == [x \in Entities |-> IF x \in item.entities THEN NewScore(item, sc[item.metric][x])
                                      ELSE sc[item.metric][x]]
<1>1. Apply(item, sc) = [sc EXCEPT ![item.metric] = row]
  BY DEF Apply
<1>2. row[e] = IF e \in item.entities THEN NewScore(item, sc[item.metric][e]) ELSE sc[item.metric][e]
  OBVIOUS
<1> HIDE DEF row
<1>3. [sc EXCEPT ![item.metric] = row][m] = IF m = item.metric THEN row ELSE sc[m]
  BY DEF Table
<1> QED
  BY <1>1, <1>2, <1>3 DEF After, Applies

LEMMA ApplyTyped ==
    ASSUME Counting, NEW D, NEW V, NEW sc \in Table(D, V), NEW item, item.metric \in D,
           \A e \in Entities : e \in item.entities => NewScore(item, sc[item.metric][e]) \in V
    PROVE  Apply(item, sc) \in Table(D, V)
<1> DEFINE row == [x \in Entities |-> IF x \in item.entities THEN NewScore(item, sc[item.metric][x])
                                      ELSE sc[item.metric][x]]
<1>1. Apply(item, sc) = [sc EXCEPT ![item.metric] = row]
  BY DEF Apply
<1>2. row \in [Entities -> V]
  <2>1. sc[item.metric] \in [Entities -> V]
    BY DEF Table
  <2> QED
    BY <2>1
<1> HIDE DEF row
<1> QED
  BY <1>1, <1>2 DEF Table

LEMMA ApplyAmount ==
    ASSUME Counting, NEW D, NEW sc \in Table(D, Amount), NEW item \in ItemType, item.metric \in D
    PROVE  Apply(item, sc) \in Table(D, Amount)
<1>1. \A e \in Entities : sc[item.metric][e] \in Amount
  BY DEF Table
<1>2. \A e \in Entities : NewScore(item, sc[item.metric][e]) \in Amount
  BY <1>1, NewScoreType
<1> QED
  BY <1>2, ApplyTyped

\* The scores after each item, for the items in A.
Credits(c, j, A, D, sc) ==
    /\ c \in [0..Last(j) -> Table(D, Amount)]
    /\ Credit(j, A, sc) = c[Last(j)] /\ c[0] = sc
    /\ \A k \in 1..Last(j) : c[k] = IF k \in A THEN Apply(Item(j, k), c[k - 1]) ELSE c[k - 1]
LEMMA CreditIs ==
    ASSUME Counting, NEW j \in Jobs, NEW A \in SUBSET JobItems[j], NEW D, JobMetrics[j] \subseteq D,
           NEW sc \in Table(D, Amount)
    PROVE  \E c : Credits(c, j, A, D, sc)
<1> DEFINE N == Last(j)
           V == Table(D, Amount)
           Step1(k, s) == IF k \in A THEN Apply(Item(j, k), s) ELSE s
           G == [k \in 1..N |-> [s \in V |-> Step1(k, s)]]
<1>1. N \in Nat /\ A \subseteq 1..N
  BY JobFacts
<1>2. ASSUME NEW k \in 1..N, NEW s \in V PROVE Step1(k, s) \in V
  <2>1. CASE k \in A
    <3>1. Item(j, k) \in ItemType /\ Item(j, k).metric \in D
      BY <2>1, ItemOfJob
    <3> QED
      BY <2>1, <3>1, ApplyAmount
  <2> QED
    BY <2>1
<1> HIDE DEF Step1, V
<1>3. G \in [1..N -> [V -> V]]
  BY <1>2
<1>4. sc \in V
  BY DEF V
<1>5. PICK F : Solves(F, N, V, sc, G)
  <2> HIDE DEF G, N
  <2> QED
    BY <1>1, <1>3, <1>4, RecursionExists
<1>6. \A k \in 1..N : k - 1 \in 0..N /\ k \in 0..N
  BY <1>1, SMT
<1>7. \A k \in 1..N : F[k] = Step1(k, F[k - 1])
  BY <1>5, <1>6 DEF Solves
<1> DEFINE Rec(c) == [k \in 0..N |-> IF k = 0 THEN sc
                                     ELSE IF k \in A THEN Apply(Item(j, k), c[k - 1]) ELSE c[k - 1]]
<1>8. F = Rec(F)
  <2>1. \A k \in 0..N : k = 0 \/ k \in 1..N
    BY <1>1, SMT
  <2>2. \A k \in 0..N : F[k] = Rec(F)[k]
    BY <1>5, <1>7, <2>1 DEF Step1, Solves
  <2>3. F = [k \in 0..N |-> F[k]]
    BY <1>5 DEF Solves
  <2> QED
    BY <2>2, <2>3
<1> DEFINE c == CHOOSE g : g = Rec(g)
<1>9. c = Rec(c)
  <2> HIDE DEF Rec
  <2> QED
    BY <1>8
<1>10. Credit(j, A, sc) = c[N]
  BY DEF Credit
<1> HIDE DEF c
<1>11. /\ c[0] = sc
       /\ \A k \in 1..N : c[k] = IF k \in A THEN Apply(Item(j, k), c[k - 1]) ELSE c[k - 1]
  <2>1. 0 \in 0..N /\ \A k \in 1..N : k \in 0..N /\ k # 0
    BY <1>1, SMT
  <2> QED
    BY <1>9, <2>1
<1> DEFINE S == {k \in 0..N : c[k] \in V}
<1>12. \A k \in 0..N : k \in S
  <2>1. 0 \in S
    BY <1>1, <1>4, <1>11, SMT
  <2>2. ASSUME NEW k \in 1..N, k - 1 \in S PROVE k \in S
    BY <1>2, <1>6, <1>11, <2>2 DEF Step1
  <2> HIDE DEF S
  <2> QED
    BY <1>1, <2>1, <2>2, Induct
<1>13. c \in [0..N -> V]
  <2>1. c = [k \in 0..N |-> c[k]]
    BY <1>9
  <2> QED
    BY <1>12, <2>1
<1>14. Credits(c, j, A, D, sc)
  BY <1>10, <1>11, <1>13 DEF Credits, V
<1> QED
  BY <1>14

\* What no item of A names keeps its score.
Named(j, A, m, e) == \E i \in A : Item(j, i).metric = m /\ e \in Item(j, i).entities

Untouched(j, A, sc, m, e) == Credit(j, A, sc)[m][e] = sc[m][e]

LEMMA CreditUntouched ==
    ASSUME Counting, NEW j \in Jobs, NEW A \in SUBSET JobItems[j], NEW D, JobMetrics[j] \subseteq D,
           NEW sc \in Table(D, Amount), NEW m \in D, NEW e \in Entities,
           ~Named(j, A, m, e)
    PROVE  Untouched(j, A, sc, m, e)
<1> DEFINE N == Last(j)
           V == Table(D, Amount)
<1>1. N \in Nat /\ \A i \in A : Item(j, i) \in ItemType /\ Item(j, i).metric \in D
  <2>1. \A i \in JobItems[j] : Item(j, i) \in ItemType /\ Item(j, i).metric \in JobMetrics[j]
    BY ItemOfJob
  <2> QED
    BY <2>1, JobFacts
<1>2. PICK c : Credits(c, j, A, D, sc)
  BY CreditIs
<1> USE DEF Credits
<1> DEFINE S == {k \in 0..N : c[k][m][e] = sc[m][e]}
<1>3. 0 \in S
  BY <1>1, <1>2, SMT
<1>4. ASSUME NEW k \in 1..N, k - 1 \in S PROVE k \in S
  <2>1. k \in 0..N /\ c[k - 1] \in V /\ c[k - 1][m][e] = sc[m][e]
    BY <1>2, <1>4, SMT
  <2>2. CASE k \in A
    <3>1. /\ Item(j, k) \in ItemType /\ Item(j, k).metric \in D
          /\ ~(m = Item(j, k).metric /\ e \in Item(j, k).entities)
      BY <1>1, <2>2 DEF Named
    <3>2. Applies(Item(j, k), m, e, c[k - 1])
      <4>1. c[k - 1] \in Table(D, Amount) /\ Item(j, k) \in ItemType /\ Item(j, k).metric \in D
        BY <2>1, <3>1
      <4> QED
        BY <4>1, ApplyAt
    <3>3. Apply(Item(j, k), c[k - 1])[m][e] = c[k - 1][m][e]
      BY <3>1, <3>2 DEF After, Applies
    <3> QED
      BY <1>2, <2>1, <2>2, <3>3
  <2>3. CASE k \notin A
    BY <1>2, <2>1, <2>3
  <2> QED
    BY <2>2, <2>3
<1>5. N \in 0..N
  BY <1>1, SMT
<1>6. N \in S
  <2> HIDE DEF S, N
  <2> QED
    BY <1>1, <1>3, <1>4, <1>5, Induct
<1> QED
  BY <1>2, <1>6 DEF Untouched

\* The items of a job see nothing but its own metrics.
LEMMA CreditLocal ==
    ASSUME Counting, NEW j \in Jobs, NEW A \in SUBSET JobItems[j],
           NEW sc \in Table(Metrics, Amount), NEW m \in JobMetrics[j], NEW e \in Entities
    PROVE  Credit(j, A, sc)[m][e] = Credit(j, A, Restrict(sc, JobMetrics[j]))[m][e]
<1> DEFINE N == Last(j)
           D == JobMetrics[j]
           V == Table(Metrics, Amount)
           W == Table(D, Amount)
           rs == Restrict(sc, D)
<1>1. /\ N \in Nat /\ D \subseteq Metrics
      /\ \A i \in A : Item(j, i) \in ItemType /\ Item(j, i).metric \in D
  <2>1. \A i \in JobItems[j] : Item(j, i) \in ItemType /\ Item(j, i).metric \in JobMetrics[j]
    BY ItemOfJob
  <2> QED
    BY <2>1, JobFacts
<1>2. rs \in W /\ \A x \in D : rs[x] = sc[x]
  BY <1>1 DEF Restrict, Table
<1> HIDE DEF rs, D
<1>3. PICK c : Credits(c, j, A, Metrics, sc)
  BY <1>1, CreditIs DEF D
<1>4. PICK d : Credits(d, j, A, D, rs)
  BY <1>2, CreditIs DEF D
<1> USE DEF Credits
<1> DEFINE S == {k \in 0..N : c[k][m][e] = d[k][m][e]}
<1>5. 0 \in S
  <2>1. 0 \in 0..N /\ m \in D
    BY <1>1, SMT DEF D
  <2> QED
    BY <1>2, <1>3, <1>4, <2>1
<1>6. ASSUME NEW k \in 1..N, k - 1 \in S PROVE k \in S
  <2>1. k \in 0..N /\ k - 1 \in 0..N
    BY <1>1, SMT
  <2>2. c[k - 1] \in V /\ d[k - 1] \in W /\ c[k - 1][m][e] = d[k - 1][m][e] /\ m \in D /\ m \in Metrics
    BY <1>1, <1>3, <1>4, <1>6, <2>1 DEF D
  <2>3. CASE k \in A
    <3>1. Item(j, k) \in ItemType /\ Item(j, k).metric \in D /\ Item(j, k).metric \in Metrics
      BY <1>1, <2>3
    <3>3. Applies(Item(j, k), m, e, c[k - 1])
      BY <2>2, <3>1, ApplyAt
    <3>4. Applies(Item(j, k), m, e, d[k - 1])
      BY <2>2, <3>1, ApplyAt
    <3>5. c[k] = Apply(Item(j, k), c[k - 1]) /\ d[k] = Apply(Item(j, k), d[k - 1])
      BY <1>3, <1>4, <2>3
    <3> QED
      BY <2>1, <2>2, <3>3, <3>4, <3>5 DEF Applies
  <2>4. CASE k \notin A
    BY <1>3, <1>4, <2>1, <2>2, <2>4
  <2> QED
    BY <2>3, <2>4
<1>7. N \in 0..N
  BY <1>1, SMT
<1>8. N \in S
  <2> HIDE DEF S, N
  <2> QED
    BY <1>1, <1>5, <1>6, <1>7, Induct
<1> QED
  BY <1>3, <1>4, <1>8 DEF D, rs

\* A finite item keeps the scores finite.
LEMMA ApplyFinite ==
    ASSUME Counting, NEW D, NEW sc \in Table(D, Values), NEW item \in ItemType, item.metric \in D,
           Finite(item, sc)
    PROVE  Apply(item, sc) \in Table(D, Values)
<1>1. \A e \in Entities : sc[item.metric][e] \in Amount
  <2>1. \A e \in Entities : sc[item.metric][e] \in Values
    BY DEF Table
  <2> QED
    BY <2>1, ValuesAreAmounts
<1>2. \A e \in Entities : NewScore(item, sc[item.metric][e]) \in Amount
  BY <1>1, NewScoreType
<1>3. \A e \in Entities : e \in item.entities => NewScore(item, sc[item.metric][e]) \in Values
  BY <1>2, ValuesAreAmounts DEF Finite
<1> QED
  BY <1>3, ApplyTyped

LEMMA TableAmount ==
    ASSUME Counting, NEW D, NEW sc \in Table(D, Values)
    PROVE  sc \in Table(D, Amount)
  BY ValuesAreAmounts DEF Table

\* Records of Staging.
States(j) == [scores: Table(JobMetrics[j], Values), accepted: SUBSET JobItems[j]]

LEMMA StageItemTyped ==
    ASSUME Counting, NEW j \in Jobs, NEW i \in JobItems[j], NEW s \in States(j)
    PROVE  StageItem(j, s, i) \in States(j)
<1>1. s.scores \in Table(JobMetrics[j], Values) /\ s.accepted \in SUBSET JobItems[j]
  BY DEF States
<1>2. Item(j, i) \in ItemType /\ Item(j, i).metric \in JobMetrics[j]
  BY ItemOfJob
<1>3. CASE Finite(Item(j, i), s.scores)
  <2>1. Apply(Item(j, i), s.scores) \in Table(JobMetrics[j], Values)
    BY <1>1, <1>2, <1>3, ApplyFinite
  <2>2. StageItem(j, s, i) = [scores |-> Apply(Item(j, i), s.scores), accepted |-> s.accepted \cup {i}]
    BY <1>3 DEF StageItem
  <2>3. s.accepted \cup {i} \in SUBSET JobItems[j]
    BY <1>1
  <2> QED
    BY <2>1, <2>2, <2>3, SMT DEF States
<1>4. CASE ~Finite(Item(j, i), s.scores)
  BY <1>4 DEF StageItem
<1> QED
  BY <1>3, <1>4

\* The state after each item, when a job starts from the scores sc.
Stages(s, j, sc) ==
    /\ s \in [0..Last(j) -> States(j)]
    /\ s[0] = [scores |-> sc, accepted |-> {}]
    /\ \A k \in 1..Last(j) : s[k] = IF k \in JobItems[j] THEN StageItem(j, s[k - 1], k) ELSE s[k - 1]

LEMMA StagingIs ==
    ASSUME Counting, NEW j \in Jobs, snapshot[j].scores \in Table(JobMetrics[j], Values)
    PROVE  \E s : Stages(s, j, snapshot[j].scores) /\ Staging(j) = s[Last(j)]
<1> DEFINE N == Last(j)
           V == States(j)
           first == [scores |-> snapshot[j].scores, accepted |-> {}]
           Step1(k, s) == IF k \in JobItems[j] THEN StageItem(j, s, k) ELSE s
           G == [k \in 1..N |-> [s \in V |-> Step1(k, s)]]
<1>1. N \in Nat
  BY JobFacts
<1>2. ASSUME NEW k \in 1..N, NEW s \in V PROVE Step1(k, s) \in V
  BY StageItemTyped
<1> HIDE DEF Step1
<1>4. first \in V
  <2>1. {} \in SUBSET JobItems[j]
    OBVIOUS
  <2> QED
    BY <2>1 DEF States
<1> HIDE DEF V, first
<1>3. G \in [1..N -> [V -> V]]
  BY <1>2
<1>5. PICK F : Solves(F, N, V, first, G)
  <2> HIDE DEF G, N
  <2> QED
    BY <1>1, <1>3, <1>4, RecursionExists
<1>6. \A k \in 1..N : k - 1 \in 0..N /\ k \in 0..N
  BY <1>1, SMT
<1>7. \A k \in 1..N : F[k] = Step1(k, F[k - 1])
  BY <1>5, <1>6 DEF Solves
<1> DEFINE Rec(c) == [k \in 0..N |-> IF k = 0 THEN first
                                     ELSE IF k \in JobItems[j] THEN StageItem(j, c[k - 1], k) ELSE c[k - 1]]
<1>8. F = Rec(F)
  <2>1. \A k \in 0..N : k = 0 \/ k \in 1..N
    BY <1>1, SMT
  <2>2. \A k \in 0..N : F[k] = Rec(F)[k]
    BY <1>5, <1>7, <2>1 DEF Step1, Solves
  <2>3. F = [k \in 0..N |-> F[k]]
    BY <1>5 DEF Solves
  <2> QED
    BY <2>2, <2>3
<1> DEFINE c == CHOOSE g : g = Rec(g)
<1>9. c = Rec(c)
  <2> HIDE DEF Rec
  <2> QED
    BY <1>8
<1>10. Staging(j) = c[N]
  BY DEF Staging, first
<1> HIDE DEF c
<1>11. /\ c[0] = first
       /\ \A k \in 1..N : c[k] = IF k \in JobItems[j] THEN StageItem(j, c[k - 1], k) ELSE c[k - 1]
  <2>1. 0 \in 0..N /\ \A k \in 1..N : k \in 0..N /\ k # 0
    BY <1>1, SMT
  <2> QED
    BY <1>9, <2>1
<1> DEFINE S == {k \in 0..N : c[k] \in V}
<1>12. \A k \in 0..N : k \in S
  <2>1. 0 \in S
    BY <1>1, <1>4, <1>11, SMT
  <2>2. ASSUME NEW k \in 1..N, k - 1 \in S PROVE k \in S
    BY <1>2, <1>6, <1>11, <2>2 DEF Step1
  <2> HIDE DEF S
  <2> QED
    BY <1>1, <2>1, <2>2, Induct
<1>13. c \in [0..N -> V]
  <2>1. c = [k \in 0..N |-> c[k]]
    BY <1>9
  <2> QED
    BY <1>12, <2>1
<1>14. Stages(c, j, snapshot[j].scores)
  BY <1>11, <1>13 DEF Stages, V, first
<1> QED
  BY <1>10, <1>14

\* The staged scores are those that the accepted items make of the scores read.
LEMMA StagingCredits ==
    ASSUME Counting, NEW j \in Jobs, snapshot[j].scores \in Table(JobMetrics[j], Values)
    PROVE  /\ Staging(j).accepted \in SUBSET JobItems[j]
           /\ Staging(j).scores \in Table(JobMetrics[j], Values)
           /\ Staging(j).scores = Credit(j, Staging(j).accepted, snapshot[j].scores)
<1> DEFINE N == Last(j)
           sc == snapshot[j].scores
<1>1. PICK s : Stages(s, j, sc) /\ Staging(j) = s[Last(j)]
  BY StagingIs
<1> DEFINE A == {k \in JobItems[j] : Finite(Item(j, k), s[k - 1].scores)}
<1>2. N \in Nat /\ JobItems[j] \subseteq 1..N
  BY JobFacts
<1>3. sc \in Table(JobMetrics[j], Amount)
  BY TableAmount
<1>4. PICK c : Credits(c, j, A, JobMetrics[j], sc)
  <2>1. A \in SUBSET JobItems[j] /\ JobMetrics[j] \subseteq JobMetrics[j]
    OBVIOUS
  <2> HIDE DEF A, sc
  <2> QED
    BY <1>3, <2>1, CreditIs
<1> DEFINE Upto(k) == {i \in A : i <= k}
           S == {k \in 0..N : s[k].accepted = Upto(k) /\ s[k].scores = c[k]}
<1>5. 0 \in S
  <2>1. s[0] = [scores |-> sc, accepted |-> {}] /\ c[0] = sc
    BY <1>1, <1>4 DEF Stages, Credits
  <2>2. Upto(0) = {}
    BY <1>2, SMT
  <2>3. 0 \in 0..N
    BY <1>2, SMT
  <2> HIDE DEF Upto, A, sc, N
  <2>4. s[0].accepted = {} /\ s[0].scores = sc
    BY <2>1, SMT
  <2> QED
    BY <2>1, <2>2, <2>3, <2>4
<1>6. ASSUME NEW k \in 1..N, k - 1 \in S PROVE k \in S
  <2>1. k \in 0..N /\ k - 1 \in 0..N
    BY <1>2, SMT
  <2>2. s[k - 1].accepted = Upto(k - 1) /\ s[k - 1].scores = c[k - 1]
    BY <1>6
  <2>3. s[k] = IF k \in JobItems[j] THEN StageItem(j, s[k - 1], k) ELSE s[k - 1]
    BY <1>1 DEF Stages
  <2>4. c[k] = IF k \in A THEN Apply(Item(j, k), c[k - 1]) ELSE c[k - 1]
    BY <1>4 DEF Credits
  <2>5. CASE k \in A
    <3>1. k \in JobItems[j] /\ Finite(Item(j, k), s[k - 1].scores)
      BY <2>5
    <3>2. s[k] = [scores |-> Apply(Item(j, k), s[k - 1].scores), accepted |-> s[k - 1].accepted \cup {k}]
      BY <2>3, <3>1 DEF StageItem
    <3>3. A \subseteq Nat
      BY <1>2, SMT
    <3>4. Upto(k) = Upto(k - 1) \cup {k}
      <4> HIDE DEF A
      <4>1. \A i \in A : i <= k <=> (i <= k - 1 \/ i = k)
        BY <1>2, <3>3, SMT
      <4> QED
        BY <2>5, <4>1
    <3> HIDE DEF A, Upto
    <3>5. s[k].scores = Apply(Item(j, k), s[k - 1].scores) /\ s[k].accepted = s[k - 1].accepted \cup {k}
      BY <3>2, SMT
    <3> QED
      BY <2>1, <2>2, <2>4, <2>5, <3>4, <3>5
  <2>6. CASE k \notin A
    <3>1. s[k] = s[k - 1]
      BY <2>3, <2>6 DEF StageItem
    <3>2. c[k] = c[k - 1]
      BY <2>4, <2>6
    <3>3. A \subseteq Nat
      BY <1>2, SMT
    <3>4. Upto(k) = Upto(k - 1)
      <4> HIDE DEF A
      <4>1. \A i \in A : i <= k <=> i <= k - 1
        BY <1>2, <3>3, <2>6, SMT
      <4> QED
        BY <4>1
    <3> HIDE DEF A, Upto
    <3> QED
      BY <2>1, <2>2, <3>1, <3>2, <3>4
  <2> QED
    BY <2>5, <2>6
<1>7. N \in 0..N
  BY <1>2, SMT
<1>8. N \in S
  <2> HIDE DEF S, N
  <2> QED
    BY <1>2, <1>5, <1>6, <1>7, Induct
<1>9. Upto(N) = A
  BY <1>2, SMT
<1>10. s[N] \in States(j)
  BY <1>1, <1>7 DEF Stages
<1> HIDE DEF A, Upto
<1>11. s[N].accepted \in SUBSET JobItems[j] /\ s[N].scores \in Table(JobMetrics[j], Values)
  BY <1>10 DEF States
<1>12. s[N].accepted = A /\ s[N].scores = Credit(j, A, sc)
  BY <1>4, <1>8, <1>9 DEF Credits
<1> QED
  BY <1>1, <1>11, <1>12

-----------------------------------------------------------------------------
(* What a step leaves alone. *)

\* g is f except for job j.
Kept(j, f, g) == Shaped(g) /\ \A k \in Jobs : k # j => g[k] = f[k]

LEMMA Except ==
    ASSUME Counting, NEW f, Shaped(f), NEW j \in Jobs, NEW v
    PROVE  Kept(j, f, [f EXCEPT ![j] = v])
<1>1. [f EXCEPT ![j] = v] = [k \in Jobs |-> IF k = j THEN v ELSE f[k]]
  BY DEF Shaped
<1> QED
  BY <1>1 DEF Shaped, Kept

LEMMA ExceptAt ==
    ASSUME Counting, NEW f, Shaped(f), NEW j \in Jobs, NEW v
    PROVE  [f EXCEPT ![j] = v][j] = v
  BY DEF Shaped

LEMMA ExceptPc ==
    ASSUME Counting, TypeInv, NEW j \in Jobs, NEW v \in Phases, pc' = [pc EXCEPT ![j] = v]
    PROVE  pc' \in [Jobs -> Phases] /\ pc'[j] = v /\ \A k \in Jobs : k # j => pc'[k] = pc[k]
  BY DEF TypeInv

\* The metrics that L locks for a job.
HeldBy(L, j) == {l[2] : l \in {k \in L : k[1] = j}}

SameHeld(L, M, j) == HeldBy(L, j) = HeldBy(M, j)

LEMMA HeldIsHeldBy == \A j : Held(j) = HeldBy(locks, j) /\ Held(j)' = HeldBy(locks', j)
  BY DEF Held, HeldBy

OneMore(L, j, m, x) == HeldBy(L \cup {<<j, m, x>>}, j) = HeldBy(L, j) \cup {m}

LEMMA HeldAdd ==
    ASSUME Counting, NEW L, NEW j, NEW m, NEW x
    PROVE  /\ OneMore(L, j, m, x)
           /\ \A k : k # j => SameHeld(L \cup {<<j, m, x>>}, L, k)
<1>1. <<j, m, x>>[1] = j /\ <<j, m, x>>[2] = m
  OBVIOUS
<1> QED
  BY <1>1 DEF HeldBy, SameHeld, OneMore

LEMMA HeldDrop ==
    ASSUME Counting, NEW L, NEW j
    PROVE  HeldBy({l \in L : l[1] # j}, j) = {}
  BY DEF HeldBy

LEMMA HeldDropOther ==
    ASSUME Counting, NEW L, NEW j, NEW k, k # j
    PROVE  SameHeld({l \in L : l[1] # j}, L, k)
  BY DEF HeldBy, SameHeld

\* How the locks change: one more, none, or all of a job dropped.
LockStep(j) ==
    \/ \E m, x : locks' = locks \cup {<<j, m, x>>}
    \/ locks' = locks
    \/ locks' = {l \in locks : l[1] # j}

LEMMA LockSteps ==
    ASSUME Counting, NEW j, Step(j)
    PROVE  LockStep(j)
<1>1. CASE Lock(j)
  BY <1>1 DEF Lock, LockStep
<1>2. CASE Read(j)
  BY <1>2 DEF Read, LockStep
<1>3. CASE Stage(j)
  BY <1>3 DEF Stage, LockStep
<1>4. CASE Allocate(j)
  BY <1>4 DEF Allocate, LockStep
<1>5. CASE Commit(j)
  BY <1>5 DEF Commit, LockStep
<1>6. CASE Rollback(j)
  BY <1>6 DEF Rollback, LockStep
<1> QED
  BY <1>1, <1>2, <1>3, <1>4, <1>5, <1>6 DEF Step

\* What another job has is left alone.
LEMMA Frame ==
    ASSUME Counting, TypeInv, NEW j \in Jobs, Step(j)
    PROVE  /\ pc' \in [Jobs -> Phases]
           /\ (Shaped(snapshot) /\ Shaped(accepted) /\ Shaped(staged) /\ Shaped(stamps))'
           /\ \A k \in Jobs : k # j =>
                 /\ pc'[k] = pc[k] /\ snapshot'[k] = snapshot[k] /\ accepted'[k] = accepted[k]
                 /\ staged'[k] = staged[k] /\ stamps'[k] = stamps[k]
                 /\ Held(k)' = Held(k)
<1> USE DEF Phases
<1>1. /\ \A v \in Phases : pc' = [pc EXCEPT ![j] = v] =>
            pc' \in [Jobs -> Phases] /\ \A k \in Jobs : k # j => pc'[k] = pc[k]
      /\ pc \in [Jobs -> Phases]
  BY ExceptPc DEF TypeInv
<1>2. Shaped(snapshot) /\ Shaped(accepted) /\ Shaped(staged) /\ Shaped(stamps)
  BY DEF TypeInv
<1>3. /\ \A v : snapshot' = [snapshot EXCEPT ![j] = v] => Kept(j, snapshot, snapshot')
      /\ \A v : accepted' = [accepted EXCEPT ![j] = v] => Kept(j, accepted, accepted')
      /\ \A v : staged' = [staged EXCEPT ![j] = v] => Kept(j, staged, staged')
      /\ \A v : stamps' = [stamps EXCEPT ![j] = v] => Kept(j, stamps, stamps')
  <2>1. \A v : /\ Kept(j, snapshot, [snapshot EXCEPT ![j] = v])
               /\ Kept(j, accepted, [accepted EXCEPT ![j] = v])
               /\ Kept(j, staged, [staged EXCEPT ![j] = v])
               /\ Kept(j, stamps, [stamps EXCEPT ![j] = v])
    BY <1>2, Except
  <2> QED
    BY <2>1
<1>4. /\ snapshot' = snapshot => Kept(j, snapshot, snapshot')
      /\ accepted' = accepted => Kept(j, accepted, accepted')
      /\ staged' = staged => Kept(j, staged, staged')
      /\ stamps' = stamps => Kept(j, stamps, stamps')
  BY <1>2 DEF Kept
<1>5. /\ pc' \in [Jobs -> Phases] /\ \A k \in Jobs : k # j => pc'[k] = pc[k]
      /\ Kept(j, snapshot, snapshot') /\ Kept(j, accepted, accepted')
      /\ Kept(j, staged, staged') /\ Kept(j, stamps, stamps')
  <2>1. CASE Lock(j)
    <3>1. pc' = [pc EXCEPT ![j] = IF Held(j)' = JobMetrics[j] THEN "locked" ELSE pc[j]]
      BY <2>1 DEF Lock
    <3>2. (IF Held(j)' = JobMetrics[j] THEN "locked" ELSE pc[j]) \in Phases
      BY <1>1
    <3> QED
      BY <2>1, <1>1, <1>4, <3>1, <3>2 DEF Lock, local
  <2>2. CASE Read(j)
    BY <2>2, <1>1, <1>3, <1>4 DEF Read
  <2>3. CASE Stage(j)
    BY <2>3, <1>1, <1>3, <1>4 DEF Stage, Forget
  <2>4. CASE Allocate(j)
    BY <2>4, <1>1, <1>3, <1>4 DEF Allocate
  <2>5. CASE Commit(j)
    <3>1. "committed" \in Phases /\ "failed" \in Phases
      OBVIOUS
    <3> QED
      BY <2>5, <3>1, <1>1, <1>3, <1>4 DEF Commit, Forget
  <2>6. CASE Rollback(j)
    BY <2>6, <1>1, <1>3, <1>4 DEF Rollback, Forget
  <2> QED
    BY <2>1, <2>2, <2>3, <2>4, <2>5, <2>6 DEF Step
<1>6. \A k \in Jobs : k # j => Held(k)' = Held(k)
  <2>1. ASSUME NEW k \in Jobs, k # j PROVE SameHeld(locks', locks, k)
    <3>1. CASE \E m, x : locks' = locks \cup {<<j, m, x>>}
      <4>1. PICK m, x : locks' = locks \cup {<<j, m, x>>}
        BY <3>1
      <4>2. SameHeld(locks \cup {<<j, m, x>>}, locks, k)
        BY <2>1, HeldAdd
      <4> QED
        BY <4>1, <4>2
    <3>2. CASE locks' = {l \in locks : l[1] # j}
      <4>1. SameHeld({l \in locks : l[1] # j}, locks, k)
        BY <2>1, HeldDropOther
      <4> QED
        BY <3>2, <4>1
    <3> QED
      BY <3>1, <3>2, LockSteps DEF LockStep, SameHeld
  <2> QED
    BY <2>1, HeldIsHeldBy DEF SameHeld
<1> QED
  BY <1>5, <1>6 DEF Kept

-----------------------------------------------------------------------------
(* Locks. *)

LEMMA HeldOfJob ==
    ASSUME Counting, LockInv, NEW j \in Jobs
    PROVE  Held(j) \subseteq JobMetrics[j]
  BY DEF LockInv, Held

\* A job that waits has a next lock, behind those it has.
LEMMA NextLockIs ==
    ASSUME Counting, LockInv, NEW j \in Jobs, pc[j] = "locking"
    PROVE  /\ NextLock(j) \in JobMetrics[j] \ Held(j) /\ NextLock(j) \in Nat
           /\ \A n \in JobMetrics[j] \ Held(j) : NextLock(j) <= n
           /\ \A m \in Held(j) : m < NextLock(j)
<1>1. JobMetrics[j] \subseteq Nat
  BY JobFacts, IngestAssumption
<1>2. Held(j) # JobMetrics[j] /\ \A m \in Held(j), n \in JobMetrics[j] \ Held(j) : m < n
  BY DEF LockInv, LockProgress
<1>3. JobMetrics[j] \ Held(j) # {} /\ JobMetrics[j] \ Held(j) \in SUBSET Nat
  BY <1>1, <1>2, HeldOfJob
<1>4. NextLock(j) \in JobMetrics[j] \ Held(j) /\ \A n \in JobMetrics[j] \ Held(j) : NextLock(j) <= n
  BY <1>3, MinIs DEF NextLock
<1> QED
  BY <1>1, <1>2, <1>4

LEMMA ProgressOfOthers ==
    ASSUME Counting, TypeInv, LockInv, NEW j \in Jobs, Step(j), NEW k \in Jobs, k # j
    PROVE  LockProgress(k)'
<1>1. LockProgress(k)
  BY DEF LockInv
<1>2. pc'[k] = pc[k] /\ Held(k)' = Held(k)
  BY Frame
<1> QED
  BY <1>1, <1>2 DEF LockProgress, Ended

\* The new lock is granted.
LEMMA LockLocks ==
    ASSUME Counting, TypeInv, LockInv, NEW j \in Jobs, Lock(j)
    PROVE  LockInv'
<1> DEFINE m == NextLock(j)
           x == Exclusive(j, m)
           new == <<j, m, x>>
<1>1. pc[j] = "locking" /\ Granted(j) /\ locks' = locks \cup {new}
  BY DEF Lock
<1>2. new[1] = j /\ new[2] = m /\ new[3] = x
  OBVIOUS
<1>3. m \in JobMetrics[j] \ Held(j) /\ m \in Nat /\ (\A n \in JobMetrics[j] \ Held(j) : m <= n)
  BY <1>1, NextLockIs
<1>4. \A l \in locks : l[2] = m => ~x /\ ~l[3]
  BY <1>1 DEF Granted
<1>5. Held(j)' = Held(j) \cup {m}
  <2>1. OneMore(locks, j, m, x)
    BY HeldAdd
  <2>2. Held(j) = HeldBy(locks, j) /\ Held(j)' = HeldBy(locks', j)
    BY HeldIsHeldBy
  <2> QED
    BY <1>1, <2>1, <2>2 DEF OneMore
<1> HIDE DEF new, m, x
<1>6. (\A l \in locks : l[2] \in JobMetrics[l[1]] /\ l[3] = Exclusive(l[1], l[2]))'
  <2>1. \A l \in locks' : l[2] \in JobMetrics[l[1]] /\ l[3] = Exclusive(l[1], l[2])
    BY <1>1, <1>2, <1>3 DEF LockInv, x
  <2> QED
    BY <2>1
<1>7. (\A k, l \in locks : k[2] = l[2] /\ k[1] # l[1] => ~k[3] /\ ~l[3])'
  <2>1. \A k, l \in locks : k[2] = l[2] /\ k[1] # l[1] => ~k[3] /\ ~l[3]
    BY DEF LockInv
  <2>2. \A k, l \in locks' : k[2] = l[2] /\ k[1] # l[1] => ~k[3] /\ ~l[3]
    BY <1>1, <1>2, <1>4, <2>1
  <2> QED
    BY <2>2
<1>8. LockProgress(j)'
  <2>1. pc'[j] = IF Held(j)' = JobMetrics[j] THEN "locked" ELSE "locking"
    BY <1>1 DEF Lock, TypeInv
  <2>2. CASE Held(j)' = JobMetrics[j]
    BY <2>1, <2>2 DEF LockProgress, Ended
  <2>3. CASE Held(j)' # JobMetrics[j]
    <3>1. pc'[j] = "locking"
      BY <2>1, <2>3
    <3>2. \A a \in Held(j), n \in JobMetrics[j] \ Held(j) : a < n
      BY <1>1 DEF LockInv, LockProgress
    <3>3. \A n \in JobMetrics[j] : n \in Nat
      BY JobFacts, IngestAssumption
    <3>4. \A n \in JobMetrics[j] \ Held(j) : n # m => m < n
      BY <1>3, <3>3, SMT
    <3>5. \A a \in Held(j)', n \in JobMetrics[j] \ Held(j)' : a < n
      BY <1>5, <3>2, <3>4
    <3> QED
      BY <2>3, <3>1, <3>5 DEF LockProgress, Ended
  <2> QED
    BY <2>2, <2>3
<1>9. \A k \in Jobs : LockProgress(k)'
  BY <1>8, ProgressOfOthers DEF Step
<1> QED
  BY <1>6, <1>7, <1>9 DEF LockInv

\* A job that ends drops its locks.
LEMMA EndLocks ==
    ASSUME Counting, TypeInv, LockInv, NEW j \in Jobs, Step(j), locks' = {l \in locks : l[1] # j}, Ended(j)'
    PROVE  LockInv'
<1>1. Held(j)' = {}
  BY HeldIsHeldBy, HeldDrop
<1>2. LockProgress(j)'
  BY <1>1 DEF LockProgress, Ended
<1>3. \A k \in Jobs : LockProgress(k)'
  BY <1>2, ProgressOfOthers
<1>4. \A l \in locks' : l \in locks
  OBVIOUS
<1> QED
  BY <1>3, <1>4 DEF LockInv

\* A job that goes on keeps them.
LEMMA KeepLocks ==
    ASSUME Counting, TypeInv, LockInv, NEW j \in Jobs, Step(j), locks' = locks,
           pc[j] \in {"locked", "read", "staged"}, pc'[j] \in {"read", "staged", "stamped"}
    PROVE  LockInv'
<1>1. Held(j)' = JobMetrics[j]
  BY DEF Held, LockInv, LockProgress
<1>2. LockProgress(j)'
  BY <1>1 DEF LockProgress, Ended
<1>3. \A k \in Jobs : LockProgress(k)'
  BY <1>2, ProgressOfOthers
<1> QED
  BY <1>3 DEF LockInv

LEMMA StepLocks ==
    ASSUME Counting, TypeInv, LockInv, NEW j \in Jobs, Step(j)
    PROVE  LockInv'
<1>0. pc \in [Jobs -> Phases]
  BY DEF TypeInv
<1>1. CASE Lock(j)
  BY <1>1, LockLocks
<1>2. CASE Read(j)
  BY <1>0, <1>2, KeepLocks DEF Read
<1>3. CASE Stage(j)
  <2>1. CASE pc' = [pc EXCEPT ![j] = "rejected"] /\ locks' = {l \in locks : l[1] # j}
    BY <1>0, <2>1, EndLocks DEF Ended
  <2>2. CASE pc[j] = "read" /\ pc' = [pc EXCEPT ![j] = "staged"] /\ locks' = locks
    BY <1>0, <2>2, KeepLocks
  <2> QED
    BY <1>3, <2>1, <2>2 DEF Stage
<1>4. CASE Allocate(j)
  BY <1>0, <1>4, KeepLocks DEF Allocate
<1>5. CASE Commit(j)
  BY <1>0, <1>5, EndLocks DEF Commit, Ended
<1>6. CASE Rollback(j)
  BY <1>0, <1>6, EndLocks DEF Rollback, Ended
<1> QED
  BY <1>1, <1>2, <1>3, <1>4, <1>5, <1>6 DEF Step

\* Jobs at work on the same metric both share its lock.
LEMMA Sharing ==
    ASSUME Counting, LockInv, NEW j \in Jobs, NEW k \in Jobs, j # k,
           pc[j] \in {"read", "staged", "stamped"}, pc[k] \in {"read", "staged", "stamped"},
           NEW m \in JobMetrics[j], m \in JobMetrics[k]
    PROVE  ~Exclusive(j, m) /\ ~Exclusive(k, m)
<1>1. m \in Held(j) /\ m \in Held(k)
  BY DEF LockInv, LockProgress
<1>2. PICK a \in locks : a[1] = j /\ a[2] = m
  BY <1>1 DEF Held
<1>3. PICK b \in locks : b[1] = k /\ b[2] = m
  BY <1>1 DEF Held
<1>4. ~a[3] /\ ~b[3]
  BY <1>2, <1>3 DEF LockInv
<1>5. a[3] = Exclusive(j, m) /\ b[3] = Exclusive(k, m)
  BY <1>2, <1>3 DEF LockInv
<1> QED
  BY <1>4, <1>5

-----------------------------------------------------------------------------
(* What a job has read and staged. *)

LEMMA SnapshotIs ==
    ASSUME Counting, TypeInv, NEW j \in Jobs, SnapshotInv(j), pc[j] \in {"read", "staged", "stamped"}
    PROVE  /\ snapshot[j].version = Restrict(version, JobMetrics[j])
           /\ snapshot[j].scores = Restrict(scores, JobMetrics[j])
           /\ snapshot[j].clock = Restrict(clock, JobMetrics[j])
  BY SMT DEF SnapshotInv

LEMMA SnapshotScores ==
    ASSUME Counting, TypeInv, NEW j \in Jobs, SnapshotInv(j), pc[j] \in {"read", "staged", "stamped"}
    PROVE  /\ snapshot[j].scores \in Table(JobMetrics[j], Values)
           /\ \A m \in JobMetrics[j] : snapshot[j].scores[m] = scores[m]
<1>1. snapshot[j].scores = Restrict(scores, JobMetrics[j])
  BY SnapshotIs
<1>2. scores \in [Metrics -> [Entities -> Values]] /\ JobMetrics[j] \in SUBSET Metrics
  BY JobFacts DEF TypeInv, Table
<1>3. /\ Restrict(scores, JobMetrics[j]) \in [JobMetrics[j] -> [Entities -> Values]]
      /\ \A m \in JobMetrics[j] : Restrict(scores, JobMetrics[j])[m] = scores[m]
  BY <1>2 DEF Restrict
<1> QED
  BY <1>1, <1>3 DEF Table

\* Accepted items stay items of the job.
LEMMA StepAccepted ==
    ASSUME Counting, TypeInv, NEW j \in Jobs, SnapshotInv(j), Step(j)
    PROVE  \A k \in Jobs : accepted'[k] \subseteq JobItems[k]
<1>1. \A k \in Jobs : accepted[k] \subseteq JobItems[k]
  BY DEF TypeInv
<1>2. accepted'[j] \subseteq JobItems[j]
  <2>1. CASE Stage(j)
    <3>1. pc[j] \in {"read", "staged", "stamped"} /\ accepted' = [accepted EXCEPT ![j] = Staging(j).accepted]
      BY <2>1 DEF Stage
    <3>2. Staging(j).accepted \in SUBSET JobItems[j]
      BY <3>1, SnapshotScores, StagingCredits
    <3>3. accepted'[j] = Staging(j).accepted
      BY <3>1, ExceptAt DEF TypeInv
    <3> QED
      BY <3>2, <3>3
  <2>2. CASE ~Stage(j)
    <3>1. accepted' = accepted
      BY <2>2 DEF Step, Lock, Read, Allocate, Commit, Rollback, local
    <3> QED
      BY <1>1, <3>1
  <2> QED
    BY <2>1, <2>2
<1>3. \A k \in Jobs : k # j => accepted'[k] = accepted[k]
  BY Frame
<1> QED
  BY <1>1, <1>2, <1>3

\* What a job has staged follows from what it has accepted and read.
LEMMA StepStaged ==
    ASSUME Counting, TypeInv, NEW j \in Jobs, SnapshotInv(j), NEW k \in Jobs, StagedInv(k), Step(j)
    PROVE  StagedInv(k)'
<1>1. CASE k # j
  <2>1. /\ pc'[k] = pc[k] /\ snapshot'[k] = snapshot[k] /\ accepted'[k] = accepted[k]
        /\ staged'[k] = staged[k]
    BY <1>1, Frame
  <2> QED
    BY <2>1 DEF StagedInv
<1>2. CASE k = j
  <2>0. pc \in [Jobs -> Phases]
    BY DEF TypeInv
  <2>1. CASE Stage(j)
    <3>1. CASE pc' = [pc EXCEPT ![j] = "rejected"]
      BY <1>2, <2>0, <3>1 DEF StagedInv
    <3>2. CASE staged' = [staged EXCEPT ![j] = Staging(j).scores] /\ snapshot' = snapshot
      <4>1. pc[j] \in {"read", "staged", "stamped"} /\ accepted' = [accepted EXCEPT ![j] = Staging(j).accepted]
        BY <2>1 DEF Stage
      <4>2. /\ Staging(j).scores \in Table(JobMetrics[j], Values)
            /\ Staging(j).scores = Credit(j, Staging(j).accepted, snapshot[j].scores)
        BY <4>1, SnapshotScores, StagingCredits
      <4>3. accepted'[j] = Staging(j).accepted /\ staged'[j] = Staging(j).scores
        BY <3>2, <4>1, ExceptAt DEF TypeInv
      <4>4. snapshot'[j].scores = snapshot[j].scores
        BY <3>2
      <4>5. /\ staged'[j] \in Table(JobMetrics[j], Values)
            /\ staged'[j] = Credit(j, accepted'[j], snapshot'[j].scores)
        BY <4>2, <4>3, <4>4
      <4> QED
        BY <1>2, <4>5 DEF StagedInv
    <3> QED
      BY <2>1, <3>1, <3>2 DEF Stage
  <2>2. CASE Allocate(j)
    <3>1. pc[j] = "staged" /\ snapshot' = snapshot /\ accepted' = accepted /\ staged' = staged
      BY <2>2 DEF Allocate
    <3> QED
      BY <1>2, <3>1 DEF StagedInv
  <2>3. CASE ~Stage(j) /\ ~Allocate(j)
    <3>1. pc'[j] \notin {"staged", "stamped"}
      <4>1. CASE Lock(j)
        BY <4>1, <2>0 DEF Lock
      <4>2. CASE Read(j)
        BY <4>2, <2>0 DEF Read
      <4>3. CASE Commit(j)
        BY <4>3, <2>0 DEF Commit
      <4>4. CASE Rollback(j)
        BY <4>4, <2>0 DEF Rollback
      <4> QED
        BY <2>3, <4>1, <4>2, <4>3, <4>4 DEF Step
    <3> QED
      BY <1>2, <3>1 DEF StagedInv
  <2> QED
    BY <2>1, <2>2, <2>3
<1> QED
  BY <1>1, <1>2

-----------------------------------------------------------------------------
(* What a commit changes. *)

\* Scores and the clock of a metric change only under its exclusive lock.
LEMMA ChangeIsExclusive ==
    ASSUME Counting, TypeInv, NEW j \in Jobs, NEW m
    PROVE  /\ Touched(j, m) # {} => m \in JobMetrics[j] /\ Exclusive(j, m)
           /\ Automatic(j, m) # {} => m \in JobMetrics[j] /\ Exclusive(j, m)
<1>1. \A i \in accepted[j] : i \in JobItems[j] /\ Item(j, i).metric \in JobMetrics[j]
  BY ItemOfJob DEF TypeInv
<1>2. ASSUME Touched(j, m) # {} PROVE m \in JobMetrics[j] /\ Exclusive(j, m)
  <2>1. PICK i \in accepted[j] : Item(j, i).metric = m /\ Item(j, i).entities # {}
    BY <1>2 DEF Touched
  <2> QED
    BY <1>1, <2>1 DEF Exclusive
<1>3. ASSUME Automatic(j, m) # {} PROVE m \in JobMetrics[j] /\ Exclusive(j, m)
  <2>1. PICK i \in accepted[j] : Item(j, i).metric = m /\ Item(j, i).ts = 0
    BY <1>3 DEF Automatic, IsAutomatic
  <2> QED
    BY <1>1, <2>1 DEF Exclusive
<1> QED
  BY <1>2, <1>3

\* What a commit leaves alone.
Unmoved(m) == scores'[m] = scores[m] /\ version'[m] = version[m] /\ clock'[m] = clock[m]

LEMMA CommitUnmoved ==
    ASSUME Counting, TypeInv, NEW j \in Jobs, Commit(j), NEW m \in Metrics, ~(m \in JobMetrics[j] /\ Exclusive(j, m))
    PROVE  Unmoved(m)
<1>1. Touched(j, m) = {} /\ Automatic(j, m) = {}
  BY ChangeIsExclusive
<1>2. scores'[m] = [e \in Entities |-> scores[m][e]]
  <2>1. scores'[m] = [e \in Entities |-> IF m \in JobMetrics[j] /\ e \in Touched(j, m) THEN staged[j][m][e]
                                         ELSE scores[m][e]]
    BY DEF Commit, WriteScores
  <2> QED
    BY <1>1, <2>1
<1>3. scores[m] \in [Entities -> Values]
  BY DEF TypeInv, Table
<1>4. scores'[m] = scores[m]
  BY <1>2, <1>3
<1>5. version'[m] = version[m]
  BY <1>1 DEF Commit, WriteScores, Changed
<1>6. clock'[m] = clock[m]
  BY <1>1 DEF Commit, WriteClock
<1> QED
  BY <1>4, <1>5, <1>6 DEF Unmoved

LEMMA CommitEvents ==
    ASSUME Counting, NEW j \in Jobs, Commit(j), NEW m \in Metrics
    PROVE  events'[m] = IF m \notin JobMetrics[j] THEN events[m] ELSE
        [t \in 1..MaxTime |->
            IF Writers(j, m, t) # {} THEN Event(j, Max(Writers(j, m, t)))
            ELSE IF Purged(j, m, t) THEN NoItem ELSE events[m][t]]
  BY DEF Commit, WriteEvents

\* Without a commit the database stays.
LEMMA Uncommitted ==
    ASSUME Counting, NEW j \in Jobs, Step(j), ~Commit(j)
    PROVE  /\ events' = events /\ scores' = scores /\ registered' = registered
           /\ version' = version /\ clock' = clock
           /\ published' = published /\ boards' = boards /\ credited' = credited /\ durable' = durable
<1>1. CASE Lock(j)
  BY <1>1 DEF Lock, db, history
<1>2. CASE Read(j)
  BY <1>2 DEF Read, db, history
<1>3. CASE Stage(j)
  BY <1>3 DEF Stage, db, history
<1>4. CASE Allocate(j)
  BY <1>4 DEF Allocate, db, history
<1>5. CASE Rollback(j)
  BY <1>5 DEF Rollback, db, history
<1> QED
  BY <1>1, <1>2, <1>3, <1>4, <1>5 DEF Step

\* A commit leaves what another job has locked.
LEMMA CommitAlone ==
    ASSUME Counting, TypeInv, LockInv, NEW j \in Jobs, Commit(j), NEW k \in Jobs, k # j,
           pc[k] \in {"read", "staged", "stamped"}, NEW m \in JobMetrics[k]
    PROVE  Unmoved(m) /\ (Exclusive(k, m) => m \notin JobMetrics[j])
<1>1. m \in Metrics
  BY JobFacts
<1>2. pc[j] \in {"read", "staged", "stamped"}
  BY DEF Commit
<1>3. m \in JobMetrics[j] => ~Exclusive(j, m) /\ ~Exclusive(k, m)
  BY <1>2, Sharing
<1> QED
  BY <1>1, <1>3, CommitUnmoved

\* What a job has read stays current until it ends.
LEMMA StepSnapshot ==
    ASSUME Counting, TypeInv, LockInv, NEW j \in Jobs, NEW k \in Jobs, SnapshotInv(k), Step(j)
    PROVE  SnapshotInv(k)'
<1>0. pc \in [Jobs -> Phases]
  BY DEF TypeInv
<1> DEFINE Current(f, g, h) == [version |-> Restrict(f, JobMetrics[k]), scores |-> Restrict(g, JobMetrics[k]),
                                clock |-> Restrict(h, JobMetrics[k])]
<1>1. CASE k # j
  <2>1. pc'[k] = pc[k] /\ snapshot'[k] = snapshot[k]
    BY <1>1, Frame
  <2>2. SUFFICES ASSUME pc[k] \in {"read", "staged", "stamped"}
                 PROVE  snapshot[k] = Current(version', scores', clock')
    BY <2>1 DEF SnapshotInv
  <2>3. snapshot[k] = Current(version, scores, clock)
    BY <2>2 DEF SnapshotInv
  <2>4. CASE Commit(j)
    <3>1. \A m \in JobMetrics[k] : version'[m] = version[m] /\ scores'[m] = scores[m] /\ clock'[m] = clock[m]
      BY <1>1, <2>2, <2>4, CommitAlone DEF Unmoved
    <3>2. /\ Restrict(version', JobMetrics[k]) = Restrict(version, JobMetrics[k])
          /\ Restrict(scores', JobMetrics[k]) = Restrict(scores, JobMetrics[k])
          /\ Restrict(clock', JobMetrics[k]) = Restrict(clock, JobMetrics[k])
      BY <3>1 DEF Restrict
    <3> QED
      BY <2>3, <3>2
  <2>5. CASE ~Commit(j)
    BY <2>3, <2>5, Uncommitted
  <2> QED
    BY <2>4, <2>5
<1>2. CASE k = j
  <2>1. CASE Read(j)
    <3>1. snapshot'[j] = Current(version, scores, clock)
      <4>1. snapshot' = [snapshot EXCEPT ![j] = Current(version, scores, clock)]
        BY <1>2, <2>1 DEF Read
      <4> HIDE DEF Current
      <4>2. Shaped(snapshot)
        BY DEF TypeInv
      <4> QED
        BY <4>1, <4>2, ExceptAt
    <3>2. version' = version /\ scores' = scores /\ clock' = clock
      BY <2>1 DEF Read, db
    <3>3. snapshot'[k] = Current(version', scores', clock')
      BY <1>2, <3>1, <3>2
    <3> QED
      BY <3>3 DEF SnapshotInv
  <2>2. CASE pc[j] \in {"read", "staged"} /\ snapshot' = snapshot /\ ~Commit(j)
    <3>1. version' = version /\ scores' = scores /\ clock' = clock
      BY <2>2, Uncommitted
    <3>2. snapshot'[k] = Current(version', scores', clock')
      BY <1>2, <2>2, <3>1 DEF SnapshotInv
    <3> QED
      BY <3>2 DEF SnapshotInv
  <2>3. CASE pc'[j] \notin {"read", "staged", "stamped"}
    BY <1>2, <2>3 DEF SnapshotInv
  <2>4. CASE Lock(j)
    BY <1>0, <2>3, <2>4 DEF Lock
  <2>5. CASE Stage(j)
    <3>1. pc[j] = "read"
      BY <2>5 DEF Stage
    <3>2. ~Commit(j)
      BY <3>1 DEF Commit
    <3> QED
      BY <1>0, <2>2, <2>3, <2>5, <3>2 DEF Stage
  <2>6. CASE Allocate(j)
    <3>1. pc[j] = "staged" /\ snapshot' = snapshot
      BY <2>6 DEF Allocate
    <3>2. ~Commit(j)
      BY <3>1 DEF Commit
    <3> QED
      BY <2>2, <3>1, <3>2
  <2>7. CASE Commit(j)
    BY <1>0, <2>3, <2>7 DEF Commit
  <2>8. CASE Rollback(j)
    BY <1>0, <2>3, <2>8 DEF Rollback
  <2> QED
    BY <2>1, <2>4, <2>5, <2>6, <2>7, <2>8 DEF Step
<1> QED
  BY <1>1, <1>2

-----------------------------------------------------------------------------
(* Automatic timestamps. *)

LEMMA AutomaticIs ==
    ASSUME Counting, TypeInv, NEW j \in Jobs, NEW m
    PROVE  Automatic(j, m) \in SUBSET Nat /\ IsFiniteSet(Automatic(j, m)) /\ Automatic(j, m) \subseteq accepted[j]
<1>1. Automatic(j, m) \subseteq accepted[j] /\ accepted[j] \subseteq JobItems[j]
  BY DEF Automatic, TypeInv
<1>2. JobItems[j] \subseteq 1..Last(j) /\ Last(j) \in Nat
  BY JobFacts
<1>3. IsFiniteSet(1..Last(j)) /\ 1..Last(j) \subseteq Nat
  BY <1>2, IntervalFinite, SMT
<1> QED
  BY <1>1, <1>2, <1>3, SubsetSize

FreePlaces(j, m, now) ==
    /\ Free(j, m, now) \in SUBSET Nat /\ IsFiniteSet(Free(j, m, now))
    /\ \A t \in Free(j, m, now) : t \in 1..MaxTime /\ snapshot[j].clock[m] < t /\ events[m][t] = NoItem

LEMMA FreeIs ==
    ASSUME Counting, NEW j, NEW m, NEW now \in 1..MaxWall, snapshot[j].clock[m] \in 0..MaxTime
    PROVE  FreePlaces(j, m, now)
<1>1. MaxTime \in Nat /\ MaxWall \in Nat
  BY IngestAssumption
<1> DEFINE c == Candidate(now, snapshot[j].clock[m])
<1>2. c \in Nat /\ c >= 1 /\ snapshot[j].clock[m] < c
  BY <1>1, SMT DEF Candidate
<1> HIDE DEF c
<1>3. \A t \in c..MaxTime : t \in Nat /\ t \in 1..MaxTime /\ snapshot[j].clock[m] < t
  BY <1>1, <1>2, SMTT(30)
<1>4. IsFiniteSet(c..MaxTime)
  BY <1>1, <1>2, IntervalFinite, SMTT(30)
<1>5. Free(j, m, now) = (c..MaxTime) \ Occupied(j, m)
  BY DEF Free, c
<1>6. \A t \in 1..MaxTime : t \notin Occupied(j, m) => events[m][t] = NoItem
  BY DEF Occupied
<1>7. Free(j, m, now) \subseteq c..MaxTime
  BY <1>5
<1> QED
  BY <1>3, <1>4, <1>5, <1>6, <1>7, SubsetSize DEF FreePlaces

\* The clocks read by the server leave room for the automatic items.
Roomy(j, now) ==
    /\ now \in [{m \in JobMetrics[j] : Automatic(j, m) # {}} -> 1..MaxWall]
    /\ \A m \in DOMAIN now : Cardinality(Automatic(j, m)) <= Cardinality(Free(j, m, now[m]))

LEMMA StampsAre ==
    ASSUME Counting, TypeInv, NEW j \in Jobs, SnapshotInv(j), pc[j] = "staged", NEW now, Roomy(j, now),
           NEW at, \A k \in accepted[j] : at[k] = Stamp(j, k, now),
           NEW i \in accepted[j], IsAutomatic(j, i)
    PROVE  StampIs(j, i, Item(j, i).metric, at)
<1> DEFINE m == Item(j, i).metric
           A == Automatic(j, m)
           F == Free(j, m, now[m])
<1>1. i \in A /\ m \in JobMetrics[j]
  BY ItemOfJob DEF Automatic, TypeInv
<1>2. now[m] \in 1..MaxWall /\ Cardinality(A) <= Cardinality(F)
  BY <1>1 DEF Roomy
<1>3. snapshot[j].clock[m] = clock[m] /\ clock[m] \in 0..MaxTime
  <2>1. snapshot[j].clock = Restrict(clock, JobMetrics[j])
    BY SnapshotIs
  <2>2. m \in Metrics
    BY <1>1, JobFacts
  <2> QED
    BY <1>1, <2>1, <2>2 DEF Restrict, TypeInv
<1>4. A \in SUBSET Nat /\ IsFiniteSet(A) /\ A \subseteq accepted[j]
  BY AutomaticIs
<1>5. /\ F \in SUBSET Nat /\ IsFiniteSet(F)
      /\ \A t \in F : t \in 1..MaxTime /\ snapshot[j].clock[m] < t /\ events[m][t] = NoItem
  <2>1. now[m] \in 1..MaxWall /\ snapshot[j].clock[m] \in 0..MaxTime
    BY <1>2, <1>3
  <2> HIDE DEF m
  <2>2. FreePlaces(j, m, now[m])
    BY <2>1, FreeIs
  <2> QED
    BY <2>2 DEF FreePlaces
<1>6. \A k \in A : at[k] = Nth(F, Rank(A, k))
  <2>1. \A k \in A : k \in accepted[j] /\ Item(j, k).metric = m /\ IsAutomatic(j, k)
    BY DEF Automatic
  <2>2. \A k \in A : at[k] = Stamp(j, k, now)
    BY <2>1
  <2> QED
    BY <2>1, <2>2 DEF Stamp
<1> HIDE DEF m, A, F
<1>7. \A k \in A : Rank(A, k) \in 1..Cardinality(F)
  <2>1. \A k \in A : Rank(A, k) \in 1..Cardinality(A)
    BY <1>4, RankIs
  <2>2. Cardinality(A) \in Nat /\ Cardinality(F) \in Nat
    BY <1>4, <1>5, SizeType
  <2> QED
    BY <1>2, <2>1, <2>2, SMTT(30)
<1>8. \A k \in A : at[k] \in F
  BY <1>5, <1>6, <1>7, NthIs
<1>9. ASSUME NEW k \in A, i < k PROVE at[i] < at[k]
  <2>1. Rank(A, i) < Rank(A, k)
    BY <1>1, <1>4, <1>9, RankGrows
  <2> QED
    BY <1>1, <1>5, <1>6, <1>7, <2>1, NthGrows
<1> QED
  BY <1>1, <1>3, <1>5, <1>8, <1>9 DEF StampIs, m, A

LEMMA StepStamps ==
    ASSUME Counting, TypeInv, LockInv, NEW j \in Jobs, SnapshotInv(j), NEW k \in Jobs, StampInv(k), Step(j)
    PROVE  StampInv(k)'
<1>0. pc \in [Jobs -> Phases]
  BY DEF TypeInv
<1>1. CASE k # j
  <2>1. pc'[k] = pc[k] /\ accepted'[k] = accepted[k] /\ stamps'[k] = stamps[k]
    BY <1>1, Frame
  <2>2. SUFFICES ASSUME pc[k] = "stamped", NEW i \in accepted[k], IsAutomatic(k, i)
                 PROVE  StampIs(k, i, Item(k, i).metric, stamps[k])'
    BY <2>1 DEF StampInv, IsAutomatic
  <2> DEFINE m == Item(k, i).metric
  <2>3. StampIs(k, i, m, stamps[k])
    BY <2>2 DEF StampInv
  <2>4. i \in Automatic(k, m)
    BY <2>2 DEF Automatic
  <2>5. m \in JobMetrics[k] /\ Exclusive(k, m) /\ m \in Metrics
    BY <2>4, ChangeIsExclusive, JobFacts
  <2> HIDE DEF m
  <2>6. events'[m] = events[m] /\ clock'[m] = clock[m]
    <3>1. CASE Commit(j)
      <4>1. Unmoved(m) /\ m \notin JobMetrics[j]
        BY <1>1, <2>2, <2>5, <3>1, CommitAlone
      <4>2. events'[m] = events[m]
        BY <2>5, <3>1, <4>1, CommitEvents
      <4> QED
        BY <4>1, <4>2 DEF Unmoved
    <3>2. CASE ~Commit(j)
      BY <3>2, Uncommitted
    <3> QED
      BY <3>1, <3>2
  <2>7. Automatic(k, m)' = Automatic(k, m)
    BY <2>1 DEF Automatic, IsAutomatic
  <2>8. StampIs(k, i, m, stamps[k])'
    BY <2>1, <2>3, <2>6, <2>7 DEF StampIs
  <2> QED
    BY <2>8 DEF m
<1>2. CASE k = j
  <2>1. CASE Allocate(j)
    <3>1. PICK now : /\ Roomy(j, now)
                     /\ stamps' = [stamps EXCEPT ![j] = [i \in accepted[j] |-> Stamp(j, i, now)]]
      BY <2>1 DEF Allocate, Roomy
    <3>2. \A i \in accepted[j] : stamps'[j][i] = Stamp(j, i, now)
      <4>1. stamps'[j] = [i \in accepted[j] |-> Stamp(j, i, now)]
        BY <3>1 DEF TypeInv, Shaped
      <4> QED
        BY <4>1
    <3>3. pc[j] = "staged" /\ accepted' = accepted /\ events' = events /\ clock' = clock
      BY <2>1 DEF Allocate, db
    <3>4. \A i \in accepted[j] : IsAutomatic(j, i) => StampIs(j, i, Item(j, i).metric, stamps'[j])
      BY <3>1, <3>2, <3>3, StampsAre
    <3>5. \A m : Automatic(j, m)' = Automatic(j, m)
      BY <3>3 DEF Automatic, IsAutomatic
    <3>6. ASSUME NEW i \in accepted[j], IsAutomatic(j, i)
          PROVE  StampIs(j, i, Item(j, i).metric, stamps[j])'
      <4> DEFINE m == Item(j, i).metric
      <4>1. StampIs(j, i, m, stamps'[j])
        BY <3>4, <3>6
      <4> HIDE DEF m
      <4>2. StampIs(j, i, m, stamps[j])'
        BY <3>3, <3>5, <4>1 DEF StampIs
      <4> QED
        BY <4>2 DEF m
    <3> QED
      BY <1>2, <3>3, <3>6 DEF StampInv, IsAutomatic
  <2>2. CASE ~Allocate(j)
    <3>1. pc'[j] # "stamped"
      <4>1. CASE Lock(j)
        BY <4>1, <1>0 DEF Lock
      <4>2. CASE Read(j)
        BY <4>2, <1>0 DEF Read
      <4>3. CASE Stage(j)
        BY <4>3, <1>0 DEF Stage
      <4>4. CASE Commit(j)
        BY <4>4, <1>0 DEF Commit
      <4>5. CASE Rollback(j)
        BY <4>5, <1>0 DEF Rollback
      <4> QED
        BY <2>2, <4>1, <4>2, <4>3, <4>4, <4>5 DEF Step
    <3> QED
      BY <1>2, <3>1 DEF StampInv
  <2> QED
    BY <2>1, <2>2
<1> QED
  BY <1>1, <1>2

\* The new clock of a metric is behind none of its new timestamps.
LEMMA NewClock ==
    ASSUME Counting, TypeInv, NEW j \in Jobs, StampInv(j), Commit(j), NEW m \in Metrics
    PROVE  /\ clock'[m] \in 0..MaxTime /\ clock[m] <= clock'[m]
           /\ \A i \in Automatic(j, m) : stamps[j][i] <= clock'[m]
<1> DEFINE A == Automatic(j, m)
<1>1. A \in SUBSET Nat /\ IsFiniteSet(A)
  BY AutomaticIs
<1>2. \A i \in A : StampIs(j, i, m, stamps[j])
  BY DEF Commit, StampInv, Automatic
<1>3. MaxTime \in Nat /\ clock[m] \in 0..MaxTime
  BY IngestAssumption DEF TypeInv
<1>4. CASE A = {}
  <2>1. clock'[m] = clock[m]
    BY <1>4 DEF Commit, WriteClock
  <2> QED
    BY <1>3, <1>4, <2>1, SMTT(30)
<1>5. CASE A # {}
  <2>1. clock'[m] = stamps[j][Max(A)]
    BY <1>5 DEF Commit, WriteClock
  <2> HIDE DEF A
  <2>2. Max(A) \in A /\ \A i \in A : i <= Max(A)
    BY <1>1, <1>5, MaxIs
  <2>3. StampIs(j, Max(A), m, stamps[j])
    BY <1>2, <2>2
  <2>4. stamps[j][Max(A)] \in 1..MaxTime /\ clock[m] < stamps[j][Max(A)]
    BY <2>3 DEF StampIs
  <2>5. \A i \in A : i # Max(A) => i < Max(A)
    <3>1. \A i, x \in A : i <= x /\ i # x => i < x
      BY <1>1, SMT
    <3> QED
      BY <2>2, <3>1
  <2>6. \A i \in A : i # Max(A) => stamps[j][i] < stamps[j][Max(A)]
    BY <1>2, <2>2, <2>5 DEF StampIs, A
  <2>7. \A i \in A : stamps[j][i] \in 1..MaxTime
    BY <1>2 DEF StampIs
  <2> QED
    BY <1>3, <2>1, <2>2, <2>4, <2>6, <2>7, SMTT(30) DEF A
<1> QED
  BY <1>4, <1>5

\* An event that a commit writes or leaves.
LEMMA EventIs ==
    ASSUME Counting, TypeInv, NEW j \in Jobs, StampInv(j), Commit(j), NEW m \in Metrics, NEW t \in 1..MaxTime,
           events'[m][t] # NoItem, events'[m][t] # events[m][t]
    PROVE  /\ events'[m][t] \in EventType
           /\ events'[m][t].automatic => \E i \in Automatic(j, m) : stamps[j][i] = t
<1> DEFINE W == Writers(j, m, t)
<1>1. events'[m][t] = Event(j, Max(W)) /\ W # {}
  <2>1. m \in JobMetrics[j]
    BY CommitEvents
  <2>2. events'[m] = [u \in 1..MaxTime |->
            IF Writers(j, m, u) # {} THEN Event(j, Max(Writers(j, m, u)))
            ELSE IF Purged(j, m, u) THEN NoItem ELSE events[m][u]]
    BY <2>1, CommitEvents
  <2>3. events'[m][t] = IF W # {} THEN Event(j, Max(W)) ELSE IF Purged(j, m, t) THEN NoItem ELSE events[m][t]
    BY <2>2
  <2> HIDE DEF W
  <2> QED
    BY <2>3
<1>2. W \in SUBSET accepted[j] /\ accepted[j] \subseteq JobItems[j]
  BY DEF Writers, TypeInv
<1>3. JobItems[j] \subseteq 1..Last(j) /\ Last(j) \in Nat
  BY JobFacts
<1>4. IsFiniteSet(1..Last(j)) /\ 1..Last(j) \subseteq Nat
  BY <1>3, IntervalFinite, SMT
<1>5. W \in SUBSET Nat /\ IsFiniteSet(W)
  BY <1>2, <1>3, <1>4, SubsetSize
<1> DEFINE w == Max(W)
<1>6. w \in W
  <2> HIDE DEF W
  <2> QED
    BY <1>1, <1>5, MaxIs
<1>7. /\ w \in accepted[j] /\ Item(j, w).kind = "write" /\ Item(j, w).metric = m
      /\ stamps[j][w] = t
  BY <1>6 DEF Writers
<1>8. w \in Nat
  BY <1>5, <1>6
<1> HIDE DEF w, W
<1>9. j[1] \in Batches
  BY JobFacts
<1> DEFINE a == Item(j, w).ts = 0
<1>10. events'[m][t] = [batch |-> j[1], index |-> w, automatic |-> a] /\ a \in BOOLEAN
  BY <1>1 DEF Event, w
<1>11. events'[m][t] \in EventType /\ events'[m][t].automatic = a
  <2> HIDE DEF a
  <2> QED
    BY <1>8, <1>9, <1>10, SMT DEF EventType
<1> QED
  BY <1>7, <1>11 DEF Automatic, IsAutomatic

LEMMA StepClock ==
    ASSUME Counting, TypeInv, NEW j \in Jobs, StampInv(j), ClockInv, Step(j)
    PROVE  ClockInv'
<1>1. CASE Commit(j)
  <2>1. SUFFICES ASSUME NEW m \in Metrics, NEW t \in 1..MaxTime,
                        events'[m][t] # NoItem, events'[m][t].automatic
                 PROVE  t <= clock'[m]
    BY DEF ClockInv
  <2>2. /\ clock'[m] \in 0..MaxTime /\ clock[m] <= clock'[m]
        /\ \A i \in Automatic(j, m) : stamps[j][i] <= clock'[m]
    BY <1>1, NewClock
  <2>3. CASE events'[m][t] = events[m][t]
    <3>1. t <= clock[m]
      BY <2>1, <2>3 DEF ClockInv
    <3>2. clock[m] \in 0..MaxTime /\ MaxTime \in Nat
      BY IngestAssumption DEF TypeInv
    <3> QED
      BY <2>2, <3>1, <3>2, SMT
  <2>4. CASE events'[m][t] # events[m][t]
    <3>1. PICK i \in Automatic(j, m) : stamps[j][i] = t
      BY <1>1, <2>1, <2>4, EventIs
    <3> QED
      BY <2>2, <3>1
  <2> QED
    BY <2>3, <2>4
<1>2. CASE ~Commit(j)
  BY <1>2, Uncommitted DEF ClockInv
<1> QED
  BY <1>1, <1>2

\* An automatic event takes a place that is free and behind the clock.
LEMMA StepFresh ==
    ASSUME Counting, TypeInv, NEW j \in Jobs, StampInv(j), ClockInv, Step(j), NEW m \in Metrics, NEW t \in 1..MaxTime,
           events'[m][t] # events[m][t], events'[m][t] # NoItem, events'[m][t].automatic
    PROVE  /\ events[m][t] = NoItem
           /\ \A u \in t..MaxTime : events[m][u] # NoItem => ~events[m][u].automatic
<1>1. Commit(j)
  BY Uncommitted
<1>2. PICK i \in Automatic(j, m) : stamps[j][i] = t
  BY <1>1, EventIs
<1>3. clock[m] < t /\ events[m][t] = NoItem
  <2>1. StampIs(j, i, m, stamps[j])
    BY <1>1, <1>2 DEF Commit, StampInv, Automatic
  <2> QED
    BY <1>2, <2>1 DEF StampIs
<1>4. MaxTime \in Nat /\ clock[m] \in 0..MaxTime
  BY IngestAssumption DEF TypeInv
<1>5. \A u \in t..MaxTime : u \in 1..MaxTime /\ ~(u <= clock[m])
  BY <1>3, <1>4, SMTT(30)
<1> QED
  BY <1>3, <1>5 DEF ClockInv

-----------------------------------------------------------------------------
(* Scores. *)

\* The scores that a commit writes.
NewScoreAt(j, m, e) ==
    IF m \in JobMetrics[j] /\ e \in Touched(j, m) THEN staged[j][m][e] ELSE scores[m][e]

LEMMA ScoresAfter ==
    ASSUME Counting, TypeInv, NEW j \in Jobs, StagedInv(j), Commit(j)
    PROVE  /\ scores' \in Table(Metrics, Values)
           /\ \A m \in Metrics, e \in Entities : scores'[m][e] = NewScoreAt(j, m, e)
<1>1. scores' = [m \in Metrics |-> [e \in Entities |-> NewScoreAt(j, m, e)]]
  BY DEF Commit, WriteScores, NewScoreAt
<1>2. scores \in Table(Metrics, Values) /\ staged[j] \in Table(JobMetrics[j], Values)
  BY DEF TypeInv, StagedInv, Commit
<1>3. \A m \in Metrics, e \in Entities : NewScoreAt(j, m, e) \in Values
  BY <1>2 DEF Table, NewScoreAt
<1> QED
  BY <1>1, <1>3 DEF Table

\* The absolute scores that a commit writes are those its accepted items make of the
\* current ones.
LEMMA StepCredited ==
    ASSUME Counting, TypeInv, NEW j \in Jobs, SnapshotInv(j), StagedInv(j), credited = scores, Step(j)
    PROVE  credited' = scores'
<1>1. CASE ~Commit(j)
  BY <1>1, Uncommitted
<1>2. CASE Commit(j)
  <2> DEFINE A == accepted[j]
             D == JobMetrics[j]
  <2>1. pc[j] = "stamped" /\ credited' = Credit(j, A, scores)
    BY <1>2 DEF Commit, Record
  <2>2. A \in SUBSET JobItems[j] /\ D \subseteq Metrics
    BY JobFacts DEF TypeInv
  <2>3. scores \in Table(Metrics, Amount)
    BY TableAmount DEF TypeInv
  <2>4. Credit(j, A, scores) \in Table(Metrics, Amount)
    <3>1. PICK c : Credits(c, j, A, Metrics, scores)
      BY <2>2, <2>3, CreditIs
    <3>2. Last(j) \in 0..Last(j)
      BY JobFacts, SMT
    <3> QED
      BY <3>1, <3>2 DEF Credits
  <2>5. ASSUME NEW m \in Metrics, NEW e \in Entities
        PROVE  Credit(j, A, scores)[m][e] = scores'[m][e]
    <3>0. scores'[m][e] = NewScoreAt(j, m, e)
      BY <1>2, ScoresAfter
    <3>1. CASE m \in D /\ e \in Touched(j, m)
      <4>1. staged[j] = Credit(j, A, Restrict(scores, D))
        BY <2>1, SnapshotIs DEF StagedInv
      <4>2. Credit(j, A, scores)[m][e] = Credit(j, A, Restrict(scores, D))[m][e]
        BY <2>2, <2>3, <3>1, CreditLocal
      <4> QED
        BY <3>0, <3>1, <4>1, <4>2 DEF NewScoreAt
    <3>2. CASE ~(m \in D /\ e \in Touched(j, m))
      <4>1. ~Named(j, A, m, e)
        <5>1. ASSUME NEW i \in A, Item(j, i).metric = m, e \in Item(j, i).entities PROVE FALSE
          <6>1. m \in D
            BY <2>2, <5>1, ItemOfJob
          <6>2. e \in Touched(j, m)
            BY <5>1 DEF Touched
          <6> QED
            BY <3>2, <6>1, <6>2
        <5> QED
          BY <5>1 DEF Named
      <4>2. Credit(j, A, scores)[m][e] = scores[m][e]
        <5>1. Untouched(j, A, scores, m, e)
          BY <2>2, <2>3, <4>1, CreditUntouched
        <5> QED
          BY <5>1 DEF Untouched
      <4> QED
        BY <3>0, <3>2, <4>2 DEF NewScoreAt
    <3> QED
      BY <3>1, <3>2
  <2>6. scores' \in Table(Metrics, Values)
    BY <1>2, ScoresAfter
  <2> HIDE DEF A, D
  <2>7. Credit(j, A, scores) = scores'
    <3> DEFINE f == Credit(j, A, scores)
               g == scores'
    <3>1. f \in Table(Metrics, Amount) /\ g \in Table(Metrics, Amount)
      BY <2>4, <2>6, TableAmount
    <3>2. \A m \in Metrics, e \in Entities : f[m][e] = g[m][e]
      BY <2>5
    <3> HIDE DEF f, g
    <3>3. f = g
      <4>1. ASSUME NEW m \in Metrics PROVE f[m] = g[m]
        <5>1. f[m] = [e \in Entities |-> f[m][e]] /\ g[m] = [e \in Entities |-> g[m][e]]
          BY <3>1 DEF Table
        <5> QED
          BY <3>2, <5>1
      <4>2. f = [m \in Metrics |-> f[m]] /\ g = [m \in Metrics |-> g[m]]
        BY <3>1 DEF Table
      <4> QED
        BY <4>1, <4>2
    <3> QED
      BY <3>3 DEF f, g
  <2> QED
    BY <2>1, <2>7
<1> QED
  BY <1>1, <1>2

-----------------------------------------------------------------------------
(* Types. *)

LEMMA StepLockTypes ==
    ASSUME Counting, TypeInv, LockInv, NEW j \in Jobs, Step(j)
    PROVE  locks' \subseteq Jobs \X Metrics \X BOOLEAN /\ IsFiniteSet(locks')
<1>1. locks \subseteq Jobs \X Metrics \X BOOLEAN /\ IsFiniteSet(locks)
  BY DEF TypeInv
<1>2. CASE Lock(j)
  <2> DEFINE m == NextLock(j)
             x == Exclusive(j, m)
  <2>1. pc[j] = "locking" /\ locks' = locks \cup {<<j, m, x>>}
    BY <1>2 DEF Lock
  <2>2. m \in Metrics
    BY <2>1, NextLockIs, JobFacts
  <2>3. x \in BOOLEAN
    BY DEF Exclusive
  <2> HIDE DEF m, x
  <2>4. IsFiniteSet(locks \cup {<<j, m, x>>})
    BY <1>1, AddSize
  <2>5. <<j, m, x>> \in Jobs \X Metrics \X BOOLEAN
    BY <2>2, <2>3
  <2> QED
    BY <1>1, <2>1, <2>4, <2>5
<1>3. CASE locks' = locks
  BY <1>1, <1>3
<1>4. CASE locks' = {l \in locks : l[1] # j}
  <2>1. {l \in locks : l[1] # j} \subseteq locks
    OBVIOUS
  <2> QED
    BY <1>1, <1>4, <2>1, SubsetSize
<1> QED
  BY <1>2, <1>3, <1>4 DEF Step, Read, Stage, Allocate, Commit, Rollback

LEMMA EventTypes ==
    ASSUME Counting, TypeInv, NEW j \in Jobs, StampInv(j), Commit(j)
    PROVE  events' \in [Metrics -> [1..MaxTime -> {NoItem} \cup EventType]]
<1>1. events \in [Metrics -> [1..MaxTime -> {NoItem} \cup EventType]]
  BY DEF TypeInv
<1>2. ASSUME NEW m \in Metrics PROVE events'[m] \in [1..MaxTime -> {NoItem} \cup EventType]
  <2>1. \A t \in 1..MaxTime : events'[m][t] \in {NoItem} \cup EventType
    <3>1. ASSUME NEW t \in 1..MaxTime PROVE events'[m][t] \in {NoItem} \cup EventType
      <4>1. events[m][t] \in {NoItem} \cup EventType
        BY <1>1
      <4>2. events'[m][t] # NoItem /\ events'[m][t] # events[m][t] => events'[m][t] \in EventType
        BY EventIs
      <4> QED
        BY <4>1, <4>2
    <3> QED
      BY <3>1
  <2>2. events'[m] = [t \in 1..MaxTime |-> events'[m][t]]
    <3>1. CASE m \in JobMetrics[j]
      <4>1. events'[m] = [u \in 1..MaxTime |->
                IF Writers(j, m, u) # {} THEN Event(j, Max(Writers(j, m, u)))
                ELSE IF Purged(j, m, u) THEN NoItem ELSE events[m][u]]
        BY <3>1, CommitEvents
      <4> QED
        BY <4>1
    <3>2. CASE m \notin JobMetrics[j]
      <4>1. events'[m] = events[m]
        BY <3>2, CommitEvents
      <4> QED
        BY <1>1, <4>1
    <3> QED
      BY <3>1, <3>2
  <2> QED
    BY <2>1, <2>2
<1>3. events' = [m \in Metrics |-> events'[m]]
  BY DEF Commit, WriteEvents
<1> QED
  BY <1>2, <1>3

LEMMA CommitTypes ==
    ASSUME Counting, TypeInv, NEW j \in Jobs, StagedInv(j), StampInv(j), Commit(j)
    PROVE  /\ events' \in [Metrics -> [1..MaxTime -> {NoItem} \cup EventType]]
           /\ scores' \in Table(Metrics, Values)
           /\ registered' \subseteq Metrics /\ registered \subseteq registered'
           /\ version' \in [Metrics -> Nat] /\ clock' \in [Metrics -> 0..MaxTime]
           /\ durable' \subseteq Batches \X Nat
<1>1. accepted[j] \subseteq JobItems[j] /\ registered \subseteq Metrics /\ version \in [Metrics -> Nat]
  BY DEF TypeInv
<1>2. \A i \in accepted[j] : Item(j, i).metric \in Metrics
  BY <1>1, ItemOfJob, JobFacts
<1>3. registered' \subseteq Metrics /\ registered \subseteq registered'
  BY <1>1, <1>2 DEF Commit, WriteScores
<1>4. version' \in [Metrics -> Nat]
  <2>1. \A m \in Metrics : version[m] \in Nat /\ version[m] + 1 \in Nat
    BY <1>1, SMT
  <2>2. version' = [m \in Metrics |->
           IF m \in Changed(j) \cap registered' THEN version[m] + 1 ELSE version[m]]
    BY DEF Commit, WriteScores, NextVersion
  <2> QED
    BY <2>1, <2>2
<1>5. clock' \in [Metrics -> 0..MaxTime]
  <2>1. \A m \in Metrics : clock'[m] \in 0..MaxTime
    BY NewClock
  <2>2. clock' = [m \in Metrics |-> clock'[m]]
    BY DEF Commit, WriteClock
  <2> QED
    BY <2>1, <2>2
<1>6. durable' \subseteq Batches \X Nat
  <2>1. \A i \in accepted[j] : i \in Nat
    <3>1. JobItems[j] \subseteq 1..Last(j)
      BY JobFacts
    <3> QED
      BY <1>1, <3>1, SMT
  <2>2. \A i \in accepted[j] : <<j[1], i>> \in Batches \X Nat
    BY <2>1, JobFacts
  <2>3. durable' = durable \cup {<<j[1], i>> : i \in accepted[j]}
    BY DEF Commit, Record
  <2>4. durable \subseteq Batches \X Nat
    BY DEF TypeInv
  <2> QED
    BY <2>2, <2>3, <2>4
<1> QED
  BY <1>3, <1>4, <1>5, <1>6, EventTypes, ScoresAfter

LEMMA StepFailures ==
    ASSUME Counting, TypeInv, NEW j, Step(j)
    PROVE  failures' \in 0..MaxFailures
<1>1. failures \in 0..MaxFailures /\ MaxFailures \in Nat
  BY IngestAssumption DEF TypeInv
<1>2. failures' = failures \/ (failures < MaxFailures /\ failures' = failures + 1)
  BY DEF Step, Lock, Read, Stage, Allocate, Commit, Rollback
<1> QED
  BY <1>1, <1>2, SMTT(30)

LEMMA StepType ==
    ASSUME Counting, TypeInv, LockInv, NEW j \in Jobs, SnapshotInv(j), StagedInv(j), StampInv(j), Step(j)
    PROVE  TypeInv'
<1>1. /\ events' \in [Metrics -> [1..MaxTime -> {NoItem} \cup EventType]]
      /\ scores' \in Table(Metrics, Values)
      /\ registered' \subseteq Metrics /\ registered \subseteq registered'
      /\ version' \in [Metrics -> Nat] /\ clock' \in [Metrics -> 0..MaxTime]
      /\ durable' \subseteq Batches \X Nat
  <2>1. CASE Commit(j)
    BY <2>1, CommitTypes
  <2>2. CASE ~Commit(j)
    BY <2>2, Uncommitted DEF TypeInv
  <2> QED
    BY <2>1, <2>2
<1>2. Registered \subseteq registered'
  BY <1>1 DEF TypeInv
<1>3. locks' \subseteq Jobs \X Metrics \X BOOLEAN /\ IsFiniteSet(locks')
  BY StepLockTypes
<1>4. /\ pc' \in [Jobs -> Phases]
      /\ Shaped(snapshot') /\ Shaped(accepted') /\ Shaped(staged') /\ Shaped(stamps')
  BY Frame DEF Shaped
<1>5. \A k \in Jobs : accepted'[k] \subseteq JobItems[k]
  BY StepAccepted
<1>6. failures' \in 0..MaxFailures
  BY StepFailures
<1> QED
  BY <1>1, <1>2, <1>3, <1>4, <1>5, <1>6 DEF TypeInv

-----------------------------------------------------------------------------
(* Outcomes. *)

\* A step of a job that has not ended.
LEMMA StepActive ==
    ASSUME Counting, NEW j, Step(j)
    PROVE  pc[j] \notin {"committed", "rejected", "failed"}
  BY DEF Step, Lock, Read, Stage, Allocate, Commit, Rollback

LEMMA StepDurable ==
    ASSUME Counting, TypeInv, NEW j \in Jobs, DurableInv, Step(j)
    PROVE  DurableInv'
<1>0. pc \in [Jobs -> Phases] /\ Shaped(accepted)
  BY DEF TypeInv
<1>1. \A k \in Jobs : k # j => pc'[k] = pc[k] /\ accepted'[k] = accepted[k]
  BY Frame
<1>2. durable' = durable \/ (Commit(j) /\ durable' = durable \cup {<<j[1], i>> : i \in accepted[j]})
  BY Uncommitted DEF Commit, Record
<1>3. Commit(j) => accepted' = accepted /\ pc'[j] \in {"committed", "failed"}
  BY <1>0 DEF Commit
<1> DEFINE Of(d, k) == k[1] = d[1] /\ d[2] \in accepted[k] /\ pc[k] \in {"committed", "failed"}
<1>4. ASSUME NEW d \in durable' PROVE \E k \in Jobs : Of(d, k)'
  <2>1. CASE d \in durable
    <3>1. PICK k \in Jobs : Of(d, k)
      BY <2>1 DEF DurableInv
    <3>2. k # j
      BY <3>1, StepActive
    <3> QED
      BY <1>1, <3>1, <3>2
  <2>2. CASE d \notin durable
    <3>1. PICK i \in accepted[j] : d = <<j[1], i>>
      BY <1>2, <1>4, <2>2
    <3>2. d[1] = j[1] /\ d[2] = i
      BY <3>1
    <3>3. Commit(j)
      BY <1>2, <1>4, <2>2
    <3> QED
      BY <1>3, <3>1, <3>2, <3>3
  <2> QED
    BY <2>1, <2>2
<1>5. ASSUME NEW k \in Jobs, pc'[k] = "committed"
      PROVE  \A i \in accepted'[k] : <<k[1], i>> \in durable'
  <2>1. CASE k # j
    BY <1>1, <1>2, <1>5, <2>1 DEF DurableInv
  <2>2. CASE k = j
    <3>1. Commit(j)
      <4>1. CASE Lock(j)
        <5>1. pc'[j] \in {"locked", pc[j]} /\ pc[j] = "locking"
          BY <1>0, <4>1 DEF Lock
        <5> QED
          BY <1>5, <2>2, <5>1
      <4>2. CASE Read(j)
        BY <1>0, <1>5, <2>2, <4>2 DEF Read
      <4>3. CASE Stage(j)
        BY <1>0, <1>5, <2>2, <4>3 DEF Stage
      <4>4. CASE Allocate(j)
        BY <1>0, <1>5, <2>2, <4>4 DEF Allocate
      <4>5. CASE Rollback(j)
        BY <1>0, <1>5, <2>2, <4>5 DEF Rollback
      <4> QED
        BY <4>1, <4>2, <4>3, <4>4, <4>5 DEF Step
    <3>2. durable' = durable \cup {<<j[1], i>> : i \in accepted[j]} /\ accepted' = accepted
      BY <3>1 DEF Commit, Record
    <3> QED
      BY <2>2, <3>2
  <2> QED
    BY <2>1, <2>2
<1>6. ASSUME NEW k \in Jobs, pc'[k] = "rejected" PROVE accepted'[k] = {}
  <2>1. CASE k # j
    BY <1>1, <1>6, <2>1 DEF DurableInv
  <2>2. CASE k = j
    <3>1. Stage(j) /\ pc' = [pc EXCEPT ![j] = "rejected"]
      <4>1. CASE Lock(j)
        <5>1. pc'[j] \in {"locked", pc[j]} /\ pc[j] = "locking"
          BY <1>0, <4>1 DEF Lock
        <5> QED
          BY <1>6, <2>2, <5>1
      <4>2. CASE Read(j)
        BY <1>0, <1>6, <2>2, <4>2 DEF Read
      <4>3. CASE Stage(j)
        BY <1>0, <1>6, <2>2, <4>3 DEF Stage
      <4>4. CASE Allocate(j)
        BY <1>0, <1>6, <2>2, <4>4 DEF Allocate
      <4>5. CASE Commit(j)
        BY <1>0, <1>6, <2>2, <4>5 DEF Commit
      <4>6. CASE Rollback(j)
        BY <1>0, <1>6, <2>2, <4>6 DEF Rollback
      <4> QED
        BY <4>1, <4>2, <4>3, <4>4, <4>5, <4>6 DEF Step
    <3>2. CASE Staging(j).accepted = {}
      <4>1. accepted' = [accepted EXCEPT ![j] = Staging(j).accepted]
        BY <3>1 DEF Stage
      <4>2. accepted'[j] = Staging(j).accepted
        BY <1>0, <4>1, ExceptAt
      <4> QED
        BY <2>2, <3>2, <4>2
    <3>3. CASE Staging(j).accepted # {}
      <4>1. pc' = [pc EXCEPT ![j] = "staged"]
        BY <3>1, <3>3 DEF Stage
      <4> QED
        BY <1>0, <1>6, <2>2, <4>1
    <3> QED
      BY <3>2, <3>3
  <2> QED
    BY <2>1, <2>2
<1> QED
  BY <1>4, <1>5, <1>6 DEF DurableInv

\* Each item is reported as it went.
LEMMA ReportsFollow ==
    ASSUME Counting, TypeInv, DurableInv
    PROVE  ReportsExact
<1> SUFFICES ASSUME NEW j \in Jobs, Ended(j)
             PROVE  LET all == JobItems[j]
                        reported == Reported(j)
                        kept == {i \in all : <<j[1], i>> \in durable}
                    IN all \ reported \subseteq kept /\ (pc[j] # "failed" => reported \cap kept = {})
  BY DEF ReportsExact
<1> DEFINE all == JobItems[j]
           kept == {i \in all : <<j[1], i>> \in durable}
<1>1. all \in SUBSET Nat /\ IsFiniteSet(all)
  BY JobFacts
<1>2. \A i \in all : Rank(all, i) \in 1..Cardinality(all) /\ Nth(all, Rank(all, i)) = i
  BY <1>1, RankIs, NthOfRank
<1>3. \A i \in all : pc[j] = "failed" \/ i \notin accepted[j] => i \in Reported(j)
  BY <1>2 DEF Reported, LocalFailures
<1>4. pc[j] # "failed" => \A i \in Reported(j) : i \notin accepted[j]
  BY DEF Reported, LocalFailures
<1>5. accepted[j] \subseteq all
  BY DEF TypeInv
<1>6. ASSUME NEW i \in all, i \notin Reported(j) PROVE i \in kept
  <2>1. pc[j] # "failed" /\ i \in accepted[j]
    BY <1>3, <1>6
  <2>2. pc[j] = "committed"
    BY <2>1 DEF Ended, DurableInv
  <2> QED
    BY <2>1, <2>2 DEF DurableInv
<1>7. ASSUME pc[j] # "failed", NEW i \in all, i \in Reported(j), <<j[1], i>> \in durable PROVE FALSE
  <2>1. i \notin accepted[j]
    BY <1>4, <1>7
  <2> DEFINE d == <<j[1], i>>
  <2>2. d[1] = j[1] /\ d[2] = i
    BY SMT
  <2>3. PICK k \in Jobs : k[1] = d[1] /\ d[2] \in accepted[k]
    BY <1>7 DEF DurableInv
  <2>4. k[1] = j[1] /\ i \in accepted[k]
    BY <2>2, <2>3
  <2>5. i \in JobItems[k]
    BY <2>4 DEF TypeInv
  <2>6. k = j
    BY <1>7, <2>4, <2>5, OneJob
  <2> QED
    BY <2>1, <2>4, <2>6
<1> HIDE DEF all
<1> QED
  BY <1>6, <1>7 DEF all

\* Every metric whose scores a commit changes has a row then.
LEMMA ChangedRegistered ==
    ASSUME Counting, DeletesExist, TypeInv, NEW j \in Jobs, Commit(j), NEW m \in Changed(j)
    PROVE  m \in registered'
<1>1. PICK i \in accepted[j] : Item(j, i).metric = m /\ Item(j, i).entities # {}
  BY DEF Changed, Touched
<1>2. i \in JobItems[j]
  BY <1>1 DEF TypeInv
<1>3. Item(j, i) \in ItemType /\ j[1] \in Batches /\ i \in DOMAIN Items[j[1]]
  <2>1. JobItems[j] \subseteq 1..Last(j) /\ j[1] \in Batches
    BY JobFacts
  <2>2. Items[j[1]] \in Seq(ItemType)
    BY <2>1, IngestAssumption
  <2>3. DOMAIN Items[j[1]] = 1..Last(j)
    BY <2>2, SMT DEF Last
  <2> QED
    BY <1>2, <2>1, <2>3, ItemOfJob
<1>4. Item(j, i).kind \in {"write", "set", "delete"}
  BY <1>3, ItemFields
<1>5. CASE Item(j, i).kind = "delete"
  <2>1. m \in Registered
    BY <1>1, <1>3, <1>5 DEF DeletesExist, Item
  <2>2. registered \subseteq registered'
    BY DEF Commit, WriteScores
  <2> QED
    BY <2>1, <2>2 DEF TypeInv
<1>6. CASE Item(j, i).kind \in {"write", "set"}
  BY <1>1, <1>6 DEF Commit, WriteScores
<1> QED
  BY <1>4, <1>5, <1>6

\* A commit moves a changed metric to its next version, and leaves the others.
LEMMA NewBoards ==
    ASSUME Counting, DeletesExist, TypeInv, BoardInv, NEW j \in Jobs, Commit(j), NEW m \in Metrics
    PROVE  /\ m \in Changed(j) =>
                 version'[m] = version[m] + 1 /\ boards'[m] = Append(boards[m], scores'[m])
           /\ m \notin Changed(j) =>
                 version'[m] = version[m] /\ boards'[m] = boards[m] /\ scores'[m] = scores[m]
<1>0. version[m] \in Nat
  BY DEF TypeInv
<1>1. boards'[m] = IF version'[m] # version[m] THEN Append(boards[m], scores'[m]) ELSE boards[m]
  BY DEF Commit, Record
<1>2. version'[m] = IF m \in Changed(j) \cap registered' THEN version[m] + 1 ELSE version[m]
  BY DEF Commit, WriteScores, NextVersion
<1>3. version[m] + 1 # version[m]
  BY <1>0, SMT
<1>4. m \in Changed(j) => m \in registered'
  BY ChangedRegistered
<1>5. ASSUME m \notin Changed(j) PROVE scores'[m] = scores[m]
  <2>1. scores'[m] = [e \in Entities |-> IF m \in JobMetrics[j] /\ e \in Touched(j, m) THEN staged[j][m][e]
                                         ELSE scores[m][e]]
    BY DEF Commit, WriteScores
  <2>2. \A e \in Entities : ~(m \in JobMetrics[j] /\ e \in Touched(j, m))
    BY <1>5 DEF Changed
  <2>3. scores'[m] = [e \in Entities |-> scores[m][e]]
    BY <2>1, <2>2
  <2>4. scores[m] \in [Entities -> Values]
    BY DEF TypeInv, Table
  <2> QED
    BY <2>3, <2>4
<1> QED
  BY <1>1, <1>2, <1>3, <1>4, <1>5


\* The sequence t is s with x at its end.
Extends(t, s, x) ==
    /\ Len(s) \in Nat /\ DOMAIN s = 1..Len(s) /\ DOMAIN t = 1..(Len(s) + 1)
    /\ Len(t) = Len(s) + 1 /\ t[Len(s) + 1] = x
    /\ \A i \in 1..Len(s) : i \in DOMAIN t /\ t[i] = s[i]

LEMMA AppendIs ==
    ASSUME NEW V, NEW s \in Seq(V), NEW x \in V
    PROVE  Append(s, x) \in Seq(V) /\ Extends(Append(s, x), s, x)
BY SMT DEF Extends

\* The boards b go from the version that p names to the next one as p says.
Describes(p, b) ==
    /\ p.previous + 2 \in DOMAIN b
    /\ \A e \in Entities :
          IF e \in DOMAIN p.old
          THEN b[p.previous + 1][e] = p.old[e] /\ b[p.previous + 2][e] = p.new[e]
          ELSE b[p.previous + 1][e] = b[p.previous + 2][e]

LEMMA StillDescribes ==
    ASSUME NEW s, NEW t, NEW x, Extends(t, s, x), NEW p, p.previous \in Nat, Describes(p, s)
    PROVE  Describes(p, t)
<1> DEFINE q == p.previous
<1>1. q + 2 \in 1..Len(s) /\ Len(s) \in Nat
  BY DEF Describes, Extends
<1>2. q + 1 \in 1..Len(s)
  BY <1>1, SMTT(30)
<1>3. t[q + 1] = s[q + 1] /\ t[q + 2] = s[q + 2] /\ q + 2 \in DOMAIN t
  BY <1>1, <1>2 DEF Extends
<1> QED
  BY <1>3 DEF Describes

LEMMA NewDescribes ==
    ASSUME Counting, DeletesExist, TypeInv, BoardInv, NEW j \in Jobs, SnapshotInv(j), StagedInv(j), Commit(j),
           NEW m \in Changed(j)
    PROVE  /\ Publication(j, m).metric = m /\ m \in Metrics /\ Publication(j, m).previous \in Nat
           /\ Describes(Publication(j, m), boards'[m])
<1> DEFINE p == Publication(j, m)
           T == Touched(j, m)
<1>1. /\ p.metric = m /\ p.previous = snapshot[j].version[m] 
      /\ p.old = [e \in T |-> snapshot[j].scores[m][e]] /\ p.new = [e \in T |-> staged[j][m][e]]
  BY SMTT(30) DEF Publication
<1>2. m \in JobMetrics[j] /\ JobMetrics[j] \subseteq Metrics
  BY JobFacts DEF Changed
<1>3. pc[j] = "stamped"
  BY DEF Commit
<1>4. p.previous = version[m] /\ version[m] \in Nat
  <2>1. snapshot[j].version = [n \in JobMetrics[j] |-> version[n]]
    BY <1>3, SnapshotIs DEF Restrict
  <2> QED
    BY <1>1, <1>2, <2>1 DEF TypeInv
<1>5. snapshot[j].scores[m] = scores[m]
  BY <1>2, <1>3, SnapshotScores
<1> HIDE DEF p
<1>6. /\ boards[m] \in Seq([Entities -> Values]) /\ Len(boards[m]) = version[m] + 1
      /\ boards[m][version[m] + 1] = scores[m]
  BY <1>2 DEF BoardInv
<1>7. scores'[m] \in [Entities -> Values] /\ \A e \in Entities : scores'[m][e] = NewScoreAt(j, m, e)
  BY <1>2, ScoresAfter DEF Table
<1>8. boards'[m] = Append(boards[m], scores'[m])
  BY <1>2, NewBoards
<1>9. Extends(boards'[m], boards[m], scores'[m])
  BY <1>6, <1>7, <1>8, AppendIs
<1>10. /\ boards'[m][version[m] + 1] = scores[m] /\ boards'[m][version[m] + 2] = scores'[m]
       /\ version[m] + 2 \in DOMAIN boards'[m]
  <2>1. /\ DOMAIN boards[m] = 1..(version[m] + 1) /\ DOMAIN boards'[m] = 1..((version[m] + 1) + 1)
        /\ boards'[m][(version[m] + 1) + 1] = scores'[m]
        /\ \A i \in 1..(version[m] + 1) : boards'[m][i] = boards[m][i]
    BY <1>6, <1>9 DEF Extends
  <2>2. /\ (version[m] + 1) + 1 = version[m] + 2 /\ version[m] + 1 \in 1..(version[m] + 1)
        /\ version[m] + 2 \in 1..(version[m] + 2)
    BY <1>4, SMT
  <2> QED
    BY <1>6, <2>1, <2>2
<1> HIDE DEF T
<1>11. ASSUME NEW e \in Entities
       PROVE  IF e \in DOMAIN p.old THEN scores[m][e] = p.old[e] /\ scores'[m][e] = p.new[e]
              ELSE scores[m][e] = scores'[m][e]
  <2>1. DOMAIN p.old = T
    BY <1>1
  <2>2. CASE e \in T
    <3>1. p.old[e] = snapshot[j].scores[m][e] /\ p.new[e] = staged[j][m][e]
      BY <1>1, <2>2
    <3>2. scores'[m][e] = staged[j][m][e]
      BY <1>2, <1>7, <2>2 DEF NewScoreAt, T
    <3> QED
      BY <1>5, <2>1, <2>2, <3>1, <3>2
  <2>3. CASE e \notin T
    BY <1>7, <2>1, <2>3 DEF NewScoreAt, T
  <2> QED
    BY <2>2, <2>3
<1>12. Describes(p, boards'[m])
  BY <1>4, <1>10, <1>11 DEF Describes
<1> QED
  BY <1>1, <1>2, <1>4, <1>12 DEF p

\* What is published stays exact.
LEMMA StepBoards ==
    ASSUME Counting, DeletesExist, TypeInv, TypeInv', BoardInv, PublicationsExact,
           NEW j \in Jobs, SnapshotInv(j), StagedInv(j), Step(j)
    PROVE  BoardInv' /\ PublicationsExact'
<1>1. CASE ~Commit(j)
  <2>1. boards' = boards /\ version' = version /\ scores' = scores /\ published' = published
    BY <1>1, Uncommitted
  <2> QED
    BY <2>1 DEF BoardInv, PublicationsExact
<1>2. CASE Commit(j)
  <2>1. ASSUME NEW m \in Metrics
        PROVE  /\ boards'[m] \in Seq([Entities -> Values]) /\ Len(boards'[m]) = version'[m] + 1
               /\ boards'[m][version'[m] + 1] = scores'[m]
               /\ \A p : p.previous \in Nat /\ Describes(p, boards[m]) => Describes(p, boards'[m])
    <3>1. /\ boards[m] \in Seq([Entities -> Values]) /\ Len(boards[m]) = version[m] + 1
          /\ boards[m][version[m] + 1] = scores[m]
      BY DEF BoardInv
    <3>2. scores'[m] \in [Entities -> Values]
      BY DEF TypeInv, Table
    <3>3. CASE m \notin Changed(j)
      <4>1. version'[m] = version[m] /\ boards'[m] = boards[m] /\ scores'[m] = scores[m]
        BY <1>2, <3>3, NewBoards
      <4> QED
        BY <3>1, <4>1
    <3>4. CASE m \in Changed(j)
      <4>1. version'[m] = version[m] + 1 /\ boards'[m] = Append(boards[m], scores'[m])
        BY <1>2, <3>4, NewBoards
      <4>2. boards'[m] \in Seq([Entities -> Values]) /\ Extends(boards'[m], boards[m], scores'[m])
        BY <3>1, <3>2, <4>1, AppendIs
      <4>3. \A p : p.previous \in Nat /\ Describes(p, boards[m]) => Describes(p, boards'[m])
        BY <4>2, StillDescribes
      <4>4. Len(boards'[m]) = version'[m] + 1 /\ boards'[m][version'[m] + 1] = scores'[m]
        BY <3>1, <4>1, <4>2 DEF Extends
      <4> QED
        BY <4>2, <4>3, <4>4
    <3> QED
      BY <3>3, <3>4
  <2>2. boards' \in [Metrics -> Seq([Entities -> Values])]
    <3>1. boards' = [m \in Metrics |->
              IF version'[m] # version[m] THEN Append(boards[m], scores'[m]) ELSE boards[m]]
      BY <1>2 DEF Commit, Record
    <3> QED
      BY <2>1, <3>1
  <2>3. \A p \in published' : p \in published \/ \E m \in Changed(j) : p = Publication(j, m)
    BY <1>2 DEF Commit
  <2>4. ASSUME NEW p \in published'
        PROVE  p.metric \in Metrics /\ p.previous \in Nat /\ Describes(p, boards'[p.metric])
    <3>1. CASE p \in published
      <4>1. p.metric \in Metrics /\ p.previous \in Nat
        BY <3>1 DEF BoardInv
      <4>2. Describes(p, boards[p.metric])
        BY <3>1 DEF PublicationsExact, Describes
      <4> QED
        BY <2>1, <4>1, <4>2
    <3>2. ASSUME NEW m \in Changed(j), p = Publication(j, m)
          PROVE  p.metric \in Metrics /\ p.previous \in Nat /\ Describes(p, boards'[p.metric])
      BY <1>2, <3>2, NewDescribes
    <3> QED
      BY <2>3, <3>1, <3>2
  <2>5. PublicationsExact'
    BY <2>4 DEF PublicationsExact, Describes
  <2> QED
    BY <2>1, <2>2, <2>4, <2>5 DEF BoardInv
<1> QED
  BY <1>1, <1>2


-----------------------------------------------------------------------------
(* Waiting for locks. *)

\* The job with the greatest of all locks that are held waits for a greater one, which
\* nobody holds.
LEMMA NotStuck ==
    ASSUME Counting, TypeInv, LockInv
    PROVE  NeverStuck
<1> SUFFICES ASSUME NEW i \in Jobs, ~Ended(i),
                    \A j \in Jobs : ~Ended(j) => pc[j] = "locking" /\ ~Granted(j)
             PROVE  FALSE
  BY DEF NeverStuck
<1> DEFINE M == {l[2] : l \in locks}
<1>1. ASSUME NEW l \in locks
      PROVE  l[1] \in Jobs /\ l[2] \in Held(l[1]) /\ l[2] \in Nat /\ pc[l[1]] = "locking" /\ ~Granted(l[1])
  <2>1. l[1] \in Jobs /\ l[2] \in Metrics
    BY SMT DEF TypeInv
  <2>2. l[2] \in Held(l[1])
    BY DEF Held
  <2>3. ~Ended(l[1])
    BY <2>1, <2>2 DEF LockInv, LockProgress
  <2>4. Metrics \subseteq Nat
    BY IngestAssumption
  <2> QED
    BY <2>1, <2>2, <2>3, <2>4
<1>2. ASSUME NEW j \in Jobs, ~Granted(j) PROVE \E l \in locks : l[2] = NextLock(j)
  BY <1>2 DEF Granted
<1>3. M # {} /\ M \in SUBSET Nat /\ IsFiniteSet(M)
  <2>1. M # {}
    BY <1>2
  <2>2. M \in SUBSET Nat
    BY <1>1
  <2>3. IsFiniteSet(M)
    BY DEF Counting, TypeInv
  <2> QED
    BY <2>1, <2>2, <2>3
<1>4. PICK top \in M : \A m \in M : m <= top
  <2> HIDE DEF M
  <2> QED
    BY <1>3, Greatest
<1>5. PICK l \in locks : l[2] = top
  BY <1>4
<1>6. PICK k \in locks : k[2] = NextLock(l[1])
  BY <1>1, <1>2
<1>7. top < NextLock(l[1]) /\ NextLock(l[1]) \in Nat
  BY <1>1, <1>5, NextLockIs
<1>8. NextLock(l[1]) <= top /\ top \in Nat
  BY <1>1, <1>4, <1>5, <1>6
<1> QED
  BY <1>7, <1>8, SMTT(30)

-----------------------------------------------------------------------------
(* The inductive invariant. *)

JobInv(j) == SnapshotInv(j) /\ StagedInv(j) /\ StampInv(j)
Inv ==
    /\ TypeInv /\ LockInv /\ ClockInv /\ DurableInv
    /\ \A j \in Jobs : JobInv(j)
    /\ credited = scores
\* What is published needs this besides.
OutcomeInv == Inv /\ BoardInv /\ PublicationsExact

LEMMA InitInv ==
    ASSUME Counting, Init
    PROVE  Inv
<1>1. Absent \in Values /\ NoScores \in [Entities -> Values]
  BY DEF Values, NoScores
<1>2. {MaxTime, MaxFailures} \subseteq Nat /\ Registered \subseteq Metrics
  BY IngestAssumption
<1>3. 0 \in 0..MaxTime /\ 0 \in 0..MaxFailures /\ 0 \in Nat
  BY <1>2, SMTT(30)
<1>4. TypeInv
  <2>1. events \in [Metrics -> [1..MaxTime -> {NoItem} \cup EventType]]
    BY DEF Init
  <2>2. scores \in Table(Metrics, Values)
    BY <1>1 DEF Init, Table
  <2>3. registered \subseteq Metrics /\ Registered \subseteq registered
    BY <1>2 DEF Init
  <2>4. version \in [Metrics -> Nat] /\ clock \in [Metrics -> 0..MaxTime] /\ failures \in 0..MaxFailures
    BY <1>3 DEF Init
  <2>5. locks \subseteq Jobs \X Metrics \X BOOLEAN /\ IsFiniteSet(locks) /\ durable \subseteq Batches \X Nat
    BY DEF Init, Counting
  <2>6. pc \in [Jobs -> Phases]
    BY DEF Init, Phases
  <2>7. Shaped(snapshot) /\ Shaped(accepted) /\ Shaped(staged) /\ Shaped(stamps)
    BY DEF Init, Shaped
  <2>8. \A j \in Jobs : accepted[j] \subseteq JobItems[j]
    BY DEF Init
  <2> QED
    BY <2>1, <2>2, <2>3, <2>4, <2>5, <2>6, <2>7, <2>8 DEF TypeInv
<1>5. \A j \in Jobs : pc[j] = "locking"
  BY DEF Init
<1>6. LockInv
  <2>1. ASSUME NEW j \in Jobs PROVE LockProgress(j)
    <3>1. Held(j) = {}
      BY DEF Init, Held
    <3>2. JobMetrics[j] # {}
      BY JobFacts
    <3>3. "locking" \notin {"locked", "read", "staged", "stamped"}
      BY SMT
    <3> QED
      BY <1>5, <3>1, <3>2, <3>3 DEF LockProgress
  <2>2. locks = {}
    BY DEF Init
  <2> QED
    BY <2>1, <2>2 DEF LockInv
<1>7. ClockInv
  BY DEF Init, ClockInv
<1>8. DurableInv
  <2>1. durable = {} /\ "locking" # "committed" /\ "locking" # "rejected"
    BY SMT DEF Init
  <2> QED
    BY <1>5, <2>1 DEF DurableInv
<1>9. \A j \in Jobs : JobInv(j)
  <2>1. "locking" \notin {"read", "staged", "stamped"}
    BY SMT
  <2> QED
    BY <1>5, <2>1 DEF JobInv, SnapshotInv, StagedInv, StampInv
<1>10. credited = scores
  BY DEF Init
<1> QED
  BY <1>4, <1>6, <1>7, <1>8, <1>9, <1>10 DEF Inv


LEMMA StepInv ==
    ASSUME Counting, Inv, [Next]_vars
    PROVE  Inv'
<1> TypeInv /\ LockInv /\ ClockInv /\ DurableInv /\ credited = scores
  BY DEF Inv
<1>1. \A j \in Jobs : SnapshotInv(j) /\ StagedInv(j) /\ StampInv(j)
  BY DEF Inv, JobInv
<1>2. ASSUME NEW j \in Jobs, Step(j) PROVE Inv'
  <2>1. TypeInv'
    BY <1>1, <1>2, StepType
  <2>2. LockInv'
    BY <1>2, StepLocks
  <2>3. ClockInv'
    BY <1>1, <1>2, StepClock
  <2>4. DurableInv'
    BY <1>2, StepDurable
  <2>5. ASSUME NEW k \in Jobs PROVE JobInv(k)'
    <3>1. SnapshotInv(k)'
      BY <1>1, <1>2, StepSnapshot
    <3>2. StagedInv(k)'
      BY <1>1, <1>2, StepStaged
    <3>3. StampInv(k)'
      BY <1>1, <1>2, StepStamps
    <3> QED
      BY <3>1, <3>2, <3>3 DEF JobInv
  <2>6. credited' = scores'
    BY <1>1, <1>2, StepCredited
  <2> QED
    BY <2>1, <2>2, <2>3, <2>4, <2>5, <2>6 DEF Inv
<1>3. ASSUME UNCHANGED vars PROVE Inv'
  <2>1. /\ UNCHANGED <<events, scores, registered, version, clock>>
        /\ UNCHANGED <<locks, pc, snapshot, accepted, staged, stamps, failures>>
        /\ UNCHANGED <<published, boards, credited, durable>>
    BY <1>3 DEF vars, db, local, history
  <2>2. TypeInv'
    BY <2>1 DEF TypeInv
  <2>3. LockInv'
    BY <2>1 DEF LockInv, LockProgress, Held, Ended
  <2>4. ClockInv' /\ DurableInv'
    BY <2>1 DEF ClockInv, DurableInv
  <2>5. ASSUME NEW j \in Jobs PROVE JobInv(j)'
    <3>1. SnapshotInv(j)' /\ StagedInv(j)'
      BY <1>1, <2>1 DEF SnapshotInv, StagedInv
    <3>2. StampInv(j)'
      BY <1>1, <2>1 DEF StampInv, StampIs, Automatic
    <3> QED
      BY <3>1, <3>2 DEF JobInv
  <2> QED
    BY <2>1, <2>2, <2>3, <2>4, <2>5 DEF Inv
<1> QED
  BY <1>2, <1>3 DEF Next

LEMMA InitOutcomes ==
    ASSUME Counting, Init
    PROVE  OutcomeInv
<1>1. Absent \in Values /\ NoScores \in [Entities -> Values]
  BY DEF Values, NoScores
<1>2. <<NoScores>> \in Seq([Entities -> Values]) /\ Len(<<NoScores>>) = 0 + 1 /\ <<NoScores>>[0 + 1] = NoScores
  BY <1>1, SMT
<1>3. boards \in [Metrics -> Seq([Entities -> Values])]
  BY <1>2 DEF Init
<1>4. ASSUME NEW m \in Metrics
      PROVE  Len(boards[m]) = version[m] + 1 /\ boards[m][version[m] + 1] = scores[m]
  <2>1. boards[m] = <<NoScores>> /\ version[m] = 0 /\ scores[m] = NoScores
    BY DEF Init
  <2> QED
    BY <1>2, <2>1
<1>5. published = {}
  BY DEF Init
<1> QED
  BY <1>3, <1>4, <1>5, InitInv DEF OutcomeInv, BoardInv, PublicationsExact

LEMMA StepOutcomes ==
    ASSUME Counting, DeletesExist, OutcomeInv, [Next]_vars
    PROVE  OutcomeInv'
<1> Inv /\ BoardInv /\ PublicationsExact
  BY DEF OutcomeInv
<1>1. Inv' /\ TypeInv /\ TypeInv'
  BY StepInv DEF Inv
<1>2. ASSUME NEW j \in Jobs, Step(j) PROVE BoardInv' /\ PublicationsExact'
  <2>1. SnapshotInv(j) /\ StagedInv(j)
    BY DEF Inv, JobInv
  <2> QED
    BY <1>1, <1>2, <2>1, StepBoards
<1>3. ASSUME UNCHANGED vars PROVE BoardInv' /\ PublicationsExact'
  <2>1. boards' = boards /\ version' = version /\ scores' = scores /\ published' = published
    BY <1>3 DEF vars, db, history
  <2> QED
    BY <2>1 DEF BoardInv, PublicationsExact
<1> QED
  BY <1>1, <1>2, <1>3 DEF OutcomeInv, Next

-----------------------------------------------------------------------------
(* Results. *)

FS == INSTANCE FiniteSetTheorems

LEMMA CountingHolds == Counting
<1>1. \A S : IsFiniteSet(S) <=> FS!IsFiniteSet(S)
  BY DEF FS!IsFiniteSet, IsFiniteSet
<1>2. \A S : FS!Cardinality(S) = Cardinality(S)
  BY DEF FS!Cardinality, Cardinality, FS!IsFiniteSet, IsFiniteSet
<1>3. ASSUME NEW T \in SUBSET Nat, T # {} PROVE \E x \in T : \A y \in T : x <= y
  <2>1. PICK x \in T : \A y \in T : ~(<<y, x>> \in FS!OpToRel(<, Nat))
    BY <1>3, FS!NatLessThanWellFounded, FS!WFMin
  <2>2. \A y \in T : <<y, x>> \notin FS!OpToRel(<, Nat) => x <= y
    BY SMTT(30) DEF FS!OpToRel
  <2> QED
    BY <2>1, <2>2
<1>4. IsFiniteSet({}) /\ Cardinality({}) = 0
  BY <1>1, <1>2, FS!FS_EmptySet
<1>5. ASSUME NEW n \in Nat PROVE IsFiniteSet(1..n)
  <2>1. 1 \in FS!Int /\ n \in FS!Int
    BY SMTT(30)
  <2> QED
    BY <1>1, <2>1, FS!FS_Interval
<1>6. ASSUME NEW S, IsFiniteSet(S)
      PROVE  /\ Cardinality(S) \in Nat
             /\ \A T \in SUBSET S : IsFiniteSet(T) /\ Cardinality(T) <= Cardinality(S)
             /\ \A T \in SUBSET S : Cardinality(T) = Cardinality(S) => T = S
             /\ \A x : IsFiniteSet(S \cup {x})
             /\ \A x : x \notin S => Cardinality(S \cup {x}) = Cardinality(S) + 1
             /\ IsFiniteSet({l[2] : l \in S})
  <2>1. Cardinality(S) \in Nat
    BY <1>1, <1>2, <1>6, FS!FS_CardinalityType
  <2>2. ASSUME NEW T \in SUBSET S
        PROVE  /\ IsFiniteSet(T) /\ Cardinality(T) <= Cardinality(S)
               /\ Cardinality(T) = Cardinality(S) => T = S
    BY <1>1, <1>2, <1>6, FS!FS_Subset
  <2>3. ASSUME NEW x
        PROVE  IsFiniteSet(S \cup {x}) /\ (x \notin S => Cardinality(S \cup {x}) = Cardinality(S) + 1)
    BY <1>1, <1>2, <1>6, FS!FS_AddElement
  <2>4. IsFiniteSet({l[2] : l \in S})
    <3> DEFINE T == {l[2] : l \in S}
               f == [l \in S |-> l[2]]
    <3>1. f \in FS!Surjection(S, T)
      BY DEF FS!Surjection
    <3>2. IsFiniteSet(T)
      BY <1>1, <1>6, <3>1, FS!FS_Surjection
    <3> QED
      BY <3>2
  <2> QED
    BY <2>1, <2>2, <2>3, <2>4
<1> QED
  BY <1>3, <1>4, <1>5, <1>6 DEF Counting


LEMMA InvHolds == Spec => []Inv
<1>1. Inv /\ [Next]_vars => Inv'
  BY StepInv, CountingHolds
<1>2. Init => Inv
  BY InitInv, CountingHolds
<1> QED
  BY <1>1, <1>2, PTL DEF Spec

\* However transactions interleave, fail and roll back, the absolute scores that they
\* write are what the committed items add up to (copyWritesWithPublisher, mutate).
THEOREM ScoresAddUp == Spec => []ScoresExact
<1>1. Inv => ScoresExact
  <2> SUFFICES ASSUME Inv PROVE ScoresExact
    OBVIOUS
  <2>1. TypeInv /\ credited = scores
    BY DEF Inv
  <2>2. ASSUME NEW m \in Metrics, NEW t \in 1..MaxTime, events[m][t] # NoItem
        PROVE  events[m][t].batch \in Batches
    <3>1. events[m][t] \in EventType
      BY <2>1, <2>2 DEF TypeInv
    <3> QED
      BY <3>1, SMTT(30) DEF EventType
  <2>3. scores \in Scores /\ credited \in Scores
    BY <2>1 DEF TypeInv, Table, Values, Scores
  <2>4. TypeOK
    BY <2>1, <2>2, <2>3 DEF TypeOK, TypeInv, Phases
  <2> QED
    BY <2>1, <2>4 DEF ScoresExact
<1> QED
  BY <1>1, InvHolds, PTL

\* An automatic event never takes the place of another one, and its timestamp is behind
\* those of all earlier automatic events of its metric (allocateBatchTimestamps).
THEOREM AutomaticEventsAreFresh == Spec => AutomaticIsFresh
<1>1. Inv /\ [Next]_vars => [FreshOnly]_events
  <2> SUFFICES ASSUME Inv, Next PROVE FreshOnly
    BY DEF vars, db
  <2>1. PICK j \in Jobs : Step(j)
    BY DEF Next
  <2>2. TypeInv /\ StampInv(j) /\ ClockInv
    BY DEF Inv, JobInv
  <2> QED
    BY <2>1, <2>2, StepFresh, CountingHolds DEF FreshOnly
<1> QED
  BY <1>1, InvHolds, PTL DEF Spec, AutomaticIsFresh

\* Whatever metrics the requests name, and in whatever order, their jobs never wait for
\* one another in a circle: one that has not ended can go on (beginIngest).
THEOREM LockingNeverStops == Spec => []NeverStuck
<1>1. Inv => NeverStuck
  BY NotStuck, CountingHolds DEF Inv
<1> QED
  BY <1>1, InvHolds, PTL

\* Each item is reported as it went (copyGroupedWrites), whatever the requests delete.
THEOREM ReportsAreExact == Spec => []ReportsExact
<1>1. Inv => ReportsExact
  BY ReportsFollow, CountingHolds DEF Inv
<1> QED
  BY <1>1, InvHolds, PTL

\* Where every DELETE from a board is for a metric that has a row, what is published is
\* exactly the step of its metric to the next version as well (projectWithin).
THEOREM OutcomesAreExact ==
    ASSUME DeletesExist
    PROVE  Spec => []OutcomesExact
<1>1. Init => OutcomeInv
  BY InitOutcomes, CountingHolds
<1>2. OutcomeInv /\ [Next]_vars => OutcomeInv'
  BY StepOutcomes, CountingHolds
<1>3. OutcomeInv => OutcomesExact
  BY ReportsFollow, CountingHolds DEF OutcomeInv, Inv, OutcomesExact
<1> QED
  BY <1>1, <1>2, <1>3, PTL DEF Spec

=============================================================================
