-------------------------- MODULE ProjectionProofs --------------------------
(***************************************************************************)
(* For every set of boards, entities and readers and for every bound: while *)
(* the metric is registered, Redis never presents a mixture of versions    *)
(* (ProjectionExact), every ranking request is linearizable, and PostgreSQL *)
(* with its Redis copy implements RankingService, which has one copy only. *)
(*                                                                         *)
(* First the types, then the two scripts, evictions and failovers, which   *)
(* keep a copy exact as long as the calls in flight follow the durable     *)
(* history, then the requests that read it.                                *)
(***************************************************************************)
EXTENDS Projection, FiniteSetTheorems, TLAPS

\* Only a maintenance rebuild has no board, and it answers nothing.
BoardInv ==
    \A r \in Readers :
        pc[r] \notin {"idle", "xepoch", "xrows", "xlist", "xpublish", "done"}
            => board[r] \in Boards
TypeInv == TypeOK /\ BoardInv

-----------------------------------------------------------------------------
(* Boards and members. *)

LEMMA ValuesType == Values \subseteq Int /\ None \notin Values
BY NoneAssumption, BoundsAssumption DEF Values

\* Members pairs each entity that has a score with that score.
LEMMA MembersElement ==
    ASSUME NEW f, NEW x
    PROVE  x \in Members(f) <=> \E e \in Entities : f[e] # None /\ x = <<e, f[e]>>
BY Zenon DEF Members

\* The sets Redis holds are finite, so their sizes are numbers and a size of
\* zero means that nothing is left.
LEMMA FiniteMembers ==
    ASSUME NEW S \in SUBSET (Entities \X Values)
    PROVE  /\ IsFiniteSet(S) /\ Cardinality(S) \in Nat
           /\ Cardinality(S) = 0 <=> S = {}
<1>1. IsFiniteSet(Values)
  BY BoundsAssumption, FS_Interval DEF Values
<1>2. IsFiniteSet(Entities \X Values)
  BY <1>1, EntitiesAssumption, FS_Product, Zenon
<1>3. IsFiniteSet(S)
  BY <1>2, FS_Subset, Zenon
<1> QED
  BY <1>3, FS_CardinalityType, FS_EmptySet, Zenon

LEMMA FiniteFields ==
    ASSUME NEW f \in Board
    PROVE  /\ HLen(f) \in Nat
           /\ HLen(f) = 0 <=> f = EmptyBoard
<1> DEFINE S == {x \in Entities : f[x] # None}
<1>1. IsFiniteSet(S)
  BY EntitiesAssumption, FS_Subset, Zenon
<1>2. Cardinality(S) \in Nat /\ (Cardinality(S) = 0 <=> S = {})
  BY <1>1, FS_CardinalityType, FS_EmptySet, Zenon
<1>3. S = {} <=> f = EmptyBoard
  BY Zenon DEF Board, EmptyBoard
<1> QED
  BY <1>2, <1>3, Zenon DEF HLen

LEMMA MembersType ==
    ASSUME NEW f \in Board
    PROVE  /\ Members(f) \in SUBSET (Entities \X Values)
           /\ Cardinality(Members(f)) \in Nat
           /\ f = EmptyBoard <=> Members(f) = {}
<1>1. Members(f) \in SUBSET (Entities \X Values)
  BY DEF Members, Board
<1>2. f = EmptyBoard <=> Members(f) = {}
  BY Zenon DEF Members, EmptyBoard, Board
<1> QED
  BY <1>1, <1>2, FiniteMembers, Zenon

LEMMA ChangeListType ==
    ASSUME NEW changes \in ChangeLists
    PROVE  /\ DOMAIN changes \subseteq Key
           /\ \A k \in DOMAIN changes : changes[k] \in Change
BY Zenon DEF ChangeLists

\* The change list turns the board f into g.
Updates(f, g, b, changes) ==
    \A e \in Entities :
        /\ <<b, e>> \in DOMAIN changes => changes[<<b, e>>].old = f[e]
        /\ g[e] = IF <<b, e>> \in DOMAIN changes
                  THEN changes[<<b, e>>].new ELSE f[e]

\* What ZREM and ZADD of a change list do to the members of a board is what the
\* change does to the board.
LEMMA MembersUpdate ==
    ASSUME NEW f \in Board, NEW g \in Board, NEW b \in Boards,
           NEW changes \in ChangeLists, Updates(f, g, b, changes)
    PROVE  Members(g) = (Members(f) \ OldMembers(changes, b))
                            \cup NewMembers(changes, b)
<1> USE DEF Updates
<1>1. \A k \in DOMAIN changes : /\ k[1] \in Boards /\ k[2] \in Entities
                                /\ k = <<k[1], k[2]>>
  BY ChangeListType DEF Key
<1>2. ASSUME NEW e \in Entities, NEW v
      PROVE  <<e, v>> \in OldMembers(changes, b)
                <=> <<b, e>> \in DOMAIN changes /\ f[e] # None /\ v = f[e]
  BY <1>1 DEF OldMembers
<1>3. ASSUME NEW e \in Entities, NEW v
      PROVE  <<e, v>> \in NewMembers(changes, b)
                <=> <<b, e>> \in DOMAIN changes /\ g[e] # None /\ v = g[e]
  BY <1>1 DEF NewMembers
<1>4. NewMembers(changes, b) \subseteq {<<e, g[e]>> : e \in Entities}
  BY <1>1 DEF NewMembers
<1>5. ASSUME NEW e \in Entities, NEW v
      PROVE  <<e, v>> \in Members(g) <=>
                \/ <<e, v>> \in Members(f) /\ <<e, v>> \notin OldMembers(changes, b)
                \/ <<e, v>> \in NewMembers(changes, b)
  <2>1. <<e, v>> \in Members(g) <=> g[e] # None /\ v = g[e]
    BY Zenon DEF Members
  <2>2. <<e, v>> \in Members(f) <=> f[e] # None /\ v = f[e]
    BY Zenon DEF Members
  <2> QED
    BY <1>2, <1>3, <2>1, <2>2, Zenon
<1>6. Members(g) \subseteq {<<e, g[e]>> : e \in Entities}
  BY Zenon DEF Members
<1>7. Members(f) \subseteq {<<e, f[e]>> : e \in Entities}
  BY Zenon DEF Members
<1>8. ASSUME NEW x PROVE x \in Members(g) <=>
        x \in (Members(f) \ OldMembers(changes, b)) \cup NewMembers(changes, b)
  <2>1. CASE \E e \in Entities : \E v : x = <<e, v>>
    BY <2>1, <1>5, Zenon
  <2>2. CASE ~ \E e \in Entities : \E v : x = <<e, v>>
    BY <2>2, <1>4, <1>6, <1>7
  <2> QED
    BY <2>1, <2>2, Zenon
<1> QED
  BY <1>8, Zenon

-----------------------------------------------------------------------------
(* Types. *)

LEMMA EmptyType ==
    /\ EmptyBoard \in Board
    /\ NoAnswer \in Answers
    /\ EmptyRedis \in Redis
BY Zenon DEF EmptyBoard, Board, NoAnswer, Answers, EmptyRedis, Redis

LEMMA ApplyType ==
    ASSUME NEW R \in Redis, NEW m \in Apply
    PROVE  ApplyProjection(R, m) \in Redis
<1>1. m.prev \in Nat /\ m.changes \in ChangeLists
  BY Zenon DEF Apply
<1>2. /\ DOMAIN m.changes \subseteq Key
      /\ \A k \in DOMAIN m.changes : m.changes[k] \in Change
  BY <1>1, ChangeListType, Zenon
<1> DEFINE z == [b \in Boards |->
                   (R.z[b] \ OldMembers(m.changes, b)) \cup NewMembers(m.changes, b)]
           h == [b \in Boards |-> [e \in Entities |->
                   IF <<b, e>> \in DOMAIN m.changes
                   THEN m.changes[<<b, e>>].new ELSE R.h[b][e]]]
           count == [b \in Boards |->
                   IF b \in Touched(m.changes)
                   THEN Cardinality(z[b]) ELSE R.count[b]]
<1>3. ASSUME NEW b \in Boards PROVE z[b] \in SUBSET (Entities \X Values)
  <2>1. NewMembers(m.changes, b) \in SUBSET (Entities \X Values)
    BY <1>2 DEF NewMembers, Key, Change
  <2>2. R.z[b] \in SUBSET (Entities \X Values)
    BY Zenon DEF Redis
  <2> QED BY <2>1, <2>2
<1>4. ASSUME NEW b \in Boards PROVE count[b] \in Nat \cup {None}
  <2>1. Cardinality(z[b]) \in Nat
    BY <1>3, FiniteMembers, Zenon
  <2> QED BY <2>1 DEF Redis
<1>5. ASSUME NEW b \in Boards PROVE h[b] \in Board
  BY <1>2, Zenon DEF Redis, Board, Change
<1>6. /\ z \in [Boards -> SUBSET (Entities \X Values)]
      /\ count \in [Boards -> Nat \cup {None}]
      /\ h \in [Boards -> Board]
  BY <1>3, <1>4, <1>5, Zenon
<1> HIDE DEF z, h, count
<1>7. [R EXCEPT !.z = z, !.h = h, !.count = count, !.mversion = m.prev + 1] \in Redis
  <2>1. m.prev + 1 \in Nat \cup {None}
    BY <1>1
  <2> QED BY <2>1, <1>6 DEF Redis
<1>8. [R EXCEPT !.mversion = None] \in Redis
  BY Zenon DEF Redis
<1> QED
  BY <1>7, <1>8, Zenon DEF ApplyProjection, ApplyChanges, z, h, count

LEMMA PublishType ==
    ASSUME NEW R \in Redis, NEW m \in Publish
    PROVE  PublishProjection(R, m) \in Redis
<1>1. /\ m.epoch \in Nat \cup {None} /\ m.version \in Nat
      /\ m.snap \in [Boards -> Board] /\ m.listed \in SUBSET Boards
  BY Zenon DEF Publish
<1>2. \A b \in Boards : /\ Members(m.snap[b]) \in SUBSET (Entities \X Values)
                        /\ Cardinality(Members(m.snap[b])) \in Nat
  BY <1>1, MembersType, Zenon
<1> DEFINE staged(b) == m.snap[b] # EmptyBoard
           z == [b \in Boards |-> IF staged(b) THEN Members(m.snap[b])
                                  ELSE IF b \in m.listed THEN {} ELSE R.z[b]]
           h == [b \in Boards |-> IF staged(b) THEN m.snap[b]
                                  ELSE IF b \in m.listed THEN EmptyBoard ELSE R.h[b]]
           count == [b \in Boards |-> IF staged(b)
                                  THEN Cardinality(Members(m.snap[b])) ELSE None]
<1>3. /\ z \in [Boards -> SUBSET (Entities \X Values)]
      /\ count \in [Boards -> Nat \cup {None}]
  BY <1>2, Zenon DEF Redis
<1>4. h \in [Boards -> Board]
  BY <1>1, EmptyType, Zenon DEF Redis
<1>5. [R EXCEPT !.z = z, !.h = h, !.count = count,
                !.mepoch = m.epoch, !.mversion = m.version] \in Redis
  BY <1>1, <1>3, <1>4, Zenon DEF Redis
<1> QED
  BY <1>5, Zenon DEF PublishProjection

LEMMA InitType == Init => TypeInv
<1> SUFFICES ASSUME Init PROVE TypeInv
  BY Zenon
<1>1. scores \in [Boards -> Board]
  BY EmptyType, Zenon DEF Init
<1>2. TypeOK
  BY <1>1, EmptyType, RegisteredAssumption, Zenon
     DEF Init, TypeOK, Phases
<1> QED
  BY <1>2, Zenon DEF TypeInv, BoardInv, Init

\* What a commit does to the tables and hands to the projection.
LEMMA CommitType ==
    ASSUME TypeInv, NEW keys \in SUBSET Key, NEW new, NEW creates \in BOOLEAN,
           \A k \in keys : new[k] \in Values \cup {None},
           Commit(keys, new, creates)
    PROVE  TypeInv'
<1> USE DEF Commit
<1>1. scores' \in [Boards -> Board]
  BY ZenonT(30) DEF TypeInv, TypeOK, Board
<1>2. hist' \in [0..commits' -> [Boards -> Board]]
  BY <1>1 DEF TypeInv, TypeOK
<1>3. deferred' \subseteq Deferred
  <2> DEFINE changes == [k \in keys |-> [old |-> scores[k[1]][k[2]], new |-> new[k]]]
  <2>1. \A k \in keys : scores[k[1]][k[2]] \in Values \cup {None}
    BY DEF Key, TypeInv, TypeOK, Board
  <2>2. changes \in [keys -> Change]
    BY <2>1, Zenon DEF Change
  <2>3. changes \in ChangeLists
    BY <2>2, ZenonT(30) DEF ChangeLists
  <2> HIDE DEF changes
  <2>4. [prev |-> version, changes |-> changes] \in Deferred
    BY <2>3, Zenon DEF Deferred, TypeInv, TypeOK
  <2> QED
    BY <2>4, Zenon DEF changes, TypeInv, TypeOK
<1>4. row' \in BOOLEAN /\ version' \in Nat /\ commits' \in Nat
  BY DEF TypeInv, TypeOK
<1>5. TypeOK'
  BY <1>1, <1>2, <1>3, <1>4, Zenon
     DEF TypeInv, TypeOK, cacheVars, readerVars
<1> QED
  BY <1>5, Zenon DEF TypeInv, BoardInv, readerVars

LEMMA EpochType ==
    ASSUME TypeInv, ReadEpoch
    PROVE  Epoch \in Nat /\ redis' \in Redis /\ epochs' \in Nat
<1>1. Epoch \in Nat /\ epochs' \in Nat
  BY DEF TypeInv, TypeOK, Epoch, ReadEpoch, Redis
<1> QED
  BY <1>1, Zenon DEF TypeInv, TypeOK, ReadEpoch, Redis

\* Every mutation is a commit of well-formed new values.
LEMMA MutateCommits ==
    ASSUME TypeInv, Mutate
    PROVE  \E keys \in SUBSET Key : \E new, creates :
              /\ creates \in BOOLEAN
              /\ \A k \in keys : new[k] \in Values \cup {None}
              /\ Commit(keys, new, creates)
<1>1. CASE Write
  BY <1>1, Zenon DEF Write
<1>2. CASE SetScore
  BY <1>2, Zenon DEF SetScore
<1>3. CASE Delete
  BY <1>3, Zenon DEF Delete
<1> QED
  BY <1>1, <1>2, <1>3, Zenon DEF Mutate

LEMMA StepType == TypeInv /\ [Next]_vars => TypeInv'
<1> SUFFICES ASSUME TypeInv, [Next]_vars PROVE TypeInv'
  BY Zenon
<1> USE DEF TypeInv, TypeOK
<1>1. CASE Mutate
  BY <1>1, MutateCommits, CommitType, ZenonT(30)
<1>2. CASE Project
  <2> PICK d \in deferred :
        /\ ReadEpoch
        /\ deferred' = deferred \ {d}
        /\ Send([type |-> "apply", epoch |-> Epoch,
                 prev |-> d.prev, changes |-> d.changes])
        /\ UNCHANGED <<durable, standby, faults, readerVars>>
    BY <1>2, Zenon DEF Project
  <2>1. [type |-> "apply", epoch |-> Epoch, prev |-> d.prev, changes |-> d.changes]
            \in Apply
    BY EpochType, Zenon DEF Deferred, Apply
  <2>2. net' \subseteq Apply \cup Publish
    BY <2>1, Zenon DEF Send
  <2> QED
    BY <2>2, EpochType, Zenon DEF durable, readerVars, BoardInv
<1>3. CASE DeliverApply
  <2> PICK m \in net : m.type = "apply" /\ redis' = ApplyProjection(redis, m)
    BY <1>3, Zenon DEF DeliverApply
  <2>1. m \in Apply
    BY Zenon DEF Publish
  <2>2. redis' \in Redis
    BY <2>1, ApplyType, Zenon
  <2> QED
    BY <1>3, <2>2, Zenon DEF DeliverApply, durable, readerVars, BoardInv
<1>4. CASE DeliverPublish
  <2> PICK m \in net : /\ m.type = "publish" /\ redis' = PublishProjection(redis, m)
                       /\ net' = IF NothingStaged(m) THEN net ELSE net \ {m}
    BY <1>4, Zenon DEF DeliverPublish
  <2>1. m \in Publish
    BY Zenon DEF Apply
  <2>2. redis' \in Redis
    BY <2>1, PublishType, Zenon
  <2>3. net' \subseteq Apply \cup Publish
    BY Zenon
  <2> QED
    BY <1>4, <2>2, <2>3, Zenon DEF DeliverPublish, durable, readerVars, BoardInv
<1>5. CASE Lose
  BY <1>5, Zenon DEF Lose, durable, cacheVars, readerVars, BoardInv
<1>6. CASE Evict
  <2>1. redis' \in Redis
    <3>1. \A b \in Boards : [redis EXCEPT !.z[b] = {}] \in Redis
      BY Zenon DEF Redis
    <3>2. \A b \in Boards : [redis EXCEPT !.h[b] = EmptyBoard] \in Redis
      BY EmptyType, Zenon DEF Redis
    <3>3. /\ [redis EXCEPT !.mepoch = None, !.mversion = None,
                           !.count = [b \in Boards |-> None]] \in Redis
          /\ [redis EXCEPT !.epoch = None] \in Redis
      BY Zenon DEF Redis
    <3>4. [EmptyRedis EXCEPT !.epoch = redis.epoch] \in Redis
      BY EmptyType, Zenon DEF Redis
    <3> QED
      BY <1>6, <3>1, <3>2, <3>3, <3>4, EmptyType, ZenonT(30) DEF Evict
  <2> QED
    BY <1>6, <2>1 DEF Evict, durable, readerVars, BoardInv
<1>7. CASE CopyToStandby
  BY <1>7 DEF CopyToStandby, durable, readerVars, BoardInv
<1>8. CASE Failover
  <2>1. redis' \in Redis
    BY <1>8, ZenonT(30) DEF Failover, Redis
  <2> QED
    BY <1>8, <2>1, EmptyType DEF Failover, durable, readerVars, BoardInv
<1>9. ASSUME NEW r \in Readers, ReaderStep(r) PROVE TypeInv'
  <2> USE DEF durable, cacheVars, Phases, ExclusivePhases, SharedPhases, BoardInv
  <2>1. CASE Leaderboard(r)
    BY <2>1, SMTT(30) DEF Leaderboard
  <2>2. CASE GroupLeaderboard(r)
    BY <2>2 DEF GroupLeaderboard
  <2>3. CASE Rebuild(r)
    BY <2>3, Zenon DEF Rebuild
  <2>4. CASE GetEpoch(r)
    <3>1. Epoch \in Nat /\ redis' \in Redis /\ epochs' \in Nat
      BY <2>4, EpochType, Zenon DEF GetEpoch
    <3> QED
      BY <2>4, <3>1, ZenonT(30) DEF GetEpoch
  <2>5. CASE CachedBoard(r) \/ CachedBoardLocked(r)
    <3>1. board[r] \in Boards
      BY <2>5, Zenon DEF CachedBoard, CachedBoardLocked
    <3>2. CachedAnswer(redis, board[r]) \in Answers
      BY <3>1, FiniteMembers, ZenonT(30) DEF CachedAnswer, Answers, Redis
    <3>3. \E phase \in {"done", "xlock", "xcount"} :
              pc' = [pc EXCEPT ![r] = phase]
      BY <2>5, Zenon DEF CachedBoard, CachedBoardLocked
    <3>4. res' = res \/ res' = [res EXCEPT ![r] = CachedAnswer(redis, board[r])]
      BY <2>5, Zenon DEF CachedBoard, CachedBoardLocked
    <3>5. res' \in [Readers -> Answers]
      BY <3>2, <3>4, ZenonT(30)
    <3>6. UNCHANGED <<durable, deferred, net, cacheVars, faults, ver, ep, snap,
                      listed, board, since>>
      BY <2>5, Zenon DEF CachedBoard, CachedBoardLocked
    <3> QED
      BY <3>1, <3>3, <3>5, <3>6, Zenon
  <2>6. CASE LockProjectionVersion(r)
    BY <2>6, Zenon DEF LockProjectionVersion
  <2>7. CASE RebuildRows(r)
    BY <2>7, Zenon DEF RebuildRows
  <2>8. CASE RebuildList(r)
    BY <2>8, Zenon DEF RebuildList
  <2>9. CASE RebuildPublish(r)
    <3>1. Publication(r) \in Publish
      BY Zenon DEF Publication, Publish
    <3>2. redis' \in Redis
      BY <2>9, <3>1, PublishType DEF RebuildPublish
    <3>3. net' \subseteq Apply \cup Publish
      BY <2>9, <3>1, Zenon DEF RebuildPublish, Send
    <3>4. \E phase \in {"xread", "xcount"} :
              pc' = [pc EXCEPT ![r] = AfterPublish(r, phase)]
      BY <2>9, Zenon DEF RebuildPublish
    <3> QED
      BY <2>9, <3>2, <3>3, <3>4, ZenonT(30) DEF RebuildPublish, AfterPublish
  <2>10. CASE CacheError(r)
    BY <2>10, Zenon DEF CacheError, AfterPublish
  <2>11. CASE SqlLock(r)
    BY <2>11, Zenon DEF SqlLock
  <2>12. CASE SqlCount(r)
    <3>1. board[r] \in Boards
      BY <2>12, Zenon DEF SqlCount
    <3>2. Cardinality(Members(scores[board[r]])) \in Nat
      BY <3>1, MembersType, Zenon
    <3>3. [NoAnswer EXCEPT !.size = Cardinality(Members(scores[board[r]]))] \in Answers
      BY <3>2, EmptyType, Zenon DEF Answers
    <3> QED
      BY <2>12, <3>1, <3>3, Zenon DEF SqlCount
  <2>13. CASE SqlSelect(r)
    <3>1. board[r] \in Boards
      BY <2>13, Zenon DEF SqlSelect
    <3>2. [size |-> res[r].size, entries |-> Members(scores[board[r]]),
           own |-> scores[board[r]]] \in Answers
      BY <3>1, MembersType, Zenon DEF Answers
    <3> QED
      BY <2>13, <3>1, <3>2, Zenon DEF SqlSelect
  <2>14. CASE Finish(r)
    BY <2>14, EmptyType, Zenon DEF Finish
  <2> QED
    BY <1>9, <2>1, <2>2, <2>3, <2>4, <2>5, <2>6, <2>7, <2>8, <2>9, <2>10,
       <2>11, <2>12, <2>13, <2>14, Zenon DEF ReaderStep
<1>10. CASE UNCHANGED vars
  BY <1>10, Zenon DEF vars, durable, cacheVars, readerVars, BoardInv
<1> QED
  BY <1>1, <1>2, <1>3, <1>4, <1>5, <1>6, <1>7, <1>8, <1>9, <1>10, ZenonT(30)
     DEF Next, RedisStep

\* The state keeps its types in every behaviour, for every set of boards,
\* entities and readers, registered or not.
THEOREM TypeCorrect == Spec => []TypeOK
<1>1. TypeInv => TypeOK
  BY Zenon DEF TypeInv
<1> QED
  BY <1>1, InitType, StepType, PTL DEF Spec
-----------------------------------------------------------------------------
(* The inductive invariant. *)

\* While the row exists every mutation of scores advances the version, so the
\* version numbers the history.
VersionInv == row /\ version = commits /\ hist[commits] = scores

\* A published change list leads from one version of the history to the next.
Follows(prev, changes, n, H) ==
    /\ prev \in 0..n /\ prev + 1 \in 0..n
    /\ \A k \in DOMAIN changes : changes[k].old = H[prev][k[1]][k[2]]
    /\ \A b \in Boards, e \in Entities :
         H[prev + 1][b][e] = IF <<b, e>> \in DOMAIN changes
                             THEN changes[<<b, e>>].new ELSE H[prev][b][e]

CallInv ==
    /\ \A d \in deferred : Follows(d.prev, d.changes, commits, hist)
    /\ \A m \in net : m.type = "apply" => Follows(m.prev, m.changes, commits, hist)
    /\ \A m \in net : m.type = "publish" =>
         m.version \in 0..commits /\ m.snap = hist[m.version]

\* ExactCopy, and the recorded sizes are the sizes of the claimed version: a
\* board that has lost everything passes the size check only if it was empty.
Exact(R, n, H) ==
    R.mversion # None =>
        /\ R.mversion \in 0..n
        /\ \A b \in Boards :
             /\ Expected(R, b) = Cardinality(Members(H[R.mversion][b]))
             /\ Cardinality(R.z[b]) = Expected(R, b)
                    => R.z[b] = Members(H[R.mversion][b])
             /\ HLen(R.h[b]) = Expected(R, b) => R.h[b] = H[R.mversion][b]
CopyInv == Exact(redis, commits, hist) /\ Exact(standby, commits, hist)

\* A reader under the exclusive lock knows the current version and scores; the
\* two SQL statements of a fallback see the same scores.
ReaderInv ==
    \A r \in Readers :
        /\ since[r] \in 0..commits
        /\ ver[r] \in 0..commits
        /\ pc[r] \in {"epoch", "read"} => since[r] <= ver[r]
        /\ pc[r] \in {"xepoch", "xrows", "xlist", "xpublish", "xread"}
              => ver[r] = commits
        /\ pc[r] \in {"xlist", "xpublish"} => snap[r] = scores
        /\ pc[r] \in {"xselect", "sselect"}
              => res[r].size = Cardinality(Members(scores[board[r]]))

IInv ==
    /\ TypeInv /\ VersionInv /\ CallInv /\ CopyInv
    /\ ReaderInv /\ ReadLinearizable

-----------------------------------------------------------------------------
(* The scripts keep a copy exact. *)

LEMMA ApplyExact ==
    ASSUME NEW R \in Redis, NEW m \in Apply,
           NEW n \in Nat, NEW H \in [0..n -> [Boards -> Board]],
           Exact(R, n, H), Follows(m.prev, m.changes, n, H)
    PROVE  Exact(ApplyProjection(R, m), n, H)
<1>1. m.prev \in Nat /\ m.changes \in ChangeLists
  BY Zenon DEF Apply
<1>2. /\ DOMAIN m.changes \subseteq Key
      /\ \A k \in DOMAIN m.changes : m.changes[k] \in Change
  BY <1>1, ChangeListType, Zenon
<1>3. CASE R.mepoch # m.epoch \/ R.mversion # m.prev
  BY <1>3, Zenon DEF ApplyProjection
<1>4. CASE /\ ~(R.mepoch # m.epoch \/ R.mversion # m.prev)
           /\ \E b \in Touched(m.changes) : ~Intact(R, b)
  <2>1. ApplyProjection(R, m) = [R EXCEPT !.mversion = None]
    BY <1>4, Zenon DEF ApplyProjection
  <2> QED
    BY <2>1, Zenon DEF Exact, Redis
<1>5. CASE /\ ~(R.mepoch # m.epoch \/ R.mversion # m.prev)
           /\ \A b \in Touched(m.changes) : Intact(R, b)
  <2> DEFINE Q == ApplyProjection(R, m)
             z(b) == (R.z[b] \ OldMembers(m.changes, b)) \cup NewMembers(m.changes, b)
             h(b) == [e \in Entities |->
                        IF <<b, e>> \in DOMAIN m.changes
                        THEN m.changes[<<b, e>>].new ELSE R.h[b][e]]
             old == H[m.prev]
             new == H[m.prev + 1]
  <2>1. /\ Q.mversion = m.prev + 1
        /\ \A b \in Boards :
             /\ Q.z[b] = z(b)
             /\ Q.h[b] = h(b)
             /\ Q.count[b] = IF b \in Touched(m.changes)
                             THEN Cardinality(z(b)) ELSE R.count[b]
    BY <1>5, Zenon DEF ApplyProjection, ApplyChanges, Redis
  <2>2. R.mversion = m.prev /\ m.prev # None
    BY <1>1, <1>5, NoneAssumption
  <2>3. ASSUME NEW b \in Boards
        PROVE  /\ Expected(Q, b) = Cardinality(Members(new[b]))
               /\ Cardinality(Q.z[b]) = Expected(Q, b) => Q.z[b] = Members(new[b])
               /\ HLen(Q.h[b]) = Expected(Q, b) => Q.h[b] = new[b]
    <3>1. old[b] \in Board /\ new[b] \in Board
      BY ZenonT(30) DEF Follows
    <3>2. \A e \in Entities : new[b][e] = IF <<b, e>> \in DOMAIN m.changes
                               THEN m.changes[<<b, e>>].new ELSE old[b][e]
      BY Zenon DEF Follows
    <3>3. /\ Expected(R, b) = Cardinality(Members(old[b]))
          /\ Cardinality(R.z[b]) = Expected(R, b) => R.z[b] = Members(old[b])
          /\ HLen(R.h[b]) = Expected(R, b) => R.h[b] = old[b]
      BY <2>2, Zenon DEF Exact
    <3>4. CASE b \in Touched(m.changes)
      <4>1. R.z[b] = Members(old[b]) /\ R.h[b] = old[b]
        BY <1>5, <3>3, <3>4, Zenon DEF Intact
      <4>2. Updates(old[b], new[b], b, m.changes)
        BY Zenon DEF Follows, Updates
      <4>3. Members(new[b]) = z(b)
        <5> HIDE DEF old, new
        <5>1. Members(new[b]) = (Members(old[b]) \ OldMembers(m.changes, b))
                                    \cup NewMembers(m.changes, b)
          BY <1>1, <3>1, <4>2, MembersUpdate
        <5> QED BY <4>1, <5>1, SMTT(30)
      <4>4. h(b) = new[b]
        BY <3>1, <3>2, <4>1, Zenon DEF Board
      <4>5. Q.count[b] = Cardinality(Members(new[b])) /\ Q.count[b] # None
        <5> HIDE DEF Q, z, h, old, new
        <5>1. Cardinality(Members(new[b])) \in Nat
          BY <3>1, MembersType, Zenon
        <5> QED BY <2>1, <3>4, <4>3, <5>1, NoneAssumption
      <4> QED
        BY <2>1, <4>3, <4>4, <4>5, Zenon DEF Expected
    <3>5. CASE b \notin Touched(m.changes)
      <4>1. \A e \in Entities : <<b, e>> \notin DOMAIN m.changes
        BY <3>5 DEF Touched
      <4>2. OldMembers(m.changes, b) = {} /\ NewMembers(m.changes, b) = {}
        BY <3>5, Zenon DEF Touched, OldMembers, NewMembers
      <4>3. Q.z[b] = R.z[b] /\ Q.count[b] = R.count[b]
        BY <2>1, <3>5, <4>2, Zenon
      <4>4. Q.h[b] = R.h[b]
        <5>1. R.h[b] \in Board
          BY Zenon DEF Redis
        <5>2. Q.h[b] = [e \in Entities |-> R.h[b][e]]
          <6> HIDE DEF Q
          <6> QED BY <2>1, <4>1
        <5> QED
          <6> HIDE DEF Q
          <6> QED BY <5>1, <5>2 DEF Board
      <4>5. new[b] = old[b]
        <5>1. \A e \in Entities : new[b][e] = old[b][e]
          BY <3>2, <4>1, Zenon
        <5> HIDE DEF old, new
        <5> QED BY <3>1, <5>1 DEF Board
      <4> QED
        BY <3>3, <4>3, <4>4, <4>5, Zenon DEF Expected
    <3> QED
      BY <3>4, <3>5, Zenon
  <2>4. m.prev + 1 \in 0..n
    BY Zenon DEF Follows
  <2> QED
    BY <2>1, <2>3, <2>4, Zenon DEF Exact
<1> QED
  BY <1>3, <1>4, <1>5, Zenon

LEMMA PublishExact ==
    ASSUME NEW R \in Redis, NEW m \in Publish,
           NEW n \in Nat, NEW H \in [0..n -> [Boards -> Board]],
           m.version \in 0..n, m.snap = H[m.version]
    PROVE  Exact(PublishProjection(R, m), n, H)
<1> DEFINE Q == PublishProjection(R, m)
<1>1. /\ Q.mversion = m.version
      /\ \A b \in Boards :
           /\ m.snap[b] # EmptyBoard =>
                /\ Q.z[b] = Members(m.snap[b]) /\ Q.h[b] = m.snap[b]
                /\ Q.count[b] = Cardinality(Members(m.snap[b]))
           /\ m.snap[b] = EmptyBoard => Q.count[b] = None
  BY Zenon DEF PublishProjection, Redis
<1>2. Q \in Redis
  BY PublishType, Zenon
<1>3. ASSUME NEW b \in Boards
      PROVE  /\ Expected(Q, b) = Cardinality(Members(m.snap[b]))
             /\ Cardinality(Q.z[b]) = Expected(Q, b) => Q.z[b] = Members(m.snap[b])
             /\ HLen(Q.h[b]) = Expected(Q, b) => Q.h[b] = m.snap[b]
  <2>1. m.snap[b] \in Board
    BY Zenon DEF Publish
  <2>2. CASE m.snap[b] # EmptyBoard
    <3>1. Cardinality(Members(m.snap[b])) # None
      BY <2>1, MembersType, NoneAssumption
    <3> QED
      BY <1>1, <2>2, <3>1, Zenon DEF Expected
  <2>3. CASE m.snap[b] = EmptyBoard
    <3>1. Expected(Q, b) = 0
      BY <1>1, <2>3, Zenon DEF Expected
    <3>2. Members(m.snap[b]) = {} /\ Cardinality({}) = 0
      BY <2>1, <2>3, MembersType, FS_EmptySet, Zenon
    <3>3. Q.z[b] \in SUBSET (Entities \X Values) /\ Q.h[b] \in Board
      BY <1>2, Zenon DEF Redis
    <3>4. Cardinality(Q.z[b]) = 0 => Q.z[b] = {}
      BY <3>3, FiniteMembers, Zenon
    <3>5. HLen(Q.h[b]) = 0 => Q.h[b] = EmptyBoard
      BY <3>3, FiniteFields, Zenon
    <3> QED
      BY <2>3, <3>1, <3>2, <3>4, <3>5, Zenon
  <2> QED
    BY <2>2, <2>3, Zenon
<1> HIDE DEF Q
<1>4. Exact(Q, n, H)
  BY <1>1, <1>3 DEF Exact
<1> QED
  BY <1>4, Zenon DEF Q

-----------------------------------------------------------------------------
(* The history only grows, and what holds of it keeps holding. *)

Grows(n, H, n2, H2) == n <= n2 /\ \A i \in 0..n : H2[i] = H[i]

LEMMA ExactStable ==
    ASSUME NEW R, NEW n \in Nat, NEW H, NEW n2 \in Nat, NEW H2,
           Grows(n, H, n2, H2), Exact(R, n, H)
    PROVE  Exact(R, n2, H2)
BY DEF Grows, Exact

LEMMA FollowsStable ==
    ASSUME NEW prev, NEW changes, NEW n \in Nat, NEW H, NEW n2 \in Nat, NEW H2,
           Grows(n, H, n2, H2), Follows(prev, changes, n, H)
    PROVE  Follows(prev, changes, n2, H2)
BY SMTT(30) DEF Grows, Follows

\* Only mutations change the tables.
LEMMA OnlyMutate ==
    ASSUME [Next]_vars
    PROVE  \/ Mutate
           \/ UNCHANGED durable
<1>1. ASSUME NEW r \in Readers, ReaderStep(r) PROVE UNCHANGED durable
  BY <1>1, Zenon DEF ReaderStep, Leaderboard, GroupLeaderboard, Rebuild, GetEpoch,
       CachedBoard, LockProjectionVersion, RebuildRows, RebuildList, RebuildPublish,
       CachedBoardLocked, CacheError, SqlLock, SqlCount, SqlSelect, Finish
<1>2. CASE Project
  BY <1>2, Zenon DEF Project
<1>3. CASE RedisStep
  BY <1>3, Zenon DEF RedisStep, DeliverApply, DeliverPublish, Lose, Evict, CopyToStandby,
       Failover
<1>4. CASE UNCHANGED vars
  BY <1>4, Zenon DEF vars
<1> QED
  BY <1>1, <1>2, <1>3, <1>4, Zenon DEF Next

\* A commit appends the new scores to the history, and the change list it hands
\* to the projection leads there.
LEMMA CommitHistory ==
    ASSUME IInv, NEW keys \in SUBSET Key, NEW new, NEW creates \in BOOLEAN,
           Commit(keys, new, creates)
    PROVE  /\ VersionInv'
           /\ Grows(commits, hist, commits', hist')
           /\ \A d \in deferred' \ deferred : Follows(d.prev, d.changes, commits', hist')
<1> USE DEF IInv, TypeInv, TypeOK, VersionInv
<1>1. /\ commits' = commits + 1
      /\ hist' = [i \in 0..(commits + 1) |->
                    IF i = commits + 1 THEN scores' ELSE hist[i]]
      /\ row' /\ version' = commits'
  BY ZenonT(30) DEF Commit
<1>2. hist'[commits'] = scores' /\ \A i \in 0..commits : hist'[i] = hist[i]
  BY <1>1
<1>3. VersionInv'
  BY <1>1, <1>2, Zenon
<1>4. Grows(commits, hist, commits', hist')
  BY <1>1, <1>2, SMTT(30) DEF Grows
<1>5. ASSUME NEW d \in deferred' \ deferred
      PROVE  Follows(d.prev, d.changes, commits', hist')
  <2>1. /\ d.prev = commits
        /\ DOMAIN d.changes = keys
        /\ \A k \in keys : /\ d.changes[k].old = scores[k[1]][k[2]]
                           /\ d.changes[k].new = new[k]
    BY <1>5, SMTT(30) DEF Commit
  <2>2. hist'[commits] = scores /\ hist'[commits + 1] = scores'
    BY <1>1, <1>2
  <2>3. \A b \in Boards, e \in Entities :
            scores'[b][e] = IF <<b, e>> \in keys THEN new[<<b, e>>] ELSE scores[b][e]
    BY Zenon DEF Commit
  <2>4. commits \in 0..commits' /\ commits + 1 \in 0..commits'
    BY <1>1
  <2> QED
    BY <2>1, <2>2, <2>3, <2>4, SMTT(30) DEF Follows
<1> QED
  BY <1>3, <1>4, <1>5, Zenon

LEMMA StepHistory ==
    ASSUME IInv, [Next]_vars
    PROVE  /\ VersionInv'
           /\ Grows(commits, hist, commits', hist')
<1>1. CASE Mutate
  BY <1>1, MutateCommits, CommitHistory, Zenon DEF IInv
<1>2. CASE UNCHANGED durable
  BY <1>2 DEF IInv, TypeInv, TypeOK, VersionInv, Grows, durable
<1> QED
  BY <1>1, <1>2, OnlyMutate, Zenon

-----------------------------------------------------------------------------
(* Calls on their way to Redis. *)

LEMMA StepCalls ==
    ASSUME IInv, [Next]_vars
    PROVE  CallInv'
<1> USE DEF IInv
<1>1. Grows(commits, hist, commits', hist') /\ commits \in Nat /\ commits' \in Nat
  BY StepHistory, StepType, Zenon DEF TypeInv, TypeOK
<1>2. \A d \in deferred : Follows(d.prev, d.changes, commits', hist')
  BY <1>1, FollowsStable, Zenon DEF CallInv
<1>3. \A m \in net : m.type = "apply" => Follows(m.prev, m.changes, commits', hist')
  BY <1>1, FollowsStable, Zenon DEF CallInv
<1>4. \A m \in net : m.type = "publish" =>
         m.version \in 0..commits' /\ m.snap = hist'[m.version]
  BY <1>1 DEF CallInv, Grows
<1>5. CASE Mutate
  <2>1. \A d \in deferred' \ deferred : Follows(d.prev, d.changes, commits', hist')
    BY <1>5, MutateCommits, CommitHistory, Zenon
  <2>2. net' = net
    BY <1>5, MutateCommits, ZenonT(30) DEF Commit
  <2> QED
    BY <1>2, <1>3, <1>4, <2>1, <2>2, Zenon DEF CallInv
<1>6. CASE Project
  <2> PICK d \in deferred :
        /\ deferred' = deferred \ {d}
        /\ net' = net \cup {[type |-> "apply", epoch |-> Epoch,
                             prev |-> d.prev, changes |-> d.changes]}
    BY <1>6, Zenon DEF Project, Send
  <2> QED
    BY <1>2, <1>3, <1>4 DEF CallInv
<1>7. ASSUME NEW r \in Readers, RebuildPublish(r) PROVE CallInv'
  <2>1. deferred' = deferred /\ net' \subseteq net \cup {Publication(r)}
    BY <1>7, ZenonT(30) DEF RebuildPublish, Send
  <2>2. /\ Publication(r).type = "publish"
        /\ Publication(r).version = commits /\ Publication(r).snap = hist[commits]
    BY <1>7, Zenon DEF Publication, RebuildPublish, ReaderInv, VersionInv
  <2>3. commits \in 0..commits' /\ hist'[commits] = hist[commits]
    BY <1>1 DEF Grows
  <2> QED
    BY <1>2, <1>3, <1>4, <2>1, <2>2, <2>3, Zenon DEF CallInv
<1>8. CASE deferred' \subseteq deferred /\ net' \subseteq net
  BY <1>2, <1>3, <1>4, <1>8, Zenon DEF CallInv
<1>9. CASE RedisStep
  BY <1>8, <1>9, Zenon DEF RedisStep, DeliverApply, DeliverPublish, Lose, Evict,
       CopyToStandby, Failover
<1>10. ASSUME NEW r \in Readers, ReaderStep(r) PROVE CallInv'
  BY <1>7, <1>8, <1>10, Zenon DEF ReaderStep, Leaderboard, GroupLeaderboard, Rebuild, GetEpoch,
       CachedBoard, LockProjectionVersion, RebuildRows, RebuildList,
       CachedBoardLocked, CacheError, SqlLock, SqlCount, SqlSelect, Finish
<1>11. CASE UNCHANGED vars
  BY <1>8, <1>11, Zenon DEF vars
<1> QED
  BY <1>5, <1>6, <1>9, <1>10, <1>11, Zenon DEF Next

-----------------------------------------------------------------------------
(* The master and its replica. *)

\* Changing the epoch token alone does not change what a copy claims.
LEMMA EpochKeepsExact ==
    ASSUME NEW R \in Redis, NEW t, NEW n, NEW H, Exact(R, n, H)
    PROVE  Exact([R EXCEPT !.epoch = t], n, H)
BY Zenon DEF Exact, Expected, Redis

\* A lost key makes the size check fail unless the board was empty.
LEMMA EvictExact ==
    ASSUME NEW R \in Redis, NEW b \in Boards, NEW n \in Nat,
           NEW H \in [0..n -> [Boards -> Board]], Exact(R, n, H)
    PROVE  /\ Exact([R EXCEPT !.z[b] = {}], n, H)
           /\ Exact([R EXCEPT !.h[b] = EmptyBoard], n, H)
<1>1. Cardinality({}) = 0 /\ HLen(EmptyBoard) = 0
  BY EmptyType, FiniteFields, FS_EmptySet, Zenon
<1>2. CASE R.mversion = None
  BY <1>2, Zenon DEF Exact, Redis
<1>3. CASE R.mversion # None
  <2> DEFINE f == H[R.mversion][b]
             Z == [R EXCEPT !.z[b] = {}]
             G == [R EXCEPT !.h[b] = EmptyBoard]
  <2>1. f \in Board
    BY <1>3, Zenon DEF Exact
  <2>2. Expected(R, b) = Cardinality(Members(f))
    BY <1>3, Zenon DEF Exact
  <2>3. Expected(R, b) = 0 => Members(f) = {} /\ f = EmptyBoard
    BY <2>1, <2>2, MembersType, FiniteMembers, Zenon
  <2>4. /\ Z.mversion = R.mversion /\ Z.h = R.h /\ Z.count = R.count
        /\ \A c \in Boards : Z.z[c] = IF c = b THEN {} ELSE R.z[c]
        /\ G.mversion = R.mversion /\ G.z = R.z /\ G.count = R.count
        /\ \A c \in Boards : G.h[c] = IF c = b THEN EmptyBoard ELSE R.h[c]
    BY Zenon DEF Redis
  <2>5. \A c \in Boards : Expected(Z, c) = Expected(R, c) /\ Expected(G, c) = Expected(R, c)
    BY <2>4 DEF Expected
  <2> HIDE DEF Z, G
  <2>6. Exact(Z, n, H)
    BY <1>1, <1>3, <2>3, <2>4, <2>5, ZenonT(30) DEF Exact
  <2>7. Exact(G, n, H)
    BY <1>1, <1>3, <2>3, <2>4, <2>5, ZenonT(30) DEF Exact
  <2> QED
    BY <2>6, <2>7, Zenon DEF Z, G
<1> QED
  BY <1>2, <1>3, Zenon

LEMMA EmptyExact ==
    ASSUME NEW n, NEW H
    PROVE  Exact(EmptyRedis, n, H)
BY Zenon DEF Exact, EmptyRedis

LEMMA StepCopies ==
    ASSUME IInv, [Next]_vars
    PROVE  CopyInv'
<1> USE DEF IInv
<1>1. /\ Grows(commits, hist, commits', hist') /\ commits \in Nat /\ commits' \in Nat
      /\ hist \in [0..commits -> [Boards -> Board]]
      /\ redis \in Redis /\ standby \in Redis
  BY StepHistory, StepType, Zenon DEF TypeInv, TypeOK
<1>2. Exact(redis, commits', hist') /\ Exact(standby, commits', hist')
  BY <1>1, ExactStable, Zenon DEF CopyInv
<1>3. ASSUME Exact(redis', commits, hist), Exact(standby', commits, hist)
      PROVE  CopyInv'
  BY <1>1, <1>3, ExactStable, Zenon DEF CopyInv
<1>4. CASE redis' = redis /\ standby' = standby
  BY <1>2, <1>4, Zenon DEF CopyInv
<1>5. CASE ReadEpoch /\ standby' = standby
  BY <1>1, <1>3, <1>5, EpochKeepsExact, ZenonT(30) DEF ReadEpoch, CopyInv
<1>6. CASE Mutate
  BY <1>4, <1>6, MutateCommits, Zenon DEF Commit, cacheVars
<1>7. CASE Project
  BY <1>5, <1>7, Zenon DEF Project
<1>8. CASE DeliverApply
  <2> PICK m \in net : /\ m.type = "apply" /\ redis' = ApplyProjection(redis, m)
                       /\ standby' = standby
    BY <1>8, Zenon DEF DeliverApply
  <2>1. m \in Apply
    BY Zenon DEF Publish, TypeInv, TypeOK
  <2>2. Follows(m.prev, m.changes, commits, hist)
    BY Zenon DEF CallInv
  <2>3. Exact(ApplyProjection(redis, m), commits, hist)
    BY <1>1, <2>1, <2>2, ApplyExact, Zenon DEF CopyInv
  <2> QED
    BY <1>3, <2>3, Zenon DEF CopyInv
<1>9. CASE DeliverPublish
  <2> PICK m \in net : /\ m.type = "publish" /\ redis' = PublishProjection(redis, m)
                       /\ standby' = standby
    BY <1>9, Zenon DEF DeliverPublish
  <2>1. m \in Publish
    BY Zenon DEF Apply, TypeInv, TypeOK
  <2>2. m.version \in 0..commits /\ m.snap = hist[m.version]
    BY Zenon DEF CallInv
  <2>3. Exact(PublishProjection(redis, m), commits, hist)
    BY <1>1, <2>1, <2>2, PublishExact, Zenon
  <2> QED
    BY <1>3, <2>3, Zenon DEF CopyInv
<1>10. ASSUME NEW r \in Readers, RebuildPublish(r) PROVE CopyInv'
  <2>1. /\ Publication(r) \in Publish
        /\ Publication(r).version = commits /\ Publication(r).snap = hist[commits]
    BY <1>10, Zenon DEF Publication, Publish, RebuildPublish, ReaderInv, VersionInv,
         TypeInv, TypeOK
  <2> HIDE DEF Publication
  <2>2. Exact(PublishProjection(redis, Publication(r)), commits, hist)
    <3>1. commits \in 0..commits
      BY <1>1
    <3> QED
      BY <1>1, <2>1, <3>1, PublishExact, Zenon
  <2>3. /\ redis' = redis \/ redis' = PublishProjection(redis, Publication(r))
        /\ standby' = standby
    BY <1>10, Zenon DEF RebuildPublish
  <2> QED
    BY <1>3, <2>2, <2>3, Zenon DEF CopyInv
<1>11. CASE Evict
  <2> DEFINE M == [redis EXCEPT !.mepoch = None, !.mversion = None,
                                !.count = [b \in Boards |-> None]]
  <2>1. Exact(M, commits, hist)
    BY <1>1, Zenon DEF Exact, Redis
  <2>2. Exact(redis', commits, hist)
    <3> HIDE DEF M
    <3>1. CASE \E b \in Boards : \/ redis' = [redis EXCEPT !.z[b] = {}]
                                 \/ redis' = [redis EXCEPT !.h[b] = EmptyBoard]
      <4> PICK b \in Boards : \/ redis' = [redis EXCEPT !.z[b] = {}]
                              \/ redis' = [redis EXCEPT !.h[b] = EmptyBoard]
        BY <3>1, Zenon
      <4>1. /\ Exact([redis EXCEPT !.z[b] = {}], commits, hist)
            /\ Exact([redis EXCEPT !.h[b] = EmptyBoard], commits, hist)
        BY <1>1, EvictExact, Zenon DEF CopyInv
      <4> QED BY <4>1, SMTT(30)
    <3>2. CASE redis' = M
      BY <2>1, <3>2, Zenon
    <3>3. CASE redis' = [redis EXCEPT !.epoch = None]
      BY <1>1, <3>3, EpochKeepsExact, Zenon DEF CopyInv
    <3>4. CASE redis' = EmptyRedis
      BY <3>4, EmptyExact, Zenon
    <3>6. CASE redis' = [EmptyRedis EXCEPT !.epoch = redis.epoch]
      BY <3>6, EmptyType, EmptyExact, EpochKeepsExact, Zenon
    <3>5. \/ \E b \in Boards : \/ redis' = [redis EXCEPT !.z[b] = {}]
                               \/ redis' = [redis EXCEPT !.h[b] = EmptyBoard]
          \/ redis' = M
          \/ redis' = [redis EXCEPT !.epoch = None]
          \/ redis' = EmptyRedis
          \/ redis' = [EmptyRedis EXCEPT !.epoch = redis.epoch]
      BY <1>11, Zenon DEF Evict, M
    <3> QED
      BY <3>1, <3>2, <3>3, <3>4, <3>5, <3>6, ZenonT(30)
  <2> QED
    BY <1>3, <1>11, <2>2, Zenon DEF Evict, CopyInv
<1>12. CASE CopyToStandby
  BY <1>3, <1>12, Zenon DEF CopyToStandby, CopyInv
<1>13. CASE Failover
  <2> PICK t : redis' = [standby EXCEPT !.epoch = t] /\ standby' = EmptyRedis
    BY <1>13, ZenonT(30) DEF Failover
  <2> QED
    BY <1>1, <1>3, EpochKeepsExact, EmptyExact, Zenon DEF CopyInv
<1>14. CASE Lose
  BY <1>4, <1>14, Zenon DEF Lose, cacheVars
<1>15. ASSUME NEW r \in Readers, ReaderStep(r) PROVE CopyInv'
  BY <1>4, <1>5, <1>10, <1>15, ZenonT(30) DEF ReaderStep, Leaderboard, GroupLeaderboard, Rebuild,
       GetEpoch, CachedBoard, LockProjectionVersion, RebuildRows, RebuildList,
       CachedBoardLocked, CacheError, SqlLock, SqlCount, SqlSelect, Finish, cacheVars
<1>16. CASE UNCHANGED vars
  BY <1>4, <1>16, Zenon DEF vars, cacheVars
<1> QED
  BY <1>6, <1>7, <1>8, <1>9, <1>11, <1>12, <1>13, <1>14, <1>15, <1>16, ZenonT(30)
     DEF Next, RedisStep
-----------------------------------------------------------------------------
(* Ranking requests. *)

\* What ReaderInv and ReadLinearizable say of one request.
Knows(r) ==
    /\ since[r] \in 0..commits
    /\ ver[r] \in 0..commits
    /\ pc[r] \in {"epoch", "read"} => since[r] <= ver[r]
    /\ pc[r] \in {"xepoch", "xrows", "xlist", "xpublish", "xread"} => ver[r] = commits
    /\ pc[r] \in {"xlist", "xpublish"} => snap[r] = scores
    /\ pc[r] \in {"xselect", "sselect"}
          => res[r].size = Cardinality(Members(scores[board[r]]))
Linear(r) ==
    pc[r] = "done" /\ board[r] # None =>
        \E i \in since[r]..commits : res[r] = Answer(hist[i][board[r]])

LEMMA KnowsAll ==
    /\ ReaderInv <=> \A r \in Readers : Knows(r)
    /\ ReadLinearizable <=> \A r \in Readers : Linear(r)
BY Zenon DEF ReaderInv, ReadLinearizable, Knows, Linear

\* A copy that passes readProjection's checks is the answer of its version.
LEMMA CachedIsExact ==
    ASSUME NEW R \in Redis, NEW b \in Boards, NEW epoch, NEW v \in Nat,
           NEW n \in Nat, NEW H, Exact(R, n, H), Readable(R, b, epoch, v)
    PROVE  v \in 0..n /\ CachedAnswer(R, b) = Answer(H[v][b])
<1>1. R.mversion = v /\ R.mversion # None
  BY NoneAssumption DEF Readable
<1>2. R.z[b] = Members(H[v][b]) /\ R.h[b] = H[v][b] /\ v \in 0..n
  BY <1>1, Zenon DEF Exact, Readable, Intact
<1> QED
  BY <1>2, Zenon DEF CachedAnswer, Answer

\* A commit disturbs no request: those that rely on the current scores hold the
\* lock, which the commit needs.
LEMMA CommitReaders ==
    ASSUME IInv, NEW keys \in SUBSET Key, NEW new, NEW creates \in BOOLEAN,
           Commit(keys, new, creates), NEW r \in Readers
    PROVE  Knows(r)' /\ Linear(r)'
<1>1. Knows(r) /\ Linear(r)
  BY KnowsAll, Zenon DEF IInv
<1>2. Grows(commits, hist, commits', hist') /\ commits \in Nat /\ commits' = commits + 1
  BY CommitHistory, Zenon DEF Commit, IInv, TypeInv, TypeOK
<1>3. UNCHANGED readerVars /\ pc[r] \notin ExclusivePhases \cup SharedPhases
  BY ZenonT(30) DEF Commit, LockFree
<1>4. Knows(r)'
  BY <1>1, <1>2, <1>3, SMTT(30) DEF Knows, readerVars, ExclusivePhases, SharedPhases
<1>5. Linear(r)'
  <2>1. \A i \in since[r]..commits :
            i \in since[r]..commits' /\ hist'[i] = hist[i]
    BY <1>1, <1>2 DEF Grows, Knows
  <2> QED
    BY <1>1, <1>3, <2>1, ZenonT(30) DEF Linear, readerVars
<1> QED
  BY <1>4, <1>5, Zenon

\* A step that leaves the tables and this request alone.
LEMMA OthersUndisturbed ==
    ASSUME NEW r, Knows(r), Linear(r), UNCHANGED durable,
           pc'[r] = pc[r], ver'[r] = ver[r], snap'[r] = snap[r],
           board'[r] = board[r], since'[r] = since[r], res'[r] = res[r]
    PROVE  Knows(r)' /\ Linear(r)'
BY Zenon DEF Knows, Linear, durable

\* The steps of a request itself.
LEMMA OwnStep ==
    ASSUME IInv, NEW r \in Readers, ReaderStep(r), UNCHANGED durable
    PROVE  Knows(r)' /\ Linear(r)'
<1> USE DEF durable
<1>1. /\ Knows(r) /\ Linear(r)
      /\ pc \in [Readers -> Phases] /\ ver \in [Readers -> Nat]
      /\ snap \in [Readers -> [Boards -> Board]]
      /\ board \in [Readers -> Boards \cup {None}]
      /\ since \in [Readers -> Nat] /\ res \in [Readers -> Answers]
      /\ commits \in Nat /\ version = commits /\ hist[commits] = scores
      /\ redis \in Redis /\ Exact(redis, commits, hist)
  BY KnowsAll, ZenonT(30) DEF IInv, TypeInv, TypeOK, VersionInv, CopyInv
<1>2. CASE Leaderboard(r)
  BY <1>1, <1>2, SMTT(30) DEF Leaderboard, Knows, Linear
<1>3. CASE GroupLeaderboard(r)
  BY <1>1, <1>3, SMTT(30) DEF GroupLeaderboard, Knows, Linear
<1>4. CASE Rebuild(r)
  BY <1>1, <1>4 DEF Rebuild, Knows, Linear
<1>5. CASE GetEpoch(r)
  BY <1>1, <1>5, Zenon DEF GetEpoch, Knows, Linear
<1>6. CASE CachedBoard(r) \/ CachedBoardLocked(r)
  <2>1. pc[r] \in {"read", "xread"} /\ board[r] \in Boards
    BY <1>6, ZenonT(30) DEF CachedBoard, CachedBoardLocked, IInv, TypeInv, BoardInv
  <2>2. ver[r] \in since[r]..commits
    BY <1>1, <2>1 DEF Knows
  <2>3. UNCHANGED <<ver, snap, board, since>>
    BY <1>6, Zenon DEF CachedBoard, CachedBoardLocked
  <2>4. CASE Readable(redis, board[r], ep[r], ver[r])
    <3>1. CachedAnswer(redis, board[r]) = Answer(hist[ver[r]][board[r]])
      BY <1>1, <2>1, <2>4, CachedIsExact, SMTT(30)
    <3>2. pc'[r] = "done" /\ res'[r] = CachedAnswer(redis, board[r])
      BY <1>1, <1>6, <2>4, ZenonT(30) DEF CachedBoard, CachedBoardLocked
    <3> QED
      BY <1>1, <2>2, <2>3, <3>1, <3>2, ZenonT(30) DEF Knows, Linear
  <2>5. CASE ~Readable(redis, board[r], ep[r], ver[r])
    <3>1. pc'[r] \in {"xlock", "xcount"}
      BY <1>1, <1>6, <2>5, ZenonT(30) DEF CachedBoard, CachedBoardLocked
    <3> QED
      BY <1>1, <2>3, <3>1, Zenon DEF Knows, Linear
  <2> QED
    BY <2>4, <2>5, Zenon
<1>7. CASE LockProjectionVersion(r)
  BY <1>1, <1>7 DEF LockProjectionVersion, Knows, Linear
<1>8. CASE RebuildRows(r)
  BY <1>1, <1>8, Zenon DEF RebuildRows, Knows, Linear
<1>9. CASE RebuildList(r)
  BY <1>1, <1>9, Zenon DEF RebuildList, Knows, Linear
<1>10. CASE RebuildPublish(r)
  <2>1. \/ pc'[r] = "done" /\ board[r] = None
        \/ pc'[r] \in {"xread", "xcount"}
    BY <1>1, <1>10, Zenon DEF RebuildPublish, AfterPublish
  <2>2. pc[r] = "xpublish" /\ UNCHANGED <<ver, snap, board, since, res>>
    BY <1>10, Zenon DEF RebuildPublish
  <2> QED
    BY <1>1, <2>1, <2>2, Zenon DEF Knows, Linear
<1>11. CASE CacheError(r)
  <2>1. \/ pc'[r] = "done" /\ board[r] = None
        \/ pc'[r] \in {"slock", "xcount"}
    BY <1>1, <1>11, Zenon DEF CacheError, AfterPublish
  <2>2. UNCHANGED <<ver, snap, board, since, res>>
    BY <1>11, Zenon DEF CacheError
  <2> QED
    BY <1>1, <2>1, <2>2, Zenon DEF Knows, Linear
<1>12. CASE SqlLock(r)
  BY <1>1, <1>12, Zenon DEF SqlLock, Knows, Linear
<1>13. CASE SqlCount(r)
  <2>1. pc'[r] \in {"sselect", "xselect"} /\ UNCHANGED <<ver, snap, board, since>>
    BY <1>1, <1>13, Zenon DEF SqlCount
  <2>2. res'[r].size = Cardinality(Members(scores[board[r]]))
    BY <1>1, <1>13, Zenon DEF SqlCount, NoAnswer
  <2> QED
    BY <1>1, <2>1, <2>2, Zenon DEF Knows, Linear
<1>14. CASE SqlSelect(r)
  <2>1. pc'[r] = "done" /\ UNCHANGED <<ver, snap, board, since>>
    BY <1>1, <1>14, Zenon DEF SqlSelect
  <2>2. res[r].size = Cardinality(Members(scores[board[r]]))
    BY <1>1, <1>14, Zenon DEF SqlSelect, Knows
  <2>3. res'[r] = Answer(hist[commits][board[r]])
    BY <1>1, <1>14, <2>2, ZenonT(30) DEF SqlSelect, Answer
  <2>4. commits \in since[r]..commits
    BY <1>1, SMTT(30) DEF Knows
  <2> QED
    BY <1>1, <2>1, <2>3, <2>4, Zenon DEF Knows, Linear
<1>15. CASE Finish(r)
  <2>1. pc'[r] = "idle" /\ ver'[r] = 0 /\ since'[r] = 0
    BY <1>1, <1>15, Zenon DEF Finish
  <2> QED
    BY <1>1, <2>1 DEF Knows, Linear
<1> QED
  BY <1>2, <1>3, <1>4, <1>5, <1>6, <1>7, <1>8, <1>9, <1>10, <1>11, <1>12, <1>13,
     <1>14, <1>15, ZenonT(30) DEF ReaderStep

LEMMA StepReaders ==
    ASSUME IInv, [Next]_vars
    PROVE  ReaderInv' /\ ReadLinearizable'
<1> SUFFICES ASSUME NEW q \in Readers PROVE Knows(q)' /\ Linear(q)'
  BY Zenon DEF ReaderInv, ReadLinearizable, Knows, Linear
<1>1. Knows(q) /\ Linear(q)
  BY KnowsAll, Zenon DEF IInv
<1>2. CASE Mutate
  BY <1>2, MutateCommits, CommitReaders, Zenon DEF IInv
<1>3. CASE UNCHANGED <<durable, readerVars>>
  BY <1>1, <1>3, OthersUndisturbed, Zenon DEF readerVars
<1>4. CASE Project \/ RedisStep \/ UNCHANGED vars
  BY <1>3, <1>4, ZenonT(30)
     DEF Project, RedisStep, DeliverApply, DeliverPublish, Lose, Evict,
       CopyToStandby, Failover, vars
<1>5. ASSUME NEW r \in Readers, ReaderStep(r) PROVE Knows(q)' /\ Linear(q)'
  <2>1. UNCHANGED durable
    BY <1>5, Zenon DEF ReaderStep, Leaderboard, GroupLeaderboard, Rebuild, GetEpoch,
         CachedBoard, LockProjectionVersion, RebuildRows, RebuildList, RebuildPublish,
         CachedBoardLocked, CacheError, SqlLock, SqlCount, SqlSelect, Finish
  <2>2. CASE q = r
    BY <1>5, <2>1, <2>2, OwnStep, Zenon
  <2>3. CASE q # r
    <3>1. /\ pc'[q] = pc[q] /\ ver'[q] = ver[q] /\ snap'[q] = snap[q]
          /\ board'[q] = board[q] /\ since'[q] = since[q] /\ res'[q] = res[q]
      BY <1>5, <2>3 DEF IInv, TypeInv, TypeOK, ReaderStep, Leaderboard,
           GroupLeaderboard, Rebuild, GetEpoch, CachedBoard, LockProjectionVersion,
           RebuildRows, RebuildList, RebuildPublish, CachedBoardLocked, CacheError,
           SqlLock, SqlCount, SqlSelect, Finish
    <3> QED
      BY <1>1, <2>1, <3>1, OthersUndisturbed, ZenonT(30)
  <2> QED
    BY <2>2, <2>3, Zenon
<1> QED
  BY <1>2, <1>4, <1>5, Zenon DEF Next

-----------------------------------------------------------------------------
(* The theorems. *)

LEMMA InitInv ==
    ASSUME Registered, Init
    PROVE  IInv
<1>1. TypeInv
  BY InitType, Zenon
<1>2. VersionInv /\ CallInv
  BY DEF Init, VersionInv, CallInv
<1>3. CopyInv
  BY EmptyExact, Zenon DEF Init, CopyInv
<1>4. ReaderInv /\ ReadLinearizable
  BY DEF Init, ReaderInv, ReadLinearizable
<1> QED
  BY <1>1, <1>2, <1>3, <1>4, Zenon DEF IInv

LEMMA StepInv ==
    ASSUME IInv, [Next]_vars
    PROVE  IInv'
BY StepType, StepHistory, StepCalls, StepCopies, StepReaders, ZenonT(30) DEF IInv

\* Of a registered metric, Redis and its replica never present a mixture of
\* versions, however many calls are late, repeated or lost and however many keys
\* are evicted or failovers happen.
THEOREM CopyIsExact ==
    ASSUME Registered
    PROVE  Spec => []ProjectionExact
<1>1. Init => IInv
  BY InitInv, Zenon
<1>2. IInv /\ [Next]_vars => IInv'
  BY StepInv, ZenonT(30)
<1>3. IInv => ProjectionExact
  BY ZenonT(30) DEF IInv, CopyInv, Exact, ProjectionExact, ExactCopy
<1> QED
  BY <1>1, <1>2, <1>3, PTL DEF Spec

\* Every ranking request on a registered metric answers with one state of its
\* board between the request's start and its end.
THEOREM RequestsAreLinearizable ==
    ASSUME Registered
    PROVE  Spec => []ReadLinearizable
<1>1. Init => IInv
  BY InitInv, Zenon
<1>2. IInv /\ [Next]_vars => IInv'
  BY StepInv, Zenon
<1>3. IInv => ReadLinearizable
  BY Zenon DEF IInv
<1> QED
  BY <1>1, <1>2, <1>3, PTL DEF Spec

-----------------------------------------------------------------------------
(* One copy of the rankings. *)

\* Whoever has no board is no request: its start is not recorded.
RequestInv ==
    \A r \in Readers :
        /\ pc[r] = "idle" => board[r] = None
        /\ board[r] = None => since[r] = 0

AbstractAnswer(r) == IF AbstractPhase(r) = "answered" THEN res[r] ELSE None
phases == [r \in Readers |-> AbstractPhase(r)]
answers == [r \in Readers |-> AbstractAnswer(r)]

LEMMA InitRequests == Init => RequestInv
BY ZenonT(30) DEF Init, RequestInv

\* The steps of a request between its start and its end.
Inner(r) ==
    \/ GetEpoch(r) \/ CachedBoard(r) \/ LockProjectionVersion(r)
    \/ RebuildRows(r) \/ RebuildList(r) \/ RebuildPublish(r)
    \/ CachedBoardLocked(r) \/ CacheError(r)
    \/ SqlLock(r) \/ SqlCount(r) \/ SqlSelect(r)

\* They keep the board and the start; none of them takes an answer back.
LEMMA InnerKeeps ==
    ASSUME TypeInv, NEW r \in Readers, Inner(r)
    PROVE  /\ UNCHANGED <<durable, board, since>>
           /\ pc[r] \notin {"idle", "done"} /\ pc'[r] # "idle"
           /\ \A q \in Readers \ {r} : pc'[q] = pc[q] /\ res'[q] = res[q]
<1> USE DEF TypeInv, TypeOK
<1>1. CASE GetEpoch(r)
  BY <1>1, Zenon DEF GetEpoch
<1>2. CASE CachedBoard(r)
  BY <1>2, ZenonT(30) DEF CachedBoard
<1>3. CASE LockProjectionVersion(r)
  BY <1>3, Zenon DEF LockProjectionVersion
<1>4. CASE RebuildRows(r)
  BY <1>4, Zenon DEF RebuildRows
<1>5. CASE RebuildList(r)
  BY <1>5, Zenon DEF RebuildList
<1>6. CASE RebuildPublish(r)
  <2>1. pc' \in [Readers -> Phases] /\ UNCHANGED <<durable, board, since, res>> /\ pc[r] = "xpublish"
    BY <1>6, StepType, Zenon DEF RebuildPublish, ReaderStep, Next
  <2>2. \E next \in {"xread", "xcount", "done"} : pc' = [pc EXCEPT ![r] = next]
    BY <1>6, Zenon DEF RebuildPublish, AfterPublish
  <2> QED BY <2>1, <2>2
<1>7. CASE CachedBoardLocked(r)
  BY <1>7, ZenonT(30) DEF CachedBoardLocked
<1>8. CASE CacheError(r)
  BY <1>8, Zenon DEF CacheError, AfterPublish
<1>9. CASE SqlLock(r)
  BY <1>9, Zenon DEF SqlLock
<1>10. CASE SqlCount(r)
  BY <1>10, Zenon DEF SqlCount
<1>11. CASE SqlSelect(r)
  BY <1>11, Zenon DEF SqlSelect
<1> QED
  BY <1>1, <1>2, <1>3, <1>4, <1>5, <1>6, <1>7, <1>8, <1>9, <1>10, <1>11, ZenonT(30)
     DEF Inner

LEMMA ReaderSteps ==
    ASSUME NEW r \in Readers, ReaderStep(r)
    PROVE  Leaderboard(r) \/ GroupLeaderboard(r) \/ Rebuild(r) \/ Inner(r) \/ Finish(r)
BY Zenon DEF ReaderStep, Inner

\* The other steps do not concern the requests.
LEMMA OtherSteps ==
    ASSUME TypeInv, [Next]_vars
    PROVE  \/ Mutate /\ UNCHANGED readerVars
           \/ UNCHANGED <<durable, readerVars>>
           \/ \E r \in Readers : ReaderStep(r)
<1>1. CASE Mutate
  BY <1>1, MutateCommits, Zenon DEF Commit
<1>2. CASE Project \/ RedisStep \/ UNCHANGED vars
  BY <1>2, ZenonT(30) DEF Project, RedisStep, DeliverApply, DeliverPublish, Lose, Evict,
       CopyToStandby, Failover, vars
<1> QED
  BY <1>1, <1>2, Zenon DEF Next

LEMMA StepRequests ==
    ASSUME TypeInv, RequestInv, [Next]_vars
    PROVE  RequestInv'
<1> USE DEF RequestInv
<1>1. CASE UNCHANGED readerVars
  BY <1>1, Zenon DEF readerVars
<1>2. ASSUME NEW r \in Readers, ReaderStep(r) PROVE RequestInv'
  <2>1. CASE Leaderboard(r)
    BY <2>1, NoneAssumption, Zenon DEF Leaderboard, TypeInv, TypeOK
  <2>2. CASE GroupLeaderboard(r)
    BY <2>2, NoneAssumption, ZenonT(30) DEF GroupLeaderboard, TypeInv, TypeOK
  <2>3. CASE Rebuild(r)
    BY <2>3, Zenon DEF Rebuild, TypeInv, TypeOK
  <2>4. CASE Inner(r)
    BY <2>4, InnerKeeps, Zenon
  <2>5. CASE Finish(r)
    BY <2>5, Zenon DEF Finish, TypeInv, TypeOK
  <2> QED
    BY <1>2, <2>1, <2>2, <2>3, <2>4, <2>5, ReaderSteps, ZenonT(30)
<1> QED
  BY <1>1, <1>2, OtherSteps, Zenon

-----------------------------------------------------------------------------
\* The start of a request is the start of an abstract one.
LEMMA Asks ==
    ASSUME TypeInv, RequestInv, NEW r \in Readers, Leaderboard(r) \/ GroupLeaderboard(r)
    PROVE  Service!Ask(r)
<1>1. /\ pc[r] = "idle" /\ pc'[r] \in {"epoch", "slock"} /\ board'[r] \in Boards
      /\ \E b \in Boards : board' = [board EXCEPT ![r] = b]
      /\ since' = [since EXCEPT ![r] = commits]
      /\ \A q \in Readers \ {r} : pc'[q] = pc[q] /\ board'[q] = board[q]
      /\ UNCHANGED <<commits, hist, res>>
  BY Zenon DEF Leaderboard, GroupLeaderboard, TypeInv, TypeOK, durable
<1>2. phases[r] = "idle" /\ phases' = [phases EXCEPT ![r] = "asked"]
  BY <1>1, NoneAssumption, ZenonT(30) DEF phases, AbstractPhase
<1>3. answers' = answers
  BY <1>1, NoneAssumption, Zenon DEF answers, AbstractAnswer, AbstractPhase
<1> QED
  BY <1>1, <1>2, <1>3, Zenon DEF Service!Ask, phases, answers, AbstractAnswer

\* The end of a request is the end of an abstract one; a rebuild ends unnoticed.
LEMMA Leaves ==
    ASSUME TypeInv, RequestInv, NEW r \in Readers, Finish(r)
    PROVE  Service!Leave(r) \/ UNCHANGED Service!vars
<1>1. /\ pc[r] # "idle" /\ pc'[r] = "idle"
      /\ board' = [board EXCEPT ![r] = None] /\ since' = [since EXCEPT ![r] = 0]
      /\ \A q \in Readers \ {r} : pc'[q] = pc[q] /\ board'[q] = board[q] /\ res'[q] = res[q]
      /\ UNCHANGED <<commits, hist>>
  BY Zenon DEF Finish, TypeInv, TypeOK, durable
<1>2. phases' = [phases EXCEPT ![r] = "idle"] /\ answers' = [answers EXCEPT ![r] = None]
  BY <1>1, ZenonT(30) DEF phases, answers, AbstractAnswer, AbstractPhase
<1>3. CASE board[r] = None
  <2>1. board' = board /\ since' = since
    BY <1>1, <1>3, Zenon DEF RequestInv, TypeInv, TypeOK
  <2>2. phases' = phases /\ answers' = answers
    BY <1>2, <1>3, Zenon DEF phases, answers, AbstractAnswer, AbstractPhase
  <2> QED
    BY <1>1, <2>1, <2>2, Zenon DEF Service!vars, phases, answers, AbstractAnswer
<1>4. CASE board[r] # None
  <2>1. phases[r] # "idle"
    BY <1>1, <1>4, Zenon DEF phases, AbstractPhase
  <2> QED
    BY <1>1, <1>2, <2>1, Zenon DEF Service!Leave, phases, answers, AbstractAnswer
<1> QED
  BY <1>3, <1>4, Zenon

\* A step in between is invisible, or it is the answer, which is a state of the board
\* between the request's start and now.
LEMMA Responds ==
    ASSUME IInv, IInv', NEW r \in Readers, Inner(r)
    PROVE  Service!Respond(r) \/ UNCHANGED Service!vars
<1>1. /\ pc[r] \notin {"idle", "done"} /\ pc'[r] # "idle"
      /\ \A q \in Readers \ {r} : pc'[q] = pc[q] /\ res'[q] = res[q]
      /\ UNCHANGED <<commits, hist, board, since>>
  BY InnerKeeps, ZenonT(30) DEF IInv, durable
<1>2. CASE pc'[r] = "done" /\ board[r] # None
  <2>1. phases[r] = "asked" /\ phases' = [phases EXCEPT ![r] = "answered"]
    BY <1>1, <1>2, Zenon DEF phases, AbstractPhase
  <2>2. answers' = [answers EXCEPT ![r] = res'[r]]
    BY <1>1, <1>2, ZenonT(30) DEF answers, AbstractAnswer, AbstractPhase
  <2>3. \E i \in since[r]..commits : res'[r] = Answer(hist[i][board[r]])
    <3>1. \E i \in since'[r]..commits' : res'[r] = Answer(hist'[i][board'[r]])
      BY <1>1, <1>2, Zenon DEF IInv, ReadLinearizable, Answer
    <3> QED
      BY <1>1, <3>1, Zenon
  <2> QED
    BY <1>1, <2>1, <2>2, <2>3, ZenonT(30) DEF Service!Respond, phases, answers, AbstractAnswer
<1>3. CASE ~(pc'[r] = "done" /\ board[r] # None)
  <2>1. phases' = phases /\ answers' = answers
    BY <1>1, <1>3, ZenonT(30) DEF phases, answers, AbstractAnswer, AbstractPhase
  <2> QED
    BY <1>1, <2>1, Zenon DEF Service!vars, phases, answers, AbstractAnswer
<1> QED
  BY <1>2, <1>3, Zenon

\* A commit appends a state.
LEMMA Mutates ==
    ASSUME TypeInv, TypeInv', Mutate, UNCHANGED readerVars
    PROVE  Service!Mutate
<1>0. PICK keys \in SUBSET Key : \E new, creates : Commit(keys, new, creates)
  BY MutateCommits, ZenonT(30)
<1>1. PICK new, creates : Commit(keys, new, creates)
  BY <1>0, ZenonT(30)
<1>2. commits' = commits + 1 /\ \A i \in 0..commits : hist'[i] = hist[i]
  BY <1>1 DEF Commit, TypeInv, TypeOK
<1>3. hist' \in [0..(commits + 1) -> [Boards -> Board]]
  <2>1. hist' \in [0..commits' -> [Boards -> Board]]
    BY Zenon DEF TypeInv, TypeOK
  <2> QED
    BY <1>2, <2>1, Zenon
<1>4. phases' = phases /\ answers' = answers /\ UNCHANGED <<board, since>>
  BY Zenon DEF readerVars, phases, answers, AbstractAnswer, AbstractPhase
<1> QED
  BY <1>2, <1>3, <1>4, Zenon DEF Service!Mutate, phases, answers, AbstractAnswer

LEMMA StepRefines ==
    ASSUME IInv, IInv', RequestInv, [Next]_vars
    PROVE  [Service!Next]_(Service!vars)
<1> USE DEF IInv
<1>1. CASE Mutate /\ UNCHANGED readerVars
  BY <1>1, Mutates, Zenon DEF Service!Next
<1>2. CASE UNCHANGED <<durable, readerVars>>
  <2>1. phases' = phases /\ answers' = answers /\ UNCHANGED <<board, since, commits, hist>>
    BY <1>2, Zenon DEF durable, readerVars, phases, answers, AbstractAnswer, AbstractPhase
  <2> QED
    BY <2>1, Zenon DEF Service!vars, phases, answers, AbstractAnswer
<1>3. ASSUME NEW r \in Readers, ReaderStep(r) PROVE [Service!Next]_(Service!vars)
  <2>1. CASE Leaderboard(r) \/ GroupLeaderboard(r)
    BY <2>1, Asks, Zenon DEF Service!Next
  <2>2. CASE Inner(r)
    BY <2>2, Responds, Zenon DEF Service!Next
  <2>3. CASE Finish(r)
    BY <2>3, Leaves, Zenon DEF Service!Next
  <2>4. CASE Rebuild(r)
    <3>1. /\ pc[r] = "idle" /\ board[r] = None /\ board' = board
          /\ \A q \in Readers \ {r} : pc'[q] = pc[q]
          /\ UNCHANGED <<commits, hist, since, res>>
      BY <2>4, ZenonT(30) DEF Rebuild, RequestInv, TypeInv, TypeOK, durable
    <3>2. phases' = phases /\ answers' = answers
      BY <3>1, Zenon DEF phases, answers, AbstractAnswer, AbstractPhase
    <3> QED
      BY <3>1, <3>2, ZenonT(30) DEF Service!vars, phases, answers, AbstractAnswer
  <2> QED
    BY <1>3, <2>1, <2>2, <2>3, <2>4, ReaderSteps, ZenonT(30)
<1> QED
  BY <1>1, <1>2, <1>3, OtherSteps, Zenon

\* PostgreSQL with its Redis copy behaves as if there were one copy of the rankings of a
\* registered metric: every commit is one mutation of the service, every ranking request
\* one atomic read between its start and its answer, and everything Redis does is
\* invisible (leaderboard, cachedBoard and rebuildMetric in ranking.go).
THEOREM RefinesService ==
    ASSUME Registered
    PROVE  Spec => ImplementsService
<1>1. Init => IInv /\ RequestInv
  BY InitInv, InitRequests, Zenon
<1>2. IInv /\ RequestInv /\ [Next]_vars => (IInv /\ RequestInv)'
  BY StepInv, StepRequests, Zenon DEF IInv
<1>3. Init => Service!Init
  BY Zenon DEF Init, Service!Init, AbstractPhase
<1>4. IInv /\ IInv' /\ RequestInv /\ [Next]_vars => [Service!Next]_(Service!vars)
  BY StepRefines, Zenon
<1> QED
  BY <1>1, <1>2, <1>3, <1>4, PTL DEF Spec, ImplementsService, Service!Spec
=============================================================================
