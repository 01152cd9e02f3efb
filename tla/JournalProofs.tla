---------------------------- MODULE JournalProofs ----------------------------
(***************************************************************************)
(* For every size of files, cache and journal and for any number of        *)
(* events, crashes and errors: no event is executed twice, none that was   *)
(* accepted is lost, events are transmitted in the order in which they     *)
(* were recorded, and the accounted size is that of the directory.         *)
(***************************************************************************)
EXTENDS Journal, TLAPS

\* The events that are still to be transmitted, by file: those that are open, pending
\* or claimed, and the one that is being rewritten.
Live(f) ==
    \/ f.ext \in {"open", "pending"}
    \/ f.ext = "inflight" /\ f.order = claim /\ pc = "claimed"
Part(f) == [order |-> f.order, items |-> f.items]
Unsent == {Part(f) : f \in {g \in files : Live(g)}} \cup {Part(f) : f \in {rebuild} \ {NoFile}}

TypeInv ==
    /\ files \subseteq AllFiles /\ rebuild \in AllFiles
    /\ sequence \in Nat /\ active \in Nat /\ claim \in Nat /\ events \in Nat /\ faults \in Nat
    /\ cache \subseteq Nat
    /\ wire \subseteq [order: Nat, items: SUBSET (1..MaxEvents)]
    /\ replies \subseteq [order: Nat, failed: SUBSET (1..MaxEvents)]
    /\ admitted \subseteq 1..events /\ events <= MaxEvents
    /\ confirmed \subseteq 1..MaxEvents
    /\ sent \in Seq(1..MaxEvents)
    /\ executed \in [1..MaxEvents -> Nat]

\* What the phases of the process and of the sender mean.
Claimed == {"claimed", "sent", "accepted", "partial", "saved", "unsaved"}
PhaseInv ==
    /\ mode # "up" => active = 0 /\ pc = "ended" /\ cache = {}
    /\ mode # "recovering" => rebuild = NoFile
    /\ rebuild # NoFile => rebuild.ext = "rebuild" /\ rebuild.order > 0
    /\ active # 0 => active = sequence /\ \E f \in files : f.order = active /\ f.ext = "open"
    /\ pc \in Claimed => \E f \in files : f.order = claim /\ f.ext = "inflight"
    /\ pc = "done" => \E f \in files : f.order = claim /\ f.ext = "done"
    /\ mode = "up" => \A f \in files : f.ext = "inflight" => f.order = claim /\ pc \in Claimed
    /\ pc = "accepted" => failed = {}

\* An order number has one file, besides the damaged original of a rewritten one and the
\* saved result.
Main(f) == f.ext \notin {"recovered", "result"}
FilesInv ==
    /\ \A f \in files : 0 < f.order /\ f.order <= sequence
    /\ \A f, g \in files : Main(f) /\ Main(g) /\ f.order = g.order => f = g
    /\ rebuild # NoFile =>
         /\ rebuild.order <= sequence
         /\ \A f \in files : Main(f) /\ f.order = rebuild.order => f = rebuild

\* Events are spread over the files in the order in which they were recorded, and those
\* that were transmitted are not in a file that will be.
Ascending(s) == \A i, j \in DOMAIN s : i < j => s[i] < s[j]
Before(s, t) == \A i \in DOMAIN s, j \in DOMAIN t : s[i] < t[j]
UnsentInv ==
    /\ \A u \in Unsent : /\ Ascending(u.items) /\ Range(u.items) \subseteq 1..events
                         /\ Range(u.items) \cap Range(sent) = {}
    /\ \A u, v \in Unsent : u.order < v.order => Before(u.items, v.items)
    /\ Range(sent) \subseteq 1..events

\* A transmitted event is executed at most once.
WireInv ==
    /\ \A m \in wire : /\ m.items \subseteq Range(sent) /\ m.order <= sequence
                       /\ \A e \in m.items : executed[e] = 0
                       /\ \A f \in files : f.order = m.order /\ f.ext = "inflight"
                                             => Range(f.items) \subseteq m.items
                       /\ \A u \in Unsent : u.order # m.order
    /\ \A m, o \in wire : m # o => m.items \cap o.items = {}
    /\ \A e \in 1..MaxEvents : executed[e] <= 1 /\ (executed[e] = 1 => e \in Range(sent))
    /\ \A r \in replies : /\ r.order <= sequence
                          /\ \A f \in files : f.order = r.order /\ f.ext = "inflight"
                               => \A e \in Range(f.items) \ r.failed : executed[e] = 1
                          /\ \A u \in Unsent : u.order # r.order

\* What is told and what is deleted was executed.
ToldInv ==
    /\ pc \in {"accepted", "partial", "saved"} => \A f \in files :
          f.order = claim /\ f.ext = "inflight"
            => \A e \in Range(f.items) \ failed : executed[e] = 1
    /\ \A f \in files : f.ext = "done" => \A e \in Range(f.items) : executed[e] = 1

\* The sender takes the files in their order.
CacheInv ==
    /\ cache \subseteq Pending
    /\ \A n \in cache, m \in Pending \ cache : n < m

OrderInv ==
    faults = 0 =>
        /\ Ascending(sent)
        /\ \A u \in Unsent : Before(sent, u.items)
        /\ mode = "up" => \A f \in files : f.ext = "open" => f.order = active
        /\ pc = "claimed" => \A u \in Unsent : claim <= u.order

IInv ==
    /\ TypeInv /\ PhaseInv /\ FilesInv /\ UnsentInv /\ WireInv /\ ToldInv /\ NothingLost
    /\ CacheInv /\ OrderInv

-----------------------------------------------------------------------------
(* Files. *)

LEMMA PartFields == \A f : Part(f).order = f.order /\ Part(f).items = f.items
BY Zenon DEF Part

LEMMA NoFileType == NoFile \in AllFiles
BY DEF NoFile, AllFiles, Extensions

LEMMA SeqRange == ASSUME NEW S, NEW s \in Seq(S) PROVE Range(s) \subseteq S
<1>1. \A i \in DOMAIN s : s[i] \in S
  OBVIOUS
<1> QED
  BY <1>1, Zenon DEF Range

LEMMA ItemsType ==
    ASSUME files \subseteq AllFiles, NEW f \in files
    PROVE  f.items \in Seq(1..MaxEvents) /\ Range(f.items) \subseteq 1..MaxEvents
<1>1. f.items \in Seq(1..MaxEvents)
  BY DEF AllFiles
<1> QED
  BY <1>1, SeqRange, Zenon

LEMMA UnsentIs ==
    /\ \A u \in Unsent : \/ \E f \in files : Live(f) /\ u = Part(f)
                         \/ rebuild # NoFile /\ u = Part(rebuild)
    /\ \A f \in files : Live(f) => Part(f) \in Unsent
    /\ rebuild # NoFile => Part(rebuild) \in Unsent
BY Zenon DEF Unsent

LEMMA UnsentNext ==
    /\ \A u \in Unsent' : \/ \E f \in files' : Live(f)' /\ u = Part(f)
                          \/ rebuild' # NoFile /\ u = Part(rebuild')
    /\ \A f \in files' : Live(f)' => Part(f) \in Unsent'
    /\ rebuild' # NoFile => Part(rebuild') \in Unsent'
BY Zenon DEF Unsent, Part, NoFile

\* What becomes of a file.
MovedTo(f, g, n, from, to) ==
    /\ g.order = f.order /\ g.items = f.items
    /\ \/ ~(f.order = n /\ f.ext = from) /\ g = f
       \/ f.order = n /\ f.ext = from /\ g = [f EXCEPT !.ext = to] /\ g.ext = to

LEMMA MovedFiles ==
    ASSUME files \subseteq AllFiles, NEW n, NEW from, NEW to \in Extensions,
           files' = Moved(files, n, from, to)
    PROVE  /\ files' \subseteq AllFiles
           /\ \A g \in files' : \E f \in files : MovedTo(f, g, n, from, to)
           /\ \A f \in files : \E g \in files' : MovedTo(f, g, n, from, to)
<1> DEFINE new(f) == IF f.order = n /\ f.ext = from THEN [f EXCEPT !.ext = to] ELSE f
<1>1. ASSUME NEW f \in files PROVE new(f) \in AllFiles /\ MovedTo(f, new(f), n, from, to)
  <2>1. f \in AllFiles
    BY Zenon
  <2> DEFINE g == [f EXCEPT !.ext = to]
  <2>2. g \in AllFiles /\ g.order = f.order /\ g.items = f.items /\ g.ext = to
    BY <2>1 DEF AllFiles
  <2> HIDE DEF g
  <2>3. new(f) = IF f.order = n /\ f.ext = from THEN g ELSE f
    BY Zenon DEF g
  <2> HIDE DEF new
  <2>4. CASE f.order = n /\ f.ext = from
    BY <2>2, <2>3, <2>4, Zenon DEF MovedTo, g
  <2>5. CASE ~(f.order = n /\ f.ext = from)
    BY <2>1, <2>3, <2>5, Zenon DEF MovedTo
  <2> QED
    BY <2>4, <2>5, Zenon
<1>2. files' = {new(f) : f \in files}
  BY Zenon DEF Moved
<1> HIDE DEF new
<1> QED
  BY <1>1, <1>2, Zenon

\* Renaming keeps one file for each order number and loses no event.
LEMMA MoveKeeps ==
    ASSUME IInv, NEW n, NEW from, NEW to \in Extensions, from \notin {"recovered", "result"},
           files' = Moved(files, n, from, to), sequence' = sequence,
           rebuild' # NoFile => /\ rebuild'.order <= sequence
                                /\ \A f \in files' : Main(f) => f.order # rebuild'.order,
           UNCHANGED executed, admitted' = admitted,
           \A e \in confirmed' : executed[e] = 1
    PROVE  FilesInv' /\ NothingLost'
<1>1. files \subseteq AllFiles /\ FilesInv /\ NothingLost
  BY Zenon DEF IInv, TypeInv
<1>2. /\ \A g \in files' : \E f \in files : MovedTo(f, g, n, from, to)
      /\ \A f \in files : \E g \in files' : MovedTo(f, g, n, from, to)
  BY <1>1, MovedFiles, Zenon
<1>3. ASSUME NEW g \in files' PROVE 0 < g.order /\ g.order <= sequence'
  <2>1. PICK f \in files : MovedTo(f, g, n, from, to)
    BY <1>2, Zenon
  <2>2. 0 < f.order /\ f.order <= sequence /\ g.order = f.order
    BY <1>1, <2>1, Zenon DEF FilesInv, MovedTo
  <2> QED
    BY <2>2, Zenon
<1>4. ASSUME NEW g \in files', NEW h \in files', Main(g), Main(h), g.order = h.order
      PROVE  g = h
  <2>1. PICK f \in files : MovedTo(f, g, n, from, to)
    BY <1>2, Zenon
  <2>2. PICK k \in files : MovedTo(k, h, n, from, to)
    BY <1>2, Zenon
  <2>3. Main(f) /\ Main(k) /\ f.order = k.order
    BY <1>4, <2>1, <2>2, Zenon DEF Main, MovedTo
  <2>4. f = k
    BY <1>1, <2>3, Zenon DEF FilesInv
  <2> QED
    BY <2>1, <2>2, <2>4, Zenon DEF MovedTo
<1>5. FilesInv'
  BY <1>3, <1>4, Zenon DEF FilesInv, Main
<1>6. ASSUME NEW e \in admitted PROVE executed[e] > 0 \/ \E g \in files' : e \in Range(g.items)
  <2>1. CASE executed[e] > 0
    BY <2>1
  <2>2. CASE \E f \in files : e \in Range(f.items)
    <3>1. PICK f \in files : e \in Range(f.items)
      BY <2>2, Zenon
    <3>2. PICK g \in files' : MovedTo(f, g, n, from, to)
      BY <1>2, Zenon
    <3> QED
      BY <3>1, <3>2, Zenon DEF MovedTo
  <2> QED
    BY <1>1, <2>1, <2>2, Zenon DEF NothingLost
<1>7. NothingLost'
  BY <1>6, Zenon DEF NothingLost
<1> QED
  BY <1>5, <1>7

\* A file found by its order number and extension.
LEMMA Found ==
    ASSUME IInv, NEW n, NEW ext, ext \notin {"recovered", "result"}, NEW f \in files,
           f.order = n, f.ext = ext
    PROVE  File(n, ext) = f
<1>1. File(n, ext) \in files /\ File(n, ext).order = n /\ File(n, ext).ext = ext
  BY Zenon DEF File
<1> QED
  BY <1>1, Zenon DEF IInv, FilesInv, Main

-----------------------------------------------------------------------------
(* Steps after which nothing more is to be transmitted than before. *)

LEMMA UnsentKept ==
    ASSUME IInv, Unsent' \subseteq Unsent, sent' = sent, events' \in Nat, events <= events'
    PROVE  UnsentInv'
<1>1. UnsentInv /\ events \in Nat
  BY Zenon DEF IInv, TypeInv
<1>2. 1..events \subseteq 1..events'
  BY <1>1
<1>3. \A u \in Unsent' : /\ Ascending(u.items) /\ Range(u.items) \subseteq 1..events'
                         /\ Range(u.items) \cap Range(sent) = {}
  BY <1>1, <1>2, Zenon DEF UnsentInv
<1>4. \A u, v \in Unsent' : u.order < v.order => Before(u.items, v.items)
  BY <1>1, Zenon DEF UnsentInv
<1>5. Range(sent') \subseteq 1..events'
  BY <1>1, <1>2, Zenon DEF UnsentInv
<1> QED
  BY <1>3, <1>4, <1>5, Zenon DEF UnsentInv, Ascending, Before

LEMMA WireKept ==
    ASSUME IInv, Unsent' \subseteq Unsent, UNCHANGED <<sent, executed, sequence>>,
           wire' \subseteq wire, replies' \subseteq replies,
           \A g \in files' : g.ext = "inflight" => g \in files \/ \E u \in Unsent : u.order = g.order
    PROVE  WireInv'
<1>1. WireInv
  BY Zenon DEF IInv
<1>2. ASSUME NEW m \in wire', NEW g \in files', g.order = m.order, g.ext = "inflight"
      PROVE  Range(g.items) \subseteq m.items
  <2>1. m \in wire /\ \A u \in Unsent : u.order # m.order
    BY <1>1, Zenon DEF WireInv
  <2>2. g \in files
    BY <1>2, <2>1, Zenon
  <2> QED
    BY <1>1, <1>2, <2>1, <2>2, Zenon DEF WireInv
<1>3. \A m \in wire' : /\ m.items \subseteq Range(sent) /\ m.order <= sequence
                       /\ \A e \in m.items : executed[e] = 0
                       /\ \A u \in Unsent' : u.order # m.order
  BY <1>1, Zenon DEF WireInv
<1>4. ASSUME NEW r \in replies', NEW g \in files', g.order = r.order, g.ext = "inflight"
      PROVE  \A e \in Range(g.items) \ r.failed : executed[e] = 1
  <2>1. r \in replies /\ \A u \in Unsent : u.order # r.order
    BY <1>1, Zenon DEF WireInv
  <2>2. g \in files
    BY <1>4, <2>1, Zenon
  <2> QED
    BY <1>1, <1>4, <2>1, <2>2, Zenon DEF WireInv
<1>5. \A r \in replies' : r.order <= sequence /\ \A u \in Unsent' : u.order # r.order
  BY <1>1, Zenon DEF WireInv
<1>6. /\ \A m, o \in wire' : m # o => m.items \cap o.items = {}
      /\ \A e \in 1..MaxEvents : executed[e] <= 1 /\ (executed[e] = 1 => e \in Range(sent))
  BY <1>1, Zenon DEF WireInv
<1>7. ASSUME NEW m \in wire'
      PROVE  /\ m.items \subseteq Range(sent') /\ m.order <= sequence'
             /\ \A e \in m.items : executed'[e] = 0
             /\ \A f \in files' : f.order = m.order /\ f.ext = "inflight"
                                    => Range(f.items) \subseteq m.items
             /\ \A u \in Unsent' : u.order # m.order
  BY <1>2, <1>3, Zenon
<1>8. ASSUME NEW r \in replies'
      PROVE  /\ r.order <= sequence'
             /\ \A f \in files' : f.order = r.order /\ f.ext = "inflight"
                  => \A e \in Range(f.items) \ r.failed : executed'[e] = 1
             /\ \A u \in Unsent' : u.order # r.order
  BY <1>4, <1>5, Zenon
<1>9. \A e \in 1..MaxEvents : executed'[e] <= 1 /\ (executed'[e] = 1 => e \in Range(sent'))
  BY <1>6, Zenon
<1> QED
  BY <1>6, <1>7, <1>8, <1>9, Zenon DEF WireInv

LEMMA OrderKept ==
    ASSUME IInv, Unsent' \subseteq Unsent, sent' = sent, faults' = 0 => faults = 0,
           faults' = 0 /\ mode' = "up" => \A f \in files' : f.ext = "open" => f.order = active',
           faults' = 0 /\ pc' = "claimed" => \A u \in Unsent' : claim' <= u.order
    PROVE  OrderInv'
<1> SUFFICES ASSUME faults' = 0
             PROVE  /\ Ascending(sent') /\ \A u \in Unsent' : Before(sent', u.items)
                    /\ mode' = "up" => \A f \in files' : f.ext = "open" => f.order = active'
                    /\ pc' = "claimed" => \A u \in Unsent' : claim' <= u.order
  BY Zenon DEF OrderInv, Ascending, Before
<1>1. Ascending(sent) /\ \A u \in Unsent : Before(sent, u.items)
  BY Zenon DEF IInv, OrderInv
<1> QED
  BY <1>1, Zenon

\* No file changes.
LEMMA FilesKept ==
    ASSUME IInv,
           UNCHANGED <<files, rebuild, sequence, sent, executed, admitted, confirmed>>,
           wire' \subseteq wire, replies' \subseteq replies, events' \in Nat, events <= events',
           pc' = "claimed" => pc = "claimed" /\ claim' = claim
    PROVE  /\ Unsent' \subseteq Unsent /\ FilesInv' /\ UnsentInv' /\ WireInv' /\ NothingLost'
           /\ Pending' = Pending
<1>1. Unsent' \subseteq Unsent
  BY Zenon DEF Unsent, Live, Part, NoFile
<1>2. FilesInv' /\ NothingLost'
  <2>1. FilesInv /\ NothingLost
    BY Zenon DEF IInv
  <2>2. FilesInv'
    BY <2>1, Zenon DEF FilesInv
  <2>3. NothingLost'
    BY <2>1, Zenon DEF NothingLost
  <2> QED
    BY <2>2, <2>3
<1>3. UnsentInv'
  BY <1>1, UnsentKept, Zenon
<1>4. WireInv'
  BY <1>1, WireKept, Zenon
<1>5. Pending' = Pending
  BY Zenon DEF Pending
<1> QED
  BY <1>1, <1>2, <1>3, <1>4, <1>5

\* What remains to be shown of a step that transmits and executes nothing.
LEMMA CalmStep ==
    ASSUME IInv, TypeInv', PhaseInv', FilesInv', ToldInv', NothingLost', CacheInv',
           Unsent' \subseteq Unsent, UNCHANGED <<sequence, sent, executed, events>>,
           wire' \subseteq wire, replies' \subseteq replies,
           \A g \in files' : g.ext = "inflight" => g \in files \/ \E u \in Unsent : u.order = g.order,
           faults' = 0 => faults = 0,
           faults' = 0 /\ mode' = "up" => \A f \in files' : f.ext = "open" => f.order = active',
           faults' = 0 /\ pc' = "claimed" => \A u \in Unsent' : claim' <= u.order
    PROVE  IInv'
<1>1. events' \in Nat /\ events <= events'
  BY DEF IInv, TypeInv
<1>2. UnsentInv'
  BY <1>1, UnsentKept, Zenon
<1>3. WireInv'
  BY WireKept, Zenon
<1>4. OrderInv'
  BY OrderKept, Zenon
<1> QED
  BY <1>2, <1>3, <1>4, Zenon DEF IInv

LEMMA QuietStep ==
    ASSUME IInv, TypeInv', PhaseInv', ToldInv', CacheInv',
           UNCHANGED <<files, rebuild, sequence, sent, executed, admitted, confirmed>>,
           wire' \subseteq wire, replies' \subseteq replies, events <= events',
           pc' = "claimed" => pc = "claimed" /\ claim' = claim, faults' = 0 => faults = 0,
           faults' = 0 /\ mode' = "up" => \A f \in files : f.ext = "open" => f.order = active'
    PROVE  IInv'
<1>1. events' \in Nat
  BY Zenon DEF TypeInv
<1>2. Unsent' \subseteq Unsent /\ FilesInv' /\ UnsentInv' /\ WireInv' /\ NothingLost'
  BY <1>1, FilesKept, Zenon
<1>3. faults' = 0 /\ pc' = "claimed" => \A u \in Unsent' : claim' <= u.order
  BY <1>2, Zenon DEF IInv, OrderInv
<1>4. OrderInv'
  BY <1>2, <1>3, OrderKept, Zenon
<1> QED
  BY <1>2, <1>4, Zenon DEF IInv

LEMMA QuietCache ==
    ASSUME IInv, UNCHANGED files, cache' = cache \/ cache' = {}
    PROVE  CacheInv'
BY Zenon DEF IInv, CacheInv, Pending

LEMMA QuietTold ==
    ASSUME IInv, UNCHANGED <<files, executed, claim, failed>>,
           pc' \in {"accepted", "partial", "saved"} => pc \in {"accepted", "partial", "saved"}
    PROVE  ToldInv'
BY Zenon DEF IInv, ToldInv

LEMMA SealFailsInv == ASSUME IInv, SealFails PROVE IInv'
<1>1. TypeInv' /\ events <= events'
  <2>1. events \in Nat /\ faults \in Nat /\ active \in Nat /\ admitted \subseteq 1..events
    BY Zenon DEF IInv, TypeInv
  <2>2. /\ events' \in Nat /\ events <= events' /\ faults' \in Nat /\ active' \in Nat
        /\ 1..events \subseteq 1..events' /\ events' <= MaxEvents
    BY <2>1, JournalAssumption DEF SealFails
  <2> QED
    BY <2>1, <2>2, Zenon DEF IInv, TypeInv, SealFails, server, sender
<1>2. PhaseInv'
  BY Zenon DEF IInv, PhaseInv, SealFails, sender
<1>3. ToldInv' /\ CacheInv'
  BY QuietCache, QuietTold, Zenon DEF SealFails, sender, server
<1>4. faults' # 0
  BY DEF IInv, TypeInv, SealFails
<1> QED
  BY <1>1, <1>2, <1>3, <1>4, QuietStep, Zenon DEF SealFails, sender, server

LEMMA OldestPendingInv == ASSUME IInv, OldestPending PROVE IInv'
<1>1. CacheInv'
  <2>1. CASE cache = {}
    <3>1. PICK orders \in SUBSET Pending : Oldest(orders) /\ cache' = orders
      BY <2>1, Zenon DEF OldestPending
    <3>2. Pending' = Pending
      BY Zenon DEF Pending, OldestPending
    <3> QED
      BY <3>1, <3>2, Zenon DEF CacheInv, Oldest
  <2>2. CASE cache # {}
    BY <2>2, QuietCache, Zenon DEF OldestPending
  <2> QED
    BY <2>1, <2>2
<1>2. cache' \subseteq Nat
  <2>1. cache' \subseteq Pending
    BY <1>1, Zenon DEF CacheInv, Pending, OldestPending
  <2>2. Pending \subseteq Nat
    BY Zenon DEF IInv, TypeInv, AllFiles, Pending
  <2> QED
    BY <2>1, <2>2, Zenon
<1>3. TypeInv'
  BY <1>2, Zenon DEF IInv, TypeInv, OldestPending, server, client, bounds, admission
<1>4. pc' \in {"empty", "peeked"} /\ pc = "idle"
  BY Zenon DEF OldestPending
<1>5. PhaseInv'
  BY <1>4, Zenon DEF IInv, PhaseInv, OldestPending, Claimed, admission
<1>6. ToldInv'
  BY <1>4, QuietTold, Zenon DEF OldestPending, server
<1>7. events <= events'
  BY DEF IInv, TypeInv, OldestPending, client
<1> QED
  BY <1>1, <1>3, <1>4, <1>5, <1>6, <1>7, QuietStep, Zenon
     DEF OldestPending, server, client, bounds, admission, IInv, OrderInv

LEMMA WaitInv == ASSUME IInv, NothingPending \/ ConnectFails PROVE IInv'
<1> USE DEF NothingPending, ConnectFails, server, client, bounds, admission
<1>1. TypeInv' /\ events' = events
  BY Zenon DEF IInv, TypeInv
<1>2. pc' \in {"idle", "ended"} /\ pc \in {"empty", "peeked"}
  BY Zenon
<1>3. PhaseInv'
  BY <1>2, Zenon DEF IInv, PhaseInv, Claimed
<1>4. ToldInv' /\ CacheInv'
  BY <1>2, QuietCache, QuietTold, Zenon
<1>5. events <= events'
  BY <1>1 DEF IInv, TypeInv
<1> QED
  BY <1>1, <1>2, <1>3, <1>4, <1>5, QuietStep, Zenon DEF IInv, OrderInv

LEMMA RequestLostInv == ASSUME IInv, RequestLost PROVE IInv'
<1> USE DEF RequestLost, sender, client, bounds, admission
<1>1. TypeInv' /\ wire' \subseteq wire
  BY Zenon DEF IInv, TypeInv
<1>2. PhaseInv'
  BY Zenon DEF IInv, PhaseInv
<1>3. ToldInv' /\ CacheInv'
  BY QuietCache, QuietTold, Zenon
<1>4. events <= events'
  BY DEF IInv, TypeInv
<1> QED
  BY <1>1, <1>2, <1>3, <1>4, QuietStep, Zenon DEF IInv, OrderInv

LEMMA ShutdownInv == ASSUME IInv, Shutdown \/ Start PROVE IInv'
<1> USE DEF Shutdown, Start, server, sender, client, bounds, admission
<1>1. TypeInv'
  BY Zenon DEF IInv, TypeInv
<1>2. PhaseInv' /\ UNCHANGED <<pc, claim, failed, cache>>
  BY Zenon DEF IInv, PhaseInv
<1>3. ToldInv' /\ CacheInv'
  BY <1>2, QuietCache, QuietTold, Zenon
<1>4. events <= events'
  BY DEF IInv, TypeInv
<1> QED
  BY <1>1, <1>2, <1>3, <1>4, QuietStep, Zenon DEF IInv, OrderInv

LEMMA RecoveredInv == ASSUME IInv, Recovered PROVE IInv'
<1> USE DEF Recovered, server, client, bounds
<1>1. TypeInv'
  BY Zenon DEF IInv, TypeInv
<1>2. PhaseInv'
  BY Zenon DEF IInv, PhaseInv, Claimed
<1>3. ToldInv' /\ CacheInv'
  BY QuietCache, QuietTold, Zenon
<1>4. events <= events'
  BY DEF IInv, TypeInv
<1> QED
  BY <1>1, <1>2, <1>3, <1>4, QuietStep, Zenon DEF IInv, OrderInv

LEMMA ResponseInv == ASSUME IInv, Response PROVE IInv'
<1> USE DEF Response, server, client, bounds, admission
<1>1. TypeInv'
  BY Zenon DEF IInv, TypeInv
<1>2. pc = "sent" /\ pc' \in {"accepted", "partial"} /\ (pc' = "accepted" => failed' = {})
  BY Zenon
<1>3. PhaseInv'
  BY <1>2, Zenon DEF IInv, PhaseInv, Claimed
<1>4. CacheInv'
  BY QuietCache, Zenon
<1>5. ToldInv'
  <2>1. PICK r \in replies : r.order = claim /\ failed' = r.failed
    BY Zenon
  <2>2. \A f \in files : f.order = r.order /\ f.ext = "inflight"
                           => \A e \in Range(f.items) \ r.failed : executed[e] = 1
    BY Zenon DEF IInv, WireInv
  <2> QED
    BY <2>1, <2>2, Zenon DEF IInv, ToldInv
<1>6. events <= events'
  BY DEF IInv, TypeInv
<1> QED
  BY <1>1, <1>2, <1>3, <1>4, <1>5, <1>6, QuietStep, Zenon DEF IInv, OrderInv

-----------------------------------------------------------------------------
(* Renaming. *)

LEMMA MovedUnsent ==
    ASSUME IInv, NEW n, NEW from, NEW to \in Extensions, files' = Moved(files, n, from, to),
           rebuild' # NoFile => Part(rebuild') \in Unsent,
           to \in {"open", "pending", "inflight"} =>
               \A f \in files : f.order = n /\ f.ext = from => Part(f) \in Unsent,
           pc' = "claimed" => (pc = "claimed" /\ claim' = claim) \/ (claim' = n /\ to = "inflight"),
           pc' = "claimed" => \A f \in files : f.ext = "inflight" => f.order = claim /\ pc = "claimed"
    PROVE  Unsent' \subseteq Unsent
<1> SUFFICES ASSUME NEW u \in Unsent' PROVE u \in Unsent
  OBVIOUS
<1> SUFFICES ASSUME \E f \in files' : Live(f)' /\ u = Part(f) PROVE u \in Unsent
  BY UnsentNext, Zenon
<1>1. PICK g \in files' : Live(g)' /\ u = Part(g)
  OBVIOUS
<1>2. files \subseteq AllFiles
  BY Zenon DEF IInv, TypeInv
<1>3. PICK f \in files : MovedTo(f, g, n, from, to)
  BY <1>2, MovedFiles, Zenon
<1>4. u = Part(f)
  BY <1>1, <1>3, Zenon DEF MovedTo, Part
<1>5. /\ g.ext \in {"open", "pending", "inflight"}
      /\ g.ext = "inflight" => pc' = "claimed"
  BY <1>1, Zenon DEF Live
<1>6. CASE f.order = n /\ f.ext = from
  BY <1>3, <1>4, <1>5, <1>6, Zenon DEF MovedTo
<1>7. CASE ~(f.order = n /\ f.ext = from)
  <2>1. g = f
    BY <1>3, <1>7, Zenon DEF MovedTo
  <2>2. Live(f)
    BY <1>5, <2>1, Zenon DEF Live
  <2> QED
    BY <1>4, <2>2, UnsentIs, Zenon
<1> QED
  BY <1>6, <1>7, Zenon

LEMMA MoveStep ==
    ASSUME IInv, TypeInv', PhaseInv', ToldInv', CacheInv',
           NEW n, NEW from, NEW to \in Extensions, from \notin {"recovered", "result"},
           files' = Moved(files, n, from, to), Unsent' \subseteq Unsent,
           rebuild' # NoFile => /\ rebuild'.order <= sequence
                                /\ \A f \in files' : Main(f) => f.order # rebuild'.order,
           UNCHANGED <<sequence, sent, executed, admitted, wire, events>>, replies' \subseteq replies,
           \A e \in confirmed' : executed[e] = 1,
           to = "inflight" => \E u \in Unsent : u.order = n,
           faults' = 0 => faults = 0,
           faults' = 0 /\ mode' = "up" => \A f \in files' : f.ext = "open" => f.order = active',
           faults' = 0 /\ pc' = "claimed" => \A u \in Unsent' : claim' <= u.order
    PROVE  IInv'
<1>1. FilesInv' /\ NothingLost'
  BY MoveKeeps, Zenon
<1>2. files \subseteq AllFiles
  BY Zenon DEF IInv, TypeInv
<1>3. ASSUME NEW g \in files', g.ext = "inflight"
      PROVE  g \in files \/ \E u \in Unsent : u.order = g.order
  <2>1. PICK f \in files : MovedTo(f, g, n, from, to)
    BY <1>2, MovedFiles, Zenon
  <2> QED
    BY <1>3, <2>1, Zenon DEF MovedTo
<1> QED
  BY <1>1, <1>3, CalmStep, Zenon

LEMMA MovedPending ==
    ASSUME files \subseteq AllFiles, NEW n, NEW from, NEW to \in Extensions, from # to,
           files' = Moved(files, n, from, to)
    PROVE  /\ \A m \in Pending' : m \in Pending \/ (to = "pending" /\ m = n)
           /\ \A m \in Pending : m \in Pending' \/ (from = "pending" /\ m = n)
           /\ from = "pending" => n \notin Pending'
           /\ (\A f \in files : ~(f.order = n /\ f.ext = from)) => Pending' \subseteq Pending
<1>1. /\ \A g \in files' : \E f \in files : MovedTo(f, g, n, from, to)
      /\ \A f \in files : \E g \in files' : MovedTo(f, g, n, from, to)
  BY MovedFiles, Zenon
<1>2. \A m : m \in Pending <=> \E f \in files : f.ext = "pending" /\ m = f.order
  BY Zenon DEF Pending
<1>3. \A m : m \in Pending' <=> \E f \in files' : f.ext = "pending" /\ m = f.order
  BY Zenon DEF Pending
<1>4. ASSUME NEW m \in Pending'
      PROVE  /\ m \in Pending \/ (to = "pending" /\ m = n /\ \E f \in files : f.order = n /\ f.ext = from)
             /\ from = "pending" => m # n
  <2>1. PICK g \in files' : g.ext = "pending" /\ m = g.order
    BY <1>3, Zenon
  <2>2. PICK f \in files : MovedTo(f, g, n, from, to)
    BY <1>1, Zenon
  <2>3. CASE f.order = n /\ f.ext = from
    BY <2>1, <2>2, <2>3, Zenon DEF MovedTo
  <2>4. CASE ~(f.order = n /\ f.ext = from)
    BY <1>2, <2>1, <2>2, <2>4, Zenon DEF MovedTo
  <2> QED
    BY <2>3, <2>4, Zenon
<1>5. ASSUME NEW m \in Pending PROVE m \in Pending' \/ (from = "pending" /\ m = n)
  <2>1. PICK f \in files : f.ext = "pending" /\ m = f.order
    BY <1>2, Zenon
  <2>2. PICK g \in files' : MovedTo(f, g, n, from, to)
    BY <1>1, Zenon
  <2> QED
    BY <1>3, <2>1, <2>2, Zenon DEF MovedTo
<1> QED
  BY <1>4, <1>5, Zenon

LEMMA MovedTold ==
    ASSUME IInv, NEW n, NEW from, NEW to \in Extensions, to \notin {"done", "inflight"},
           files' = Moved(files, n, from, to), UNCHANGED executed,
           pc' \in {"accepted", "partial", "saved"} => UNCHANGED <<pc, claim, failed>>
    PROVE  ToldInv'
<1>1. files \subseteq AllFiles
  BY Zenon DEF IInv, TypeInv
<1>2. ASSUME NEW g \in files', g.ext \in {"done", "inflight"} PROVE g \in files
  <2>1. PICK f \in files : MovedTo(f, g, n, from, to)
    BY <1>1, MovedFiles, Zenon
  <2> QED
    BY <1>2, <2>1, Zenon DEF MovedTo
<1> QED
  BY <1>2, Zenon DEF IInv, ToldInv

\* The open file becomes pending, behind all others.
LEMMA SealStep ==
    ASSUME IInv, mode = "up", files' = Sealed, active' = 0,
           UNCHANGED <<sequence, sent, executed, admitted, wire, events, confirmed>>,
           rebuild' = NoFile, replies' \subseteq replies, faults' \in Nat, faults' = 0 => faults = 0,
           \/ UNCHANGED <<mode, pc, claim, failed, cache>>
           \/ mode' = "down" /\ pc' = "ended" /\ pc = "ended" /\ cache' = {} /\ claim' = 0
    PROVE  IInv'
<1>1. files \subseteq AllFiles /\ "pending" \in Extensions
  BY Zenon DEF IInv, TypeInv, Extensions
<1>2. files' = Moved(files, active, "open", "pending")
  BY Zenon DEF Sealed
<1>3. /\ files' \subseteq AllFiles
      /\ \A g \in files' : \E f \in files : MovedTo(f, g, active, "open", "pending")
      /\ \A f \in files : \E g \in files' : MovedTo(f, g, active, "open", "pending")
  BY <1>1, <1>2, MovedFiles, Zenon
<1>4. TypeInv'
  <2>1. NoFile \in AllFiles /\ 0 \in Nat
    BY NoFileType
  <2> QED
    BY <1>3, <2>1, Zenon DEF IInv, TypeInv
<1>5. PhaseInv'
  <2>1. ASSUME NEW f \in files, f.ext \in {"inflight", "done"} PROVE f \in files'
    <3>1. PICK g \in files' : MovedTo(f, g, active, "open", "pending")
      BY <1>3, Zenon
    <3> QED
      BY <2>1, <3>1, Zenon DEF MovedTo
  <2>2. ASSUME NEW g \in files', g.ext = "inflight" PROVE g \in files
    <3>1. PICK f \in files : MovedTo(f, g, active, "open", "pending")
      BY <1>3, Zenon
    <3> QED
      BY <2>2, <3>1, Zenon DEF MovedTo
  <2>3. PhaseInv
    BY Zenon DEF IInv
  <2>4. CASE UNCHANGED <<mode, pc, claim, failed, cache>>
    <3>1. pc \in Claimed => \E f \in files' : f.order = claim /\ f.ext = "inflight"
      BY <2>1, <2>3, Zenon DEF PhaseInv
    <3>2. pc = "done" => \E f \in files' : f.order = claim /\ f.ext = "done"
      BY <2>1, <2>3, Zenon DEF PhaseInv
    <3>3. \A f \in files' : f.ext = "inflight" => f.order = claim /\ pc \in Claimed
      BY <2>2, <2>3, Zenon DEF PhaseInv
    <3>4. pc = "accepted" => failed = {}
      BY <2>3, Zenon DEF PhaseInv
    <3> QED
      BY <2>4, <3>1, <3>2, <3>3, <3>4, Zenon DEF PhaseInv, Claimed
  <2>5. CASE mode' = "down" /\ pc' = "ended" /\ pc = "ended" /\ cache' = {} /\ claim' = 0
    BY <2>5, Zenon DEF PhaseInv, Claimed
  <2> QED
    BY <2>4, <2>5, Zenon
<1>6. ToldInv'
  BY <1>1, <1>2, MovedTold, ZenonT(30)
<1>7. CacheInv'
  <2>1. CASE cache' = {}
    BY <2>1, Zenon DEF CacheInv
  <2>2. CASE cache' = cache
    <3>1. /\ \A m \in Pending' : m \in Pending \/ m = active
          /\ \A m \in Pending : m \in Pending'
          /\ (\A f \in files : ~(f.order = active /\ f.ext = "open")) => Pending' \subseteq Pending
      <4>1. "open" # "pending"
        OBVIOUS
      <4>2. \A m \in Pending' : m \in Pending \/ m = active
        BY <1>1, <1>2, <4>1, MovedPending, Zenon
      <4>3. \A m \in Pending : m \in Pending'
        BY <1>1, <1>2, <4>1, MovedPending, Zenon
      <4>4. (\A f \in files : ~(f.order = active /\ f.ext = "open")) => Pending' \subseteq Pending
        BY <1>1, <1>2, <4>1, MovedPending
      <4> QED
        BY <4>2, <4>3, <4>4
    <3>2. CacheInv
      BY Zenon DEF IInv
    <3>3. ASSUME NEW k \in cache, NEW m \in Pending' \ cache PROVE k < m
      <4>1. CASE m \in Pending
        BY <3>2, <3>3, <4>1, Zenon DEF CacheInv
      <4>2. CASE m \notin Pending
        <5>1. m = active
          BY <3>1, <4>2, Zenon
        <5>2. PICK f \in files : f.order = active /\ f.ext = "open"
          BY <3>1, <3>3, <4>2, Zenon
        <5>3. PICK p \in files : p.order = k /\ p.ext = "pending"
          BY <3>2, <3>3, Zenon DEF CacheInv, Pending
        <5>4. 0 < f.order /\ k <= sequence /\ k # active
          BY <5>2, <5>3, Zenon DEF IInv, FilesInv, Main
        <5>5. active # 0
          BY <5>2, <5>4
        <5>6. active = sequence
          BY <5>5, Zenon DEF IInv, PhaseInv
        <5>7. k \in Nat /\ sequence \in Nat
          BY Zenon DEF IInv, TypeInv
        <5> QED
          BY <5>1, <5>4, <5>6, <5>7
      <4> QED
        BY <4>1, <4>2
    <3>4. cache \subseteq Pending'
      BY <3>1, <3>2, Zenon DEF CacheInv
    <3> QED
      BY <2>2, <3>3, <3>4, Zenon DEF CacheInv
  <2> QED
    BY <2>1, <2>2, Zenon
<1>8. Unsent' \subseteq Unsent
  <2>1. \A f \in files : f.order = active /\ f.ext = "open" => Part(f) \in Unsent
    BY UnsentIs, Zenon DEF Live
  <2>2. pc' = "claimed" => /\ pc = "claimed" /\ claim' = claim
                           /\ \A f \in files : f.ext = "inflight" => f.order = claim
    BY Zenon DEF IInv, PhaseInv
  <2> QED
    BY <1>1, <1>2, <2>1, <2>2, MovedUnsent, Zenon
<1>9. ASSUME faults' = 0, NEW g \in files', g.ext = "open" PROVE g.order = active'
  <2>1. PICK f \in files : MovedTo(f, g, active, "open", "pending")
    BY <1>3, Zenon
  <2>2. \A h \in files : h.ext = "open" => h.order = active
    BY <1>9, Zenon DEF IInv, OrderInv
  <2> QED
    BY <1>9, <2>1, <2>2, Zenon DEF MovedTo
<1>10. faults' = 0 /\ pc' = "claimed" => \A u \in Unsent' : claim' <= u.order
  BY <1>8, Zenon DEF IInv, OrderInv
<1>11. \A e \in confirmed' : executed[e] = 1
  BY Zenon DEF IInv, NothingLost
<1>12. "open" \notin {"recovered", "result"} /\ "pending" # "inflight"
  OBVIOUS
<1> QED
  BY <1>1, <1>2, <1>4, <1>5, <1>6, <1>7, <1>8, <1>9, <1>10, <1>11, <1>12, MoveStep, ZenonT(30)

LEMMA FlushInv == ASSUME IInv, FlushIfDue \/ StopAdmission PROVE IInv'
<1>1. faults \in Nat /\ (mode = "up" => rebuild = NoFile)
  BY Zenon DEF IInv, TypeInv, PhaseInv
<1> QED
  BY <1>1, SealStep, Zenon DEF FlushIfDue, StopAdmission, server, sender, client, bounds

LEMMA JournalFailsInv == ASSUME IInv, JournalFails PROVE IInv'
<1>1. faults \in Nat /\ rebuild = NoFile
  BY Zenon DEF IInv, TypeInv, PhaseInv, JournalFails
<1>2. faults' \in Nat /\ faults' # 0
  BY <1>1 DEF JournalFails
<1>3. CASE files' = Sealed /\ active' = 0
  BY <1>1, <1>2, <1>3, SealStep, Zenon DEF JournalFails, server, sender, client
<1>4. CASE UNCHANGED <<files, active>>
  <2> USE <1>4 DEF JournalFails, server, sender, client
  <2>1. TypeInv'
    BY <1>2, Zenon DEF IInv, TypeInv
  <2>2. PhaseInv'
    BY Zenon DEF IInv, PhaseInv
  <2>3. ToldInv' /\ CacheInv'
    BY QuietCache, QuietTold, Zenon
  <2>4. events <= events'
    BY DEF IInv, TypeInv
  <2> QED
    BY <1>2, <2>1, <2>2, <2>3, <2>4, QuietStep, ZenonT(30)
<1> QED
  BY <1>3, <1>4, Zenon DEF JournalFails

LEMMA CloseInv == ASSUME IInv, Close PROVE IInv'
<1>1. faults \in Nat
  BY Zenon DEF IInv, TypeInv
<1>2. CASE files' = Sealed
  BY <1>1, <1>2, SealStep, Zenon DEF Close, Forget, client, bounds
<1>3. CASE UNCHANGED files
  <2> USE <1>3 DEF Close, Forget, client, bounds
  <2>1. NoFile \in AllFiles /\ 0 \in Nat
    BY NoFileType
  <2>2. TypeInv'
    BY <2>1, Zenon DEF IInv, TypeInv
  <2>3. PhaseInv' /\ rebuild = NoFile
    BY Zenon DEF IInv, PhaseInv, Claimed
  <2>4. CacheInv'
    BY QuietCache, Zenon
  <2>5. ToldInv'
    BY Zenon DEF IInv, ToldInv
  <2>6. events <= events'
    BY DEF IInv, TypeInv
  <2> QED
    BY <2>2, <2>3, <2>4, <2>5, <2>6, QuietStep, ZenonT(30)
<1> QED
  BY <1>2, <1>3, Zenon DEF Close

LEMMA MovedOthers ==
    ASSUME files \subseteq AllFiles, NEW n, NEW from, NEW to \in Extensions, from # to,
           files' = Moved(files, n, from, to)
    PROVE  /\ \A g \in files' : g.ext # to => g \in files
           /\ \A f \in files : f.ext # from => f \in files'
           /\ \A g \in files' : ~(g.order = n /\ g.ext = from)
<1>1. ASSUME NEW g \in files' PROVE (g.ext # to => g \in files) /\ ~(g.order = n /\ g.ext = from)
  <2>1. PICK f \in files : MovedTo(f, g, n, from, to)
    BY MovedFiles, Zenon
  <2> QED
    BY <2>1, Zenon DEF MovedTo
<1>2. ASSUME NEW f \in files, f.ext # from PROVE f \in files'
  <2>1. PICK g \in files' : MovedTo(f, g, n, from, to)
    BY MovedFiles, Zenon
  <2> QED
    BY <1>2, <2>1, Zenon DEF MovedTo
<1> QED
  BY <1>1, <1>2, Zenon

\* Neither the old nor the new name is that of a pending file.
LEMMA MovedCache ==
    ASSUME IInv, NEW n, NEW from, NEW to \in Extensions, from # to, "pending" \notin {from, to},
           files' = Moved(files, n, from, to), cache' = cache
    PROVE  CacheInv'
<1>1. files \subseteq AllFiles /\ CacheInv
  BY Zenon DEF IInv, TypeInv
<1>2. \A m \in Pending' : m \in Pending \/ (to = "pending" /\ m = n)
  BY <1>1, MovedPending, Zenon
<1>3. \A m \in Pending : m \in Pending' \/ (from = "pending" /\ m = n)
  BY <1>1, MovedPending, Zenon
<1>4. Pending' = Pending
  BY <1>2, <1>3, Zenon
<1> QED
  BY <1>1, <1>4, Zenon DEF CacheInv

\* The sender lays its claim down.
LEMMA LaidDown ==
    ASSUME IInv, mode = "up", pc \in Claimed, NEW to \in {"pending", "uncertain", "partial"},
           to = "pending" => pc = "claimed" /\ cache' = {}, cache' = cache \/ cache' = {},
           MoveClaim(to), pc' \in {"idle", "ended"},
           UNCHANGED <<mode, claim, rebuild, sequence, active, sent, executed, admitted, events,
                       faults>>,
           wire' = wire, replies' = replies,
           confirmed' \subseteq 1..MaxEvents, \A e \in confirmed' : executed[e] = 1
    PROVE  IInv'
<1>1. /\ files' = Moved(files, claim, "inflight", to) /\ files \subseteq AllFiles
      /\ to \in Extensions /\ "inflight" # to /\ to \notin {"done", "inflight", "open"}
      /\ rebuild' = NoFile
  BY Zenon DEF IInv, TypeInv, PhaseInv, MoveClaim, Extensions
<1>2. /\ \A g \in files' : g.ext # to => g \in files
      /\ \A f \in files : f.ext # "inflight" => f \in files'
      /\ \A g \in files' : ~(g.order = claim /\ g.ext = "inflight")
  BY <1>1, MovedOthers, Zenon
<1>3. TypeInv'
  <2>1. files' \subseteq AllFiles
    BY <1>1, MovedFiles, Zenon
  <2> QED
    BY <2>1, Zenon DEF IInv, TypeInv
<1>4. PhaseInv'
  <2>1. PhaseInv
    BY Zenon DEF IInv
  <2>2. active # 0 => active = sequence /\ \E f \in files' : f.order = active /\ f.ext = "open"
    BY <1>2, <2>1, Zenon DEF PhaseInv
  <2>3. ASSUME NEW f \in files', f.ext = "inflight" PROVE FALSE
    BY <1>1, <1>2, <2>1, <2>3, Zenon DEF PhaseInv
  <2> QED
    BY <1>1, <2>2, <2>3, Zenon DEF PhaseInv, Claimed
<1>5. ToldInv'
  BY <1>1, MovedTold, Zenon
<1>6. CacheInv'
  <2>1. CASE cache' = {}
    BY <2>1, Zenon DEF CacheInv
  <2>2. CASE cache' # {}
    <3>1. "pending" \notin {"inflight", to} /\ cache' = cache
      BY <2>2
    <3> QED
      BY <1>1, <3>1, MovedCache, Zenon
  <2> QED
    BY <2>1, <2>2
<1>7. Unsent' \subseteq Unsent
  <2>1. to \in {"open", "pending", "inflight"} =>
            \A f \in files : f.order = claim /\ f.ext = "inflight" => Part(f) \in Unsent
    BY UnsentIs, Zenon DEF Live
  <2> QED
    BY <1>1, <2>1, MovedUnsent, Zenon
<1>8. faults' = 0 => \A f \in files' : f.ext = "open" => f.order = active'
  BY <1>1, <1>2, Zenon DEF IInv, OrderInv
<1>9. "inflight" \notin {"recovered", "result"}
  OBVIOUS
<1> QED
  BY <1>1, <1>3, <1>4, <1>5, <1>6, <1>7, <1>8, <1>9, MoveStep, ZenonT(30)

LEMMA ClaimFile ==
    ASSUME IInv, pc \in Claimed
    PROVE  /\ File(claim, "inflight") \in files /\ File(claim, "inflight").order = claim
           /\ File(claim, "inflight").ext = "inflight"
BY Zenon DEF IInv, PhaseInv, File

LEMMA NotSentInv == ASSUME IInv, NotSent PROVE IInv'
<1>1. confirmed \subseteq 1..MaxEvents /\ \A e \in confirmed : executed[e] = 1
  BY Zenon DEF IInv, TypeInv, NothingLost
<1> QED
  BY <1>1, LaidDown, Zenon DEF NotSent, CacheAfterReturn, Claimed, server, admission, client

LEMMA UncertainInv == ASSUME IInv, Uncertain PROVE IInv'
<1>1. confirmed \subseteq 1..MaxEvents /\ \A e \in confirmed : executed[e] = 1
  BY Zenon DEF IInv, TypeInv, NothingLost
<1> QED
  BY <1>1, LaidDown, Zenon DEF Uncertain, Claimed, server, admission, client, bounds

LEMMA PartialInv == ASSUME IInv, Partial PROVE IInv'
<1>1. confirmed \subseteq 1..MaxEvents /\ \A e \in confirmed : executed[e] = 1
  BY Zenon DEF IInv, TypeInv, NothingLost
<1>2. pc = "saved" /\ pc \in Claimed
  BY Zenon DEF Partial, Claimed
<1>3. \A e \in Range(File(claim, "inflight").items) \ failed : executed[e] = 1
  BY <1>2, ClaimFile, Zenon DEF IInv, ToldInv
<1>4. confirmed' \subseteq 1..MaxEvents /\ \A e \in confirmed' : executed[e] = 1
  <2>1. Range(File(claim, "inflight").items) \subseteq 1..MaxEvents
    BY <1>2, ClaimFile, ItemsType, Zenon DEF IInv, TypeInv
  <2> QED
    BY <1>1, <1>3, <2>1, Zenon DEF Partial, Told, Items
<1> QED
  BY <1>2, <1>4, LaidDown, Zenon DEF Partial, server, admission, client, bounds

LEMMA CancelInv == ASSUME IInv, Cancel PROVE IInv'
<1> USE DEF Cancel, server, admission, client, bounds
<1>1. confirmed \subseteq 1..MaxEvents /\ \A e \in confirmed : executed[e] = 1
  BY Zenon DEF IInv, TypeInv, NothingLost
<1>2. CASE pc = "claimed" /\ MoveClaim("pending") /\ cache' = {}
  BY <1>1, <1>2, LaidDown, Zenon DEF Claimed
<1>3. CASE pc = "sent" /\ MoveClaim("uncertain") /\ UNCHANGED cache
  BY <1>1, <1>3, LaidDown, Zenon DEF Claimed
<1>4. CASE pc \in {"idle", "empty", "peeked"} /\ UNCHANGED <<files, cache>>
  <2> USE <1>4
  <2>1. TypeInv'
    BY Zenon DEF IInv, TypeInv
  <2>2. PhaseInv'
    BY Zenon DEF IInv, PhaseInv, Claimed
  <2>3. ToldInv' /\ CacheInv'
    BY QuietCache, QuietTold, Zenon
  <2>4. events <= events'
    BY DEF IInv, TypeInv
  <2> QED
    BY <2>1, <2>2, <2>3, <2>4, QuietStep, Zenon DEF IInv, OrderInv
<1> QED
  BY <1>2, <1>3, <1>4, Zenon

LEMMA AcceptedInv == ASSUME IInv, Accepted PROVE IInv'
<1> USE DEF Accepted, server, admission, client, bounds
<1>1. /\ files' = Moved(files, claim, "inflight", "done") /\ files \subseteq AllFiles
      /\ rebuild' = NoFile /\ mode = "up" /\ pc = "accepted" /\ failed = {}
  BY Zenon DEF IInv, TypeInv, PhaseInv, MoveClaim
<1>2. /\ "done" \in Extensions /\ "inflight" # "done" /\ pc \in Claimed
      /\ "pending" \notin {"inflight", "done"}
      /\ "inflight" \notin {"recovered", "result"} /\ "done" # "inflight"
  BY <1>1, Zenon DEF Extensions, Claimed
<1>3. /\ \A g \in files' : g.ext # "done" => g \in files
      /\ \A f \in files : f.ext # "inflight" => f \in files'
      /\ \A g \in files' : ~(g.order = claim /\ g.ext = "inflight")
  BY <1>1, <1>2, MovedOthers, Zenon
<1>4. files' \subseteq AllFiles
  BY <1>1, <1>2, MovedFiles, Zenon
<1> DEFINE f0 == File(claim, "inflight")
<1>5. f0 \in files /\ f0.order = claim /\ f0.ext = "inflight"
  BY <1>2, ClaimFile, Zenon
<1>6. TypeInv'
  <2>1. confirmed' \subseteq 1..MaxEvents
    BY <1>1, <1>5, ItemsType, Zenon DEF IInv, TypeInv, Items
  <2> QED
    BY <1>4, <2>1, Zenon DEF IInv, TypeInv
<1>7. \A e \in Range(f0.items) : executed[e] = 1
  BY <1>1, <1>5, Zenon DEF IInv, ToldInv
<1>8. PICK g0 \in files' : MovedTo(f0, g0, claim, "inflight", "done")
  BY <1>1, <1>2, <1>5, MovedFiles, Zenon
<1>9. g0.order = claim /\ g0.ext = "done"
  BY <1>5, <1>8, Zenon DEF MovedTo
<1>10. PhaseInv'
  <2>1. PhaseInv
    BY Zenon DEF IInv
  <2>2. active # 0 => active = sequence /\ \E f \in files' : f.order = active /\ f.ext = "open"
    BY <1>3, <2>1, Zenon DEF PhaseInv
  <2>3. ASSUME NEW f \in files', f.ext = "inflight" PROVE FALSE
    BY <1>1, <1>3, <2>1, <2>3, Zenon DEF PhaseInv
  <2> QED
    BY <1>1, <1>9, <2>2, <2>3, Zenon DEF PhaseInv, Claimed
<1>11. ToldInv'
  <2>1. ASSUME NEW g \in files', g.ext = "done" PROVE \A e \in Range(g.items) : executed[e] = 1
    <3>1. PICK f \in files : MovedTo(f, g, claim, "inflight", "done")
      BY <1>1, <1>2, MovedFiles, Zenon
    <3>2. CASE f.order = claim /\ f.ext = "inflight"
      <4>1. f = f0
        BY <3>2, <1>5, Zenon DEF IInv, FilesInv, Main
      <4> QED
        BY <1>7, <3>1, <4>1, Zenon DEF MovedTo
    <3>3. CASE ~(f.order = claim /\ f.ext = "inflight")
      BY <2>1, <3>1, <3>3, Zenon DEF MovedTo, IInv, ToldInv
    <3> QED
      BY <3>2, <3>3
  <2> QED
    BY <2>1, Zenon DEF ToldInv
<1>12. CacheInv'
  BY <1>1, <1>2, MovedCache, Zenon
<1>13. Unsent' \subseteq Unsent
  BY <1>1, <1>2, MovedUnsent, Zenon
<1>14. faults' = 0 => \A f \in files' : f.ext = "open" => f.order = active'
  BY <1>1, <1>3, Zenon DEF IInv, OrderInv
<1>15. \A e \in confirmed' : executed[e] = 1
  BY <1>7, Zenon DEF Items, IInv, NothingLost
<1> QED
  BY <1>1, <1>2, <1>6, <1>10, <1>11, <1>12, <1>13, <1>14, <1>15, MoveStep, ZenonT(30)

LEMMA RecoverInflightInv == ASSUME IInv, RecoverInflight PROVE IInv'
<1> USE DEF RecoverInflight, server, admission, sender, client, bounds
<1>1. PICK n : files' = Moved(files, n, "inflight", "uncertain")
  BY Zenon DEF ClaimedExtension
<1>2. /\ files \subseteq AllFiles /\ "uncertain" \in Extensions /\ "inflight" # "uncertain"
      /\ "pending" \notin {"inflight", "uncertain"} /\ "uncertain" \notin {"done", "inflight"}
      /\ "inflight" \notin {"recovered", "result"} /\ "uncertain" # "inflight"
      /\ "uncertain" \notin {"open", "pending", "inflight"}
  BY Zenon DEF IInv, TypeInv, Extensions
<1>3. mode' = "recovering" /\ pc' = "ended" /\ pc = "ended"
  BY Zenon DEF IInv, PhaseInv
<1>4. files' \subseteq AllFiles
  BY <1>1, <1>2, MovedFiles, Zenon
<1>5. TypeInv'
  BY <1>4, Zenon DEF IInv, TypeInv
<1>6. PhaseInv'
  BY <1>3, Zenon DEF IInv, PhaseInv, Claimed
<1>7. ToldInv'
  BY <1>1, <1>2, <1>3, MovedTold, Zenon
<1>8. CacheInv'
  BY <1>1, <1>2, MovedCache, Zenon
<1>9. Unsent' \subseteq Unsent
  BY <1>1, <1>2, <1>3, MovedUnsent, Zenon
<1>10. \A e \in confirmed' : executed[e] = 1
  BY Zenon DEF IInv, NothingLost
<1> QED
  BY <1>1, <1>2, <1>3, <1>5, <1>6, <1>7, <1>8, <1>9, <1>10, MoveStep, Zenon

\* The sender takes the oldest pending file.
LEMMA Taken ==
    ASSUME IInv, mode = "up", NEW n \in cache, Peeked(n), NEW to \in {"damaged", "inflight"},
           files' = Moved(files, n, "pending", to), cache' = cache \ {n}
    PROVE  /\ files' \subseteq AllFiles /\ CacheInv'
           /\ \A g \in files' : g.ext # to => g \in files
           /\ \A f \in files : f.ext # "pending" => f \in files'
           /\ faults = 0 => \A f \in files' : f.ext \in {"open", "pending"} => n <= f.order
<1>1. /\ files \subseteq AllFiles /\ to \in Extensions /\ "pending" # to /\ to # "pending"
  BY Zenon DEF IInv, TypeInv, Extensions
<1>2. /\ \A g \in files' : g.ext # to => g \in files
      /\ \A f \in files : f.ext # "pending" => f \in files'
  BY <1>1, MovedOthers, Zenon
<1>3. CacheInv
  BY Zenon DEF IInv
<1>4. \A m \in Pending' : m \in Pending \/ (to = "pending" /\ m = n)
  BY <1>1, MovedPending, Zenon
<1>5. \A m \in Pending : m \in Pending' \/ ("pending" = "pending" /\ m = n)
  BY <1>1, MovedPending, Zenon
<1>6. n \notin Pending'
  BY <1>1, MovedPending, Zenon
<1>7. cache' \subseteq Pending'
  BY <1>3, <1>5, Zenon DEF CacheInv
<1>8. ASSUME NEW k \in cache', NEW m \in Pending' \ cache' PROVE k < m
  <2>1. m \in Pending \ cache
    BY <1>1, <1>4, <1>6, <1>8, Zenon
  <2> QED
    BY <1>3, <2>1, Zenon DEF CacheInv
<1>9. CacheInv'
  BY <1>7, <1>8, Zenon DEF CacheInv
<1>10. ASSUME faults = 0, NEW f \in files', f.ext \in {"open", "pending"} PROVE n <= f.order
  <2>1. f \in files
    BY <1>1, <1>2, <1>10, Zenon
  <2>2. n \in Nat /\ f.order \in Nat
    BY <1>1, <2>1, Zenon DEF IInv, TypeInv, AllFiles
  <2>3. CASE f.ext = "pending"
    <3>1. f.order \in Pending
      BY <2>1, <2>3, Zenon DEF Pending
    <3>2. CASE f.order \in cache
      BY <3>2, Zenon DEF Peeked
    <3>3. CASE f.order \notin cache
      <4>1. n < f.order
        BY <1>3, <3>1, <3>3, Zenon DEF CacheInv
      <4> QED
        BY <2>2, <4>1
    <3> QED
      BY <3>2, <3>3
  <2>4. CASE f.ext = "open"
    <3>1. f.order = active /\ 0 < f.order
      BY <1>10, <2>1, <2>4, Zenon DEF IInv, OrderInv, FilesInv
    <3>2. active # 0
      BY <3>1
    <3>3. active = sequence
      BY <3>2, Zenon DEF IInv, PhaseInv
    <3>4. n \in Pending
      BY <1>3, Zenon DEF CacheInv
    <3>5. n <= sequence
      BY <3>4, Zenon DEF IInv, FilesInv, Pending
    <3> QED
      BY <3>1, <3>3, <3>5, Zenon
  <2> QED
    BY <1>10, <2>3, <2>4
<1> QED
  BY <1>1, <1>2, <1>9, <1>10, MovedFiles, Zenon

LEMMA DamagedInv == ASSUME IInv, Damaged PROVE IInv'
<1> USE DEF Damaged, server, admission, client, bounds
<1>1. PICK n \in cache : /\ Peeked(n) /\ files' = Moved(files, n, "pending", "damaged")
                         /\ cache' = cache \ {n}
  BY Zenon
<1>2. /\ "damaged" \in Extensions /\ "damaged" \notin {"done", "inflight"}
      /\ "damaged" \notin {"open", "pending", "inflight"} /\ "damaged" # "inflight"
      /\ "pending" \notin {"recovered", "result"} /\ "damaged" \in {"damaged", "inflight"}
  BY Zenon DEF Extensions
<1>3. /\ files' \subseteq AllFiles /\ CacheInv'
      /\ \A g \in files' : g.ext # "damaged" => g \in files
      /\ \A f \in files : f.ext # "pending" => f \in files'
  BY <1>1, <1>2, Taken, Zenon
<1>4. pc = "peeked" /\ pc' = "idle" /\ mode = "up"
  BY <1>1, Zenon DEF Peeked
<1>5. TypeInv'
  BY <1>1, <1>3, Zenon DEF IInv, TypeInv
<1>6. PhaseInv'
  <2>1. PhaseInv
    BY Zenon DEF IInv
  <2>2. active # 0 => active = sequence /\ \E f \in files' : f.order = active /\ f.ext = "open"
    BY <1>3, <2>1, Zenon DEF PhaseInv
  <2>3. ASSUME NEW f \in files', f.ext = "inflight" PROVE FALSE
    BY <1>3, <1>4, <2>1, <2>3, Zenon DEF PhaseInv, Claimed
  <2> QED
    BY <1>4, <2>1, <2>2, <2>3, Zenon DEF PhaseInv, Claimed
<1>7. ToldInv'
  BY <1>1, <1>2, <1>4, MovedTold, Zenon
<1>8. rebuild' = NoFile
  BY <1>4, Zenon DEF IInv, PhaseInv
<1>9. Unsent' \subseteq Unsent
  BY <1>1, <1>2, <1>4, <1>8, MovedUnsent, Zenon
<1>10. faults' = 0 => \A f \in files' : f.ext = "open" => f.order = active'
  BY <1>3, <1>4, Zenon DEF IInv, OrderInv
<1>11. \A e \in confirmed' : executed[e] = 1
  BY Zenon DEF IInv, NothingLost
<1> QED
  BY <1>1, <1>2, <1>3, <1>4, <1>5, <1>6, <1>7, <1>8, <1>9, <1>10, <1>11, MoveStep, Zenon

LEMMA ClaimInv == ASSUME IInv, Claim PROVE IInv'
<1> USE DEF Claim, server, admission, client, bounds
<1>1. PICK n \in cache : /\ Peeked(n) /\ files' = Moved(files, n, "pending", "inflight")
                         /\ cache' = cache \ {n} /\ claim' = n
  BY Zenon
<1>2. /\ "inflight" \in Extensions /\ "inflight" \in {"damaged", "inflight"}
      /\ "pending" \notin {"recovered", "result"} /\ "pending" # "inflight"
  BY Zenon DEF Extensions
<1>3. /\ files' \subseteq AllFiles /\ CacheInv'
      /\ \A g \in files' : g.ext # "inflight" => g \in files
      /\ \A f \in files : f.ext # "pending" => f \in files'
      /\ faults = 0 => \A f \in files' : f.ext \in {"open", "pending"} => n <= f.order
  BY <1>1, <1>2, Taken, Zenon
<1>4. pc = "peeked" /\ pc' = "claimed" /\ mode = "up" /\ rebuild' = NoFile
  BY <1>1, Zenon DEF Peeked, IInv, PhaseInv
<1>5. TypeInv'
  BY <1>1, <1>3, Zenon DEF IInv, TypeInv
<1>6. \A f \in files : f.ext # "inflight"
  BY <1>4, Zenon DEF IInv, PhaseInv, Claimed
<1>7. files \subseteq AllFiles
  BY Zenon DEF IInv, TypeInv
<1>8. ASSUME NEW g \in files', g.ext = "inflight" PROVE g.order = n
  <2>1. PICK f \in files : MovedTo(f, g, n, "pending", "inflight")
    BY <1>1, <1>2, <1>7, MovedFiles, Zenon
  <2> QED
    BY <1>6, <1>8, <2>1, Zenon DEF MovedTo
<1>9. PICK f0 \in files : f0.order = n /\ f0.ext = "pending"
  BY <1>1, Zenon DEF IInv, CacheInv, Pending
<1>10. \E g \in files' : g.order = n /\ g.ext = "inflight"
  <2>1. PICK g \in files' : MovedTo(f0, g, n, "pending", "inflight")
    BY <1>1, <1>2, <1>7, MovedFiles, Zenon
  <2> QED
    BY <1>9, <2>1, Zenon DEF MovedTo
<1>11. PhaseInv'
  <2>1. PhaseInv
    BY Zenon DEF IInv
  <2>2. active # 0 => active = sequence /\ \E f \in files' : f.order = active /\ f.ext = "open"
    BY <1>3, <2>1, Zenon DEF PhaseInv
  <2> QED
    BY <1>1, <1>4, <1>8, <1>10, <2>1, <2>2, Zenon DEF PhaseInv, Claimed
<1>12. ToldInv'
  BY <1>3, <1>4, Zenon DEF IInv, ToldInv
<1>13. /\ \A f \in files : f.order = n /\ f.ext = "pending" => Part(f) \in Unsent
       /\ \E u \in Unsent : u.order = n
  BY <1>9, UnsentIs, PartFields, Zenon DEF Live
<1>14. Unsent' \subseteq Unsent
  BY <1>1, <1>2, <1>4, <1>6, <1>13, MovedUnsent, Zenon
<1>15. faults' = 0 => \A f \in files' : f.ext = "open" => f.order = active'
  BY <1>3, <1>4, Zenon DEF IInv, OrderInv
<1>16. \A e \in confirmed' : executed[e] = 1
  BY Zenon DEF IInv, NothingLost
<1>17. ASSUME faults' = 0, NEW u \in Unsent' PROVE claim' <= u.order
  <2>1. PICK g \in files' : Live(g)' /\ u = Part(g)
    BY <1>4, UnsentNext, Zenon
  <2>2. u.order = g.order
    BY <2>1, PartFields, Zenon
  <2>3. CASE g.ext \in {"open", "pending"}
    BY <1>1, <1>3, <1>17, <2>2, <2>3, Zenon
  <2>4. CASE g.ext = "inflight"
    <3>1. u.order = n /\ n \in Nat
      BY <1>8, <2>2, <2>4, Zenon DEF IInv, TypeInv
    <3> QED
      BY <1>1, <3>1
  <2> QED
    BY <2>1, <2>3, <2>4, Zenon DEF Live
<1> QED
  BY <1>1, <1>2, <1>3, <1>4, <1>5, <1>11, <1>12, <1>13, <1>14, <1>15, <1>16, <1>17, MoveStep,
     ZenonT(30)

LEMMA RecoverOpenInv == ASSUME IInv, RecoverOpen PROVE IInv'
<1> USE DEF RecoverOpen, server, admission, sender, client, bounds
<1>1. PICK f \in files :
        /\ f.ext = "open" /\ files' = Moved(files, f.order, "open", "recovered")
        /\ rebuild' = IF f.items = <<>> THEN NoFile
                      ELSE [f EXCEPT !.ext = "rebuild", !.torn = FALSE]
  BY Zenon
<1>2. /\ files \subseteq AllFiles /\ "recovered" \in Extensions /\ "open" # "recovered"
      /\ "pending" \notin {"open", "recovered"} /\ "recovered" \notin {"done", "inflight"}
      /\ "open" \notin {"recovered", "result"} /\ "recovered" # "inflight"
      /\ "recovered" \notin {"open", "pending", "inflight"}
  BY Zenon DEF IInv, TypeInv, Extensions
<1>3. mode' = "recovering" /\ pc' = "ended" /\ pc = "ended"
  BY Zenon DEF IInv, PhaseInv
<1>4. files' \subseteq AllFiles
  BY <1>1, <1>2, MovedFiles, Zenon
<1>5. /\ rebuild' \in AllFiles
      /\ rebuild' # NoFile => rebuild'.ext = "rebuild" /\ Part(rebuild') = Part(f)
  <2>1. f \in AllFiles
    BY <1>2, Zenon
  <2>2. CASE f.items = <<>>
    <3>1. rebuild' = NoFile
      BY <1>1, <2>2, Zenon
    <3> QED
      BY <3>1, NoFileType, Zenon
  <2>3. CASE f.items # <<>>
    <3>1. rebuild' = [f EXCEPT !.ext = "rebuild", !.torn = FALSE]
      BY <1>1, <2>3, Zenon
    <3>2. /\ rebuild' \in AllFiles /\ rebuild'.ext = "rebuild"
          /\ rebuild'.order = f.order /\ rebuild'.items = f.items
      BY <2>1, <3>1 DEF AllFiles, Extensions
    <3>3. Part(rebuild') = Part(f)
      BY <3>2, Zenon DEF Part
    <3> QED
      BY <3>2, <3>3
  <2> QED
    BY <2>2, <2>3
<1>6. rebuild' # NoFile => rebuild'.order = f.order
  BY <1>5, PartFields, Zenon
<1>7. 0 < f.order /\ f.order <= sequence
  BY Zenon DEF IInv, FilesInv
<1>8. TypeInv'
  BY <1>4, <1>5, Zenon DEF IInv, TypeInv
<1>9. PhaseInv'
  <2>1. rebuild' # NoFile => rebuild'.ext = "rebuild" /\ rebuild'.order > 0
    BY <1>5, <1>6, <1>7
  <2> QED
    BY <1>3, <2>1, Zenon DEF IInv, PhaseInv, Claimed
<1>10. ToldInv'
  BY <1>1, <1>2, <1>3, MovedTold, Zenon
<1>11. CacheInv'
  BY <1>1, <1>2, MovedCache, Zenon
<1>12. Part(f) \in Unsent
  BY <1>1, UnsentIs, Zenon DEF Live
<1>13. Unsent' \subseteq Unsent
  BY <1>1, <1>2, <1>3, <1>5, <1>12, MovedUnsent, Zenon
<1>14. ASSUME NEW g \in files', Main(g) PROVE g.order # f.order
  <2>1. PICK k \in files : MovedTo(k, g, f.order, "open", "recovered")
    BY <1>1, <1>2, MovedFiles, Zenon
  <2>2. k = g /\ ~(g.order = f.order /\ g.ext = "open")
    BY <1>14, <2>1, Zenon DEF MovedTo, Main
  <2> QED
    BY <1>1, <1>14, <2>2, Zenon DEF IInv, FilesInv, Main
<1>15. rebuild' # NoFile => /\ rebuild'.order <= sequence
                            /\ \A g \in files' : Main(g) => g.order # rebuild'.order
  BY <1>6, <1>7, <1>14, Zenon
<1>16. \A e \in confirmed' : executed[e] = 1
  BY Zenon DEF IInv, NothingLost
<1> QED
  BY <1>1, <1>2, <1>3, <1>8, <1>9, <1>10, <1>11, <1>13, <1>15, <1>16, MoveStep, ZenonT(30)

LEMMA WriteRecoveredInv == ASSUME IInv, WriteRecovered PROVE IInv'
<1> USE DEF WriteRecovered, server, admission, sender, client, bounds
<1>1. /\ mode = "recovering" /\ mode' = "recovering" /\ rebuild # NoFile /\ rebuild.ext = "rebuild"
      /\ pc' = "ended" /\ pc = "ended" /\ cache' = {} /\ cache = {}
  BY Zenon DEF IInv, PhaseInv
<1>2. /\ files \subseteq AllFiles /\ "pending" \in Extensions /\ "rebuild" # "pending"
      /\ "pending" \notin {"done", "inflight"} /\ "pending" # "inflight"
      /\ "rebuild" \notin {"recovered", "result"}
  BY Zenon DEF IInv, TypeInv, Extensions
<1>3. CacheInv'
  BY <1>1, Zenon DEF CacheInv
<1>4. \A e \in confirmed' : executed[e] = 1
  BY Zenon DEF IInv, NothingLost
<1>5. CASE rebuild \in files
  <2>1. files' = Moved(files, rebuild.order, "rebuild", "pending") /\ rebuild' = NoFile
    BY <1>5, Zenon
  <2>2. files' \subseteq AllFiles
    BY <1>2, <2>1, MovedFiles, Zenon
  <2>3. NoFile \in AllFiles
    BY NoFileType
  <2>4. TypeInv'
    BY <2>1, <2>2, <2>3, Zenon DEF IInv, TypeInv
  <2>5. PhaseInv'
    BY <1>1, <2>1, Zenon DEF IInv, PhaseInv, Claimed
  <2>6. ToldInv'
    BY <1>1, <1>2, <2>1, MovedTold, Zenon
  <2>7. ASSUME NEW f \in files, f.order = rebuild.order, f.ext = "rebuild" PROVE Part(f) \in Unsent
    <3>1. f = rebuild
      BY <1>1, <2>7, Zenon DEF IInv, FilesInv, Main
    <3> QED
      BY <1>1, <3>1, UnsentIs, Zenon
  <2>8. Unsent' \subseteq Unsent
    BY <1>1, <1>2, <2>1, <2>7, MovedUnsent, Zenon
  <2> QED
    BY <1>1, <1>2, <1>3, <1>4, <2>1, <2>4, <2>5, <2>6, <2>8, MoveStep, ZenonT(30)
<1>6. CASE rebuild \notin files
  <2>1. files' = files \cup {rebuild} /\ rebuild' = rebuild
    BY <1>6, Zenon
  <2>2. TypeInv'
    BY <2>1, Zenon DEF IInv, TypeInv
  <2>3. PhaseInv'
    BY <1>1, <2>1, Zenon DEF IInv, PhaseInv, Claimed
  <2>4. ToldInv'
    BY <1>1, <2>1, Zenon DEF IInv, ToldInv
  <2>5. FilesInv'
    <3>1. FilesInv /\ 0 < rebuild.order /\ rebuild.order <= sequence
      <4>1. FilesInv /\ rebuild.order > 0 /\ rebuild.order <= sequence
        BY <1>1, Zenon DEF IInv, FilesInv, PhaseInv
      <4> QED
        BY <4>1
    <3>2. \A f \in files : Main(f) /\ f.order = rebuild.order => f = rebuild
      BY <1>1, <3>1, Zenon DEF FilesInv
    <3>3. \A f \in files' : 0 < f.order /\ f.order <= sequence'
      BY <2>1, <3>1, Zenon DEF FilesInv
    <3>4. \A f, g \in files' : Main(f) /\ Main(g) /\ f.order = g.order => f = g
      BY <2>1, <3>1, <3>2, Zenon DEF FilesInv
    <3> QED
      BY <2>1, <3>1, <3>2, <3>3, <3>4, Zenon DEF FilesInv, Main
  <2>6. NothingLost'
    BY <2>1, Zenon DEF IInv, NothingLost
  <2>7. Unsent' \subseteq Unsent
    BY <1>1, <2>1, Zenon DEF Unsent, Live, Part, NoFile
  <2>8. \A g \in files' : g.ext = "inflight" => g \in files
    BY <1>1, <2>1, Zenon
  <2> QED
    BY <1>1, <1>3, <2>2, <2>3, <2>4, <2>5, <2>6, <2>7, <2>8, CalmStep, ZenonT(30)
<1> QED
  BY <1>5, <1>6

-----------------------------------------------------------------------------
(* Deleting a file that was executed, saving a result, and crashing. *)

LEMMA Deleted ==
    ASSUME IInv, NEW f \in files, f.ext = "done", files' = files \ {f},
           UNCHANGED <<mode, active, cache, claim, failed, rebuild, sequence, sent, executed, wire,
                       replies, events, admitted, confirmed, faults>>,
           mode = "up" => pc' = "idle" /\ pc = "done", mode # "up" => pc' = pc
    PROVE  IInv'
<1>1. TypeInv'
  BY Zenon DEF IInv, TypeInv
<1>2. PhaseInv'
  <2>1. PhaseInv
    BY Zenon DEF IInv
  <2>2. active # 0 => active = sequence /\ \E g \in files' : g.order = active /\ g.ext = "open"
    BY <2>1, Zenon DEF PhaseInv
  <2>3. pc' \notin Claimed /\ pc' # "done" /\ pc' # "accepted" /\ pc \notin Claimed
    BY <2>1, Zenon DEF PhaseInv, Claimed
  <2> QED
    BY <2>1, <2>2, <2>3, Zenon DEF PhaseInv, Claimed
<1>3. FilesInv'
  <2>1. FilesInv
    BY Zenon DEF IInv
  <2>2. \A g \in files' : 0 < g.order /\ g.order <= sequence'
    BY <2>1, Zenon DEF FilesInv
  <2>3. \A g, h \in files' : Main(g) /\ Main(h) /\ g.order = h.order => g = h
    BY <2>1, Zenon DEF FilesInv
  <2>4. rebuild' # NoFile => /\ rebuild'.order <= sequence'
                             /\ \A g \in files' : Main(g) /\ g.order = rebuild'.order => g = rebuild'
    BY <2>1, Zenon DEF FilesInv
  <2> QED
    BY <2>2, <2>3, <2>4, Zenon DEF FilesInv, Main
<1>4. ToldInv'
  <2>1. ToldInv /\ pc' \notin {"accepted", "partial", "saved"}
    BY Zenon DEF IInv, PhaseInv
  <2> QED
    BY <2>1, Zenon DEF ToldInv
<1>5. NothingLost'
  <2>1. NothingLost
    BY Zenon DEF IInv
  <2>2. ASSUME NEW e \in Range(f.items) PROVE executed[e] > 0
    <3>1. executed[e] = 1
      BY Zenon DEF IInv, ToldInv
    <3> QED
      BY <3>1
  <2>3. ASSUME NEW e \in admitted PROVE executed[e] > 0 \/ \E g \in files' : e \in Range(g.items)
    BY <2>1, <2>2, Zenon DEF NothingLost
  <2> QED
    BY <2>1, <2>3, Zenon DEF NothingLost
<1>6. CacheInv'
  <2>1. Pending' = Pending
    BY Zenon DEF Pending
  <2> QED
    BY <2>1, Zenon DEF IInv, CacheInv
<1>7. pc' # "claimed"
  BY Zenon DEF IInv, PhaseInv
<1>8. Unsent' \subseteq Unsent
  BY <1>7, Zenon DEF Unsent, Live, Part, NoFile
<1>9. faults' = 0 /\ mode' = "up" => \A g \in files' : g.ext = "open" => g.order = active'
  BY Zenon DEF IInv, OrderInv
<1> QED
  BY <1>1, <1>2, <1>3, <1>4, <1>5, <1>6, <1>7, <1>8, <1>9, CalmStep, ZenonT(30)

LEMMA RecoverDoneInv == ASSUME IInv, RecoverDone PROVE IInv'
<1>1. PICK f \in files : f.ext = "done" /\ files' = files \ {f}
  BY Zenon DEF RecoverDone, Delete
<1>2. mode = "recovering" /\ pc' = pc
  BY Zenon DEF RecoverDone, sender
<1> QED
  BY <1>1, <1>2, Deleted, Zenon DEF RecoverDone, server, admission, sender, client, bounds

LEMMA DeleteDoneInv == ASSUME IInv, DeleteDone PROVE IInv'
<1> USE DEF DeleteDone, server, admission, client
<1>1. CASE Delete(File(claim, "done")) /\ UNCHANGED faults
  <2>1. File(claim, "done") \in files /\ File(claim, "done").ext = "done"
    BY Zenon DEF IInv, PhaseInv, File
  <2> QED
    BY <1>1, <2>1, Deleted, Zenon DEF Delete
<1>2. CASE faults < MaxFaults /\ faults' = faults + 1 /\ UNCHANGED <<files, account>>
  <2>1. faults' \in Nat /\ faults' # 0
    BY <1>2 DEF IInv, TypeInv
  <2>2. TypeInv'
    BY <1>2, <2>1, Zenon DEF IInv, TypeInv
  <2>3. PhaseInv'
    BY <1>2, Zenon DEF IInv, PhaseInv, Claimed
  <2>4. ToldInv' /\ CacheInv'
    BY <1>2, QuietCache, QuietTold, Zenon
  <2>5. events <= events'
    BY DEF IInv, TypeInv
  <2> QED
    BY <1>2, <2>1, <2>2, <2>3, <2>4, <2>5, QuietStep, ZenonT(30)
<1> QED
  BY <1>1, <1>2, Zenon

LEMMA SaveResultInv == ASSUME IInv, SaveResult \/ SaveResultFails PROVE IInv'
<1> DEFINE res == [NoFile EXCEPT !.order = claim, !.ext = "result"]
<1>1. res \in AllFiles /\ res.order = claim /\ res.ext = "result"
  <2>1. claim \in Nat
    BY Zenon DEF IInv, TypeInv
  <2> QED
    BY <2>1, NoFileType DEF AllFiles, Extensions
<1>2. /\ files' = files \cup {res} /\ pc = "partial" /\ pc' \in {"saved", "unsaved"}
      /\ mode = "up" /\ rebuild = NoFile
      /\ UNCHANGED <<sequence, wire, replies, executed, mode, active, cache, claim, failed,
                     rebuild, events, admitted, sent, confirmed>>
  BY ZenonT(30) DEF IInv, PhaseInv, SaveResult, SaveResultFails, server, admission, client
<1>13. faults' \in Nat /\ (faults' = 0 => faults = 0)
  <2>1. faults \in Nat /\ faults' \in {faults, faults + 1}
    BY Zenon DEF IInv, TypeInv, SaveResult, SaveResultFails, bounds
  <2> QED
    BY <2>1
<1> HIDE DEF res
<1>3. TypeInv'
  BY <1>1, <1>2, <1>13, Zenon DEF IInv, TypeInv
<1>4. PICK f0 \in files : f0.order = claim /\ f0.ext = "inflight"
  BY <1>2, Zenon DEF IInv, PhaseInv, Claimed
<1>5. PhaseInv'
  <2>1. PhaseInv
    BY Zenon DEF IInv
  <2>2. active # 0 => active = sequence /\ \E g \in files' : g.order = active /\ g.ext = "open"
    BY <1>2, <2>1, Zenon DEF PhaseInv
  <2>3. \A g \in files' : g.ext = "inflight" => g.order = claim
    BY <1>1, <1>2, <2>1, Zenon DEF PhaseInv
  <2> QED
    BY <1>2, <1>4, <2>2, <2>3, Zenon DEF PhaseInv, Claimed
<1>6. FilesInv'
  <2>1. FilesInv /\ ~Main(res)
    BY <1>1, Zenon DEF IInv, Main
  <2>2. \A g \in files' : 0 < g.order /\ g.order <= sequence'
    BY <1>1, <1>2, <1>4, <2>1, Zenon DEF FilesInv
  <2>3. \A g, h \in files' : Main(g) /\ Main(h) /\ g.order = h.order => g = h
    BY <1>2, <2>1, Zenon DEF FilesInv
  <2> QED
    BY <1>2, <2>2, <2>3, Zenon DEF FilesInv, Main
<1>7. ToldInv'
  BY <1>1, <1>2, Zenon DEF IInv, ToldInv
<1>8. NothingLost'
  BY <1>2, Zenon DEF IInv, NothingLost
<1>9. CacheInv'
  <2>1. Pending' = Pending
    BY <1>1, <1>2, Zenon DEF Pending
  <2> QED
    BY <1>2, <2>1, Zenon DEF IInv, CacheInv
<1>10. Unsent' \subseteq Unsent
  BY <1>1, <1>2, Zenon DEF Unsent, Live, Part, NoFile
<1>11. \A g \in files' : g.ext \in {"inflight", "open"} => g \in files
  BY <1>1, <1>2, Zenon
<1>12. faults' = 0 /\ mode' = "up" => \A g \in files' : g.ext = "open" => g.order = active'
  BY <1>2, <1>11, <1>13, Zenon DEF IInv, OrderInv
<1> QED
  BY <1>13, <1>2, <1>3, <1>5, <1>6, <1>7, <1>8, <1>9, <1>10, <1>11, <1>12, CalmStep, ZenonT(30)

\* A frame that was not written to its end does not change the events of its file.
LEMMA CrashInv == ASSUME IInv, Crash PROVE IInv'
<1>1. /\ mode' = "down" /\ pc' = "ended" /\ active' = 0 /\ cache' = {} /\ claim' = 0
      /\ rebuild' = NoFile /\ replies' = {}
      /\ UNCHANGED <<sequence, wire, executed, events, admitted, sent, confirmed, faults>>
  BY Zenon DEF Crash, Forget, client
<1>2. CacheInv' /\ PhaseInv'
  BY <1>1, Zenon DEF CacheInv, PhaseInv, Claimed
<1>3. CASE UNCHANGED files
  <2>1. TypeInv'
    BY <1>1, <1>3, NoFileType, Zenon DEF IInv, TypeInv
  <2>2. Unsent' \subseteq Unsent
    BY <1>1, <1>3, Zenon DEF Unsent, Live, Part, NoFile
  <2>3. ToldInv'
    BY <1>1, <1>3, Zenon DEF IInv, ToldInv
  <2>4. NothingLost'
    BY <1>1, <1>3, Zenon DEF IInv, NothingLost
  <2>5. FilesInv'
    BY <1>1, <1>3, Zenon DEF IInv, FilesInv
  <2> QED
    BY <1>1, <1>2, <1>3, <2>1, <2>2, <2>3, <2>4, <2>5, CalmStep, ZenonT(30)
<1>4. CASE /\ active # 0
           /\ files' = (files \ {File(active, "open")})
                         \cup {[File(active, "open") EXCEPT !.torn = TRUE]}
  <2> DEFINE f == File(active, "open")
             t == [f EXCEPT !.torn = TRUE]
  <2>1. f \in files /\ f.order = active /\ f.ext = "open"
    BY <1>4, Zenon DEF IInv, PhaseInv, File
  <2>2. files \subseteq AllFiles
    BY Zenon DEF IInv, TypeInv
  <2>3. t \in AllFiles /\ t.order = f.order /\ t.ext = f.ext /\ t.items = f.items
    BY <2>1, <2>2 DEF AllFiles
  <2>4. files' = (files \ {f}) \cup {t}
    BY <1>4, Zenon
  <2> HIDE DEF f, t
  <2>5. TypeInv'
    <3>1. files' \subseteq AllFiles
      BY <2>2, <2>3, <2>4, Zenon
    <3> QED
      BY <1>1, <3>1, NoFileType, Zenon DEF IInv, TypeInv
  <2>6. ASSUME NEW g \in files'
        PROVE  \E k \in files : /\ g.order = k.order /\ g.ext = k.ext /\ g.items = k.items
                                /\ g = IF k = f THEN t ELSE k
    <3>1. CASE g = t
      <4>1. g = IF f = f THEN t ELSE f
        BY <3>1, Zenon
      <4> QED
        BY <2>1, <2>3, <3>1, <4>1, Zenon
    <3>2. CASE g # t
      <4>1. g \in files /\ g # f
        BY <2>4, <3>2, Zenon
      <4>2. g = IF g = f THEN t ELSE g
        BY <4>1, Zenon
      <4> QED
        BY <4>1, <4>2, Zenon
    <3> QED
      BY <3>1, <3>2
  <2>7. FilesInv'
    <3>1. FilesInv
      BY Zenon DEF IInv
    <3>2. ASSUME NEW g \in files' PROVE 0 < g.order /\ g.order <= sequence'
      BY <1>1, <2>6, <3>1, Zenon DEF FilesInv
    <3>3. ASSUME NEW g \in files', NEW h \in files', Main(g), Main(h), g.order = h.order
          PROVE  g = h
      <4>1. PICK k \in files : /\ g.order = k.order /\ g.ext = k.ext
                               /\ g = IF k = f THEN t ELSE k
        BY <2>6, Zenon
      <4>2. PICK l \in files : /\ h.order = l.order /\ h.ext = l.ext
                               /\ h = IF l = f THEN t ELSE l
        BY <2>6, Zenon
      <4>3. k = l
        BY <3>1, <3>3, <4>1, <4>2, Zenon DEF FilesInv, Main
      <4> QED
        BY <4>1, <4>2, <4>3, Zenon
    <3> QED
      BY <1>1, <3>2, <3>3, Zenon DEF FilesInv, Main
  <2>8. ToldInv'
    BY <1>1, <2>1, <2>3, <2>4, Zenon DEF IInv, ToldInv
  <2>9. NothingLost'
    BY <1>1, <2>3, <2>4, Zenon DEF IInv, NothingLost
  <2>10. ASSUME NEW u \in Unsent' PROVE u \in Unsent
    <3>1. PICK g \in files' : Live(g)' /\ u = Part(g)
      BY <1>1, UnsentNext, Zenon
    <3>2. PICK k \in files : g.order = k.order /\ g.ext = k.ext /\ g.items = k.items
      BY <2>6, Zenon
    <3>3. Live(k) /\ u = Part(k)
      BY <1>1, <3>1, <3>2, Zenon DEF Live, Part
    <3> QED
      BY <3>3, UnsentIs, Zenon
  <2>11. \A g \in files' : g.ext = "inflight" => g \in files
    BY <2>1, <2>3, <2>4, Zenon
  <2> QED
    BY <1>1, <1>2, <2>5, <2>7, <2>8, <2>9, <2>10, <2>11, CalmStep, ZenonT(30)
<1> QED
  BY <1>3, <1>4, Zenon DEF Crash

-----------------------------------------------------------------------------
(* The request on the wire. *)

LEMMA ServerExecuteInv == ASSUME IInv, ServerExecute PROVE IInv'
<1>1. PICK m \in wire, refused \in SUBSET (1..MaxEvents), applied \in SUBSET (1..MaxEvents) :
        /\ refused \subseteq m.items /\ applied \subseteq refused
        /\ wire' = wire \ {m}
        /\ replies' = replies \cup {[order |-> m.order, failed |-> refused]}
        /\ executed' = [e \in 1..MaxEvents |->
              executed[e] + IF e \in (m.items \ refused) \cup applied THEN 1 ELSE 0]
  BY Zenon DEF ServerExecute
<1>2. UNCHANGED <<files, sequence, mode, active, cache, pc, claim, failed, rebuild, events,
                  admitted, sent, confirmed, faults>>
  BY Zenon DEF ServerExecute, admission, sender, client, bounds
<1>3. TypeInv /\ PhaseInv /\ FilesInv /\ UnsentInv /\ WireInv /\ ToldInv /\ NothingLost
      /\ CacheInv /\ OrderInv
  BY Zenon DEF IInv
<1>4. /\ m.items \subseteq 1..MaxEvents /\ m.items \subseteq Range(sent) /\ m.order <= sequence
      /\ \A e \in m.items : executed[e] = 0
      /\ \A u \in Unsent : u.order # m.order
  BY <1>3, Zenon DEF TypeInv, WireInv
<1>5. ASSUME NEW e \in 1..MaxEvents
      PROVE  /\ executed'[e] \in Nat
             /\ e \notin m.items => executed'[e] = executed[e]
             /\ e \in m.items => executed'[e] \in {0, 1}
             /\ e \in m.items \ refused => executed'[e] = 1
  <2>1. executed[e] \in Nat
    BY <1>3 DEF TypeInv
  <2>2. executed'[e] = executed[e] + IF e \in (m.items \ refused) \cup applied THEN 1 ELSE 0
    BY <1>1, Zenon
  <2>3. CASE e \notin m.items
    <3>1. e \notin (m.items \ refused) \cup applied
      BY <1>1, <2>3, Zenon
    <3>2. executed'[e] = executed[e] + 0
      BY <2>2, <3>1, Zenon
    <3> QED
      BY <2>1, <2>3, <3>2
  <2>4. CASE e \in m.items
    <3>1. executed[e] = 0
      BY <1>4, <2>4, Zenon
    <3>2. CASE e \in (m.items \ refused) \cup applied
      <4>1. executed'[e] = 0 + 1
        BY <2>2, <3>1, <3>2, Zenon
      <4> QED
        BY <2>4, <4>1
    <3>3. CASE e \notin (m.items \ refused) \cup applied
      <4>1. executed'[e] = 0 + 0
        BY <2>2, <3>1, <3>3, Zenon
      <4>2. e \in refused
        BY <2>4, <3>3, Zenon
      <4> QED
        BY <2>4, <4>1, <4>2
    <3> QED
      BY <3>2, <3>3
  <2> QED
    BY <2>3, <2>4
<1>6. executed' \in [1..MaxEvents -> Nat]
  <2>1. \A e \in 1..MaxEvents :
          executed[e] + (IF e \in (m.items \ refused) \cup applied THEN 1 ELSE 0) \in Nat
    BY <1>3 DEF TypeInv
  <2> QED
    BY <1>1, <2>1, Zenon
<1>7. \A e \in 1..MaxEvents : executed[e] = 1 => executed'[e] = 1
  <2>1. ASSUME NEW e \in 1..MaxEvents, executed[e] = 1 PROVE executed'[e] = 1
    <3>1. e \notin m.items
      <4>1. CASE e \in m.items
        <5>1. executed[e] = 0
          BY <1>4, <4>1, Zenon
        <5> QED
          BY <2>1, <5>1
      <4> QED
        BY <4>1
    <3> QED
      BY <1>5, <2>1, <3>1, Zenon
  <2> QED
    BY <2>1
<1>8. Unsent' = Unsent
  BY <1>2, Zenon DEF Unsent, Live, Part, NoFile
<1>9. TypeInv'
  <2>1. [order |-> m.order, failed |-> refused] \in [order: Nat, failed: SUBSET (1..MaxEvents)]
    BY <1>3, Zenon DEF TypeInv
  <2>2. replies' \subseteq [order: Nat, failed: SUBSET (1..MaxEvents)]
    BY <1>1, <1>3, <2>1, Zenon DEF TypeInv
  <2> QED
    BY <1>1, <1>2, <1>3, <1>6, <2>2, Zenon DEF TypeInv
<1>10. PhaseInv'
  BY <1>2, <1>3, Zenon DEF PhaseInv
<1>11. FilesInv'
  BY <1>2, <1>3, Zenon DEF FilesInv
<1>12. CacheInv'
  BY <1>2, QuietCache, Zenon
<1>13. UnsentInv'
  BY <1>2, <1>3, <1>8, Zenon DEF UnsentInv
<1>14. OrderInv'
  BY <1>2, <1>3, <1>8, Zenon DEF OrderInv
<1>15. \A f \in files : Range(f.items) \subseteq 1..MaxEvents
  BY <1>3, ItemsType, Zenon DEF TypeInv
<1>16. ToldInv'
  <2>1. ASSUME NEW f \in files, f.order = claim, f.ext = "inflight",
               pc \in {"accepted", "partial", "saved"}, NEW e \in Range(f.items) \ failed
        PROVE  executed'[e] = 1
    <3>1. executed[e] = 1 /\ e \in 1..MaxEvents
      BY <1>3, <1>15, <2>1, Zenon DEF ToldInv
    <3> QED
      BY <1>7, <3>1, Zenon
  <2>2. ASSUME NEW f \in files, f.ext = "done", NEW e \in Range(f.items) PROVE executed'[e] = 1
    <3>1. executed[e] = 1 /\ e \in 1..MaxEvents
      BY <1>3, <1>15, <2>2, Zenon DEF ToldInv
    <3> QED
      BY <1>7, <3>1, Zenon
  <2> QED
    BY <1>2, <2>1, <2>2, Zenon DEF ToldInv
<1>17. NothingLost'
  <2>1. ASSUME NEW e \in admitted PROVE executed'[e] > 0 \/ \E f \in files : e \in Range(f.items)
    <3>1. e \in 1..MaxEvents
      <4>1. e \in 1..events /\ events \in Nat /\ events <= MaxEvents
        BY <1>3, Zenon DEF TypeInv
      <4> QED
        BY <4>1, JournalAssumption
    <3>2. CASE executed[e] > 0
      <4>1. executed[e] \in Nat /\ executed[e] <= 1
        BY <1>3, <3>1, Zenon DEF TypeInv, WireInv
      <4>2. executed[e] = 1
        BY <3>2, <4>1
      <4>3. executed'[e] = 1
        BY <1>7, <3>1, <4>2, Zenon
      <4> QED
        BY <4>3
    <3> QED
      BY <1>3, <3>2, Zenon DEF NothingLost
  <2>2. \A e \in confirmed : executed'[e] = 1
    BY <1>3, <1>7, Zenon DEF TypeInv, NothingLost
  <2> QED
    BY <1>2, <2>1, <2>2, Zenon DEF NothingLost
<1> DEFINE rep == [order |-> m.order, failed |-> refused]
<1>18. rep.order = m.order /\ rep.failed = refused /\ replies' = replies \cup {rep}
  BY <1>1, Zenon
<1> HIDE DEF rep
<1>19. ASSUME NEW o \in wire'
       PROVE  /\ o.items \subseteq Range(sent) /\ o.order <= sequence
              /\ \A e \in o.items : executed'[e] = 0
              /\ \A f \in files : f.order = o.order /\ f.ext = "inflight"
                                    => Range(f.items) \subseteq o.items
              /\ \A u \in Unsent : u.order # o.order
  <2>1. o \in wire /\ o # m
    BY <1>1, Zenon
  <2>2. \A e \in o.items : e \in 1..MaxEvents /\ e \notin m.items /\ executed[e] = 0
    BY <1>3, <2>1, Zenon DEF TypeInv, WireInv
  <2>3. ASSUME NEW e \in o.items PROVE executed'[e] = 0
    <3>1. e \in 1..MaxEvents /\ e \notin m.items /\ executed[e] = 0
      BY <2>2, Zenon
    <3> QED
      BY <1>5, <3>1, Zenon
  <2> QED
    BY <1>3, <2>1, <2>3, Zenon DEF WireInv
<1>20. \A o, p \in wire' : o # p => o.items \cap p.items = {}
  BY <1>1, <1>3, Zenon DEF WireInv
<1>21. ASSUME NEW e \in 1..MaxEvents
       PROVE  executed'[e] <= 1 /\ (executed'[e] = 1 => e \in Range(sent))
  <2>1. CASE e \in m.items
    BY <1>4, <1>5, <2>1
  <2>2. CASE e \notin m.items
    BY <1>3, <1>5, <2>2, Zenon DEF WireInv
  <2> QED
    BY <2>1, <2>2
<1>22. ASSUME NEW r \in replies'
       PROVE  /\ r.order <= sequence
              /\ \A f \in files : f.order = r.order /\ f.ext = "inflight"
                   => \A e \in Range(f.items) \ r.failed : executed'[e] = 1
              /\ \A u \in Unsent : u.order # r.order
  <2>1. CASE r \in replies
    <3>1. ASSUME NEW f \in files, f.order = r.order, f.ext = "inflight",
                 NEW e \in Range(f.items) \ r.failed
          PROVE  executed'[e] = 1
      <4>1. executed[e] = 1 /\ e \in 1..MaxEvents
        BY <1>3, <1>15, <2>1, <3>1, Zenon DEF WireInv
      <4> QED
        BY <1>7, <4>1, Zenon
    <3> QED
      BY <1>3, <2>1, <3>1, Zenon DEF WireInv
  <2>2. CASE r = rep
    <3>1. ASSUME NEW f \in files, f.order = m.order, f.ext = "inflight",
                 NEW e \in Range(f.items) \ refused
          PROVE  executed'[e] = 1
      <4>1. e \in m.items \ refused /\ e \in 1..MaxEvents
        BY <1>3, <1>15, <3>1, Zenon DEF WireInv
      <4> QED
        BY <1>5, <4>1, Zenon
    <3>2. r.order = m.order /\ r.failed = refused
      BY <1>18, <2>2, Zenon
    <3>3. \A u \in Unsent : u.order # m.order
      BY <1>4, Zenon
    <3>4. ASSUME NEW f \in files, f.order = r.order, f.ext = "inflight",
                 NEW e \in Range(f.items) \ r.failed
          PROVE  executed'[e] = 1
      <4>1. f.order = m.order /\ e \in Range(f.items) \ refused
        BY <3>2, <3>4, Zenon
      <4> QED
        BY <3>1, <3>4, <4>1, Zenon
    <3>5. r.order <= sequence /\ \A u \in Unsent : u.order # r.order
      BY <1>4, <3>2, <3>3, Zenon
    <3> QED
      BY <3>4, <3>5, Zenon
  <2> QED
    BY <1>18, <2>1, <2>2, Zenon
<1>23. WireInv'
  BY <1>2, <1>8, <1>19, <1>20, <1>21, <1>22, Zenon DEF WireInv
<1> QED
  BY <1>9, <1>10, <1>11, <1>12, <1>13, <1>14, <1>16, <1>17, <1>23, ZenonT(30) DEF IInv

LEMMA Concat ==
    ASSUME NEW S, NEW s \in Seq(S), NEW t \in Seq(S)
    PROVE  /\ s \o t \in Seq(S) /\ Range(s \o t) = Range(s) \cup Range(t)
           /\ Ascending(s) /\ Ascending(t) /\ Before(s, t) => Ascending(s \o t)
           /\ \A u : Before(s, u) /\ Before(t, u) => Before(s \o t, u)
<1> DEFINE c == s \o t
<1>1. /\ c \in Seq(S) /\ DOMAIN c = 1..(Len(s) + Len(t)) /\ Len(s) \in Nat /\ Len(t) \in Nat
      /\ DOMAIN s = 1..Len(s) /\ DOMAIN t = 1..Len(t)
  OBVIOUS
<1>2. \A i \in DOMAIN c : \/ i \in DOMAIN s /\ c[i] = s[i]
                          \/ i - Len(s) \in DOMAIN t /\ c[i] = t[i - Len(s)]
  BY <1>1
<1>3. \A i \in DOMAIN s : i \in DOMAIN c /\ c[i] = s[i]
  BY <1>1
<1>4. \A i \in DOMAIN t : i + Len(s) \in DOMAIN c /\ c[i + Len(s)] = t[i]
  BY <1>1
<1> HIDE DEF c
<1>5. Range(c) = Range(s) \cup Range(t)
  <2>1. \A x : x \in Range(c) => x \in Range(s) \/ x \in Range(t)
    BY <1>2, Zenon DEF Range
  <2>2. \A x : x \in Range(s) \/ x \in Range(t) => x \in Range(c)
    BY <1>3, <1>4, Zenon DEF Range
  <2> QED
    BY <2>1, <2>2, Zenon
<1>6. ASSUME Ascending(s), Ascending(t), Before(s, t) PROVE Ascending(c)
  <2>1. ASSUME NEW i \in DOMAIN c, NEW j \in DOMAIN c, i < j PROVE c[i] < c[j]
    <3>1. CASE i \in DOMAIN s /\ c[i] = s[i] /\ j \in DOMAIN s /\ c[j] = s[j]
      <4>1. s[i] < s[j]
        BY <1>6, <2>1, <3>1, Zenon DEF Ascending
      <4> QED
        BY <3>1, <4>1, Zenon
    <3>2. CASE i \in DOMAIN s /\ c[i] = s[i] /\ j - Len(s) \in DOMAIN t /\ c[j] = t[j - Len(s)]
      <4>1. s[i] < t[j - Len(s)]
        BY <1>6, <3>2, Zenon DEF Before
      <4> QED
        BY <3>2, <4>1, Zenon
    <3>3. CASE /\ i - Len(s) \in DOMAIN t /\ c[i] = t[i - Len(s)]
               /\ j - Len(s) \in DOMAIN t /\ c[j] = t[j - Len(s)]
      <4>1. i - Len(s) < j - Len(s)
        BY <1>1, <2>1
      <4>2. t[i - Len(s)] < t[j - Len(s)]
        BY <1>6, <3>3, <4>1, Zenon DEF Ascending
      <4> QED
        BY <3>3, <4>2, Zenon
    <3>4. ~(i - Len(s) \in DOMAIN t /\ j \in DOMAIN s)
      BY <1>1, <2>1
    <3> QED
      BY <1>2, <3>1, <3>2, <3>3, <3>4, Zenon
  <2> QED
    BY <2>1, Zenon DEF Ascending
<1>7. ASSUME NEW u, Before(s, u), Before(t, u) PROVE Before(c, u)
  <2>1. ASSUME NEW i \in DOMAIN c, NEW j \in DOMAIN u PROVE c[i] < u[j]
    <3>1. CASE i \in DOMAIN s /\ c[i] = s[i]
      <4>1. s[i] < u[j]
        BY <1>7, <3>1, Zenon DEF Before
      <4> QED
        BY <3>1, <4>1, Zenon
    <3>2. CASE i - Len(s) \in DOMAIN t /\ c[i] = t[i - Len(s)]
      <4>1. t[i - Len(s)] < u[j]
        BY <1>7, <3>2, Zenon DEF Before
      <4> QED
        BY <3>2, <4>1, Zenon
    <3> QED
      BY <1>2, <3>1, <3>2, Zenon
  <2> QED
    BY <2>1, Zenon DEF Before
<1> QED
  BY <1>1, <1>5, <1>6, <1>7, Zenon DEF c

LEMMA BeforeDisjoint ==
    ASSUME NEW s, NEW t, Before(s, t), Range(s) \subseteq Int
    PROVE  Range(s) \cap Range(t) = {}
<1>1. ASSUME NEW x \in Range(s), x \in Range(t) PROVE FALSE
  <2>1. PICK i \in DOMAIN s : s[i] = x
    BY Zenon DEF Range
  <2>2. PICK j \in DOMAIN t : t[j] = x
    BY <1>1, Zenon DEF Range
  <2>3. x < x
    BY <2>1, <2>2, Zenon DEF Before
  <2> QED
    BY <2>3
<1> QED
  BY <1>1, Zenon

LEMMA TransmitInv == ASSUME IInv, Transmit PROVE IInv'
<1> DEFINE f == File(claim, "inflight")
           m0 == [order |-> claim, items |-> Range(f.items)]
<1>1. /\ mode = "up" /\ pc = "claimed" /\ pc' = "sent"
      /\ wire' = wire \cup {m0} /\ sent' = sent \o f.items
      /\ UNCHANGED <<files, sequence, replies, executed, mode, active, cache, claim, failed, rebuild,
                     events, admitted, confirmed, faults>>
  BY Zenon DEF Transmit, Items, admission, client, bounds
<1>2. TypeInv /\ PhaseInv /\ FilesInv /\ UnsentInv /\ WireInv /\ ToldInv /\ NothingLost
      /\ CacheInv /\ OrderInv
  BY Zenon DEF IInv
<1>3. f \in files /\ f.order = claim /\ f.ext = "inflight"
  BY <1>1, ClaimFile, Zenon DEF Claimed
<1>4. rebuild = NoFile /\ claim \in Nat /\ claim <= sequence /\ files \subseteq AllFiles
  BY <1>1, <1>2, <1>3, Zenon DEF TypeInv, PhaseInv, FilesInv
<1>5. f.items \in Seq(1..MaxEvents) /\ Range(f.items) \subseteq 1..MaxEvents
  BY <1>3, <1>4, ItemsType, Zenon
<1>6. m0.order = claim /\ m0.items = Range(f.items)
  BY Zenon
<1>7. Part(f) \in Unsent /\ Part(f).order = claim /\ Part(f).items = f.items
  BY <1>1, <1>3, UnsentIs, PartFields, Zenon DEF Live
<1> HIDE DEF f, m0
<1>8. ASSUME NEW u \in Unsent'
      PROVE  u \in Unsent /\ u.order # claim /\ u.order \in Nat
  <2>1. PICK g \in files : Live(g)' /\ u = Part(g)
    BY <1>1, <1>4, UnsentNext, Zenon
  <2>2. g.ext \in {"open", "pending"}
    BY <1>1, <2>1, Zenon DEF Live
  <2>3. u.order = g.order /\ g.order \in Nat
    BY <1>4, <2>1, PartFields, Zenon DEF AllFiles
  <2>4. g.order # claim
    BY <1>2, <1>3, <2>2, Zenon DEF FilesInv, Main
  <2>5. u \in Unsent
    BY <2>1, <2>2, UnsentIs, Zenon DEF Live
  <2> QED
    BY <2>3, <2>4, <2>5, Zenon
<1>9. sent \in Seq(1..MaxEvents) /\ sent' \in Seq(1..MaxEvents)
      /\ Range(sent') = Range(sent) \cup Range(f.items)
  <2>1. sent \in Seq(1..MaxEvents)
    BY <1>2, Zenon DEF TypeInv
  <2>2. sent \o f.items \in Seq(1..MaxEvents)
    BY <1>5, <2>1, Concat, Zenon
  <2>3. Range(sent \o f.items) = Range(sent) \cup Range(f.items)
    BY <1>5, <2>1, Concat
  <2> QED
    BY <1>1, <2>1, <2>2, <2>3
<1>10. TypeInv'
  <2>1. m0 \in [order: Nat, items: SUBSET (1..MaxEvents)]
    BY <1>4, <1>5, Zenon DEF m0
  <2> QED
    BY <1>1, <1>2, <1>9, <2>1, Zenon DEF TypeInv
<1>11. PhaseInv'
  BY <1>1, <1>2, <1>3, Zenon DEF PhaseInv, Claimed
<1>12. FilesInv'
  BY <1>1, <1>2, Zenon DEF FilesInv
<1>13. ToldInv'
  BY <1>1, <1>2, Zenon DEF ToldInv
<1>14. NothingLost'
  BY <1>1, <1>2, Zenon DEF NothingLost
<1>15. CacheInv'
  BY <1>1, QuietCache, Zenon
<1>16. Range(f.items) \cap Range(sent) = {} /\ Ascending(f.items) /\ Range(f.items) \subseteq Int
  <2>1. 1..MaxEvents \subseteq Int
    OBVIOUS
  <2> QED
    BY <1>2, <1>5, <1>7, <2>1, Zenon DEF UnsentInv
<1>17. UnsentInv'
  <2>1. ASSUME NEW u \in Unsent'
        PROVE  /\ Ascending(u.items) /\ Range(u.items) \subseteq 1..events
               /\ Range(u.items) \cap Range(sent') = {}
    <3>1. /\ Ascending(u.items) /\ Range(u.items) \subseteq 1..events
          /\ Range(u.items) \cap Range(sent) = {}
      BY <1>2, <1>8, Zenon DEF UnsentInv
    <3>2. Range(u.items) \subseteq Int
      BY <3>1
    <3>3. CASE u.order < claim
      <4>1. Before(u.items, f.items)
        BY <1>2, <1>7, <1>8, <3>3, Zenon DEF UnsentInv
      <4>2. Range(u.items) \cap Range(f.items) = {}
        BY <3>2, <4>1, BeforeDisjoint, Zenon
      <4> QED
        BY <1>9, <3>1, <4>2, Zenon
    <3>4. CASE claim < u.order
      <4>1. Before(f.items, u.items)
        BY <1>2, <1>7, <1>8, <3>4, Zenon DEF UnsentInv
      <4>2. Range(f.items) \cap Range(u.items) = {}
        BY <1>16, <4>1, BeforeDisjoint, Zenon
      <4> QED
        BY <1>9, <3>1, <4>2, Zenon
    <3>5. u.order < claim \/ claim < u.order
      BY <1>4, <1>8
    <3> QED
      BY <3>3, <3>4, <3>5
  <2>2. \A u, v \in Unsent' : u.order < v.order => Before(u.items, v.items)
    BY <1>2, <1>8, Zenon DEF UnsentInv
  <2>3. Range(sent') \subseteq 1..events
    BY <1>2, <1>7, <1>9, Zenon DEF UnsentInv
  <2> QED
    BY <1>1, <2>1, <2>2, <2>3, Zenon DEF UnsentInv, Ascending, Before
<1>18. WireInv'
  <2>1. ASSUME NEW m \in wire
        PROVE  /\ m.items \subseteq Range(sent') /\ m.order <= sequence
               /\ \A e \in m.items : executed[e] = 0
               /\ \A g \in files : g.order = m.order /\ g.ext = "inflight"
                                     => Range(g.items) \subseteq m.items
               /\ \A u \in Unsent' : u.order # m.order
               /\ m.items \cap m0.items = {}
    <3>1. /\ m.items \subseteq Range(sent) /\ m.order <= sequence
          /\ \A e \in m.items : executed[e] = 0
          /\ \A g \in files : g.order = m.order /\ g.ext = "inflight"
                                => Range(g.items) \subseteq m.items
          /\ \A u \in Unsent : u.order # m.order
      BY <1>2, Zenon DEF WireInv
    <3>2. m.items \subseteq Range(sent') /\ m.items \cap m0.items = {}
      BY <1>6, <1>9, <1>16, <3>1, Zenon
    <3> QED
      BY <1>8, <3>1, <3>2, Zenon
  <2>2. /\ m0.items \subseteq Range(sent') /\ m0.order <= sequence
        /\ \A e \in m0.items : executed[e] = 0
        /\ \A g \in files : g.order = m0.order /\ g.ext = "inflight"
                              => Range(g.items) \subseteq m0.items
        /\ \A u \in Unsent' : u.order # m0.order
    <3>1. m0.items \subseteq Range(sent') /\ m0.order <= sequence
      BY <1>4, <1>6, <1>9, Zenon
    <3>2. ASSUME NEW e \in Range(f.items) PROVE executed[e] = 0
      <4>1. e \in 1..MaxEvents /\ e \notin Range(sent)
        BY <1>5, <1>16, Zenon
      <4>2. executed[e] \in Nat /\ executed[e] <= 1 /\ executed[e] # 1
        BY <1>2, <4>1, Zenon DEF TypeInv, WireInv
      <4> QED
        BY <4>2
    <3>3. ASSUME NEW g \in files, g.order = claim, g.ext = "inflight" PROVE g = f
      BY <1>2, <1>3, <3>3, Zenon DEF FilesInv, Main
    <3> QED
      BY <1>6, <1>8, <3>1, <3>2, <3>3, Zenon
  <2>3. \A m, o \in wire' : m # o => m.items \cap o.items = {}
    <3>1. ASSUME NEW m \in wire', NEW o \in wire', m # o PROVE m.items \cap o.items = {}
      <4>1. CASE m \in wire /\ o \in wire
        BY <1>2, <3>1, <4>1, Zenon DEF WireInv
      <4>2. CASE m \in wire /\ o = m0
        BY <2>1, <4>2, Zenon
      <4>3. CASE o \in wire /\ m = m0
        BY <2>1, <4>3, Zenon
      <4> QED
        BY <1>1, <3>1, <4>1, <4>2, <4>3, Zenon
    <3> QED
      BY <3>1
  <2>4. \A e \in 1..MaxEvents : executed[e] <= 1 /\ (executed[e] = 1 => e \in Range(sent'))
    BY <1>2, <1>9, Zenon DEF WireInv
  <2>5. \A r \in replies : /\ r.order <= sequence
                           /\ \A g \in files : g.order = r.order /\ g.ext = "inflight"
                                => \A e \in Range(g.items) \ r.failed : executed[e] = 1
                           /\ \A u \in Unsent' : u.order # r.order
    BY <1>2, <1>8, Zenon DEF WireInv
  <2>6. ASSUME NEW m \in wire'
        PROVE  /\ m.items \subseteq Range(sent') /\ m.order <= sequence
               /\ \A e \in m.items : executed[e] = 0
               /\ \A g \in files : g.order = m.order /\ g.ext = "inflight"
                                     => Range(g.items) \subseteq m.items
               /\ \A u \in Unsent' : u.order # m.order
    <3>1. CASE m \in wire
      BY <2>1, <3>1, Zenon
    <3>2. CASE m = m0
      BY <2>2, <3>2, Zenon
    <3> QED
      BY <1>1, <3>1, <3>2, Zenon
  <2>7. UNCHANGED <<files, sequence, replies, executed>>
    BY <1>1, Zenon
  <2>8. ASSUME NEW m \in wire'
        PROVE  /\ m.items \subseteq Range(sent') /\ m.order <= sequence'
               /\ \A e \in m.items : executed'[e] = 0
               /\ \A g \in files' : g.order = m.order /\ g.ext = "inflight"
                                      => Range(g.items) \subseteq m.items
               /\ \A u \in Unsent' : u.order # m.order
    BY <2>6, <2>7, Zenon
  <2>9. ASSUME NEW r \in replies'
        PROVE  /\ r.order <= sequence'
               /\ \A g \in files' : g.order = r.order /\ g.ext = "inflight"
                    => \A e \in Range(g.items) \ r.failed : executed'[e] = 1
               /\ \A u \in Unsent' : u.order # r.order
    BY <2>5, <2>7, Zenon
  <2>10. \A e \in 1..MaxEvents : executed'[e] <= 1 /\ (executed'[e] = 1 => e \in Range(sent'))
    BY <2>4, <2>7, Zenon
  <2> QED
    BY <2>3, <2>8, <2>9, <2>10, Zenon DEF WireInv
<1>19. OrderInv'
  <2> SUFFICES ASSUME faults = 0
               PROVE  /\ Ascending(sent') /\ \A u \in Unsent' : Before(sent', u.items)
                      /\ mode = "up" => \A g \in files : g.ext = "open" => g.order = active
    BY <1>1, Zenon DEF OrderInv, Ascending, Before
  <2>1. /\ Ascending(sent) /\ \A u \in Unsent : Before(sent, u.items)
        /\ mode = "up" => \A g \in files : g.ext = "open" => g.order = active
        /\ \A u \in Unsent : claim <= u.order
    BY <1>1, <1>2, Zenon DEF OrderInv
  <2>2. Before(sent, f.items)
    BY <1>7, <2>1, Zenon
  <2>3. Ascending(sent')
    <3>1. Ascending(sent \o f.items)
      BY <1>5, <1>9, <1>16, <2>1, <2>2, Concat, Zenon
    <3> QED
      BY <1>1, <3>1
  <2>4. ASSUME NEW u \in Unsent' PROVE Before(sent', u.items)
    <3>1. claim <= u.order /\ Before(sent, u.items)
      BY <1>8, <2>1, Zenon
    <3>2. claim < u.order
      BY <1>4, <1>8, <3>1
    <3>3. Before(f.items, u.items)
      BY <1>2, <1>7, <1>8, <3>2, Zenon DEF UnsentInv
    <3> QED
      BY <1>1, <1>5, <1>9, <3>1, <3>3, Concat, ZenonT(30)
  <2> QED
    BY <2>1, <2>3, <2>4, Zenon
<1> QED
  BY <1>10, <1>11, <1>12, <1>13, <1>14, <1>15, <1>17, <1>18, <1>19, Zenon DEF IInv

-----------------------------------------------------------------------------
(* Writing a frame: the file that is written has the largest order number. *)

Kept(f, g) ==
    /\ g.order = f.order /\ g.items = f.items
    /\ \/ g = f
       \/ /\ f.order = active /\ f.ext = "open"
          /\ g = [f EXCEPT !.ext = "pending"] /\ g.ext = "pending"

LEMMA SealedFiles ==
    ASSUME files \subseteq AllFiles, NEW D, D = Moved(files, active, "open", "pending")
    PROVE  /\ D \subseteq AllFiles
           /\ \A g \in D : ~(g.order = active /\ g.ext = "open") /\ \E f \in files : Kept(f, g)
           /\ \A f \in files : \E g \in D : Kept(f, g)
<1> DEFINE new(f) == IF f.order = active /\ f.ext = "open" THEN [f EXCEPT !.ext = "pending"] ELSE f
<1>1. ASSUME NEW f \in files
      PROVE  /\ new(f) \in AllFiles /\ Kept(f, new(f))
             /\ ~(new(f).order = active /\ new(f).ext = "open")
  <2>1. f \in AllFiles
    BY Zenon
  <2> DEFINE g == [f EXCEPT !.ext = "pending"]
  <2>2. g \in AllFiles /\ g.order = f.order /\ g.items = f.items /\ g.ext = "pending"
    BY <2>1 DEF AllFiles, Extensions
  <2> HIDE DEF g
  <2>3. new(f) = IF f.order = active /\ f.ext = "open" THEN g ELSE f
    BY Zenon DEF g
  <2> HIDE DEF new
  <2>4. CASE f.order = active /\ f.ext = "open"
    BY <2>2, <2>3, <2>4, Zenon DEF Kept, g
  <2>5. CASE ~(f.order = active /\ f.ext = "open")
    BY <2>1, <2>3, <2>5, Zenon DEF Kept
  <2> QED
    BY <2>4, <2>5, Zenon
<1>2. D = {new(f) : f \in files}
  BY ZenonT(30) DEF Moved
<1> HIDE DEF new
<1> QED
  BY <1>1, <1>2, Zenon

LEMMA WriteFiles ==
    ASSUME IInv, NEW long, NEW file \in AllFiles, Write(long, file),
           file.order = Target(long).order, file.ext = "open"
    PROVE  /\ files' \subseteq AllFiles /\ file \in files'
           /\ active' = file.order /\ sequence' = file.order
           /\ sequence' \in Nat /\ sequence <= sequence' /\ 0 < sequence'
           /\ \A g \in files' : \/ g = file
                                \/ /\ ~(g.order = active /\ g.ext = "open")
                                   /\ Main(g) => g.order < file.order
                                   /\ \E f \in files : Kept(f, g)
           /\ \A f \in files : f = Target(long) \/ \E g \in files' : Kept(f, g)
           /\ \/ Target(long) \in files /\ Target(long).ext = "open"
              \/ Target(long).items = <<>> /\ sequence < file.order
<1> DEFINE T == Target(long)
           D == Directory(long)
<1>1. files \subseteq AllFiles /\ sequence \in Nat /\ PhaseInv /\ FilesInv
  BY Zenon DEF IInv, TypeInv
<1>2. /\ files' = (D \ {T}) \cup {file} /\ active' = T.order
      /\ sequence' = IF active # 0 /\ ~Full(long) THEN sequence ELSE sequence + 1
  BY Zenon DEF Write
<1>3. CASE active # 0 /\ ~Full(long)
  <2>1. T = File(active, "open") /\ D = files /\ sequence' = sequence
    BY <1>2, <1>3, Zenon DEF Target, Directory
  <2>2. T \in files /\ T.order = active /\ T.ext = "open" /\ active = sequence
    BY <1>1, <1>3, <2>1, Zenon DEF PhaseInv, File
  <2> HIDE DEF T, D
  <2>3. 0 < sequence
    BY <1>1, <2>2, Zenon DEF FilesInv
  <2>4. files' \subseteq AllFiles /\ file \in files' /\ active' = file.order /\ sequence' = file.order
    BY <1>1, <1>2, <2>1, <2>2, ZenonT(30) DEF T
  <2>5. ASSUME NEW g \in files', g # file
        PROVE  /\ ~(g.order = active /\ g.ext = "open")
               /\ Main(g) => g.order < file.order
               /\ \E f \in files : Kept(f, g)
    <3>1. g \in files /\ g # T
      BY <1>2, <2>1, <2>5, Zenon
    <3>2. Main(g) => g.order # active
      BY <1>1, <2>2, <3>1, Zenon DEF FilesInv, Main
    <3>3. g.order <= sequence /\ g.order \in Nat
      BY <1>1, <3>1, Zenon DEF FilesInv, AllFiles
    <3>4. Main(g) => g.order < sequence
      BY <1>1, <2>2, <3>2, <3>3
    <3>5. Main(g) => g.order < file.order
      BY <2>1, <2>4, <3>4, Zenon
    <3> QED
      BY <3>1, <3>2, <3>5, Zenon DEF Kept, Main
  <2>6. \A f \in files : f = T \/ \E g \in files' : Kept(f, g)
    BY <1>2, <2>1, Zenon DEF Kept
  <2>7. sequence' \in Nat /\ sequence <= sequence' /\ 0 < sequence'
    BY <1>1, <2>1, <2>3
  <2> QED
    BY <2>2, <2>4, <2>5, <2>6, <2>7, Zenon DEF T
<1>4. CASE ~(active # 0 /\ ~Full(long))
  <2>1. T = [NoFile EXCEPT !.order = sequence + 1] /\ sequence' = sequence + 1
    BY <1>2, <1>4, Zenon DEF Target
  <2>2. T.order = sequence + 1 /\ T.items = <<>>
    BY <2>1 DEF NoFile
  <2>3. /\ D \subseteq AllFiles
        /\ \A g \in D : ~(g.order = active /\ g.ext = "open") /\ \E f \in files : Kept(f, g)
        /\ \A f \in files : \E g \in D : Kept(f, g)
    <3>1. CASE active = 0
      <4>1. D = files
        BY <3>1, ZenonT(30) DEF Directory, Full
      <4>2. \A g \in files : g.order # active
        <5>1. \A g \in files : 0 < g.order
          BY <1>1, Zenon DEF FilesInv
        <5> QED
          BY <3>1, <5>1
      <4> QED
        BY <1>1, <4>1, <4>2, Zenon DEF Kept
    <3>2. CASE active # 0
      <4>1. D = Moved(files, active, "open", "pending")
        BY <1>4, <3>2, Zenon DEF Directory, Sealed
      <4> QED
        BY <1>1, <4>1, SealedFiles, ZenonT(30)
    <3> QED
      BY <3>1, <3>2
  <2> HIDE DEF T, D
  <2>4. ASSUME NEW g \in D PROVE g.order <= sequence
    <3>1. PICK f \in files : Kept(f, g)
      BY <2>3, Zenon
    <3> QED
      BY <1>1, <3>1, ZenonT(30) DEF FilesInv, Kept
  <2>5. T \notin D
    <3>1. ~(T.order <= sequence)
      BY <1>1, <2>2
    <3> QED
      BY <2>4, <3>1, ZenonT(30)
  <2>6. files' = D \cup {file} /\ file.order = sequence + 1
    BY <1>2, <2>2, <2>5, ZenonT(30) DEF T
  <2>7. \A g \in D : g.order < file.order
    <3>1. \A g \in D : g.order \in Nat
      BY <2>3, Zenon DEF AllFiles
    <3> QED
      BY <1>1, <2>4, <2>6, <3>1, SMTT(30)
  <2>8. /\ files' \subseteq AllFiles /\ file \in files' /\ active' = file.order
        /\ sequence' = file.order
    BY <1>2, <2>1, <2>3, <2>6, ZenonT(30) DEF T
  <2>9. sequence' \in Nat /\ sequence <= sequence' /\ 0 < sequence' /\ sequence < file.order
    BY <1>1, <2>1, <2>6
  <2>10. \A f \in files : \E g \in files' : Kept(f, g)
    BY <2>3, <2>6, Zenon
  <2>11. ASSUME NEW g \in files', g # file
         PROVE  /\ ~(g.order = active /\ g.ext = "open")
                /\ Main(g) => g.order < file.order
                /\ \E f \in files : Kept(f, g)
    BY <2>3, <2>6, <2>7, <2>11, Zenon
  <2> QED
    BY <2>2, <2>8, <2>9, <2>10, <2>11, ZenonT(30) DEF T
<1> QED
  BY <1>3, <1>4

LEMMA Appended ==
    ASSUME NEW S, NEW s \in Seq(S), NEW e \in S
    PROVE  /\ Append(s, e) \in Seq(S) /\ Range(Append(s, e)) = Range(s) \cup {e}
           /\ Ascending(s) /\ (\A x \in Range(s) : x < e) => Ascending(Append(s, e))
           /\ \A u : Before(u, s) /\ (\A x \in Range(u) : x < e) => Before(u, Append(s, e))
<1> DEFINE c == Append(s, e)
<1>1. /\ c \in Seq(S) /\ DOMAIN c = 1..(Len(s) + 1) /\ Len(s) \in Nat /\ DOMAIN s = 1..Len(s)
      /\ c[Len(s) + 1] = e
  OBVIOUS
<1>2. \A i \in DOMAIN s : i \in DOMAIN c /\ c[i] = s[i]
  BY <1>1
<1>3. \A i \in DOMAIN c : i \in DOMAIN s \/ i = Len(s) + 1
  BY <1>1
<1>4. Len(s) + 1 \in DOMAIN c
  BY <1>1
<1> HIDE DEF c
<1>5. Range(c) = Range(s) \cup {e}
  <2>1. \A x : x \in Range(c) => x \in Range(s) \/ x = e
    BY <1>1, <1>2, <1>3, Zenon DEF Range
  <2>2. \A x : x \in Range(s) \/ x = e => x \in Range(c)
    BY <1>1, <1>2, <1>4, Zenon DEF Range
  <2> QED
    BY <2>1, <2>2, Zenon
<1>6. ASSUME Ascending(s), \A x \in Range(s) : x < e PROVE Ascending(c)
  <2>1. ASSUME NEW i \in DOMAIN c, NEW j \in DOMAIN c, i < j PROVE c[i] < c[j]
    <3>1. i \in DOMAIN s
      BY <1>1, <2>1
    <3>2. CASE j \in DOMAIN s
      <4>1. s[i] < s[j]
        BY <1>6, <2>1, <3>1, <3>2, Zenon DEF Ascending
      <4> QED
        BY <1>2, <3>1, <3>2, <4>1, Zenon
    <3>3. CASE j = Len(s) + 1
      <4>1. s[i] < e
        BY <1>6, <3>1, Zenon DEF Range
      <4> QED
        BY <1>1, <1>2, <3>1, <3>3, <4>1, Zenon
    <3> QED
      BY <1>3, <3>2, <3>3, ZenonT(30)
  <2> QED
    BY <2>1, Zenon DEF Ascending
<1>7. ASSUME NEW u, Before(u, s), \A x \in Range(u) : x < e PROVE Before(u, c)
  <2>1. ASSUME NEW i \in DOMAIN u, NEW j \in DOMAIN c PROVE u[i] < c[j]
    <3>1. CASE j \in DOMAIN s
      <4>1. u[i] < s[j]
        BY <1>7, <3>1, Zenon DEF Before
      <4> QED
        BY <1>2, <3>1, <4>1, Zenon
    <3>2. CASE j = Len(s) + 1
      <4>1. u[i] < e
        BY <1>7, Zenon DEF Range
      <4> QED
        BY <1>1, <3>2, <4>1, Zenon
    <3> QED
      BY <1>3, <3>1, <3>2, Zenon
  <2> QED
    BY <2>1, Zenon DEF Before
<1> QED
  BY <1>1, <1>5, <1>6, <1>7, ZenonT(30) DEF c

\* What is still to be sent after a frame was written.
LEMMA WriteUnsent ==
    ASSUME IInv, NEW file, rebuild' = NoFile, UNCHANGED <<pc, claim>>,
           file.ext = "open",
           \A g \in files' : \/ g = file
                             \/ /\ Main(g) => g.order < file.order
                                /\ \E f \in files : Kept(f, g)
    PROVE  \A u \in Unsent' : u = Part(file) \/ (u \in Unsent /\ u.order < file.order)
<1> SUFFICES ASSUME NEW u \in Unsent', u # Part(file)
             PROVE  u \in Unsent /\ u.order < file.order
  BY Zenon
<1>1. PICK g \in files' : Live(g)' /\ u = Part(g)
  BY UnsentNext, Zenon
<1>2. g.ext \in {"open", "pending", "inflight"} /\ (g.ext = "inflight" => Live(g))
  BY <1>1, Zenon DEF Live
<1>3. g.order < file.order
  BY <1>1, <1>2, Zenon DEF Main
<1>4. PICK f \in files : Kept(f, g)
  BY <1>1, Zenon
<1>5. Live(f) /\ u = Part(f)
  <2>1. CASE g = f
    BY <1>1, <1>2, <2>1, Zenon DEF Live
  <2>2. CASE g # f
    BY <1>1, <1>4, <2>2, Zenon DEF Kept, Live, Part
  <2> QED
    BY <2>1, <2>2
<1>6. u.order = g.order
  BY <1>1, PartFields, Zenon
<1> QED
  BY <1>3, <1>5, <1>6, UnsentIs, ZenonT(30)

LEMMA WriteStep ==
    ASSUME IInv, mode = "up", NEW long, NEW file \in AllFiles, Write(long, file),
           file.order = Target(long).order, file.ext = "open",
           Range(Target(long).items) \subseteq Range(file.items),
           Range(file.items) \subseteq Range(Target(long).items) \cup {events'},
           Ascending(Target(long).items) /\ Range(Target(long).items) \subseteq 1..events
               => Ascending(file.items),
           \A u : Before(u, Target(long).items) /\ Range(u) \subseteq 1..events
                    => Before(u, file.items),
           events < MaxEvents, events' = events + 1,
           admitted' \subseteq admitted \cup {events'}, events' \in admitted' => events' \in Range(file.items),
           faults' \in Nat, faults' = 0 => faults = 0,
           UNCHANGED <<wire, replies, executed, mode, cache, pc, claim, failed, rebuild, sent,
                       confirmed>>
    PROVE  IInv'
<1> DEFINE T == Target(long)
<1>1. TypeInv /\ PhaseInv /\ FilesInv /\ UnsentInv /\ WireInv /\ ToldInv /\ NothingLost
      /\ CacheInv /\ OrderInv
  BY Zenon DEF IInv
<1>2. /\ files' \subseteq AllFiles /\ file \in files'
      /\ active' = file.order /\ sequence' = file.order
      /\ sequence' \in Nat /\ sequence <= sequence' /\ 0 < sequence'
  BY WriteFiles, Zenon
<1>3. ASSUME NEW g \in files', g # file
      PROVE  /\ ~(g.order = active /\ g.ext = "open") /\ (Main(g) => g.order < file.order)
             /\ \E f \in files : Kept(f, g)
  BY <1>3, WriteFiles, Zenon
<1>4. \A f \in files : f = T \/ \E g \in files' : Kept(f, g)
  BY WriteFiles, Zenon
<1>5. (T \in files /\ T.ext = "open") \/ (T.items = <<>> /\ sequence < file.order)
  BY WriteFiles, Zenon
<1> HIDE DEF T
<1>6. /\ Range(T.items) \subseteq Range(file.items)
      /\ Range(file.items) \subseteq Range(T.items) \cup {events'}
      /\ Ascending(T.items) /\ Range(T.items) \subseteq 1..events => Ascending(file.items)
      /\ \A u : Before(u, T.items) /\ Range(u) \subseteq 1..events => Before(u, file.items)
      /\ file.order = T.order
  BY ZenonT(30) DEF T
<1>7. /\ events \in Nat /\ events' \in Nat /\ events' <= MaxEvents /\ events <= events'
      /\ 1..events \subseteq 1..events' /\ events' \in 1..events' /\ events' \notin 1..events
  BY <1>1, JournalAssumption, SMTT(30) DEF TypeInv
<1>8. sequence \in Nat /\ rebuild' = NoFile /\ rebuild = NoFile /\ files \subseteq AllFiles
  BY <1>1, Zenon DEF TypeInv, PhaseInv
<1>9. TypeInv'
  <2>1. admitted' \subseteq 1..events' /\ active' \in Nat
    BY <1>1, <1>2, <1>7, ZenonT(30) DEF TypeInv
  <2> QED
    BY <1>1, <1>2, <1>7, <2>1, ZenonT(30) DEF TypeInv
<1>10. \A f \in files : f.ext \in {"inflight", "done"} => f \in files'
  <2>1. ASSUME NEW f \in files, f.ext \in {"inflight", "done"} PROVE f \in files'
    <3>1. f # T
      <4>1. CASE f = T
        <5>1. T.ext # "open" /\ T.order <= sequence
          BY <1>1, <2>1, <4>1, ZenonT(30) DEF FilesInv
        <5>2. ~(sequence < file.order)
          BY <1>2, <1>6, <1>8, <5>1
        <5> QED
          BY <1>5, <5>1, <5>2, Zenon
      <4> QED
        BY <4>1
    <3>2. PICK g \in files' : Kept(f, g)
      BY <1>4, <3>1, Zenon
    <3> QED
      BY <2>1, <3>2, ZenonT(30) DEF Kept
  <2> QED
    BY <2>1
<1>11. ASSUME NEW g \in files', g.ext \in {"inflight", "done"} PROVE g \in files
  <2>1. PICK f \in files : Kept(f, g)
    BY <1>3, <1>11, Zenon
  <2> QED
    BY <1>11, <2>1, Zenon DEF Kept
<1>12. PhaseInv'
  <2>1. pc \in Claimed => \E f \in files' : f.order = claim /\ f.ext = "inflight"
    BY <1>1, <1>10, Zenon DEF PhaseInv
  <2>2. pc = "done" => \E f \in files' : f.order = claim /\ f.ext = "done"
    BY <1>1, <1>10, Zenon DEF PhaseInv
  <2>3. \A f \in files' : f.ext = "inflight" => f.order = claim /\ pc \in Claimed
    BY <1>1, <1>11, Zenon DEF PhaseInv
  <2>4. active' = sequence' /\ \E f \in files' : f.order = active' /\ f.ext = "open"
    BY <1>2, Zenon
  <2>5. pc = "accepted" => failed = {}
    BY <1>1, Zenon DEF PhaseInv
  <2> QED
    BY <1>8, <2>1, <2>2, <2>3, <2>4, <2>5, ZenonT(30) DEF PhaseInv, Claimed
<1>13. ToldInv'
  BY <1>1, <1>11, Zenon DEF ToldInv
<1>14. FilesInv'
  <2>1. ASSUME NEW g \in files' PROVE 0 < g.order /\ g.order <= sequence'
    <3>1. CASE g = file
      BY <1>2, <3>1, SMTT(30)
    <3>2. CASE g # file
      <4>1. PICK f \in files : Kept(f, g)
        BY <1>3, <3>2, Zenon
      <4>2. 0 < g.order /\ g.order <= sequence /\ g.order \in Nat
        BY <1>1, <1>8, <4>1, Zenon DEF FilesInv, Kept, AllFiles
      <4> QED
        BY <1>2, <1>8, <4>2, SMTT(30)
    <3> QED
      BY <3>1, <3>2, SMTT(30)
  <2>2. ASSUME NEW g \in files', NEW h \in files', Main(g), Main(h), g.order = h.order, g # file
        PROVE  g = h
    <3>1. g.order < file.order /\ g.order \in Nat /\ file.order \in Nat
      BY <1>2, <1>3, <2>2, ZenonT(30) DEF AllFiles
    <3>2. h # file
      BY <2>2, <3>1
    <3>3. PICK f \in files : Kept(f, g)
      BY <1>3, <2>2, Zenon
    <3>4. PICK k \in files : Kept(k, h)
      BY <1>3, <3>2, Zenon
    <3>5. Main(f) /\ Main(k) /\ f.order = k.order
      BY <2>2, <3>3, <3>4, Zenon DEF Main, Kept
    <3>6. f = k
      BY <1>1, <3>5, Zenon DEF FilesInv
    <3>7. /\ ~(g.order = active /\ g.ext = "open") /\ ~(h.order = active /\ h.ext = "open")
      BY <1>3, <2>2, <3>2, Zenon
    <3> QED
      BY <3>3, <3>4, <3>6, <3>7, ZenonT(30) DEF Kept
  <2>3. \A g, h \in files' : Main(g) /\ Main(h) /\ g.order = h.order => g = h
    BY <2>2, Zenon
  <2> QED
    BY <1>8, <2>1, <2>3, ZenonT(30) DEF FilesInv, Main
<1>15. \A u \in Unsent' : u = Part(file) \/ (u \in Unsent /\ u.order < file.order)
  BY <1>3, <1>8, WriteUnsent, Zenon
<1>16. Part(file).order = file.order /\ Part(file).items = file.items
  BY PartFields, ZenonT(30)
<1>17. T \in files => /\ Part(T) \in Unsent /\ Part(T).order = file.order
                      /\ Part(T).items = T.items
  <2>1. CASE T \in files
    <3>1. T.order <= sequence
      BY <1>1, <2>1, ZenonT(30) DEF FilesInv
    <3>2. ~(sequence < file.order)
      BY <1>2, <1>6, <1>8, <3>1, SMTT(30)
    <3> QED
      BY <1>5, <1>6, <2>1, <3>2, UnsentIs, PartFields, ZenonT(30) DEF Live
  <2> QED
    BY <2>1
<1>18. T \notin files => /\ T.items = <<>> /\ sequence < file.order
                         /\ Range(T.items) = {} /\ Ascending(T.items) /\ \A u : Before(u, T.items)
  <2>1. Range(<< >>) = {} /\ DOMAIN << >> = {}
    BY DEF Range
  <2>2. Ascending(<< >>) /\ \A u : Before(u, << >>)
    BY <2>1, Zenon DEF Ascending, Before
  <2> QED
    BY <1>5, <2>1, <2>2, ZenonT(30)
<1>19. /\ Ascending(T.items) /\ Range(T.items) \subseteq 1..events
       /\ Range(T.items) \cap Range(sent) = {}
  BY <1>1, <1>17, <1>18, ZenonT(30) DEF UnsentInv
<1>20. /\ Ascending(file.items) /\ Range(file.items) \subseteq 1..events'
       /\ Range(file.items) \cap Range(sent) = {}
  <2>1. Range(sent) \subseteq 1..events
    BY <1>1, Zenon DEF UnsentInv
  <2> QED
    BY <1>6, <1>7, <1>19, <2>1, ZenonT(30)
<1>21. ASSUME NEW u \in Unsent, u.order < file.order PROVE Before(u.items, file.items)
  <2>1. Range(u.items) \subseteq 1..events
    BY <1>1, Zenon DEF UnsentInv
  <2>2. Before(u.items, T.items)
    BY <1>1, <1>17, <1>18, <1>21, ZenonT(30) DEF UnsentInv
  <2> QED
    BY <1>6, <2>1, <2>2, ZenonT(30)
<1>22. UnsentInv'
  <2>1. ASSUME NEW u \in Unsent'
        PROVE  /\ Ascending(u.items) /\ Range(u.items) \subseteq 1..events'
               /\ Range(u.items) \cap Range(sent) = {}
    <3>1. CASE u = Part(file)
      BY <1>16, <1>20, <3>1, ZenonT(30)
    <3>2. CASE u \in Unsent
      BY <1>1, <1>7, <3>2, ZenonT(30) DEF UnsentInv
    <3> QED
      BY <1>15, <3>1, <3>2, ZenonT(30)
  <2>2. ASSUME NEW u \in Unsent', NEW v \in Unsent', u.order < v.order
        PROVE  Before(u.items, v.items)
    <3>1. v.order <= file.order /\ v.order \in Int
      <4>1. v.order \in Nat
        <5>1. PICK g \in files' : v = Part(g)
          BY <1>8, UnsentNext, ZenonT(30)
        <5> QED
          BY <1>2, <5>1, PartFields, ZenonT(30) DEF AllFiles
      <4>2. CASE v = Part(file)
        BY <1>2, <1>16, <4>1, <4>2, SMTT(30)
      <4>3. CASE v.order < file.order
        BY <1>2, <4>1, <4>3, SMTT(30)
      <4> QED
        BY <1>15, <4>1, <4>2, <4>3, SMTT(30)
    <3>2. u # Part(file)
      <4>1. CASE u = Part(file)
        <5>1. file.order < v.order /\ file.order \in Nat
          BY <1>2, <1>16, <2>2, <4>1, ZenonT(30)
        <5> QED
          BY <3>1, <5>1, SMTT(30)
      <4> QED
        BY <4>1, SMTT(30)
    <3>3. u \in Unsent /\ u.order < file.order
      BY <1>15, <3>2, Zenon
    <3>4. CASE v = Part(file)
      BY <1>16, <1>21, <3>3, <3>4, ZenonT(30)
    <3>5. CASE v \in Unsent
      BY <1>1, <2>2, <3>3, <3>5, ZenonT(30) DEF UnsentInv
    <3> QED
      BY <1>15, <3>4, <3>5, ZenonT(30)
  <2>3. Range(sent) \subseteq 1..events'
    BY <1>1, <1>7, Zenon DEF UnsentInv
  <2> QED
    BY <2>1, <2>2, <2>3, ZenonT(30) DEF UnsentInv, Ascending, Before
<1>23. ASSUME NEW n \in Nat, n <= sequence, \A u \in Unsent : u.order # n
       PROVE  n <= sequence' /\ \A u \in Unsent' : u.order # n
  <2>1. n <= sequence'
    BY <1>2, <1>8, <1>23, SMTT(30)
  <2>2. file.order # n
    <3>1. CASE T \in files
      BY <1>17, <1>23, <3>1, ZenonT(30)
    <3>2. CASE T \notin files
      <4>1. sequence < file.order
        BY <1>18, <3>2, ZenonT(30)
      <4> QED
        BY <1>2, <1>8, <1>23, <4>1, SMTT(30)
    <3> QED
      BY <3>1, <3>2, SMTT(30)
  <2> QED
    BY <1>15, <1>16, <1>23, <2>1, <2>2, ZenonT(30)
<1>24. WireInv'
  <2>1. ASSUME NEW m \in wire
        PROVE  /\ m.items \subseteq Range(sent) /\ m.order <= sequence'
               /\ \A e \in m.items : executed[e] = 0
               /\ \A f \in files' : f.order = m.order /\ f.ext = "inflight"
                                      => Range(f.items) \subseteq m.items
               /\ \A u \in Unsent' : u.order # m.order
    <3>1. m.order \in Nat /\ m.order <= sequence /\ \A u \in Unsent : u.order # m.order
      BY <1>1, Zenon DEF TypeInv, WireInv
    <3>2. m.order <= sequence' /\ \A u \in Unsent' : u.order # m.order
      BY <1>23, <3>1, ZenonT(30)
    <3> QED
      BY <1>1, <1>11, <3>2, ZenonT(30) DEF WireInv
  <2>2. ASSUME NEW r \in replies
        PROVE  /\ r.order <= sequence'
               /\ \A f \in files' : f.order = r.order /\ f.ext = "inflight"
                    => \A e \in Range(f.items) \ r.failed : executed[e] = 1
               /\ \A u \in Unsent' : u.order # r.order
    <3>1. r.order \in Nat /\ r.order <= sequence /\ \A u \in Unsent : u.order # r.order
      BY <1>1, Zenon DEF TypeInv, WireInv
    <3>2. r.order <= sequence' /\ \A u \in Unsent' : u.order # r.order
      BY <1>23, <3>1, Zenon
    <3> QED
      BY <1>1, <1>11, <3>2, ZenonT(30) DEF WireInv
  <2>3. /\ \A m, o \in wire : m # o => m.items \cap o.items = {}
        /\ \A e \in 1..MaxEvents : executed[e] <= 1 /\ (executed[e] = 1 => e \in Range(sent))
    BY <1>1, Zenon DEF WireInv
  <2>4. ASSUME NEW m \in wire'
        PROVE  /\ m.items \subseteq Range(sent') /\ m.order <= sequence'
               /\ \A e \in m.items : executed'[e] = 0
               /\ \A f \in files' : f.order = m.order /\ f.ext = "inflight"
                                      => Range(f.items) \subseteq m.items
               /\ \A u \in Unsent' : u.order # m.order
    BY <2>1, Zenon
  <2>5. ASSUME NEW r \in replies'
        PROVE  /\ r.order <= sequence'
               /\ \A f \in files' : f.order = r.order /\ f.ext = "inflight"
                    => \A e \in Range(f.items) \ r.failed : executed'[e] = 1
               /\ \A u \in Unsent' : u.order # r.order
    BY <2>2, Zenon
  <2>6. /\ \A m, o \in wire' : m # o => m.items \cap o.items = {}
        /\ \A e \in 1..MaxEvents :
              executed'[e] <= 1 /\ (executed'[e] = 1 => e \in Range(sent'))
    BY <2>3, Zenon
  <2> QED
    BY <2>4, <2>5, <2>6, ZenonT(30) DEF WireInv
<1>25. NothingLost'
  <2>1. ASSUME NEW e \in admitted' PROVE executed[e] > 0 \/ \E g \in files' : e \in Range(g.items)
    <3>1. CASE e = events'
      BY <1>2, <2>1, <3>1, ZenonT(30)
    <3>2. CASE e # events'
      <4>1. executed[e] > 0 \/ \E f \in files : e \in Range(f.items)
        BY <1>1, <2>1, <3>2, ZenonT(30) DEF NothingLost
      <4>2. ASSUME NEW f \in files, e \in Range(f.items)
            PROVE  \E g \in files' : e \in Range(g.items)
        <5>1. CASE f = T
          BY <1>2, <1>6, <4>2, <5>1, ZenonT(30)
        <5>2. CASE f # T
          BY <1>4, <4>2, <5>2, Zenon DEF Kept
        <5> QED
          BY <5>1, <5>2
      <4> QED
        BY <4>1, <4>2, Zenon
    <3> QED
      BY <3>1, <3>2, SMTT(30)
  <2> QED
    BY <1>1, <2>1, ZenonT(30) DEF NothingLost
<1>26. CacheInv'
  <2>1. ASSUME NEW k \in Pending PROVE k \in Pending'
    <3>1. PICK f \in files : f.ext = "pending" /\ f.order = k
      BY ZenonT(30) DEF Pending
    <3>2. f # T
      <4>1. CASE f = T
        <5>1. T.order <= sequence
          BY <1>1, <4>1, ZenonT(30) DEF FilesInv
        <5>2. ~(sequence < file.order)
          BY <1>2, <1>6, <1>8, <5>1, SMTT(30)
        <5> QED
          BY <1>5, <3>1, <4>1, <5>2, ZenonT(30)
      <4> QED
        BY <4>1
    <3>3. PICK g \in files' : Kept(f, g)
      BY <1>4, <3>2, Zenon
    <3>4. g = f
      BY <3>1, <3>3, ZenonT(30) DEF Kept
    <3> QED
      BY <3>1, <3>4, Zenon DEF Pending
  <2>2. ASSUME NEW k \in cache, NEW m \in Pending' \ cache PROVE k < m
    <3>1. PICK g \in files' : g.ext = "pending" /\ g.order = m
      BY <2>2, Zenon DEF Pending
    <3>2. g # file
      BY <3>1, Zenon
    <3>3. PICK f \in files : Kept(f, g)
      BY <1>3, <3>2, Zenon
    <3>4. k \in Nat /\ k \in Pending
      BY <1>1, Zenon DEF TypeInv, CacheInv
    <3>5. CASE f.ext = "pending"
      <4>1. m \in Pending
        BY <3>1, <3>3, <3>5, ZenonT(30) DEF Kept, Pending
      <4> QED
        BY <1>1, <2>2, <4>1, Zenon DEF CacheInv
    <3>6. CASE f.ext # "pending"
      <4>1. f.order = active /\ f.ext = "open" /\ m = active
        BY <3>1, <3>3, <3>6, Zenon DEF Kept
      <4>2. PICK p \in files : p.order = k /\ p.ext = "pending"
        BY <3>4, Zenon DEF Pending
      <4>3. 0 < f.order /\ k <= sequence /\ k # active
        BY <1>1, <4>1, <4>2, ZenonT(30) DEF FilesInv, Main
      <4>4. active # 0
        BY <4>1, <4>3
      <4>5. active = sequence
        BY <1>1, <4>4, Zenon DEF PhaseInv
      <4> QED
        BY <1>8, <3>4, <4>1, <4>3, <4>5, SMTT(30)
    <3> QED
      BY <3>5, <3>6
  <2>3. cache \subseteq Pending'
    BY <1>1, <2>1, Zenon DEF CacheInv
  <2> QED
    BY <2>2, <2>3, Zenon DEF CacheInv
<1>27. OrderInv'
  <2> SUFFICES ASSUME faults = 0
               PROVE  /\ Ascending(sent) /\ \A u \in Unsent' : Before(sent, u.items)
                      /\ \A g \in files' : g.ext = "open" => g.order = active'
                      /\ pc = "claimed" => \A u \in Unsent' : claim <= u.order
    BY Zenon DEF OrderInv, Ascending, Before
  <2>1. /\ Ascending(sent) /\ \A u \in Unsent : Before(sent, u.items)
        /\ \A g \in files : g.ext = "open" => g.order = active
        /\ pc = "claimed" => \A u \in Unsent : claim <= u.order
    BY <1>1, Zenon DEF OrderInv
  <2>2. ASSUME NEW u \in Unsent' PROVE Before(sent, u.items)
    <3>1. CASE u = Part(file)
      <4>1. Before(sent, T.items) /\ Range(sent) \subseteq 1..events
        BY <1>1, <1>17, <1>18, <2>1, ZenonT(30) DEF UnsentInv
      <4>2. Before(sent, file.items)
        BY <1>6, <4>1, Zenon
      <4> QED
        BY <1>16, <3>1, <4>2, ZenonT(30)
    <3>2. CASE u \in Unsent
      BY <2>1, <3>2, ZenonT(30)
    <3> QED
      BY <1>15, <3>1, <3>2, ZenonT(30)
  <2>3. ASSUME NEW g \in files', g.ext = "open" PROVE g.order = active'
    <3>1. CASE g = file
      BY <1>2, <3>1, ZenonT(30)
    <3>2. CASE g # file
      <4>1. PICK f \in files : Kept(f, g)
        BY <1>3, <3>2, ZenonT(30)
      <4>2. g = f
        BY <2>3, <4>1, Zenon DEF Kept
      <4> QED
        BY <1>3, <2>1, <2>3, <3>2, <4>2, ZenonT(30)
    <3> QED
      BY <3>1, <3>2
  <2>4. ASSUME pc = "claimed", NEW u \in Unsent' PROVE claim <= u.order
    <3>1. CASE u = Part(file)
      <4>1. PICK f \in files : f.order = claim
        BY <1>1, <2>4, Zenon DEF PhaseInv, Claimed
      <4>2. claim <= sequence /\ claim \in Nat
        BY <1>1, <4>1, Zenon DEF FilesInv, TypeInv
      <4> QED
        BY <1>2, <1>8, <1>16, <3>1, <4>2, SMTT(30)
    <3>2. CASE u \in Unsent
      BY <2>1, <2>4, <3>2, ZenonT(30)
    <3> QED
      BY <1>15, <3>1, <3>2, ZenonT(30)
  <2> QED
    BY <2>1, <2>2, <2>3, <2>4, ZenonT(30)
<1> QED
  BY <1>9, <1>12, <1>13, <1>14, <1>22, <1>24, <1>25, <1>26, <1>27, ZenonT(30) DEF IInv

LEMMA AppendedRange ==
    ASSUME NEW S, NEW s \in Seq(S), NEW e \in S, NEW t, t = Append(s, e)
    PROVE  Range(s) \subseteq Range(t) /\ Range(t) \subseteq Range(s) \cup {e} /\ e \in Range(t)
<1>1. Range(Append(s, e)) = Range(s) \cup {e}
  BY Appended
<1> QED
  BY <1>1, Zenon

LEMMA TargetFile ==
    ASSUME IInv, NEW long
    PROVE  Target(long) \in AllFiles /\ Target(long).ext = "open"
<1>1. files \subseteq AllFiles /\ sequence + 1 \in Nat
  BY DEF IInv, TypeInv
<1>2. CASE active # 0 /\ ~Full(long)
  <2>1. Target(long) = File(active, "open")
    BY <1>2, Zenon DEF Target
  <2>2. File(active, "open") \in files /\ File(active, "open").ext = "open"
    BY <1>2, ZenonT(30) DEF IInv, PhaseInv, File
  <2> QED
    BY <1>1, <2>1, <2>2, ZenonT(30)
<1>3. CASE ~(active # 0 /\ ~Full(long))
  <2>1. Target(long) = [NoFile EXCEPT !.order = sequence + 1]
    BY <1>3, Zenon DEF Target
  <2>2. NoFile.ext = "open"
    BY Zenon DEF NoFile
  <2> QED
    BY <1>1, <2>1, <2>2, NoFileType, SMTT(30) DEF AllFiles
<1> QED
  BY <1>2, <1>3, SMTT(30)

LEMMA RecordInv == ASSUME IInv, Record PROVE IInv'
<1>1. PICK long \in BOOLEAN : Write(long, [Target(long) EXCEPT !.items = Append(@, events')])
  BY Zenon DEF Record
<1> DEFINE T == Target(long)
           file == [T EXCEPT !.items = Append(@, events')]
<1>2. T \in AllFiles /\ T.ext = "open"
  BY TargetFile, Zenon
<1>3. events \in Nat /\ events < MaxEvents /\ events' = events + 1 /\ faults \in Nat
  BY Zenon DEF IInv, TypeInv, Record
<1>4. events' \in 1..MaxEvents /\ \A x \in 1..events : x < events'
  BY <1>3, JournalAssumption
<1>5. /\ file \in AllFiles /\ file.order = T.order /\ file.ext = "open"
      /\ file.items = Append(T.items, events') /\ T.items \in Seq(1..MaxEvents)
  <2> HIDE DEF T
  <2>1. T.items \in Seq(1..MaxEvents)
    BY <1>2 DEF AllFiles
  <2>2. Append(T.items, events') \in Seq(1..MaxEvents)
    BY <1>4, <2>1, Appended, Zenon
  <2>3. file.items = Append(T.items, events') /\ file.order = T.order /\ file.ext = "open"
    BY <1>2 DEF AllFiles
  <2> QED
    BY <1>2, <2>1, <2>2, <2>3 DEF AllFiles
<1>6. /\ Write(long, file) /\ file.order = Target(long).order
  BY <1>1, <1>5, Zenon
<1> HIDE DEF T, file
<1> DEFINE old == T.items
           new == file.items
<1>7. /\ Range(old) \subseteq Range(new) /\ Range(new) \subseteq Range(old) \cup {events'}
      /\ events' \in Range(new)
  <2>1. old \in Seq(1..MaxEvents) /\ new = Append(old, events') /\ events' \in 1..MaxEvents
    BY <1>4, <1>5, Zenon
  <2> HIDE DEF old, new
  <2> QED
    BY <2>1, AppendedRange, ZenonT(90)
<1>8. ASSUME Ascending(old), Range(old) \subseteq 1..events PROVE Ascending(new)
  <2>1. old \in Seq(1..MaxEvents) /\ new = Append(old, events')
    BY <1>5, Zenon
  <2>2. \A x \in Range(old) : x < events'
    BY <1>4, <1>8, Zenon
  <2> HIDE DEF old, new
  <2>3. Ascending(Append(old, events'))
    BY <1>4, <1>8, <2>1, <2>2, Appended, ZenonT(30)
  <2> QED
    BY <2>1, <2>3
<1>9. ASSUME NEW u, Before(u, old), Range(u) \subseteq 1..events PROVE Before(u, new)
  <2>1. old \in Seq(1..MaxEvents) /\ new = Append(old, events')
    BY <1>5, Zenon
  <2>2. \A x \in Range(u) : x < events'
    BY <1>4, <1>9, Zenon
  <2> HIDE DEF old, new
  <2>3. Before(u, Append(old, events'))
    BY <1>4, <1>9, <2>1, <2>2, Appended, ZenonT(30)
  <2> QED
    BY <2>1, <2>3
<1>10. /\ Range(Target(long).items) \subseteq Range(file.items)
       /\ Range(file.items) \subseteq Range(Target(long).items) \cup {events'}
       /\ Ascending(Target(long).items) /\ Range(Target(long).items) \subseteq 1..events
            => Ascending(file.items)
       /\ \A u : Before(u, Target(long).items) /\ Range(u) \subseteq 1..events
                   => Before(u, file.items)
       /\ events' \in Range(file.items)
  BY <1>7, <1>8, <1>9, ZenonT(30) DEF T
<1>11. /\ mode = "up" /\ admitted' \subseteq admitted \cup {events'}
       /\ UNCHANGED <<wire, replies, executed, mode, cache, pc, claim, failed, rebuild, sent,
                      confirmed, faults>>
  BY Zenon DEF Record, server, sender, bounds
<1> QED
  BY <1>3, <1>5, <1>6, <1>10, <1>11, WriteStep, ZenonT(30)

LEMMA RecordFailsInv == ASSUME IInv, RecordFails PROVE IInv'
<1>1. PICK long \in BOOLEAN : Write(long, [Target(long) EXCEPT !.torn = TRUE])
  BY Zenon DEF RecordFails
<1> DEFINE T == Target(long)
           file == [T EXCEPT !.torn = TRUE]
<1>2. T \in AllFiles /\ T.ext = "open"
  BY TargetFile, Zenon
<1>3. events \in Nat /\ events < MaxEvents /\ events' = events + 1 /\ faults \in Nat
      /\ faults' = faults + 1
  BY Zenon DEF IInv, TypeInv, RecordFails
<1>4. faults' \in Nat /\ faults' # 0 /\ events' \notin 1..events
  BY <1>3
<1>5. file \in AllFiles /\ file.order = T.order /\ file.ext = "open" /\ file.items = T.items
  <2> HIDE DEF T
  <2> QED
    BY <1>2 DEF AllFiles
<1>6. Write(long, file) /\ file.order = Target(long).order /\ file.items = Target(long).items
  BY <1>1, <1>5, Zenon
<1> HIDE DEF T, file
<1>7. /\ Range(Target(long).items) \subseteq Range(file.items)
      /\ Range(file.items) \subseteq Range(Target(long).items) \cup {events'}
      /\ Ascending(Target(long).items) => Ascending(file.items)
      /\ \A u : Before(u, Target(long).items) => Before(u, file.items)
  BY <1>6
<1>8. /\ mode = "up" /\ admitted' = admitted
      /\ UNCHANGED <<wire, replies, executed, mode, cache, pc, claim, failed, rebuild, sent,
                     confirmed>>
  BY Zenon DEF RecordFails, server, sender
<1>9. events' \notin admitted'
  BY <1>4, <1>8, ZenonT(30) DEF IInv, TypeInv
<1> QED
  BY <1>3, <1>4, <1>5, <1>6, <1>7, <1>8, <1>9, WriteStep, ZenonT(30)

-----------------------------------------------------------------------------
(* The invariant holds. *)

LEMMA InitInv == ASSUME Init PROVE IInv
<1> USE DEF Init
<1>1. Unsent = {} /\ Pending = {}
  BY Zenon DEF Unsent, Pending, NoFile
<1>2. sent \in Seq(1..MaxEvents) /\ DOMAIN sent = {} /\ Range(sent) = {}
  BY DEF Range
<1>3. TypeInv
  <2>1. {} \subseteq 1..events /\ events <= MaxEvents /\ 0 \in Nat
    BY JournalAssumption
  <2>2. executed \in [1..MaxEvents -> Nat]
    BY <2>1, Zenon
  <2> QED
    BY <1>2, <2>1, <2>2, NoFileType, ZenonT(30) DEF TypeInv
<1>4. PhaseInv
  BY Zenon DEF PhaseInv, Claimed
<1>5. FilesInv /\ ToldInv /\ NothingLost
  BY Zenon DEF FilesInv, ToldInv, NothingLost
<1>6. UnsentInv /\ CacheInv
  BY <1>1, <1>2, ZenonT(30) DEF UnsentInv, CacheInv
<1>7. \A e \in 1..MaxEvents : executed[e] <= 1 /\ executed[e] # 1
  <2>1. \A e \in 1..MaxEvents : executed[e] = 0
    BY Zenon
  <2> QED
    BY <2>1
<1>8. WireInv
  BY <1>7, Zenon DEF WireInv
<1>9. OrderInv
  BY <1>1, <1>2, Zenon DEF OrderInv, Ascending
<1> QED
  BY <1>3, <1>4, <1>5, <1>6, <1>8, <1>9, ZenonT(30) DEF IInv

LEMMA StutterInv == ASSUME IInv, UNCHANGED vars PROVE IInv'
<1> USE DEF vars, server, admission, sender, client, bounds
<1>1. TypeInv'
  BY Zenon DEF IInv, TypeInv
<1>2. PhaseInv'
  BY Zenon DEF IInv, PhaseInv
<1>3. ToldInv' /\ CacheInv'
  BY QuietCache, QuietTold, ZenonT(30)
<1>4. events <= events'
  BY DEF IInv, TypeInv
<1> QED
  BY <1>1, <1>2, <1>3, <1>4, QuietStep, ZenonT(30) DEF IInv, OrderInv

LEMMA StepInv == ASSUME IInv, [Next]_vars PROVE IInv'
<1>1. CASE Record \/ RecordFails \/ SealFails \/ FlushIfDue \/ JournalFails
  BY <1>1, RecordInv, RecordFailsInv, SealFailsInv, FlushInv, JournalFailsInv, ZenonT(30)
<1>2. CASE SenderStep
  BY <1>2, OldestPendingInv, WaitInv, DamagedInv, ClaimInv, NotSentInv, TransmitInv,
     ResponseInv, UncertainInv, AcceptedInv, DeleteDoneInv, SaveResultInv, PartialInv, CancelInv,
     ZenonT(30) DEF SenderStep
<1>3. CASE ServerExecute \/ RequestLost
  BY <1>3, ServerExecuteInv, RequestLostInv, Zenon
<1>4. CASE Shutdown \/ StopAdmission \/ Close \/ Crash \/ Start
  BY <1>4, ShutdownInv, FlushInv, CloseInv, CrashInv, ZenonT(30)
<1>5. CASE Recovery
  BY <1>5, RecoverInflightInv, RecoverDoneInv, RecoverOpenInv, WriteRecoveredInv, RecoveredInv,
     ZenonT(30) DEF Recovery
<1>6. CASE UNCHANGED vars
  BY <1>6, StutterInv, Zenon
<1> QED
  BY <1>1, <1>2, <1>3, <1>4, <1>5, <1>6, ZenonT(30) DEF Next

LEMMA InvHolds == Spec => []IInv
BY InitInv, StepInv, PTL DEF Spec

\* No event is executed twice, whatever requests fail, are answered late or are lost, and
\* wherever the process stops or crashes (WriteJournal, sendLoop).
THEOREM EventsAreNotReplayed == Spec => []NeverReplayed
<1>1. IInv => NeverReplayed
  BY ZenonT(30) DEF IInv, WireInv, NeverReplayed
<1> QED
  BY <1>1, InvHolds, PTL

\* An event that record() accepted is in a file of the directory until the server has executed
\* it, and a callback is told TRUE only for an executed event (append, seal, sendLoop, the
\* recovery in WriteJournal's init).
THEOREM EventsAreNotLost == Spec => []NothingLost
<1>1. IInv => NothingLost
  BY Zenon DEF IInv
<1> QED
  BY <1>1, InvHolds, PTL

\* As long as the journal meets no I/O error, events are transmitted in the order in which
\* they were recorded, through returned files, crashes and restarts (oldestPending, move).
THEOREM EventsKeepTheirOrder == Spec => []SentInOrder
<1>1. ASSUME IInv PROVE SentInOrder
  <2> SUFFICES ASSUME faults = 0, NEW j \in DOMAIN sent, NEW i \in 1..(j - 1)
               PROVE  sent[i] < sent[j]
    BY Zenon DEF SentInOrder
  <2>1. sent \in Seq(1..MaxEvents) /\ Ascending(sent)
    BY <1>1, ZenonT(30) DEF IInv, TypeInv, OrderInv
  <2>2. i \in DOMAIN sent /\ i < j
    BY <2>1
  <2> QED
    BY <2>1, <2>2, Zenon DEF Ascending
<1> QED
  BY <1>1, InvHolds, PTL

-----------------------------------------------------------------------------
(* The account of the sizes. *)

\* From here on a leaf is for Zenon unless it names another prover.
USE ZenonT(90)

\* What is used of cardinalities.  It is proved at the end.
Counting ==
    /\ IsFiniteSet({}) /\ Cardinality({}) = 0
    /\ \A S : IsFiniteSet(S) => Cardinality(S) \in Nat /\ \A T \in SUBSET S : IsFiniteSet(T)
    /\ \A S, T : IsFiniteSet(S) /\ IsFiniteSet(T) /\ S \cap T = {} =>
          IsFiniteSet(S \cup T) /\ Cardinality(S \cup T) = Cardinality(S) + Cardinality(T)
    /\ \A x : \A n \in Nat : IsFiniteSet({x} \X (1..n)) /\ Cardinality({x} \X (1..n)) = n

Accounted(dir, n) == IsFiniteSet(Frames(dir)) /\ n = Sizes(dir)

LEMMA SizeType == ASSUME NEW f \in AllFiles PROVE Size(f) \in Nat
BY SMT DEF Size, AllFiles

LEMMA AccountType == ASSUME Counting, NEW dir, NEW n, Accounted(dir, n) PROVE n \in Nat
BY DEF Counting, Accounted, Sizes

LEMMA FileAdded ==
    ASSUME Counting, NEW dir, NEW n, Accounted(dir, n), NEW f \in AllFiles, f \notin dir
    PROVE  Accounted(dir \cup {f}, n + Size(f))
<1> DEFINE one == {f} \X (1..Size(f))
<1>1. IsFiniteSet(one) /\ Cardinality(one) = Size(f)
  BY SizeType DEF Counting
<1>2. Frames(dir \cup {f}) = Frames(dir) \cup one
  <2>1. /\ \A p : p \in Frames(dir \cup {f}) <=> \E g \in dir \cup {f} : p \in {g} \X (1..Size(g))
        /\ \A p : p \in Frames(dir) <=> \E g \in dir : p \in {g} \X (1..Size(g))
    BY DEF Frames
  <2>2. \A p : p \in Frames(dir \cup {f}) <=> p \in Frames(dir) \/ p \in one
    BY <2>1
  <2> HIDE DEF one
  <2> QED
    BY <2>2
<1>3. Frames(dir) \cap one = {}
  <2>1. ASSUME NEW p \in Frames(dir), p \in one PROVE FALSE
    <3>1. PICK g \in dir : p \in {g} \X (1..Size(g))
      BY DEF Frames
    <3>2. p[1] = g /\ p[1] = f
      BY <2>1, <3>1, SMT
    <3> QED
      BY <3>2
  <2> QED
    BY <2>1
<1> HIDE DEF one
<1> DEFINE both == Frames(dir) \cup one
<1>4. IsFiniteSet(both) /\ Cardinality(both) = Cardinality(Frames(dir)) + Cardinality(one)
  BY <1>1, <1>3 DEF Counting, Accounted
<1>5. Frames(dir \cup {f}) = both
  BY <1>2
<1> HIDE DEF both
<1>6. IsFiniteSet(Frames(dir \cup {f})) /\ Sizes(dir \cup {f}) = Sizes(dir) + Size(f)
  BY <1>1, <1>4, <1>5 DEF Sizes
<1> QED
  BY <1>6 DEF Accounted

LEMMA FileRemoved ==
    ASSUME Counting, NEW dir, NEW n, Accounted(dir, n), NEW f \in AllFiles, f \in dir
    PROVE  Accounted(dir \ {f}, n - Size(f))
<1> DEFINE rest == dir \ {f}
           m == Sizes(rest)
<1>1. Frames(rest) \subseteq Frames(dir)
  BY DEF Frames
<1>2. Accounted(rest, m)
  BY <1>1 DEF Accounted, Counting
<1>3. rest \cup {f} = dir /\ f \notin rest
  OBVIOUS
<1> HIDE DEF rest, m
<1>4. Accounted(dir, m + Size(f))
  BY <1>2, <1>3, FileAdded
<1>5. n = m + Size(f)
  BY <1>4 DEF Accounted
<1>6. n - Size(f) = m
  <2>1. m \in Nat /\ Size(f) \in Nat
    BY <1>2, AccountType, SizeType
  <2> HIDE DEF Size
  <2> QED
    BY <1>5, <2>1, SMTT(30)
<1> QED
  BY <1>2, <1>6 DEF rest

LEMMA FileReplaced ==
    ASSUME Counting, NEW dir, NEW n, Accounted(dir, n), NEW f \in AllFiles, f \in dir,
           NEW g \in AllFiles, g \notin dir \ {f}
    PROVE  Accounted((dir \ {f}) \cup {g}, (n - Size(f)) + Size(g))
<1>1. Accounted(dir \ {f}, n - Size(f))
  BY FileRemoved
<1> QED
  BY <1>1, FileAdded

\* Renaming a file changes no size.
Alone(dir, order, from, to) ==
    \A f, g \in dir :
        f.order = order /\ f.ext = from /\ g.order = order /\ g.ext \in {from, to} => f = g
LEMMA FileMoved ==
    ASSUME Counting, NEW dir \in SUBSET AllFiles, NEW n, Accounted(dir, n), NEW order,
           NEW from, from # "result", NEW to \in Extensions, to # "result",
           Alone(dir, order, from, to)
    PROVE  Accounted(Moved(dir, order, from, to), n)
<1>1. CASE \A f \in dir : ~(f.order = order /\ f.ext = from)
  <2>1. Moved(dir, order, from, to) = dir
    BY <1>1 DEF Moved
  <2> QED
    BY <2>1
<1>2. ASSUME NEW f \in dir, f.order = order, f.ext = from
      PROVE  Accounted(Moved(dir, order, from, to), n)
  <2> DEFINE g == [f EXCEPT !.ext = to]
  <2>1. f \in AllFiles
    OBVIOUS
  <2>2. /\ g \in AllFiles /\ g.order = order /\ g.ext = to
        /\ g.items = f.items /\ g.torn = f.torn
    BY <1>2, <2>1, SMTT(30) DEF AllFiles
  <2>3. Moved(dir, order, from, to) = (dir \ {f}) \cup {g}
    BY <1>2 DEF Moved, Alone
  <2> HIDE DEF g
  <2>4. g \notin dir \ {f}
    BY <1>2, <2>2 DEF Alone
  <2>5. Size(g) = Size(f)
    BY <1>2, <2>2 DEF Size
  <2>6. n \in Nat /\ Size(f) \in Nat
    BY <2>1, AccountType, SizeType
  <2>7. (n - Size(f)) + Size(g) = n
    BY <2>5, <2>6, SMT
  <2>8. Accounted((dir \ {f}) \cup {g}, (n - Size(f)) + Size(g))
    BY <1>2, <2>1, <2>2, <2>4, FileReplaced
  <2> QED
    BY <2>3, <2>7, <2>8
<1> QED
  BY <1>1, <1>2

\* The sizes are accounted for while the client runs, but for those of incomplete writes.
Total == retained + missed
AccountInv ==
    /\ \E n : Accounted(files, n)
    /\ mode # "down" => Accounted(files, Total)
MissedInv ==
    /\ retained \in Int /\ missed \in Nat /\ missed <= faults
    /\ mode = "down" => missed = 0

\* A write that fails is the first one of its file to do so: it adds one incomplete frame.
TornInv == mode = "up" /\ accepting => \A f \in files : f.ext = "open" => ~f.torn

\* Neither the original of a rewritten file nor a result is there before it is made, so that
\* each of them adds its whole size.
Free(order, ext) == \A f \in files : f.ext = ext => f.order # order
Unjudged(f) ==
    \/ f.ext \in {"open", "pending", "rebuild"}
    \/ f.ext = "inflight" /\ mode = "up" /\ pc \notin {"saved", "unsaved"}
CopiesInv ==
    /\ \A f \in files : f.ext = "open" => Free(f.order, "recovered")
    /\ \A f \in files : Unjudged(f) => Free(f.order, "result")
    /\ rebuild # NoFile => Free(rebuild.order, "result")

LEMMA FreeNumber == ASSUME IInv, NEW n \in Nat, sequence < n, NEW ext PROVE Free(n, ext)
<1>1. \A f \in files : f.order <= sequence /\ f.order \in Nat /\ sequence \in Nat
  BY DEF IInv, TypeInv, FilesInv, AllFiles
<1>2. \A f \in files : f.order # n
  BY <1>1, SMT
<1> QED
  BY <1>2 DEF Free

LEMMA CopiesKept ==
    ASSUME \A g \in files' : g.ext \in {"recovered", "result"} => g \in files,
           \A g \in files' : g.ext = "open" => Free(g.order, "recovered"),
           \A g \in files' : Unjudged(g)' => Free(g.order, "result"),
           rebuild' # NoFile => Free(rebuild'.order, "result")
    PROVE  CopiesInv'
<1>1. \A n : /\ Free(n, "recovered") => Free(n, "recovered")'
             /\ Free(n, "result") => Free(n, "result")'
  BY DEF Free
<1>2. rebuild' # NoFile => Free(rebuild.order, "result")'
  BY <1>1 DEF Free
<1> QED
  BY <1>1, <1>2 DEF CopiesInv

\* No further file becomes unjudged, and the account changes with the process only.
Judged ==
    /\ mode' = "up" /\ pc' \in Claimed \ {"saved", "unsaved"}
         => mode = "up" /\ pc \notin {"saved", "unsaved"}
    /\ rebuild' \in {NoFile, rebuild}
    /\ mode' # "down" => mode # "down" /\ Total' = Total

LEMMA StaysUnjudged ==
    ASSUME IInv', Judged, NEW f \in files', Unjudged(f)' PROVE Unjudged(f)
BY DEF Unjudged, Judged, IInv, PhaseInv

\* The directory stays as it is.
LEMMA SameFiles ==
    ASSUME IInv', AccountInv, CopiesInv, Judged, files' = files
    PROVE  AccountInv' /\ CopiesInv'
<1>1. AccountInv'
  BY DEF AccountInv, Judged
<1> QED
  BY <1>1, StaysUnjudged, CopiesKept DEF CopiesInv, Judged

\* A file gets a new name.
LEMMA MovedFile ==
    ASSUME Counting, IInv, IInv', AccountInv, CopiesInv, Judged, NEW n,
           NEW from \in {"open", "pending", "inflight", "rebuild"},
           NEW to \in {"pending", "inflight", "done", "uncertain", "partial", "damaged"},
           files' = Moved(files, n, from, to),
           to \in {"pending", "inflight"} /\ from = "inflight"
             => mode = "up" /\ pc \notin {"saved", "unsaved"}
    PROVE  AccountInv' /\ CopiesInv'
<1>1. files \in SUBSET AllFiles /\ to \in Extensions /\ to # "result" /\ from # "result"
  BY DEF IInv, TypeInv, Extensions
<1>2. \A g \in files' : \E f \in files : MovedTo(f, g, n, from, to)
  BY <1>1, MovedFiles
<1>3. Alone(files, n, from, to)
  <2>1. from \notin {"recovered", "result"} /\ to \notin {"recovered", "result"}
    OBVIOUS
  <2> QED
    BY <2>1 DEF Alone, IInv, FilesInv, Main
<1>4. ASSUME NEW s, Accounted(files, s) PROVE Accounted(files', s)
  <2>1. Accounted(Moved(files, n, from, to), s)
    BY <1>1, <1>3, <1>4, FileMoved
  <2> QED
    BY <2>1
<1>5. AccountInv'
  BY <1>4 DEF AccountInv, Judged
<1>6. ASSUME NEW g \in files'
      PROVE  /\ g.ext \in {"recovered", "result"} => g \in files
             /\ g.ext = "open" => Free(g.order, "recovered")
             /\ Unjudged(g)' => Free(g.order, "result")
  <2>1. PICK f \in files : MovedTo(f, g, n, from, to)
    BY <1>2
  <2>2. g = f \/ (f.ext = from /\ g.ext = to /\ g.order = f.order)
    BY <2>1 DEF MovedTo
  <2>3. CASE g = f
    BY <2>3, StaysUnjudged DEF CopiesInv
  <2>4. CASE f.ext = from /\ g.ext = to /\ g.order = f.order
    <3>1. Unjudged(g)' => Unjudged(f)
      BY <2>4 DEF Unjudged
    <3> QED
      BY <2>4, <3>1 DEF CopiesInv
  <2> QED
    BY <2>2, <2>3, <2>4
<1> QED
  BY <1>5, <1>6, CopiesKept DEF Judged, CopiesInv

\* The directory stays as it is, for each action that leaves it alone.
LEMMA QuietAccount ==
    ASSUME IInv, IInv', AccountInv, CopiesInv,
           \/ SealFails \/ OldestPending \/ NothingPending \/ ConnectFails \/ Transmit \/ Response
           \/ ServerExecute \/ RequestLost \/ Shutdown \/ Recovered \/ UNCHANGED vars
    PROVE  AccountInv' /\ CopiesInv'
<1> USE DEF server, admission, sender, client, bounds, Claimed, Judged, account, Total
<1>1. CASE SealFails \/ Shutdown \/ Recovered
  <2>1. files' = files /\ Judged
    BY <1>1 DEF SealFails, Shutdown, Recovered
  <2> QED
    BY <2>1, SameFiles
<1>2. CASE OldestPending \/ NothingPending \/ ConnectFails
  <2>1. files' = files /\ Judged
    BY <1>2 DEF OldestPending, NothingPending, ConnectFails
  <2> QED
    BY <2>1, SameFiles
<1>3. CASE Transmit \/ Response
  <2>1. files' = files /\ Judged
    BY <1>3 DEF Transmit, Response
  <2> QED
    BY <2>1, SameFiles
<1>4. CASE ServerExecute \/ RequestLost \/ UNCHANGED vars
  <2>1. files' = files /\ Judged
    BY <1>4 DEF ServerExecute, RequestLost, vars
  <2> QED
    BY <2>1, SameFiles
<1> QED
  BY <1>1, <1>2, <1>3, <1>4

LEMMA StartAccount ==
    ASSUME Counting, IInv', AccountInv, CopiesInv, MissedInv, Start PROVE AccountInv' /\ CopiesInv'
<1>1. AccountInv'
  <2>1. Accounted(files, Sizes(files))
    BY DEF AccountInv, Accounted
  <2>2. Total' = Sizes(files)
    <3>1. retained' = Sizes(files) /\ missed' = 0 /\ Sizes(files) \in Nat
      BY <2>1, AccountType DEF Start, MissedInv
    <3> QED
      BY <3>1, SMTT(30) DEF Total
  <2> QED
    BY <2>1, <2>2 DEF AccountInv, Start
<1>2. \A f \in files' : Unjudged(f)' => Unjudged(f)
  BY DEF Unjudged, Start
<1> QED
  BY <1>1, <1>2, CopiesKept DEF CopiesInv, Start

\* The sender renames its file.
LEMMA ClaimMoves ==
    ASSUME Counting, IInv, IInv', AccountInv, CopiesInv,
           NotSent \/ Uncertain \/ Accepted \/ Partial
    PROVE  AccountInv' /\ CopiesInv'
<1> USE DEF server, admission, client, bounds, Claimed, Judged, MoveClaim, account, Total
<1>1. CASE NotSent
  BY <1>1, MovedFile DEF NotSent
<1>2. CASE Uncertain
  BY <1>2, MovedFile DEF Uncertain
<1>3. CASE Accepted
  BY <1>3, MovedFile DEF Accepted
<1>4. CASE Partial
  BY <1>4, MovedFile DEF Partial
<1> QED
  BY <1>1, <1>2, <1>3, <1>4

LEMMA CancelAccount ==
    ASSUME Counting, IInv, IInv', AccountInv, CopiesInv, Cancel PROVE AccountInv' /\ CopiesInv'
<1>1. Judged
  BY DEF Cancel, Judged, admission, Claimed, account, Total
<1>2. CASE files' = files
  BY <1>1, <1>2, SameFiles
<1>3. CASE pc = "claimed" /\ MoveClaim("pending")
  BY <1>1, <1>3, MovedFile DEF Cancel, MoveClaim
<1>4. CASE pc = "sent" /\ MoveClaim("uncertain")
  BY <1>1, <1>4, MovedFile DEF MoveClaim
<1> QED
  BY <1>2, <1>3, <1>4 DEF Cancel

LEMMA TakenAccount ==
    ASSUME Counting, IInv, IInv', AccountInv, CopiesInv, Damaged \/ Claim
    PROVE  AccountInv' /\ CopiesInv'
<1>1. CASE Damaged
  <2>1. Judged
    BY <1>1 DEF Damaged, Judged, admission, Claimed, account, Total
  <2> QED
    BY <1>1, <2>1, MovedFile DEF Damaged
<1>2. CASE Claim
  <2>1. Judged
    BY <1>2 DEF Claim, Judged, admission, Claimed, Peeked, account, Total
  <2> QED
    BY <1>2, <2>1, MovedFile DEF Claim
<1> QED
  BY <1>1, <1>2

\* The open file is sealed.
LEMMA SealAccount ==
    ASSUME Counting, IInv, IInv', AccountInv, CopiesInv,
           FlushIfDue \/ JournalFails \/ StopAdmission \/ Close
    PROVE  AccountInv' /\ CopiesInv'
<1>1. Judged
  BY DEF FlushIfDue, JournalFails, StopAdmission, Close, Forget, Judged, sender, Claimed, account, Total
<1>2. CASE files' = files
  BY <1>1, <1>2, SameFiles
<1>3. CASE files' = Sealed
  BY <1>1, <1>3, MovedFile DEF Sealed
<1> QED
  BY <1>2, <1>3 DEF FlushIfDue, JournalFails, StopAdmission, Close

LEMMA RecoverInflightAccount ==
    ASSUME Counting, IInv, IInv', AccountInv, CopiesInv, RecoverInflight
    PROVE  AccountInv' /\ CopiesInv'
<1>1. Judged
  BY DEF RecoverInflight, Judged, sender, account, Total
<1> QED
  BY <1>1, MovedFile DEF RecoverInflight, ClaimedExtension

\* A file is deleted.
LEMMA DeletedFile ==
    ASSUME Counting, IInv, IInv', AccountInv, CopiesInv, MissedInv, NEW f \in files,
           f.ext = "done", mode # "down", mode' = mode, rebuild' = rebuild, Delete(f),
           mode' = "up" /\ pc' \in Claimed \ {"saved", "unsaved"}
             => mode = "up" /\ pc \notin {"saved", "unsaved"}
    PROVE  AccountInv' /\ CopiesInv'
<1>1. f \in AllFiles
  BY DEF IInv, TypeInv
<1>2. Accounted(files, Total)
  BY DEF AccountInv
<1>3. Accounted(files \ {f}, Total - Size(f))
  BY <1>1, <1>2, FileRemoved
<1>4. Accounted(files', Total')
  <2>1. Total' = Total - Size(f)
    <3>1. /\ retained \in Int /\ missed \in Nat /\ Size(f) \in Nat
          /\ retained' = retained - Size(f) /\ missed' = missed
      BY <1>1, SizeType DEF MissedInv, Delete
    <3> HIDE DEF Size
    <3> QED
      BY <3>1, SMTT(30) DEF Total
  <2> QED
    BY <1>3, <2>1 DEF Delete
<1>5. AccountInv'
  BY <1>4 DEF AccountInv
<1>6. \A g \in files' : g \in files /\ (Unjudged(g)' => Unjudged(g))
  BY DEF Unjudged, Delete, IInv, PhaseInv
<1> QED
  BY <1>5, <1>6, CopiesKept DEF CopiesInv

LEMMA DeleteAccount ==
    ASSUME Counting, IInv, IInv', AccountInv, CopiesInv, MissedInv, DeleteDone \/ RecoverDone
    PROVE  AccountInv' /\ CopiesInv'
<1>1. CASE RecoverDone
  BY <1>1, DeletedFile DEF RecoverDone, sender, Claimed, IInv, PhaseInv
<1>2. CASE DeleteDone /\ Delete(File(claim, "done"))
  <2>1. File(claim, "done") \in files /\ File(claim, "done").ext = "done"
    BY <1>2 DEF DeleteDone, IInv, PhaseInv, File
  <2> QED
    BY <1>2, <2>1, DeletedFile DEF DeleteDone, Claimed
<1>3. CASE DeleteDone /\ UNCHANGED <<files, account>>
  <2>1. Judged
    BY <1>3 DEF DeleteDone, Judged, Claimed, account, Total
  <2> QED
    BY <1>3, <2>1, SameFiles
<1> QED
  BY <1>1, <1>2, <1>3 DEF DeleteDone

\* A file is added.
LEMMA AddedFile ==
    ASSUME Counting, AccountInv, mode # "down", mode' = mode, NEW f \in AllFiles, f \notin files,
           files' = files \cup {f}, Total' = Total + Size(f)
    PROVE  AccountInv'
<1>1. Accounted(files, Total)
  BY DEF AccountInv
<1>2. Accounted(files \cup {f}, Total + Size(f))
  BY <1>1, FileAdded
<1>3. Accounted(files', Total')
  BY <1>2
<1> QED
  BY <1>3 DEF AccountInv

LEMMA ResultFile ==
    ASSUME NEW n \in Nat, NEW g, g = [NoFile EXCEPT !.order = n, !.ext = "result"]
    PROVE  g \in AllFiles /\ g.order = n /\ g.ext = "result"
<1>1. "result" \in Extensions
  BY DEF Extensions
<1> QED
  BY <1>1, NoFileType DEF AllFiles

LEMMA SaveResultAccount ==
    ASSUME Counting, IInv, IInv', AccountInv, CopiesInv, MissedInv, SaveResult \/ SaveResultFails
    PROVE  AccountInv' /\ CopiesInv'
<1> DEFINE g == [NoFile EXCEPT !.order = claim, !.ext = "result"]
<1>1. g \in AllFiles /\ g.order = claim /\ g.ext = "result"
  <2>1. claim \in Nat
    BY DEF IInv, TypeInv
  <2> QED
    BY <2>1, ResultFile
<1>2. PICK f \in files : f.order = claim /\ f.ext = "inflight"
  BY DEF SaveResult, SaveResultFails, IInv, PhaseInv, Claimed
<1>3. Unjudged(f) /\ Main(f)
  BY <1>2 DEF SaveResult, SaveResultFails, Unjudged, Main
<1>4. Free(claim, "result")
  BY <1>2, <1>3 DEF CopiesInv
<1>5. /\ files' = files \cup {g} /\ mode = "up" /\ mode' = mode /\ pc' \in {"saved", "unsaved"}
      /\ \/ retained' = retained + 1 /\ missed' = missed
         \/ missed' = missed + 1 /\ retained' = retained
  BY DEF SaveResult, SaveResultFails
<1>12. Total' = Total + 1
  BY <1>5, SMTT(30) DEF Total, MissedInv
<1> HIDE DEF g
<1>6. g \notin files /\ Size(g) = 1
  BY <1>1, <1>4 DEF Free, Size
<1>7. AccountInv'
  BY <1>1, <1>5, <1>6, <1>12, AddedFile
<1>8. rebuild' = NoFile
  BY <1>5 DEF IInv, PhaseInv
<1>9. ASSUME NEW h \in files', h.ext = "open" PROVE Free(h.order, "recovered")'
  BY <1>1, <1>5, <1>9 DEF CopiesInv, Free
<1>10. ASSUME NEW h \in files', Unjudged(h)' PROVE Free(h.order, "result")'
  <2>1. h.ext \in {"open", "pending", "rebuild"}
    BY <1>5, <1>10 DEF Unjudged
  <2>2. h \in files /\ Main(h) /\ h # f /\ Unjudged(h)
    BY <1>1, <1>2, <1>5, <2>1 DEF Main, Unjudged
  <2>3. h.order # claim
    BY <1>2, <1>3, <2>2 DEF IInv, FilesInv
  <2>4. Free(h.order, "result")
    BY <2>2 DEF CopiesInv
  <2> QED
    BY <1>1, <1>5, <2>3, <2>4 DEF Free
<1> QED
  BY <1>7, <1>8, <1>9, <1>10 DEF CopiesInv

\* The original of a file is set aside.
LEMMA RecoverOpenAccount ==
    ASSUME Counting, IInv, IInv', AccountInv, CopiesInv, RecoverOpen
    PROVE  AccountInv' /\ CopiesInv'
<1>1. PICK f \in files :
          /\ f.ext = "open" /\ files' = Moved(files, f.order, "open", "recovered")
          /\ rebuild' = IF f.items = <<>> THEN NoFile
                        ELSE [f EXCEPT !.ext = "rebuild", !.torn = FALSE]
  BY DEF RecoverOpen
<1>2. mode = "recovering" /\ mode' = mode /\ Total' = Total /\ pc' = pc
  BY DEF RecoverOpen, sender, account, Total
<1>3. files \in SUBSET AllFiles /\ "recovered" \in Extensions
  BY DEF IInv, TypeInv, Extensions
<1>4. Free(f.order, "recovered") /\ Free(f.order, "result")
  BY <1>1 DEF CopiesInv, Unjudged
<1>5. Alone(files, f.order, "open", "recovered")
  BY <1>4 DEF Alone, Free, IInv, FilesInv, Main
<1>6. AccountInv'
  <2>1. Accounted(files, Total)
    BY <1>2 DEF AccountInv
  <2>2. Accounted(Moved(files, f.order, "open", "recovered"), Total)
    BY <1>3, <1>5, <2>1, FileMoved
  <2>3. Accounted(files', Total')
    BY <1>1, <1>2, <2>2
  <2> QED
    BY <1>2, <2>3 DEF AccountInv
<1>7. \A g \in files' : \E h \in files : MovedTo(h, g, f.order, "open", "recovered")
  BY <1>1, <1>3, MovedFiles
<1>8. ASSUME NEW g \in files'
      PROVE  \/ g \in files /\ (g.ext = "open" => g.order # f.order)
             \/ g.ext = "recovered" /\ g.order = f.order
  <2>1. PICK h \in files : MovedTo(h, g, f.order, "open", "recovered")
    BY <1>7
  <2> QED
    BY <2>1 DEF MovedTo
<1>9. ASSUME NEW g \in files', g.ext = "open" PROVE Free(g.order, "recovered")'
  <2>1. g \in files /\ g.order # f.order /\ Free(g.order, "recovered")
    BY <1>8, <1>9 DEF CopiesInv
  <2> QED
    BY <1>8, <2>1 DEF Free
<1>10. \A n : Free(n, "result") => Free(n, "result")'
  BY <1>8 DEF Free
<1>11. ASSUME NEW g \in files', Unjudged(g)' PROVE Free(g.order, "result")'
  <2>1. g \in files /\ Unjudged(g)
    BY <1>2, <1>8, <1>11 DEF Unjudged
  <2> QED
    BY <1>10, <2>1 DEF CopiesInv
<1>12. rebuild' # NoFile => Free(rebuild.order, "result")'
  <2> DEFINE copy == [f EXCEPT !.ext = "rebuild", !.torn = FALSE]
  <2>1. copy.order = f.order
    BY <1>3, SMT DEF AllFiles
  <2>2. rebuild' # NoFile => rebuild' = copy
    BY <1>1
  <2> HIDE DEF copy
  <2> QED
    BY <1>4, <1>10, <2>1, <2>2 DEF Free
<1> QED
  BY <1>6, <1>9, <1>11, <1>12 DEF CopiesInv

LEMMA WriteRecoveredAccount ==
    ASSUME Counting, IInv, IInv', AccountInv, CopiesInv, MissedInv, WriteRecovered
    PROVE  AccountInv' /\ CopiesInv'
<1>1. /\ mode = "recovering" /\ mode' = mode /\ pc' = pc
      /\ rebuild \in AllFiles /\ rebuild # NoFile /\ rebuild.ext = "rebuild"
  BY DEF WriteRecovered, sender, IInv, TypeInv, PhaseInv
<1>2. CASE rebuild \in files
  <2>1. Judged /\ files' = Moved(files, rebuild.order, "rebuild", "pending")
    BY <1>1, <1>2 DEF WriteRecovered, Judged, sender, account, Total
  <2> QED
    BY <1>1, <2>1, MovedFile
<1>3. CASE rebuild \notin files
  <2>1. /\ files' = files \cup {rebuild} /\ rebuild' = rebuild
        /\ retained' = retained + Size(rebuild) /\ missed' = missed
    BY <1>3 DEF WriteRecovered
  <2>2. Total' = Total + Size(rebuild)
    <3>1. retained \in Int /\ missed \in Nat /\ Size(rebuild) \in Nat
      BY <1>1, SizeType DEF MissedInv
    <3> HIDE DEF Size
    <3> QED
      BY <2>1, <3>1, SMTT(30) DEF Total
  <2>3. AccountInv'
    BY <1>1, <1>3, <2>1, <2>2, AddedFile
  <2>4. Free(rebuild.order, "result")
    BY <1>1 DEF CopiesInv
  <2>5. ASSUME NEW g \in files'
        PROVE  /\ g.ext \in {"recovered", "result"} => g \in files
               /\ g.ext = "open" => Free(g.order, "recovered")
               /\ Unjudged(g)' => Free(g.order, "result")
    <3>1. CASE g = rebuild
      BY <1>1, <2>4, <3>1
    <3>2. CASE g \in files
      <4>1. Unjudged(g)' => Unjudged(g)
        BY <1>1 DEF Unjudged
      <4> QED
        BY <3>2, <4>1 DEF CopiesInv
    <3> QED
      BY <2>1, <3>1, <3>2
  <2> QED
    BY <2>1, <2>3, <2>4, <2>5, CopiesKept
<1> QED
  BY <1>2, <1>3

\* A frame is written, whole or torn: the open file grows by that frame, or a new one begins
\* with it.
LEMMA WriteAccount ==
    ASSUME Counting, IInv, IInv', AccountInv, CopiesInv, mode = "up", mode' = mode, pc' = pc,
           rebuild' = rebuild, NEW long, NEW file \in AllFiles, Write(long, file),
           file.order = Target(long).order, file.ext = "open",
           NEW d \in Nat, Size(file) = Size(Target(long)) + d, Total' = Total + d
    PROVE  AccountInv' /\ CopiesInv'
<1> DEFINE T == Target(long)
           D == Directory(long)
<1>1. files \in SUBSET AllFiles /\ sequence \in Nat /\ T \in AllFiles /\ T.ext = "open"
  BY TargetFile DEF IInv, TypeInv
<1>2. files' = (D \ {T}) \cup {file}
  BY DEF Write
<1>3. Accounted(files, Total) /\ Total \in Nat
  BY AccountType DEF AccountInv
<1>4. Size(T) \in Nat /\ Size(file) \in Nat /\ Size(file) = Size(T) + d
  BY <1>1, SizeType
<1>5. D \in SUBSET AllFiles /\ Accounted(D, Total) /\ \A g \in D : \E f \in files : g.order = f.order
  <2>1. CASE ~Full(long)
    BY <1>1, <1>3, <2>1 DEF Directory
  <2>2. CASE Full(long)
    <3>1. D = Moved(files, active, "open", "pending")
      BY <2>2 DEF Directory, Sealed
    <3>2. "pending" \in Extensions /\ "pending" # "result" /\ "open" # "result"
      BY DEF Extensions
    <3>3. Alone(files, active, "open", "pending")
      BY DEF Alone, IInv, FilesInv, Main
    <3>4. Accounted(Moved(files, active, "open", "pending"), Total)
      BY <1>1, <1>3, <3>2, <3>3, FileMoved
    <3>5. /\ Moved(files, active, "open", "pending") \subseteq AllFiles
          /\ \A g \in Moved(files, active, "open", "pending") : \E f \in files : g.order = f.order
      <4>1. \A f \in AllFiles : /\ [f EXCEPT !.ext = "pending"] \in AllFiles
                                /\ [f EXCEPT !.ext = "pending"].order = f.order
        BY <3>2, SMTT(30) DEF AllFiles
      <4> QED
        BY <1>1, <4>1 DEF Moved
    <3> QED
      BY <3>1, <3>4, <3>5
  <2> QED
    BY <2>1, <2>2
<1>6. ASSUME Accounted(files', Total') PROVE AccountInv'
  BY <1>6 DEF AccountInv
<1>7. ASSUME active # 0 /\ ~Full(long) PROVE AccountInv'
  <2>1. T = File(active, "open") /\ D = files
    BY <1>7 DEF Target, Directory
  <2>2. T \in files
    BY <1>7, <2>1 DEF IInv, PhaseInv, File
  <2> HIDE DEF T, D
  <2>3. file \notin files \ {T}
    BY <1>1, <2>2 DEF IInv, FilesInv, Main, T
  <2>4. Accounted((files \ {T}) \cup {file}, (Total - Size(T)) + Size(file))
    BY <1>1, <1>3, <2>2, <2>3, FileReplaced
  <2>5. (Total - Size(T)) + Size(file) = Total + d
    BY <1>3, <1>4, SMT
  <2> QED
    BY <1>2, <1>6, <2>1, <2>4, <2>5
<1>8. ASSUME ~(active # 0 /\ ~Full(long)) PROVE AccountInv'
  <2>1. T = [NoFile EXCEPT !.order = sequence + 1]
    BY <1>8 DEF Target
  <2>2. T.order = sequence + 1 /\ Size(T) = 0
    BY <2>1, SMT DEF NoFile, Size
  <2> HIDE DEF T, D
  <2>3. sequence + 1 \in Nat /\ sequence < sequence + 1 /\ 0 + d = d
    BY <1>1, SMT
  <2>4. \A ext : Free(sequence + 1, ext)
    BY <2>3, FreeNumber
  <2>5. \A f \in files : f.order # sequence + 1
    BY <2>4 DEF Free
  <2>6. T \notin D /\ file \notin D
    BY <1>5, <2>2, <2>5 DEF T
  <2>7. files' = D \cup {file} /\ Size(file) = d
    BY <1>2, <1>4, <2>2, <2>3, <2>6
  <2>8. Accounted(D \cup {file}, Total + Size(file))
    BY <1>5, <2>6, FileAdded
  <2> QED
    BY <1>6, <2>7, <2>8
<1>9. AccountInv'
  BY <1>7, <1>8
<1>10. ASSUME NEW g \in files'
       PROVE  /\ g.ext \in {"recovered", "result"} => g \in files
              /\ g.ext = "open" => Free(g.order, "recovered")
              /\ Unjudged(g)' => Free(g.order, "result")
  <2>1. /\ g = file \/ \E f \in files : Kept(f, g)
        /\ \/ T \in files /\ T.ext = "open"
           \/ sequence < file.order
    BY WriteFiles
  <2>2. file.order \in Nat
    BY SMT DEF AllFiles
  <2>3. Free(file.order, "recovered") /\ Free(file.order, "result")
    BY <2>1, <2>2, FreeNumber DEF CopiesInv, Unjudged
  <2>4. ASSUME NEW f \in files, Kept(f, g)
        PROVE  /\ g.ext \in {"recovered", "result"} => g \in files
               /\ g.ext = "open" => Free(g.order, "recovered")
               /\ Unjudged(g)' => Free(g.order, "result")
    <3>1. g.order = f.order /\ (g = f \/ (f.ext = "open" /\ g.ext = "pending"))
      BY <2>4 DEF Kept
    <3>2. Unjudged(g)' => Unjudged(f)
      BY <3>1 DEF Unjudged
    <3> QED
      BY <3>1, <3>2 DEF CopiesInv
  <2> QED
    BY <2>1, <2>3, <2>4
<1> QED
  BY <1>9, <1>10, CopiesKept DEF CopiesInv

LEMMA TornFile ==
    ASSUME NEW f \in AllFiles, NEW g, g = [f EXCEPT !.torn = TRUE]
    PROVE  g \in AllFiles /\ g.order = f.order /\ g.ext = f.ext /\ g.items = f.items /\ g.torn
BY DEF AllFiles

LEMMA LongerFile ==
    ASSUME NEW f \in AllFiles, NEW e \in 1..MaxEvents, NEW g, g = [f EXCEPT !.items = Append(@, e)]
    PROVE  /\ g \in AllFiles /\ g.order = f.order /\ g.ext = f.ext
           /\ Len(g.items) = Len(f.items) + 1 /\ g.torn = f.torn
<1>1. /\ f.items \in Seq(1..MaxEvents) /\ Append(f.items, e) \in Seq(1..MaxEvents)
      /\ Len(Append(f.items, e)) = Len(f.items) + 1
  BY SMT DEF AllFiles
<1>2. g = [f EXCEPT !.items = Append(f.items, e)]
  OBVIOUS
<1> QED
  BY <1>1, <1>2 DEF AllFiles

LEMMA SizeOfOpen ==
    ASSUME NEW f \in AllFiles, f.ext = "open"
    PROVE  Len(f.items) \in Nat /\ Size(f) = Len(f.items) + IF f.torn THEN 1 ELSE 0
<1>1. f.items \in Seq(1..MaxEvents) /\ f.ext # "result"
  BY DEF AllFiles
<1>2. Len(f.items) \in Nat
  BY <1>1, SMT
<1> QED
  BY <1>1, <1>2 DEF Size

LEMMA RecordAccount ==
    ASSUME Counting, IInv, IInv', AccountInv, CopiesInv, MissedInv, TornInv, Record \/ RecordFails
    PROVE  AccountInv' /\ CopiesInv'
<1>1. mode = "up" /\ accepting /\ mode' = mode /\ pc' = pc /\ rebuild' = rebuild /\ 1 \in Nat
  BY SMT DEF Record, RecordFails, sender
<1>2. \A long : Target(long) \in AllFiles /\ Target(long).ext = "open"
  BY TargetFile
<1>3. Total' = Total + 1
  <2>1. \/ retained' = retained + 1 /\ missed' = missed
        \/ missed' = missed + 1 /\ retained' = retained
    BY DEF Record, RecordFails
  <2> QED
    BY <2>1, SMTT(30) DEF Total, MissedInv
<1>4. CASE Record
  <2>1. PICK long \in BOOLEAN : Write(long, [Target(long) EXCEPT !.items = Append(@, events')])
    BY <1>4 DEF Record
  <2> DEFINE T == Target(long)
             file == [T EXCEPT !.items = Append(@, events')]
  <2>2. T \in AllFiles /\ T.ext = "open"
    BY <1>2
  <2>3. events' \in 1..MaxEvents
    <3>1. events \in Nat /\ events < MaxEvents /\ events' = events + 1 /\ MaxEvents \in Nat
      BY <1>4, JournalAssumption DEF Record, IInv, TypeInv
    <3> QED
      BY <3>1, SMTT(30)
  <2>4. Write(long, file) /\ T = Target(long)
    BY <2>1
  <2> HIDE DEF T
  <2>5. /\ file \in AllFiles /\ file.order = T.order /\ file.ext = "open"
        /\ Len(file.items) = Len(T.items) + 1 /\ file.torn = T.torn
    BY <2>2, <2>3, LongerFile
  <2> HIDE DEF file
  <2>6. Size(file) = Size(T) + 1
    <3> DEFINE i == IF T.torn THEN 1 ELSE 0
               n == Len(T.items)
    <3>1. n \in Nat /\ i \in {0, 1} /\ Size(T) = n + i /\ Size(file) = (n + 1) + i
      BY <2>2, <2>5, SizeOfOpen
    <3> HIDE DEF i, n
    <3>2. (n + 1) + i = (n + i) + 1
      BY <3>1, SMTT(30)
    <3> QED
      BY <3>1, <3>2
  <2> QED
    BY <1>1, <1>3, <2>2, <2>4, <2>5, <2>6, WriteAccount
<1>5. CASE RecordFails
  <2>1. PICK long \in BOOLEAN : Write(long, [Target(long) EXCEPT !.torn = TRUE])
    BY <1>5 DEF RecordFails
  <2> DEFINE T == Target(long)
             file == [T EXCEPT !.torn = TRUE]
  <2>2. T \in AllFiles /\ T.ext = "open" /\ ~T.torn
    <3>1. T \in files \/ T = [NoFile EXCEPT !.order = sequence + 1]
      BY DEF Target, File, IInv, PhaseInv
    <3> QED
      BY <1>1, <1>2, <3>1 DEF TornInv, NoFile
  <2>3. Write(long, file) /\ T = Target(long)
    BY <2>1
  <2> HIDE DEF T
  <2>4. file \in AllFiles /\ file.order = T.order /\ file.ext = "open" /\ file.items = T.items /\ file.torn
    BY <2>2, TornFile
  <2> HIDE DEF file
  <2>5. Size(file) = Size(T) + 1
    <3> DEFINE n == Len(T.items)
    <3>1. n \in Nat /\ Size(T) = n + 0 /\ Size(file) = n + 1
      BY <2>2, <2>4, SizeOfOpen
    <3> HIDE DEF n
    <3>2. n + 1 = (n + 0) + 1
      BY <3>1, SMTT(30)
    <3> QED
      BY <3>1, <3>2
  <2> QED
    BY <1>1, <1>3, <2>3, <2>4, <2>5, WriteAccount
<1> QED
  BY <1>4, <1>5

\* After a crash the sizes, that of a torn frame included, are counted anew.
LEMMA CrashAccount ==
    ASSUME Counting, IInv, IInv', AccountInv, CopiesInv, Crash PROVE AccountInv' /\ CopiesInv'
<1>1. mode' = "down" /\ rebuild' = NoFile
  BY DEF Crash, Forget
<1>2. CASE files' = files
  <2>1. Judged
    BY <1>1 DEF Judged
  <2> QED
    BY <1>2, <2>1, SameFiles
<1>3. ASSUME active # 0, NEW f, f = File(active, "open"),
             files' = (files \ {f}) \cup {[f EXCEPT !.torn = TRUE]}
      PROVE  AccountInv' /\ CopiesInv'
  <2> DEFINE g == [f EXCEPT !.torn = TRUE]
  <2>1. f \in files /\ f.ext = "open" /\ f \in AllFiles /\ files' = (files \ {f}) \cup {g}
    BY <1>3 DEF IInv, TypeInv, PhaseInv, File
  <2>2. g \in AllFiles /\ g.order = f.order /\ g.ext = "open"
    BY <2>1, TornFile
  <2> HIDE DEF g
  <2>3. g \notin files \ {f}
    BY <2>1, <2>2 DEF IInv, FilesInv, Main
  <2>4. PICK n : Accounted(files, n)
    BY DEF AccountInv
  <2>5. Accounted((files \ {f}) \cup {g}, (n - Size(f)) + Size(g))
    BY <2>1, <2>2, <2>3, <2>4, FileReplaced
  <2>6. AccountInv'
    BY <1>1, <2>1, <2>5 DEF AccountInv
  <2>7. ASSUME NEW h \in files'
        PROVE  /\ h.ext \in {"recovered", "result"} => h \in files
               /\ h.ext = "open" => Free(h.order, "recovered")
               /\ Unjudged(h)' => Free(h.order, "result")
    <3>1. Free(f.order, "recovered") /\ Free(f.order, "result")
      BY <2>1 DEF CopiesInv, Unjudged
    <3>2. Unjudged(h)' => Unjudged(h)
      BY <1>1 DEF Unjudged
    <3>3. CASE h = g
      BY <2>2, <3>1, <3>3
    <3>4. CASE h \in files
      BY <3>2, <3>4 DEF CopiesInv
    <3> QED
      BY <2>1, <3>3, <3>4
  <2> QED
    BY <1>1, <2>6, <2>7, CopiesKept
<1> QED
  BY <1>2, <1>3 DEF Crash

LEMMA AccountStep ==
    ASSUME Counting, IInv, IInv', AccountInv, CopiesInv, MissedInv, TornInv, [Next]_vars
    PROVE  AccountInv' /\ CopiesInv'
<1>1. CASE Record \/ RecordFails \/ SealFails \/ FlushIfDue \/ JournalFails
  BY <1>1, RecordAccount, QuietAccount, SealAccount
<1>2. CASE SenderStep
  BY <1>2, QuietAccount, TakenAccount, ClaimMoves, DeleteAccount, SaveResultAccount, CancelAccount
     DEF SenderStep
<1>3. CASE ServerExecute \/ RequestLost \/ UNCHANGED vars
  BY <1>3, QuietAccount
<1>4. CASE Shutdown \/ StopAdmission \/ Close \/ Crash \/ Start
  BY <1>4, QuietAccount, SealAccount, CrashAccount, StartAccount
<1>5. CASE Recovery
  BY <1>5, RecoverInflightAccount, DeleteAccount, RecoverOpenAccount, WriteRecoveredAccount,
     QuietAccount DEF Recovery
<1> QED
  BY <1>1, <1>2, <1>3, <1>4, <1>5 DEF Next

\* What may be missed.
LEMMA MissedStep ==
    ASSUME Counting, IInv, AccountInv, MissedInv, [Next]_vars PROVE MissedInv'
<1>1. faults \in Nat /\ files \subseteq AllFiles /\ rebuild \in AllFiles
  BY DEF IInv, TypeInv
<1> DEFINE May(r, m) ==
             /\ r \in Int /\ faults' \in {faults, faults + 1} /\ (mode' = "down" => m = 0)
             /\ m \in {0, missed} \/ (m = missed + 1 /\ faults' = faults + 1)
<1>2. ASSUME May(retained', missed') PROVE MissedInv'
  BY <1>1, <1>2, SMTT(30) DEF MissedInv
<1>3. ASSUME NEW f \in AllFiles
      PROVE  retained + Size(f) \in Int /\ retained - Size(f) \in Int
  <2>1. retained \in Int /\ Size(f) \in Nat
    BY SizeType DEF MissedInv
  <2> HIDE DEF Size
  <2> QED
    BY <2>1, SMTT(30)
<1>4. retained \in Int /\ retained + 1 \in Int /\ 0 \in Int
  BY SMTT(30) DEF MissedInv
<1>5. Sizes(files) \in Int
  <2>1. Sizes(files) \in Nat
    BY AccountType DEF AccountInv, Accounted
  <2> HIDE DEF Sizes
  <2> QED
    BY <2>1, SMTT(30)
<1>6. mode = "down" => missed = 0
  BY DEF MissedInv
<1> USE <1>4 DEF May, account, bounds
<1> HIDE <1>2, <1>3, <1>5, <1>6
<1>7. CASE Record \/ RecordFails \/ SealFails \/ FlushIfDue \/ JournalFails
  <2>1. May(retained', missed')
    BY <1>7 DEF Record, RecordFails, SealFails, FlushIfDue, JournalFails
  <2> QED
    BY <1>2, <2>1
<1>8. CASE OldestPending \/ NothingPending \/ ConnectFails \/ Damaged \/ Claim \/ NotSent
  <2>1. May(retained', missed')
    BY <1>8 DEF OldestPending, NothingPending, ConnectFails, Damaged, Claim, NotSent
  <2> QED
    BY <1>2, <2>1
<1>9. CASE Transmit \/ Response \/ Uncertain \/ Accepted \/ Partial \/ Cancel
  <2>1. May(retained', missed')
    BY <1>9 DEF Transmit, Response, Uncertain, Accepted, Partial, Cancel
  <2> QED
    BY <1>2, <2>1
<1>10. CASE SaveResult \/ SaveResultFails
  <2>1. May(retained', missed')
    BY <1>10 DEF SaveResult, SaveResultFails
  <2> QED
    BY <1>2, <2>1
<1>11. CASE DeleteDone \/ RecoverDone
  <2>1. CASE \E f \in files : Delete(f)
    <3>1. retained' \in Int /\ missed' = missed
      BY <1>1, <1>3, <2>1 DEF Delete
    <3>2. faults' \in {faults, faults + 1} /\ mode' = mode
      BY <1>11 DEF DeleteDone, RecoverDone
    <3>3. May(retained', missed')
      BY <1>6, <3>1, <3>2
    <3> QED
      BY <1>2, <3>3
  <2>2. CASE DeleteDone /\ UNCHANGED <<files, account>>
    <3>1. May(retained', missed')
      BY <2>2 DEF DeleteDone
    <3> QED
      BY <1>2, <3>1
  <2>3. DeleteDone => File(claim, "done") \in files
    BY DEF DeleteDone, IInv, PhaseInv, File
  <2> QED
    BY <1>11, <2>1, <2>2, <2>3 DEF DeleteDone, RecoverDone
<1>12. CASE ServerExecute \/ RequestLost \/ UNCHANGED vars
  <2>1. May(retained', missed')
    BY <1>6, <1>12 DEF ServerExecute, RequestLost, vars
  <2> QED
    BY <1>2, <2>1
<1>13. CASE Shutdown \/ StopAdmission \/ Close \/ Crash \/ Start
  <2>1. May(retained', missed')
    BY <1>5, <1>13 DEF Shutdown, StopAdmission, Close, Crash, Start, Forget
  <2> QED
    BY <1>2, <2>1
<1>14. CASE RecoverInflight \/ RecoverOpen \/ WriteRecovered \/ Recovered
  <2>1. May(retained', missed')
    BY <1>1, <1>3, <1>14 DEF RecoverInflight, RecoverOpen, WriteRecovered, Recovered
  <2> QED
    BY <1>2, <2>1
<1> QED
  BY <1>7, <1>8, <1>9, <1>10, <1>11, <1>12, <1>13, <1>14 DEF Next, SenderStep, Recovery

\* While events are admitted, no open file is torn.
LEMMA TornStep == ASSUME IInv, TornInv, [Next]_vars PROVE TornInv'
<1>1. files \in SUBSET AllFiles
  BY DEF IInv, TypeInv
<1> DEFINE Whole == \A g \in files' : g.ext = "open" => g \in files \/ ~g.torn
           Earlier == mode' = "up" /\ accepting' => mode = "up" /\ accepting
<1>2. ASSUME Whole, Earlier PROVE TornInv'
  BY <1>2 DEF TornInv
<1>3. ASSUME files' = files PROVE Whole
  BY <1>3
<1>4. ASSUME NEW n, NEW from, NEW to \in Extensions, to # "open",
             files' = Moved(files, n, from, to)
      PROVE  Whole
  <2>1. \A g \in files' : \E f \in files : MovedTo(f, g, n, from, to)
    BY <1>1, <1>4, MovedFiles
  <2> QED
    BY <1>4, <2>1 DEF MovedTo
<1>5. {"pending", "inflight", "done", "uncertain", "partial", "damaged", "recovered"} \subseteq Extensions
  BY DEF Extensions
<1>6. ASSUME files' = Sealed PROVE Whole
  BY <1>4, <1>5, <1>6 DEF Sealed
<1>7. CASE Record
  <2>1. PICK long \in BOOLEAN : Write(long, [Target(long) EXCEPT !.items = Append(@, events')])
    BY <1>7 DEF Record
  <2>2. Target(long) \in AllFiles /\ ~Target(long).torn
    <3>1. Target(long) \in files \/ Target(long) = [NoFile EXCEPT !.order = sequence + 1]
      BY DEF Target, File, IInv, PhaseInv
    <3> QED
      BY <1>7, <3>1, TargetFile DEF TornInv, NoFile, Record
  <2> DEFINE T == Target(long)
             file == [T EXCEPT !.items = Append(@, events')]
  <2>3. ~file.torn
    <3> HIDE DEF T
    <3> QED
      BY <2>2 DEF T, AllFiles
  <2>4. \A g \in files' : g = file \/ g \in files \/ g.ext = "pending"
    BY <1>1, <2>1 DEF Write, Directory, Sealed, Moved, AllFiles
  <2> HIDE DEF file
  <2>5. Whole
    BY <2>3, <2>4
  <2> QED
    BY <1>2, <1>7, <2>5 DEF Record
<1>8. CASE RecordFails \/ Crash
  BY <1>8 DEF RecordFails, Crash, Forget, TornInv
<1>9. CASE SealFails \/ FlushIfDue \/ JournalFails \/ StopAdmission \/ Close
  BY <1>2, <1>3, <1>6, <1>9 DEF SealFails, FlushIfDue, JournalFails, StopAdmission, Close, Forget
<1>10. CASE OldestPending \/ NothingPending \/ ConnectFails \/ Transmit \/ Response
  BY <1>2, <1>3, <1>10 DEF OldestPending, NothingPending, ConnectFails, Transmit, Response, admission
<1>11. CASE Damaged \/ Claim
  BY <1>2, <1>4, <1>5, <1>11 DEF Damaged, Claim, admission
<1>12. CASE NotSent \/ Uncertain \/ Accepted \/ Partial
  BY <1>2, <1>4, <1>5, <1>12 DEF NotSent, Uncertain, Accepted, Partial, MoveClaim, admission
<1>13. CASE Cancel
  BY <1>2, <1>3, <1>4, <1>5, <1>13 DEF Cancel, MoveClaim, admission
<1>14. CASE SaveResult \/ SaveResultFails
  <2>1. claim \in Nat
    BY DEF IInv, TypeInv
  <2> DEFINE res == [NoFile EXCEPT !.order = claim, !.ext = "result"]
  <2>2. res.ext = "result"
    BY <2>1, ResultFile
  <2>4. files' = files \cup {res} /\ mode' = mode /\ accepting' = accepting
    BY <1>14 DEF SaveResult, SaveResultFails, admission
  <2> HIDE DEF res
  <2>3. Whole /\ Earlier
    BY <2>2, <2>4
  <2> QED
    BY <1>2, <2>3
<1>15. CASE DeleteDone \/ RecoverDone
  BY <1>2, <1>15 DEF DeleteDone, RecoverDone, Delete, admission
<1>16. CASE ServerExecute \/ RequestLost \/ Shutdown \/ UNCHANGED vars
  <2>1. files' = files /\ mode' = mode /\ accepting' = accepting
    BY <1>16 DEF ServerExecute, RequestLost, Shutdown, vars, admission
  <2> QED
    BY <1>2, <1>3, <2>1
<1>17. CASE Start \/ RecoverInflight \/ RecoverOpen \/ WriteRecovered
  BY <1>17 DEF Start, RecoverInflight, RecoverOpen, WriteRecovered, TornInv
<1>18. CASE Recovered
  BY <1>18 DEF Recovered, TornInv
<1> QED
  BY <1>7, <1>8, <1>9, <1>10, <1>11, <1>12, <1>13, <1>14, <1>15, <1>16, <1>17, <1>18
     DEF Next, SenderStep, Recovery

\* The types that the invariant does not need.
RestInv ==
    /\ mode \in {"up", "recovering", "down"} /\ pc \in Phases /\ failed \subseteq 1..MaxEvents
    /\ accepting \in BOOLEAN /\ broken \in BOOLEAN /\ stopping \in BOOLEAN
    /\ failures \in Nat /\ crashes \in Nat /\ stops \in Nat

LEMMA RestStep == ASSUME IInv, RestInv, [Next]_vars PROVE RestInv'
<1> USE DEF RestInv, server, admission, sender, client, bounds
<1>1. \A n \in Nat : n + 1 \in Nat
  BY SMT
<1>2. CASE Record \/ RecordFails \/ SealFails \/ FlushIfDue \/ JournalFails
  BY <1>2 DEF Record, RecordFails, SealFails, FlushIfDue, JournalFails
<1>3. CASE OldestPending \/ NothingPending \/ ConnectFails \/ Damaged \/ Claim
  BY <1>1, <1>3 DEF OldestPending, NothingPending, ConnectFails, Damaged, Claim, Phases
<1>4. CASE NotSent \/ Transmit \/ Uncertain \/ Accepted \/ DeleteDone
  BY <1>1, <1>4 DEF NotSent, Transmit, Uncertain, Accepted, DeleteDone, Phases
<1>5. CASE Response
  <2>1. \A r \in replies : r.failed \subseteq 1..MaxEvents
    BY DEF IInv, TypeInv
  <2> QED
    BY <1>5, <2>1 DEF Response, Phases
<1>6. CASE SaveResult \/ SaveResultFails \/ Partial \/ Cancel
  BY <1>6 DEF SaveResult, SaveResultFails, Partial, Cancel, Phases
<1>7. CASE ServerExecute \/ RequestLost \/ UNCHANGED vars
  BY <1>7 DEF ServerExecute, RequestLost, vars
<1>8. CASE Shutdown \/ StopAdmission \/ Start
  BY <1>1, <1>8 DEF Shutdown, StopAdmission, Start
<1>9. CASE Close \/ Crash
  BY <1>1, <1>9 DEF Close, Crash, Forget, Phases
<1>10. CASE Recovery
  BY <1>10 DEF Recovery, RecoverInflight, RecoverDone, RecoverOpen, WriteRecovered, Recovered, Phases
<1> QED
  BY <1>2, <1>3, <1>4, <1>5, <1>6, <1>7, <1>8, <1>9, <1>10 DEF Next, SenderStep

SizeInv == AccountInv /\ CopiesInv /\ MissedInv /\ TornInv /\ RestInv

LEMMA SizeInit == ASSUME Counting, Init PROVE SizeInv
<1>1. Accounted({}, 0)
  BY DEF Accounted, Sizes, Frames, Counting
<1>2. AccountInv /\ CopiesInv /\ TornInv
  <2>1. Total = 0
    BY SMTT(30) DEF Init, Total
  <2> QED
    BY <1>1, <2>1 DEF Init, AccountInv, CopiesInv, TornInv
<1>4. MissedInv
  BY SMTT(30) DEF Init, MissedInv
<1>3. RestInv
  <2>1. 0 \in Nat
    BY SMT
  <2> QED
    BY <2>1 DEF Init, RestInv, Phases
<1> QED
  BY <1>2, <1>3, <1>4 DEF SizeInv

LEMMA SizesExact == ASSUME Counting, IInv, SizeInv PROVE RetainedExact
<1>1. mode # "down" => retained + missed = Sizes(files)
  BY DEF SizeInv, AccountInv, Accounted, Total
<1>2. retained \in Int /\ missed \in Nat /\ missed <= faults
  BY DEF SizeInv, MissedInv
<1>3. admitted \subseteq 1..MaxEvents
  <2>1. events \in Nat /\ events <= MaxEvents /\ admitted \subseteq 1..events /\ MaxEvents \in Nat
    BY JournalAssumption DEF IInv, TypeInv
  <2> QED
    BY <2>1, SMTT(30)
<1>4. TypeOK
  BY <1>2, <1>3 DEF TypeOK, SizeInv, RestInv, IInv, TypeInv
<1> QED
  BY <1>1, <1>2, <1>4 DEF RetainedExact

FS == INSTANCE FiniteSetTheorems

LEMMA CountingHolds == Counting
<1>1. \A S : IsFiniteSet(S) <=> FS!IsFiniteSet(S)
  BY DEF FS!IsFiniteSet, IsFiniteSet
<1>2. \A S : FS!Cardinality(S) = Cardinality(S)
  BY DEF FS!Cardinality, Cardinality, FS!IsFiniteSet, IsFiniteSet
<1>3. IsFiniteSet({}) /\ Cardinality({}) = 0
  BY <1>1, <1>2, FS!FS_EmptySet
<1>4. ASSUME NEW S, IsFiniteSet(S) PROVE Cardinality(S) \in Nat /\ \A T \in SUBSET S : IsFiniteSet(T)
  BY <1>1, <1>2, <1>4, FS!FS_CardinalityType, FS!FS_Subset
<1>5. ASSUME NEW S, NEW T, IsFiniteSet(S), IsFiniteSet(T), S \cap T = {}
      PROVE  IsFiniteSet(S \cup T) /\ Cardinality(S \cup T) = Cardinality(S) + Cardinality(T)
  <2>1. IsFiniteSet(S \cup T)
    BY <1>1, <1>5, FS!FS_Union
  <2>2. Cardinality(S \cup T) = Cardinality(S) + Cardinality(T) - Cardinality(S \cap T)
    BY <1>1, <1>2, <1>5, FS!FS_Union
  <2>3. Cardinality(S) \in Nat /\ Cardinality(T) \in Nat /\ Cardinality(S \cap T) = 0
    BY <1>3, <1>4, <1>5
  <2> QED
    BY <2>1, <2>2, <2>3, SMTT(30)
<1>6. ASSUME NEW x, NEW n \in Nat
      PROVE  IsFiniteSet({x} \X (1..n)) /\ Cardinality({x} \X (1..n)) = n
  <2>1. IsFiniteSet({x}) /\ Cardinality({x}) = 1
    BY <1>1, <1>2, FS!FS_Singleton
  <2>2. 1 \in FS!Int /\ n \in FS!Int
    BY SMTT(30)
  <2>3. IsFiniteSet(1..n) /\ Cardinality(1..n) = IF 1 > n THEN 0 ELSE n - 1 + 1
    BY <1>1, <1>2, <2>2, FS!FS_Interval
  <2>4. Cardinality(1..n) = n
    BY <2>3, SMTT(30)
  <2>5. IsFiniteSet({x} \X (1..n)) /\ Cardinality({x} \X (1..n)) = Cardinality({x}) * Cardinality(1..n)
    BY <1>1, <1>2, <2>1, <2>3, FS!FS_Product
  <2>6. Cardinality({x} \X (1..n)) = 1 * n
    BY <2>1, <2>4, <2>5
  <2> QED
    BY <2>5, <2>6, SMTT(30)
<1> QED
  BY <1>3, <1>4, <1>5, <1>6 DEF Counting

\* Neither an accepted event nor the account of the sizes is lost: while the client runs,
\* retainedBytes and one for each incomplete write since the start are together the size of
\* the directory, through every write, rename, rewritten file, saved result, deletion, error
\* and restart (append, writeRecovered, saveResult, deleteDone, init).
THEOREM AccountIsExact == Spec => []JournalExact
<1>1. Init => SizeInv
  BY CountingHolds, SizeInit
<1>2. IInv /\ IInv' /\ SizeInv /\ [Next]_vars => SizeInv'
  BY CountingHolds, AccountStep, MissedStep, TornStep, RestStep DEF SizeInv
<1>3. IInv /\ SizeInv => JournalExact
  BY CountingHolds, SizesExact DEF JournalExact, IInv
<1> QED
  BY <1>1, <1>2, <1>3, InvHolds, PTL DEF Spec
=============================================================================
