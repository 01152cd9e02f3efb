----------------------------- MODULE TagCounts -----------------------------
(***************************************************************************)
(* The counts of distinct values per tag that choose the index of a read.  *)
(*                                                                         *)
(* Writers hand the tags of committed events to the updater, which marks   *)
(* new values and counts them in the background, without waiting for the   *)
(* disk.  A bounded cache of marked values saves most of the work.  A      *)
(* writer that fills the pending set waits for a flush.                    *)
(***************************************************************************)
EXTENDS Naturals, FiniteSets, Sequences

CONSTANTS
    Tags,           \* pairs of a tag key and a value
    Writers,        \* callers of Add
    Closer,         \* the caller of Close
    Ticker,         \* the timer of run()
    MaxPending,     \* pending values that force a flush
    CacheSize,      \* values the cache holds
    MaxFlushErrors  \* bound on errors of flushes

TagKeys == {t[1] : t \in Tags}

ASSUME TagCountsAssumption ==
    /\ {MaxPending, CacheSize} \subseteq Nat \ {0} /\ MaxFlushErrors \in Nat
    /\ {Closer, Ticker} \cap Writers = {} /\ Closer # Ticker

VARIABLES
    marked,         \* card: keys of the database
    count,          \* card-count: keys, [TagKeys -> Nat]
    disk,           \* what a crash leaves of both
    pending,        \* values to count
    cache,          \* values known to be marked
    entries,        \* values a flush has drained
    serving,        \* for whom run() flushes, {} if it does not
    flushCh,        \* channel of flush requests, of capacity one
    left,           \* tags a writer has still to add
    waiting,        \* a writer's flush: none, to be sent, or sent
    stopped,        \* run() has returned
    recorded,       \* history: tags of committed events since the last loss
    misread,        \* history: tag keys whose count has been read in vain
    flushErrors

counts == <<marked, count, disk, misread>>
updater == <<pending, cache, entries, serving, flushCh, stopped, flushErrors>>
adding == <<left, waiting>>
tagVars == <<counts, updater, adding, recorded>>

TagInit ==
    /\ marked = {} /\ count = [k \in TagKeys |-> 0]
    /\ disk = [marked |-> {}, count |-> count]
    /\ pending = {} /\ cache = {} /\ entries = {}
    /\ serving = {} /\ flushCh = <<>>
    /\ left = [w \in Writers |-> {}] /\ waiting = [w \in Writers |-> "no"]
    /\ stopped = FALSE
    /\ recorded = {} /\ misread = {}
    /\ flushErrors = 0

\* A synchronous commit also makes everything before it durable.
Synced == [marked |-> marked, count |-> count]
WalSync ==
    /\ disk # Synced
    /\ disk' = Synced
    /\ UNCHANGED <<marked, count, misread, updater, adding, recorded>>

\* RecordCommittedEvent, after the commit of events with these tags.
Record(w, tags) ==
    /\ left' = [left EXCEPT ![w] = tags]
    /\ recorded' = recorded \cup tags

Idle(w) == left[w] = {} /\ waiting[w] = "no"

\* Add, one tag after the other.
Add(w) ==
    /\ waiting[w] = "no"
    /\ \E t \in left[w] :
          /\ left' = [left EXCEPT ![w] = @ \ {t}]
          /\ pending' = IF t \in cache THEN pending ELSE pending \cup {t}
          /\ waiting' = [waiting EXCEPT ![w] =
                 IF pending' # pending /\ Cardinality(pending') >= MaxPending
                 THEN "send" ELSE @]
    /\ UNCHANGED <<counts, cache, entries, serving, flushCh, stopped, flushErrors, recorded>>

SendFlush(w) ==
    /\ waiting[w] = "send" /\ flushCh = <<>>
    /\ flushCh' = <<w>>
    /\ waiting' = [waiting EXCEPT ![w] = "sent"]
    /\ UNCHANGED <<counts, pending, cache, entries, serving, stopped, flushErrors, left, recorded>>

-----------------------------------------------------------------------------
(* run(), one flush after the other. *)

Drain(who) ==
    /\ serving = {} /\ ~stopped
    /\ serving' = {who}
    /\ entries' = pending
    /\ pending' = {}
    /\ UNCHANGED <<counts, cache, stopped, flushErrors, adding, recorded>>

Tick == pending # {} /\ Drain(Ticker) /\ UNCHANGED flushCh
Take == flushCh # <<>> /\ Drain(Head(flushCh)) /\ flushCh' = Tail(flushCh)

\* The answer to the writer that asked for the flush; Close ends run().
Replied ==
    /\ serving' = {}
    /\ entries' = {}
    /\ stopped' = (serving = {Closer})
    /\ waiting' = [w \in Writers |-> IF serving = {w} THEN "no" ELSE waiting[w]]

\* Adding to a full cache empties it first.
CacheAfter(added) ==
    IF Cardinality(cache \cup added) <= CacheSize
    THEN {cache \cup added}
    ELSE {S \in SUBSET added : S # {} /\ Cardinality(S) <= CacheSize}

\* Defective variant: a value is counted whenever the cache does not know it.
NewUnchecked == entries \ cache
New == {t \in entries : t \notin cache /\ t \notin marked}

\* getCardCountFromDB takes an error of the read for a count of 0.
Base(k, unread) == IF k \in unread THEN 0 ELSE count[k]

FlushCommit ==
    /\ serving # {}
    /\ \E unread \in SUBSET {t[1] : t \in New} :
          /\ \/ unread = {} /\ UNCHANGED flushErrors
             \/ unread # {} /\ flushErrors < MaxFlushErrors /\ flushErrors' = flushErrors + 1
          /\ count' = [k \in TagKeys |-> Base(k, unread) + Cardinality({t \in New : t[1] = k})]
          /\ misread' = misread \cup {k \in unread : count[k] # 0}
    /\ marked' = marked \cup New
    /\ disk' = IF serving = {Closer} /\ entries # {} THEN [marked |-> marked', count |-> count'] ELSE disk
    /\ cache' \in CacheAfter(entries)
    /\ Replied
    /\ UNCHANGED <<pending, flushCh, left, recorded>>

\* After an error the drained values are pending again; if the flush was that of Close,
\* Storage.Close drops the error and with it the values.
Returned == pending \cup entries
FlushFails ==
    /\ serving # {} /\ entries # {}
    /\ flushErrors < MaxFlushErrors /\ flushErrors' = flushErrors + 1
    /\ pending' = Returned
    /\ recorded' = IF serving = {Closer} THEN recorded \ Returned ELSE recorded
    /\ Replied
    /\ UNCHANGED <<counts, cache, flushCh, left>>

\* Time passes for an idle entry of the cache.
Expire ==
    /\ \E t \in cache : cache' = cache \ {t}
    /\ UNCHANGED <<counts, pending, entries, serving, flushCh, stopped, flushErrors, adding,
                   recorded>>

\* Close of the updater, after the writers.
CloseUpdater ==
    /\ \A w \in Writers : Idle(w)
    /\ flushCh = <<>> /\ serving # {Closer} /\ ~stopped
    /\ flushCh' = <<Closer>>
    /\ UNCHANGED <<counts, pending, cache, entries, serving, stopped, flushErrors, adding, recorded>>

\* The process is gone and started again; closing the database writes out
\* its log, after a crash it is what was synchronised.
Reopen(crashed) ==
    /\ disk' = IF crashed THEN disk ELSE Synced
    /\ marked' = disk'.marked /\ count' = disk'.count
    /\ pending' = {} /\ cache' = {} /\ entries' = {} /\ serving' = {} /\ flushCh' = <<>>
    /\ stopped' = FALSE
    /\ left' = [w \in Writers |-> {}] /\ waiting' = [w \in Writers |-> "no"]
    /\ recorded' = IF crashed THEN disk.marked ELSE recorded
    /\ UNCHANGED <<misread, flushErrors>>

-----------------------------------------------------------------------------
TagTypeOK ==
    /\ marked \subseteq Tags /\ count \in [TagKeys -> Nat]
    /\ disk \in [marked: SUBSET Tags, count: [TagKeys -> Nat]]
    /\ {pending, cache, entries, recorded} \subseteq SUBSET Tags
    /\ serving \subseteq Writers \cup {Closer, Ticker} /\ Cardinality(serving) <= 1
    /\ flushCh \in Seq(Writers \cup {Closer}) /\ Len(flushCh) <= 1
    /\ left \in [Writers -> SUBSET Tags]
    /\ waiting \in [Writers -> {"no", "send", "sent"}]
    /\ stopped \in BOOLEAN /\ flushErrors \in Nat /\ misread \subseteq TagKeys

\* The count of a tag key is the number of its marked values, in the database and in
\* what a crash would leave of it, however the flushes of concurrent writers, the cache
\* and its expiry interleave; once an error of reading it was taken for 0 it is at most
\* that number.  And every tag value of a committed event is counted or on its way to be:
\* no failed flush, full cache or orderly restart forgets one, only a crash does, and the
\* flush of Close when it fails, whose error Storage.Close drops (Add, flush,
\* getCardCountFromDB, cardCache.seen and add, RecordCommittedEvent, Storage.Close).
Counted(n, values, k) ==
    LET true == Cardinality({t \in values : t[1] = k})
    IN n <= true /\ (k \notin misread => n = true)
CountsExact ==
    /\ \A k \in TagKeys :
        Counted(count[k], marked, k) /\ Counted(disk.count[k], disk.marked, k)
    /\ recorded \subseteq marked \cup pending \cup entries \cup UNION {left[w] : w \in Writers}
=============================================================================
