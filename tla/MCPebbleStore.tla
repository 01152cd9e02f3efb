-------------------------- MODULE MCPebbleStore --------------------------
(***************************************************************************)
(* Small instances of PebbleStore.                                         *)
(***************************************************************************)
EXTENDS PebbleStore

CONSTANTS w1, w2, w3, e1, e2, o1, o2, red, blue

MCTags == {<<1, red>>, <<1, blue>>, <<2, red>>}
MCTimes == 1..2
MCMin == -1
MCStripe == [k \in {e1, e2, o1, o2, Metric} |->
                CASE k = e1 -> 1 [] k = e2 -> 2 [] k = o1 -> 1 [] k = o2 -> 3 [] OTHER -> 3]
MCLegacy == {<<e2, -1>>}

Query(kind, ts, value, tags, entities, op) ==
    [kind |-> kind, ts |-> ts, to |-> ts + 1, value |-> value, tags |-> tags,
     entities |-> entities, where |-> {}, dry |-> FALSE, op |-> op]
Write(ts, value, tags, entities) == Query("write", ts, value, tags, entities, NoOp)
Replica(ts, value, tags, entities, op) == Query("write", ts, value, tags, entities, op)
Delete(from, to, where, entities, dry) ==
    [Query("delete", from, 0, {}, entities, NoOp) EXCEPT !.to = to, !.where = where, !.dry = dry]

Batch == <<Write(1, 1, {<<1, red>>, <<2, red>>}, {e1}), Write(1, 2, {<<1, blue>>, <<2, red>>}, {e1, e2}),
           Write(2, 1, {<<2, red>>}, {e1})>>
Purge == <<Delete(1, 2, {<<2, red>>}, {e2}, FALSE)>>
PurgeEvents == <<Delete(1, 3, {<<2, red>>}, {}, FALSE)>>
DryRun == <<Delete(1, 3, {}, {}, TRUE)>>
Set == <<Query("set", 1, -1, {}, {e1}, NoOp)>>
Line == <<Replica(2, 1, {<<1, red>>}, {e1}, o1)>>
Lines == <<Replica(2, 1, {<<1, red>>}, {e1}, o1), Replica(2, -1, {<<1, blue>>}, {}, o2),
           Replica(2, -1, {<<1, blue>>}, {}, o2)>>

MCRequests == {w1 :> x[1] @@ w2 :> x[2] @@ w3 :> x[3] : x \in
    {<<Batch, Line, <<>>>>, <<Batch, PurgeEvents, Set>>, <<Lines, Lines, <<>>>>, <<Purge, DryRun, Line>>,
     <<Batch, Purge, Line>>}}
=============================================================================
