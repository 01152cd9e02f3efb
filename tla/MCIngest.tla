------------------------------ MODULE MCIngest ------------------------------
(* TLC instance of Ingest. *)
EXTENDS Ingest, TLC

CONSTANTS b1, b2, b3, b4, e1, e2

Mutation(k, m, t, v, es) ==
    [kind |-> k, metric |-> m, ts |-> t, value |-> v, entities |-> es, where |-> k = "delete"]
Write(m, t, v, es) == Mutation("write", m, t, v, es)
Set(m, v, es) == Mutation("set", m, 0, v, es)
Delete(m, from, es) == Mutation("delete", m, from, 0, es)

\* Metrics 1 and 2 share a stripe.
MCStripe == (1 :> 1 @@ 2 :> 1 @@ 3 :> 2)

\* Two batches that meet on metrics 1 and 2 in opposite orders.  The first also has
\* an item of another stripe in its middle and ends with one that may not fit next to
\* what the others add; on metric 1 an automatic write meets an explicit one, which
\* only shares its lock.  A SET and a DELETE of a score and of events race with them.
MCItems ==
    (b1 :> <<Write(1, 0, 1, {}), Write(3, 0, 1, {}), Write(2, 0, 1, {e1}),
             Write(2, 2, 1, {e1, e2})>> @@
     b2 :> <<Write(2, 0, 1, {e1}), Write(1, 1, 1, {}), Write(3, 1, 1, {})>> @@
     b3 :> <<Set(2, 2, {e2})>> @@
     b4 :> <<Delete(2, 1, {e1})>>)

\* The jobs have items and metrics; TLC writes the tables out while it checks this.
ASSUME JobTables ==
    /\ JobItems \in [Batches \X Stripes -> SUBSET Nat]
    /\ JobMetrics \in [Jobs -> SUBSET Metrics \ {{}}]
ASSUME DeletesExist
=============================================================================
