SPECIFICATION Spec
CONSTANTS
    b1 = b1
    b2 = b2
    b3 = b3
    b4 = b4
    e1 = e1
    e2 = e2
    Metrics = {1, 2, 3}
    Entities = {e1, e2}
    Batches = {b1, b2, b3, b4}
    Items <- MCItems
    Stripes = {1, 2}
    Stripe <- MCStripe
    Registered = {2}
    NoItem = NoItem
    Absent = Absent
    MaxValue = 2
    MaxTime = 5
    MaxWall = 2
    MaxFailures = 1
INVARIANTS
    ScoresExact
    OutcomesExact
    NeverStuck
PROPERTIES
    AutomaticIsFresh
CHECK_DEADLOCK FALSE
