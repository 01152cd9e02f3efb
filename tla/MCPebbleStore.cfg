\* Client requests that meet each other and lines from a primary, with crashes and restarts.
CONSTANTS
    w1 = w1 w2 = w2 w3 = w3
    e1 = e1 e2 = e2 o1 = o1 o2 = o2 red = red blue = blue
    Writers = {w1, w2, w3}
    Entities = {e1, e2}
    Ops = {o1, o2}
    NoOp = NoOp Metric = Metric NoEvent = NoEvent Absent = Absent
    Closer = Closer Ticker = Ticker
    Tags <- MCTags
    Times <- MCTimes
    Requests <- MCRequests
    Stripe <- MCStripe
    Legacy <- MCLegacy
    MinScore <- MCMin
    MaxScore = 3
    MaxPending = 2
    CacheSize = 2
    MaxFlushErrors = 1
    MaxCrashes = 1
    MaxErrors = 1
SPECIFICATION Spec
INVARIANTS
    ReadsExact ScoresExact EventsExact AppliedOnce NeverStuck
    CountsExact
