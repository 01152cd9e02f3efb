SPECIFICATION Spec
CONSTANTS
    r1 = r1
    r2 = r2
    r3 = r3
    Requests = {r1, r2, r3}
    Items <- MCItems
    Bad <- MCBad
    Metric <- MCMetric
    SplitSize = 3
    Workers = {w1, w2}
    QueueSize = 2
    BatchSize = 3
    WaveSize = 3
    MaxFaults = 2
INVARIANTS
    AnswersAreFinal
    CallersIndependent
    NeverStuck
SYMMETRY Symmetry
CHECK_DEADLOCK FALSE
