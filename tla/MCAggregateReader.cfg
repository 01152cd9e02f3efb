SPECIFICATION LiveSpec
CONSTANTS
    Reads = {1, 2}
    Query <- TwoReads
    Events <- TwoEvents
    Workers = {w1, w2}
    QueueSize = 1
    WaveSize = 2
    MaxTime = 5
    MaxSum = 2
    MaxChanges = 1
    MaxFailures = 1
    MaxCancels = 2
INVARIANTS
    ReadsExact
    Unpoisoned
PROPERTIES
    Returns
CHECK_DEADLOCK FALSE
