SPECIFICATION LiveSpec
CONSTANTS
    Metrics = {m1}
    Shards = {s1}
    ShardOf <- OneShard
    Replicas = {r1}
    Handlers = {h1, h2}
    Needed = 1
    FanoutSize = 1
    QueueSize = 1
    BatchSize = 2
    MaxItems = 2
    MaxOps = 2
    MaxTimeouts = 1
    MaxCrashes = 2
    MaxCloses = 1
INVARIANTS
    AckedSurvives
    QuorumApplied
    AppliedInOrder
PROPERTIES
    ImplementsLog
    Delivered
CHECK_DEADLOCK FALSE
