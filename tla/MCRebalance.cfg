SPECIFICATION LiveSpec
CONSTANTS
    Peers = {"p1", "p2"}
    Metrics = {"m", "n"}
    Times = {1, 2}
    Tags = {"a", "b"}
    Owned <- ByFactor
    Stored <- ByPeer
    ScoreOnly = {"n"}
    Writes <- TwoWrites
    None = None
    MaxTriggers = 1
    MaxWrites = 1
    MaxFaults = 1
INVARIANTS
    FoundByTags
    NothingMissing
    StoreInUse
PROPERTIES
    Completes
CHECK_DEADLOCK FALSE
