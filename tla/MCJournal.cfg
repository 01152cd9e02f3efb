SPECIFICATION LiveSpec
CONSTANTS
    BatchSize = 2
    CacheSize = 2
    MaxRetained = 3
    MaxEvents = 2
    MaxFailures = 1
    MaxFaults = 1
    MaxCrashes = 2
    MaxStops = 1
INVARIANTS
    NeverReplayed
    JournalExact
    SentInOrder
PROPERTIES
    EventuallySettled
CHECK_DEADLOCK FALSE
