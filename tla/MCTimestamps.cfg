SPECIFICATION LiveSpec
CONSTANTS
    MaxInt = 6
    Limit = 2
    Span = 3
    MaxCount = 2
INVARIANTS
    AllocationExact
    ExhaustedIsTrue
PROPERTIES
    Terminates
CHECK_DEADLOCK FALSE
