SPECIFICATION Spec
CONSTANTS
    Boards = {b1}
    Entities = {e1}
    Readers = {r1}
    None = None
    Registered = TRUE
    MaxScore = 1
    MaxCommits = 2
    MaxInFlight = 1
    MaxFaults = 1
INVARIANTS
    ProjectionExact
PROPERTIES
    ImplementsService
CHECK_DEADLOCK FALSE
