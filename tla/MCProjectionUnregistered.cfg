SPECIFICATION Spec
CONSTANTS
    Boards = {b1}
    Entities = {e1}
    Readers = {r1}
    None = None
    Registered = FALSE
    MaxScore = 1
    MaxCommits = 2
    MaxInFlight = 1
    MaxFaults = 0
INVARIANTS
    ReadLinearizable
SYMMETRY Symmetry
CHECK_DEADLOCK FALSE
