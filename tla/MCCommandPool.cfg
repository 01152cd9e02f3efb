SPECIFICATION Spec
CONSTANTS
    Requests = {q1, q2, q3}
    Slots = {s1}
    NoSlot = NoSlot
    Limit = 1
    MaxSockets = 3
INVARIANTS
    NotSentIsTrue
    ConnectionsExact
    NeverStuck
SYMMETRY Symmetry
CHECK_DEADLOCK FALSE
