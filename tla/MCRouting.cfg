SPECIFICATION Spec
CONSTANTS
    n1 = n1
    n2 = n2
    n3 = n3
    m1 = m1
    m2 = m2
    Nodes = {n1, n2, n3}
    Metrics = {m1, m2}
    HashSpace = 8
    Virtual <- MCVirtual
    HashOf <- MCHashOf
    Seeds <- MCSeeds
    Running <- MCRunning
    Requests <- MCRequests
    Factor = 2
    Strikes = 2
    MaxStarts = 4
    MaxRemovals = 2
    MaxFaults = 1
INVARIANTS
    Converged
    RoutesDescend
    Reported
CONSTRAINT Pending
CHECK_DEADLOCK FALSE
