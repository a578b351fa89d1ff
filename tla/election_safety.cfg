SPECIFICATION Spec
CONSTANTS
    Node = {n1, n2}
    NoNode = NoNode
    LeaseDuration = 1
    Failing = {n1, n2}
    MaxSkew = 1
    Skew <- OneAhead
    MaxClock = 1
    MaxStarts = 3
INVARIANTS GateFollows LeaseExclusion ElectionInv
PROPERTY ImplementsLease
CHECK_DEADLOCK FALSE
