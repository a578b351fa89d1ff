SPECIFICATION FairSpec
CONSTANTS
    Node = {n1, n2}
    NoNode = NoNode
    LeaseDuration = 1
    Failing = {n1}
    MaxSkew = 0
    Skew <- NoSkew
    MaxClock = 1
    MaxStarts = 2
PROPERTIES StaleLeaderStepsDown FreeLeaseIsTaken
CHECK_DEADLOCK FALSE
