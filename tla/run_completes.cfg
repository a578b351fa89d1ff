SPECIFICATION FairSpec
CONSTANTS
    Node = {n1, n2}
    NoNode = NoNode
    Task = {t1}
    Trigger = {w1}
    Legacy = TRUE
    MaxRuns = 2
    MaxCrashes = 1
    MaxRcdRestarts = 1
    MaxDeletes = 0
INVARIANT PolledByOneNode
PROPERTY RunCompletes
CHECK_DEADLOCK FALSE
