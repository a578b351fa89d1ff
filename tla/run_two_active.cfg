SPECIFICATION Spec
CONSTANTS
    Node = {n1, n2}
    NoNode = NoNode
    Task = {t1}
    Trigger = {w1, w2}
    Legacy = FALSE
    MaxRuns = 2
    MaxCrashes = 0
    MaxRcdRestarts = 0
    MaxDeletes = 0
INVARIANT OneActiveRun
CHECK_DEADLOCK FALSE
