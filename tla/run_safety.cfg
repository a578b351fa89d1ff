SPECIFICATION Spec
CONSTANTS
    Node = {n1, n2}
    NoNode = NoNode
    Task = {t1}
    Trigger = {w1, w2}
    Legacy = FALSE
    MaxRuns = 2
    MaxCrashes = 1
    MaxRcdRestarts = 1
    MaxDeletes = 1
SYMMETRY Symmetry
INVARIANTS LifeInv JobKeepsRunActive SuccessIsTrue AlertOnce RunInv
PROPERTIES TerminalIsFinal ImplementsLife
CHECK_DEADLOCK FALSE
