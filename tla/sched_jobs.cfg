SPECIFICATION Spec
CONSTANTS
    Task = {t1, t2}
    Cron = {c1, c2}
    Worker = {w1, w2}
    NoRow = NoRow
    MaxOps = 5
SYMMETRY Symmetry
INVARIANTS GateInv JobsMatchTable
CHECK_DEADLOCK FALSE
