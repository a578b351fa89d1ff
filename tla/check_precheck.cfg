SPECIFICATION FairSpec
CONSTANTS
    Waiter = {w1}
    Poller = poller
    MaxChecks = 2
    MaxCrashes = 1
    MaxRcdRestarts = 1
INVARIANTS CheckInv VerdictIsTrue VerdictIsRecorded CheckAlertsTwiceAtMost
PROPERTY CheckEnds
CHECK_DEADLOCK FALSE
