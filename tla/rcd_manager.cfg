SPECIFICATION FairSpec
CONSTANTS
  Servers = 2
  MaxFaults = 1
INVARIANTS FailedStartLeavesNoRcd StopLeavesNoRcd RcdInv
PROPERTIES StartEnds SignalEnds
CHECK_DEADLOCK FALSE
