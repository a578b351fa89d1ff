SPECIFICATION Spec
CONSTANTS
  Servers = 1
  MaxFaults = 0
INVARIANT ServerEndsRcd
CHECK_DEADLOCK FALSE
