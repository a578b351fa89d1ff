SPECIFICATION Spec
CONSTANTS
  Config = {1, 2}
  LUser = {1, 2}
  LSource = {1}
  LData = {1, 2}
  SourceOf <- OneSource
  LTask = {1, 2, 3}
  RefOf <- EachKind
  Logged <- OneLogged
  Server = {s1, s2}
  Command = {m1, m2}
  MaxId = 4
  MaxFaults = 2
INVARIANTS MigrationInv FanOutOnce TasksResolve TaskKeepsData FanOutCompletes
PROPERTY RerunChangesNothing
SYMMETRY Alike
CHECK_DEADLOCK FALSE
