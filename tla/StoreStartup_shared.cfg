SPECIFICATION Spec
CHECK_DEADLOCK FALSE
CONSTANTS
  u = u  v = v  w = w
  Procs = {u, v, w}
  NTables = 2
  Supplied <- Databases
  MaxStarts = 4
  MaxFaults = 1
INVARIANTS
  OpenIsComplete
  LoneBackupIsComplete
PROPERTIES
  LeftAlone
  SchemaGetsDone
