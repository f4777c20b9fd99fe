SPECIFICATION RecordSpec
CONSTANTS
  run = run
  wait = wait
  States = {run, wait}
  Scenarios <- MCScenarios
  Depth = 2
  IdLimit = 8
  MaxColls = 2
  MaxTime = 2
  MaxFaults = 1
  MaxLoss = 1
CHECK_DEADLOCK FALSE
SYMMETRY StateSymmetry
INVARIANTS
  BuffersOK
  StatesTold
PROPERTIES
  DumpRight
  IdsUnique
  LogImplemented
