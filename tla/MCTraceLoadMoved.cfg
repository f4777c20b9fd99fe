SPECIFICATION LoadOnly
CONSTANTS
  Scenarios <- MCScenarios
  MaxTypes = 7
  Prealloc = 2
  MaxTime = 9
  Inputs <- MCInputs
  NumDefaultStates = 2
  CounterLimit = 3
  f1 = f1
  f2 = f2
  Cpus = 2
  Addr = {f1, f2}
  Traces <- MCTraces
  NumCpus = 2
  TaskIds = {1, 2}
  TaskCode = {7, 8}
  LastTime = 6
  LoopCpus = 2
  LoopIds = {1, 2, 3}
  CodeOf <- MCCodeOf
  Chunks <- MCChunks
  MaxEvents = 5
  OtherArrays <- MCOtherArrays
  ArrayPrealloc = 32
CHECK_DEADLOCK FALSE
INVARIANTS
  MappedRight
