SPECIFICATION DataSpec
CONSTANTS
  const = const
  dur = dur
  label = label
  const2 = const2
  dur2 = dur2
  Node <- MCNode
  NodeType <- MCNodeType
  TypeOf <- MCTypeOf
  PortDir <- MCPortDir
  Pure = {}
  PortDeps <- MCPortDeps
  Compatible <- MCCompatible
  Files <- MCFiles
  IdMax = 5
  MaxEdits = 4
  string = string
  int = int
  Owning = {string}
  Plain = {int}
  Jobs <- MCJobs
  MaxRuns = 3
  Trees <- MCTrees
  NewMembers <- MCNewMembers
  MaxMembers = 3
  Half = 4
  Filters <- MCFilters
  Mappings <- MCMappings
  Queries <- MCQueries
  MaxIndex = 1
CHECK_DEADLOCK FALSE
INVARIANTS
  ConnectionsRight
  Reloads
  ResultsRight
  ObjectsRight
  ArithmeticRight
  QueriesRight
PROPERTIES
  MemoryRight
