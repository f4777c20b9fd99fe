SPECIFICATION MCSpec
CONSTANTS
  button = button
  const = const
  fwd = fwd
  dur = dur
  label = label
  Node <- MCNode
  NodeType <- MCNodeType
  TypeOf <- MCTypeOf
  PortDir <- MCPortDir
  Pure <- MCPure
  PortDeps <- MCPortDeps
  NodeId <- MCNodeId
  Graphs <- AllGraphs
  Requests <- MCRequests
  GenMax = 2
  MaxCalls = 2
CHECK_DEADLOCK FALSE
INVARIANTS
  TypeOK
  NegotiationLeast
  Converged
  ExecutionRight
  GenerationsRight
  LeftOut
PROPERTIES
  OnlyProcessFails
  Returns
