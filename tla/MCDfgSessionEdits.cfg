SPECIFICATION SessionSpec
CONSTANTS
  button = button
  const = const
  fwd = fwd
  gate = gate
  trace = trace
  combo = combo
  main = main
  zoomed = zoomed
  dur = dur
  Node <- EditNode
  NodeType <- EditNodeType
  TypeOf <- EditTypeOf
  PortDir <- EditPortDir
  Pure <- EditPure
  PortDeps <- EditPortDeps
  NodeId <- EditNodeId
  Graphs <- EditGraphs
  Compatible <- EditCompatible
  TriggerIns <- EditTriggerIns
  TriggerKind <- EditTriggerKind
  HookIns <- EditHookIns
  HasProperties <- EditProperties
  WidgetEvents <- EditEvents
  Requests = {}
  GenMax = 2
  MaxCalls = 4
  MaxEdits = 4
  SafeMode = FALSE
CHECK_DEADLOCK FALSE
INVARIANTS
  FreshlyConnected
  Acyclic
