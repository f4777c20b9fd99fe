SPECIFICATION FairSessionSpec
CONSTANTS
  button = button
  const = const
  fwd = fwd
  gate = gate
  trace = trace
  combo = combo
  main = main
  zoomed = zoomed
  dur = dur
  Node <- GuiNode
  NodeType <- GuiNodeType
  TypeOf <- GuiTypeOf
  PortDir <- GuiPortDir
  Pure <- GuiPure
  PortDeps <- GuiPortDeps
  NodeId <- GuiNodeId
  Graphs <- GuiGraphs
  Compatible <- GuiCompatible
  TriggerIns <- GuiTriggerIns
  TriggerKind <- GuiTriggerKind
  HookIns <- GuiHookIns
  HasProperties <- GuiProperties
  WidgetEvents <- GuiEvents
  Requests = {}
  GenMax = 1
  MaxCalls = 3
  MaxEdits = 1
  SafeMode = TRUE
CHECK_DEADLOCK FALSE
INVARIANTS
  NestedRight
PROPERTIES
  ProcessorReturns
