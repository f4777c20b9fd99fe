SPECIFICATION EditSpec
CONSTANTS
  filter = filter
  dur = dur
  count = count
  const = const
  Node <- MCNode
  NodeType <- MCNodeType
  TypeOf <- MCTypeOf
  PortDir <- MCPortDir
  Pure = {}
  PortDeps <- MCPortDeps
  Order <- MCOrder
  Checks <- MCChecks
  EditorNodes <- MCEditorNodes
  TypesFit <- MCTypesFit
  Wirings <- MCWirings
CHECK_DEADLOCK FALSE
INVARIANTS
  
  SearchRight
PROPERTIES
  ReleaseRight
  Ends
