SPECIFICATION TimelineSpec
CONSTANTS
  Trees <- MCTrees
  Heights <- MCHeights
  LaneHeights <- MCLaneHeights
  Offsets <- MCOffsets
  XDesc = 2
  MaxTime = 3
  MaxSelections = 3
  Byte = 4
  Traces <- MCTraces
  NumFunctions = 3
  Outlined = {3}
  Half = 5
  Width = 3
  Scale = 2
  EventTraces <- MCEventTraces
  Wanted <- MCWanted
  Palette = 8
  WorkColor = 5
  Pixels = 3
  Durations = {6, 7}
CONSTRAINT NotAstray
CHECK_DEADLOCK FALSE
INVARIANTS
  LanesRight
  SelectionRight
PROPERTIES
  FramesRight
  LayersRight
