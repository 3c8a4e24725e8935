SPECIFICATION Spec
CONSTANTS
  WorldSize = 2
  ExpertNum = 4
  Redundant = 0
  Traffics <- MCTraffics
  MaxMove = 2
  Threshold = 100
PROPERTIES
  MoveNarrowsGap
CHECK_DEADLOCK FALSE
