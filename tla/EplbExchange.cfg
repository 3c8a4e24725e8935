SPECIFICATION Spec
CONSTANTS
  WorldSize = 3
  ExpertNum = 3
  Redundant = 1
  Traffics <- MCTraffics
  MaxMove = 3
  Threshold = 100
INVARIANTS
  TypeOK
  TransformGivesList
  DevicesStayDistinct
  CoverDecides
PROPERTIES
  UniformMoveNarrowsGap
CHECK_DEADLOCK FALSE
