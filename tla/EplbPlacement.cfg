SPECIFICATION Spec
CONSTANTS
  WorldSize = 3
  ExpertNum = 4
  Redundancies = {0, 1}
  Traffics <- MCTraffics
  Scale = 6
INVARIANTS
  TypeOK
  MemoryRespected
  TablesRight
  CopiesServeMost
PROPERTIES
  CopiesLowerMaxLoad
CHECK_DEADLOCK FALSE
