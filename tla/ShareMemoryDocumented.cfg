SPECIFICATION Spec
CONSTANTS
  WorldSize = 2
  NumParameters = 2
  MaxRetries = 0
INVARIANTS
  MasterBroadcasts
CHECK_DEADLOCK FALSE
