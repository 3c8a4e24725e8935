SPECIFICATION Spec
CONSTANTS
  MaxSteps = 3
  MaxBlocks = 2
  MaxInterval = 2
  MaxRequests = 1
INVARIANTS
  RangeResultReused
CHECK_DEADLOCK FALSE
