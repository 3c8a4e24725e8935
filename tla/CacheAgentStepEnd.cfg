SPECIFICATION Spec
CONSTANTS
  MaxSteps = 4
  MaxBlocks = 2
  MaxInterval = 2
  MaxRequests = 1
INVARIANTS
  StopsAtStepEnd
CHECK_DEADLOCK FALSE
