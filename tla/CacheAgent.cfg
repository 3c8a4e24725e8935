SPECIFICATION Spec
CONSTANTS
  MaxSteps = 4
  MaxBlocks = 3
  MaxInterval = 3
  MaxRequests = 2
INVARIANTS
  TypeOK
  NeverReusesNothing
  SubtractsAnInput
  ReusesLatestRefresh
  NothingHeldBetween
CHECK_DEADLOCK FALSE
