SPECIFICATION FairSpec
CONSTANTS
  WorldSize = 4
  NumParameters = 3
  MaxRetries = 2
INVARIANTS
  TypeOK
  SharesItsOwn
PROPERTIES
  CallsEnd
CHECK_DEADLOCK FALSE
