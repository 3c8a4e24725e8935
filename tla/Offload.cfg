SPECIFICATION Spec
CONSTANTS
  NumBlocks = 3
  MaxPasses = 2
  MaxRaises = 2
INVARIANTS
  TypeOK
  ComputesOnItsWeights
  MemoryBounded
CHECK_DEADLOCK FALSE
