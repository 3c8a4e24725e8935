SPECIFICATION Spec
CONSTANTS
  Kernels <- MCKernels
  Program <- MCProgram
  Unordered <- MCUnordered
  IdleKernel = "idle"
  Scripts <- MCScripts
  EstimateScores <- MCScores
INVARIANTS
  TypeOK
  NoRace
  FlagsTaken
PROPERTIES
  InOrder
  EveryCallSettles
  WorkOnce
  Handover
  ReductionsComplete
  RingKeepsTasks
CHECK_DEADLOCK FALSE
