SPECIFICATION FairSpec
CONSTANTS
  WorldSize = 2
  LbInterval = 1
  MaxLayouts = 1
  MaxProfiles = 1
  MaxReports = 1
  Exchange = TRUE
  Exits = {0}
  MayStop = TRUE
INVARIANTS
  AgreementUnlessLost
PROPERTIES
  InferenceProgresses
CHECK_DEADLOCK FALSE
