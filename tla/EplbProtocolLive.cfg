SPECIFICATION FairSpec
CONSTANTS
  WorldSize = 2
  LbInterval = 1
  MaxLayouts = 1
  MaxProfiles = 2
  MaxReports = 1
  Exchange = FALSE
  Exits = {}
  MayStop = FALSE
PROPERTIES
  ComputedIsApplied
