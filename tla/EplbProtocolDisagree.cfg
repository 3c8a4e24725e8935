SPECIFICATION Spec
CONSTANTS
  WorldSize = 2
  LbInterval = 1
  MaxLayouts = 3
  MaxProfiles = 1
  MaxReports = 1
  Exchange = FALSE
  Exits = {}
  MayStop = FALSE
INVARIANTS
  RanksAgreeOnLayout
