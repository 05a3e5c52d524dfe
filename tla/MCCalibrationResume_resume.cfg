SPECIFICATION Spec
CONSTANTS
  Queries <- MCQueries
  Ks <- MCKs
  Group <- MCGroup
  CalibrationSets <- FullRun
  KsChoices <- FullKs
  FlagChoices <- ResumeFlags
  MaxKills = 1
  MaxReruns = 1
  Tears = FALSE
INVARIANTS AtMostOnce
CHECK_DEADLOCK FALSE
