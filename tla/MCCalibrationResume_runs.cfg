SPECIFICATION FairSpec
CONSTANTS
  Queries <- MCQueries
  Ks <- MCKs
  Group <- MCGroup
  CalibrationSets <- MCCalibrationSets
  KsChoices <- MCKsChoices
  FlagChoices <- SkipFlags
  MaxKills = 1
  MaxReruns = 1
  Tears = TRUE
INVARIANTS AtMostOnce DoneIsComplete SkipsOnlyWhatIsOnDisk
PROPERTIES Completes
CHECK_DEADLOCK FALSE
