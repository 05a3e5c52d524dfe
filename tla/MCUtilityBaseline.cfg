SPECIFICATION FairSpec
CONSTANTS
  Configs <- Two
  Usages <- MCUsages
  MaxKills = 2
  MaxReruns = 1
INVARIANTS DoneIsComplete ForceNeverFails LegacyKept
PROPERTIES Completes
CHECK_DEADLOCK FALSE
