SPECIFICATION Spec
CONSTANTS
  P = 5
  Columns <- MCColumns
  FSets <- MCFSets
  TSets <- MCTSets
INVARIANTS PermutationKept HonestAligned Sound ChallengesTellApart
CHECK_DEADLOCK FALSE
