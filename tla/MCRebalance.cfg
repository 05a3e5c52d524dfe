SPECIFICATION Spec
CONSTANTS
  Samples = {0, 1, 2, 3}
  Clusters = {0, 1, 2, 3}
  Bounds = {0, 1, 2}
  LabelCounts = {3, 4}
  DistRows <- Rows
  InitialLabels <- Labels
INVARIANTS NeverStuck ReturnsMinimalChange
PROPERTIES MovesOnce Reassigns Terminates
CHECK_DEADLOCK FALSE
