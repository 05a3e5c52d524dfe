CONSTANTS
  DMax = 9
  TopK = 2
  MaxEdits = 2
  FreeGrids <- MCFreeGrids
  FreeRequests <- MCFreeRequests
  Sweeps <- MCSweeps
  SignatureCases <- MCSignatureCases
SPECIFICATION Spec
INVARIANTS ValidatedEqualsMasked HonestPlansPass EstimatesAreBounded WorkloadIsAsAsked LayoutsKeepTheirPromise
CHECK_DEADLOCK FALSE
