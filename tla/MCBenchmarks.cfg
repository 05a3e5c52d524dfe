CONSTANTS
  Setups <- MCSetups
  MaxKills = 2
  MaxReruns = 2
  Texts <- MCTexts
  BatchOf <- MCBatchOf
  Users <- MCUsers
  Qrels <- MCQrels
  KsLists <- MCKsLists
  FaceTables <- MCFaceTables
  Samples <- MCSamples
  TopKs = {1, 2}
  ReportKs <- MCReportKs
  Studies <- MCStudies
  MaxUsage = 3
SPECIFICATION Spec
INVARIANTS
  ReportsAreWhole
  EvaluatesWhatIsThere
  MeasuresAgree
  MeasuredIsPeak
PROPERTY EveryRunEnds
CHECK_DEADLOCK FALSE
