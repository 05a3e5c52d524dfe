CONSTANTS
  P = 17
  B = 4
  NList = 3
  N = 2
  NProbe = 2
  TopK = 2
  Items = {0, 1, 2, 3, 4}
  Labels = {"vis", "hid"}
  Visible = {"vis"}
  Dummy = "hid"
  DefaultLabel = "vis"
  Layouts <- MCLayouts
  Indexes <- MCIndexes
  Centers <- MCCenters
SPECIFICATION Spec
INVARIANTS
  HonestAccepted
  OnlyVisible
  BaselinesAgree
PROPERTY AnswersView
CHECK_DEADLOCK FALSE
