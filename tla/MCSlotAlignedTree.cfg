CONSTANTS
  LeafHash <- MCLeafHash
  Node <- MCNode
  Values = {"a", "b", "c", "none"}
  Dummy = "none"
  Forged <- MCForged
  Sizes = {1, 2, 4, 8}
  Commitments <- MCCommitments
SPECIFICATION TreeSpec
INVARIANTS HonestOpens Bound
CHECK_DEADLOCK FALSE
