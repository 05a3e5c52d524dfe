CONSTANTS
  TenantId <- MCTenantId
  ZkTenants = {"acme", "other-tenant"}
  ZkProjects = {2, 3}
  MaxProjects = 1
  NSlots = 3
  Radix = 4
  Grids <- MCGrids
  Users <- MCUsers
  Epochs = {1}
  TableSizes = {0, 1}
SPECIFICATION Spec
INVARIANT ReferenceAnswers
CHECK_DEADLOCK FALSE
