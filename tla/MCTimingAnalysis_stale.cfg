CONSTANTS
  UintRange = 64
  UNBOUND_NUMBER <- MCUnbound
  Configurations <- CacheSizes
  SolverOutputs <- MCOutputs
  BaselineCost = 1000
  CostWith <- MCCost
  MemCostWith <- MCMemCost
  Assigned <- MCAssigned
SPECIFICATION Spec
CHECK_DEADLOCK FALSE
INVARIANTS
  LineShowsItsSize
