CONSTANTS
  UintRange = 64
  UNBOUND_NUMBER <- MCUnbound
  Configurations <- Defaults
  SolverOutputs <- Reliable
  BaselineCost = 1000
  CostWith <- MCCost
  MemCostWith <- MCMemCost
  Assigned <- MCAssigned
SPECIFICATION FairSpec
CHECK_DEADLOCK FALSE
PROPERTIES
  SteppingEnds
