CONSTANTS
  UintRange = 64
  UNBOUND_NUMBER <- MCUnbound
  Configurations <- MCConfigurations
  SolverOutputs <- MCOutputs
  BaselineCost = 1000
  CostWith <- MCCost
  MemCostWith <- MCMemCost
  Assigned <- MCAssigned
SPECIFICATION FairSpec
CHECK_DEADLOCK FALSE
INVARIANTS
  StageAssertionsHold
  SolvedLineIsFresh
  EverySizeIsReported
PROPERTIES
  SteppingEndsIfItGrows
