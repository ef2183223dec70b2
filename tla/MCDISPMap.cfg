CONSTANTS
  main = main
  f = f
  g = g
  h = h
  k = k
  zero = zero
  Function <- MCFunction
  BlockSize = 2
  ZeroFunction = zero
  Node <- MCNode
  Entry = "entry"
  Exit = "exit"
  CallLatency = 2
  ReturnLatency = 1
  CtrlHitCycles = 4
  CtrlMissCycles = 5
  MissLatency = 2
  FunctionSize <- Sizes
  FetchMemIndependent = TRUE
  ParamSets <- AllParams
  MSGs <- AllCallGraphs
SPECIFICATION ExecSpec
CHECK_DEADLOCK FALSE
INVARIANTS
  OtherAssertionsHold
  ContentIsKept
  PenaltyCoversLoadIfRing
