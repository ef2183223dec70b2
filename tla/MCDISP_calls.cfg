CONSTANTS
  main = main
  f = f
  g = g
  h = h
  k = k
  zero = zero
  Function <- MCFunction
  ZeroFunction = zero
  BlockSize = 2
  Node <- MCNode
  Entry = "entry"
  Exit = "exit"
  CallLatency = 2
  ReturnLatency = 1
  CtrlHitCycles = 4
  CtrlMissCycles = 5
  MissLatency = 2
  FunctionSize <- Sizes
  DispSize = 8
  IgnoreOutsized = TRUE
  FetchMemIndependent = TRUE
  MSGs <- SingleReturnGraphs
SPECIFICATION ExecSpec
CHECK_DEADLOCK FALSE
INVARIANTS
  ContextIsCallStack
  MustHits
  MissesMiss
  PenaltyCoversLoad
  AgesBound
  NoAssertionFails
