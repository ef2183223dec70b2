CONSTANTS
  l1 = l1
  l2 = l2
  l3 = l3
  l4 = l4
  l5 = l5
  l6 = l6
  zero = zero
  Line <- MCLine
  BlockAddr <- MCBlockAddr
  Node <- MCNode
  Entry = "entry"
  Exit = "exit"
  MissCost = 2
  ZeroLine = zero
  LineNo = 2
  rpol = "DIRECT_MAPPED"
  MSGs <- AllGraphs
SPECIFICATION FairExecSpec
CHECK_DEADLOCK FALSE
INVARIANTS
  FlowConsistent
  MustHits
  ForwardMaySound
PROPERTIES
  StatesStable
  AnalysisTerminates
  SolvesInFlowOrder
