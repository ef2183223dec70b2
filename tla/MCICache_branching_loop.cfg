CONSTANTS
  l1 = l1
  l2 = l2
  l3 = l3
  l4 = l4
  l5 = l5
  l6 = l6
  zero = zero
  ZeroLine = zero
  Line <- LoopLine
  BlockAddr <- LoopBlockAddr
  Node <- LoopNode
  Entry = "entry"
  Exit = "exit"
  MissCost = 2
  LineNo = 5
  rpol = "LRU"
  MSGs <- BranchingLoop
SPECIFICATION ExecSpec
CHECK_DEADLOCK FALSE
INVARIANTS
  MustHits
