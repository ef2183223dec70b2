CONSTANTS
  l1 = l1
  l2 = l2
  l3 = l3
  l4 = l4
  l5 = l5
  l6 = l6
  zero = zero
  Line <- MCLineOrZero
  BlockAddr <- LineOrZeroAddr
  Node <- MCNode
  Entry = "entry"
  Exit = "exit"
  MissCost = 2
  ZeroLine = zero
  LineNo = 2
  rpol = "LRU"
  MSGs <- AllPathGraphs
SPECIFICATION ExecSpec
CHECK_DEADLOCK FALSE
INVARIANTS
  MustHits
  MissesMiss
  PenaltyCoversMisses
  ForwardMustSound
  ForwardMaySound
