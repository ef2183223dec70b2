CONSTANTS
  l1 = l1
  l2 = l2
  l3 = l3
  l4 = l4
  l5 = l5
  l6 = l6
  zero = zero
  Line <- MCLine
  Node <- MCNode
  Entry = "entry"
  Exit = "exit"
  MissCost = 2
  LineNo = 2
  MSGs <- OrderedGraphs
SPECIFICATION ExecSpec
CHECK_DEADLOCK FALSE
INVARIANTS
  ContentIsKept
  MissesMiss
  PenaltyCoversMisses
  OrderedGraphsPass
