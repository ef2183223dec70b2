SPECIFICATION Spec
CONSTANTS
  Programs <- MCPrograms
  Indirect <- MCIndirect
  Latency <- MCLatency
  Penalty <- MCPenalty
INVARIANTS
  PathInSuperGraph
  PathInVivuGraph
  ExecutionsSolveILP
  CostOfPath
  TimeIsCovered
  AssignmentFits
  WcpIsExact
  AnalysesGetCallGraphs
  StructuredProgramsPass
CHECK_DEADLOCK FALSE
