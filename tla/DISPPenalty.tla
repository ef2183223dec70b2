----------------------------- MODULE DISPPenalty ----------------------------
(***************************************************************************)
(* The cycles the D-ISP takes beyond those of the call or return that      *)
(* activates a function, as both D-ISP analyses charge them.               *)
(***************************************************************************)
EXTENDS FunctionTable

CONSTANTS
  CallLatency,          \* arch_cfg->getCallLatency(true)
  ReturnLatency,        \* arch_cfg->getReturnLatency(true)
  CtrlHitCycles,        \* arch_cfg->getDISPCtrlHitCycles()
  CtrlMissCycles,       \* arch_cfg->getDISPCtrlMissCycles()
  MissLatency,          \* arch_cfg->getMissLatency(DISP)
  FetchMemIndependent   \* arch_cfg->isFetchMemIndependent()

ASSUME ArchAssumption ==
  /\ {CallLatency, ReturnLatency, CtrlHitCycles, CtrlMissCycles, MissLatency} \subseteq Nat
  /\ FetchMemIndependent \in BOOLEAN

Latency(type) == IF type = "Entry" THEN CallLatency + 1 ELSE ReturnLatency + 1

Excess(cycles, latency) == IF cycles > latency THEN cycles - latency ELSE 0

(* The pipeline hides the work of the D-ISP behind the call or return.     *)
getDispHitPenalty(type) == Excess(CtrlHitCycles, Latency(type))

getDispMissAndLoadPenalty(f, type) ==
  LET cycles == (getFunctionMemSize(f) \div BlockSize) * (MissLatency + 1)
                  + CtrlMissCycles
  IN  IF FetchMemIndependent THEN Excess(cycles, Latency(type)) ELSE cycles

=============================================================================
