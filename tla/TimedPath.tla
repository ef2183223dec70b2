------------------------------ MODULE TimedPath -----------------------------
(***************************************************************************)
(* An ARMv6-M executes the program along a path of its super graph, once   *)
(* with the code on the chip and once with the code off it.  The cost of a *)
(* block is calculated for the block alone (arch/armv6m_core_timing.cpp,   *)
(* ControlFlowGraphObject_IF::calculateCostForBB); the core enters it with *)
(* whatever word it has fetched last.                                      *)
(***************************************************************************)
EXTENDS PathFlow, FlowFacts

CONSTANT Memory    \* what the costs are for: "none", "static" or "dynamic"

VARIABLES
  pc,         \* the address of the next instruction
  executed,   \* the instructions of the block that were executed
  cores       \* of each memory, the core whose code lies there

coreVars == <<pc, executed, cores>>
timedVars == <<vars, coreVars>>

Block == graph.nodes[walk.node]
InBlock == Block.type = "BasicBlock"
Instruction == Block.code[executed + 1]

TimedInit ==
  /\ Init
  /\ pc = 0 /\ executed = 0
  /\ cores = [where \in Memories |-> [word |-> -1, cycles |-> 0]]

(* The next instruction is executed, and execution goes on at an address.  *)
CoresStep(next) ==
  [where \in Memories |->
     ArmStep(cores[where], Instruction.class, pc, Instruction.len, next, where)]

ExecuteInside ==
  /\ InBlock /\ executed + 1 < Len(Block.code)
  /\ cores' = CoresStep(pc + Instruction.len)
  /\ pc' = pc + Instruction.len
  /\ executed' = executed + 1
  /\ UNCHANGED vars

(* The last instruction of a block takes the path along an edge.           *)
Leave(e) ==
  /\ TakeEdge(e)
  /\ IF InBlock
     THEN /\ executed + 1 = Len(Block.code)
          /\ cores' = CoresStep(AddressOf(graph.nodes[graph.edges[e].dst]))
     ELSE UNCHANGED cores
  /\ pc' = graph.nodes[graph.edges[e].dst].start
  /\ executed' = 0

TimedNext == ExecuteInside \/ \E e \in 1..Len(graph.edges) : Leave(e)

TimedSpec == TimedInit /\ [][TimedNext]_timedVars

-----------------------------------------------------------------------------
Time(where) == cores[where].cycles

(* What the path has paid without the penalties of its edges, and what of  *)
(* the cost of the block it is in is due for the executed instructions.    *)
CostWithoutPenalties ==
  FlowOver([e \in 1..Len(graph.edges) |-> walk.flow[e] * graph.edges[e].cost], 1..Len(graph.edges))

Due(where) ==
  IF ~InBlock THEN 0
  ELSE ArmAlong(Block.start, Block.code, EnteredByStepOnly(graph, walk.node), where)[executed].step

(* At no instruction has the core needed more time than is paid and due,   *)
(* by whatever way its block was entered.                                  *)
TimeIsPaid ==
  /\ Memory # "dynamic" => Time("off") <= cost + Due("off")
  /\ Memory # "none"    => Time("on") <= CostWithoutPenalties + Due("on")

(* A bound on the objective of all solutions is one on the time of every   *)
(* execution that keeps to the flow facts.                                 *)
EstimateCoversTime ==
  Complete /\ ObeysFacts /\ Memory # "dynamic" =>
    \A best \in Int : IsEstimate(best) => Time("off") <= best

=============================================================================
