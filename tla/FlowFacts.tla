------------------------------ MODULE FlowFacts -----------------------------
(***************************************************************************)
(* Flow facts and costs on the edges of a super graph:                     *)
(* graph/flowfact_enrichment.cpp, util/flowfact_reader.cpp and             *)
(* graph/cfg_if.cpp.  Facts are records: the bounds of loops by the address*)
(* of a block, the inducting block if the loop is decided at its tail, and *)
(* bounds on the flow through a block.                                     *)
(***************************************************************************)
EXTENDS FlowGraph, CoreTiming

(* What the reader finds for a block.                                      *)
getLoopBoundCapacity(facts, addr) ==
  IF addr \in DOMAIN facts.bound THEN facts.bound[addr] ELSE -1

isLoopDecisionAtTail(facts, addr) == addr \in DOMAIN facts.inducting

(* The edges that begin a loop: those that are not BackwardJump, or those  *)
(* from the inducting block.                                               *)
InductingEdges(g, facts, v) ==
  SelectSeq(InEdges(g, v), LAMBDA e :
    IF isLoopDecisionAtTail(facts, g.nodes[v].start)
    THEN g.nodes[g.edges[e].src].start = facts.inducting[g.nodes[v].start]
    ELSE g.edges[e].type # "BackwardJump")

Bounded(g, facts) ==
  {v \in 1..Len(g.nodes) : /\ g.nodes[v].type = "BasicBlock"
                           /\ getLoopBoundCapacity(facts, g.nodes[v].start) # -1}

(* A bound needs a way in and a way back.                                  *)
EnrichAsserts(g, facts) ==
  \/ \E v \in Bounded(g, facts) : Len(InEdges(g, v)) < 2
       \/ Len(InductingEdges(g, facts, v)) = Len(InEdges(g, v))
  \/ \E v \in 1..Len(g.nodes) : g.nodes[v].type = "BasicBlock"
       /\ g.nodes[v].start \in DOMAIN facts.flow /\ InEdges(g, v) = << >>

(* getLoopBounds: the bound goes to the inducting edges, a bound on the    *)
(* flow of a block to the edges into it.                                   *)
getLoopBounds(g, facts) ==
  [g EXCEPT !.edges = [e \in DOMAIN @ |->
     LET v    == g.edges[e].dst
         addr == g.nodes[v].start
     IN  [g.edges[e] EXCEPT
            !.circ = IF v \in Bounded(g, facts) /\ e \in Range(InductingEdges(g, facts, v))
                     THEN facts.bound[addr] ELSE @,
            !.flow = IF g.nodes[v].type = "BasicBlock" /\ addr \in DOMAIN facts.flow
                     THEN addr ELSE @]]]

-----------------------------------------------------------------------------
(* addBBCostToCfg: the vertices that can be reached, in the order in which *)
(* they are processed.                                                     *)
ReachFrom(g, first) ==
  LET reach[todo \in Seq(Nat), seen \in Seq(Nat)] ==
        IF todo = << >> THEN seen
        ELSE IF Last(todo) \in Range(seen) THEN reach[Front(todo), seen]
        ELSE LET out == OutEdges(g, Last(todo))
             IN  reach[Front(todo) \o [i \in 1..Len(out) |-> g.edges[out[i]].dst],
                       Append(seen, Last(todo))]
  IN  reach[first, << >>]

Blocks(g, entry) ==
  SelectSeq(ReachFrom(g, <<entry>>), LAMBDA v : g.nodes[v].type = "BasicBlock")

EnteredByStepOnly(g, v) ==
  LET into == {e \in 1..Len(g.edges) : g.edges[e].dst = v}
  IN  into # {} /\ \A e \in into : g.edges[e].type = "ForwardStep"

(* The costs of the blocks from both memories.  The core is asked for times*)
(* only; instructions and bytes cost the same from everywhere.             *)
TimesOf(arch, g, entry) ==
  getCycleCountForInstructions(arch,
    [i \in 1..Len(Blocks(g, entry)) |->
       LET v == Blocks(g, entry)[i]
       IN  [start |-> g.nodes[v].start, code |-> g.nodes[v].code, step |-> EnteredByStepOnly(g, v)]])

SameCosts(cost) ==
  [ok |-> TRUE, cycles |-> [where \in Memories |->
     [i \in DOMAIN cost |-> [step |-> cost[i], jump |-> cost[i]]]]]

ByBlock(blocks, costs) ==
  [ok |-> costs.ok,
   of |-> [v \in Range(blocks) |->
             LET i == CHOOSE j \in 1..Len(blocks) : blocks[j] = v
             IN  [where \in Memories |-> costs.cycles[where][i]]]]

BlockCosts(arch, g, entry, metric) ==
  LET blocks == Blocks(g, entry)
  IN  ByBlock(blocks, CASE metric = "WCET" -> TimesOf(arch, g, entry)
                        [] metric = "MDIC" -> SameCosts([i \in 1..Len(blocks) |-> g.nodes[blocks[i]].instrs])
                        [] metric = "MPL"  -> SameCosts([i \in 1..Len(blocks) |-> g.nodes[blocks[i]].size]))

EdgeCost(type, cost) == IF type \in {"ForwardStep", "Meta"} THEN cost.step ELSE cost.jump

(* Without a memory the cost is that of the off chip memory; the static    *)
(* ones start with the difference as penalty, the dynamic ones get theirs  *)
(* from their analysis.                                                    *)
calculateCost(g, memory, costs) ==
  [g EXCEPT !.edges = [e \in DOMAIN @ |->
     LET v   == g.edges[e].src
         on  == EdgeCost(g.edges[e].type, costs[v].on)
         off == EdgeCost(g.edges[e].type, costs[v].off)
     IN  IF v \notin DOMAIN costs THEN g.edges[e]
         ELSE [g.edges[e] EXCEPT
                 !.cost = IF memory = "none" THEN off ELSE on,
                 !.pen  = IF memory = "static" THEN off - on ELSE 0]]]

-----------------------------------------------------------------------------
(* The graphs whose costs are times of an ARMv6-M: the instructions of a   *)
(* block fill it and only the last one branches, steps go to the next      *)
(* address and nothing else does, and the costs are those of the blocks,   *)
(* nothing else costs.                                                     *)
IsArmBlock(node) ==
  /\ node.start \in Nat /\ node.start % 2 = 0
  /\ node.code # << >>
  /\ node.start + node.size = ArmAlong(node.start, node.code, FALSE, "on")[Len(node.code)].addr
  /\ \A i \in 1..Len(node.code) :
       /\ node.code[i].len \in {2, 4} /\ node.code[i].class \in ArmClasses
       /\ i < Len(node.code) => node.code[i].class \notin {"cond", "jump", "call", "return"}

(* Where the execution goes on; only blocks have an address.               *)
AddressOf(node) == IF node.type = "BasicBlock" THEN node.start ELSE Top

IsLaidOut(g, edge) ==
  LET v    == g.nodes[edge.src]
      last == Last(v.code)
  IN  IF v.type # "BasicBlock" THEN edge.type # "ForwardStep" /\ edge.cost = 0 /\ edge.pen = 0
      ELSE /\ (edge.type = "ForwardStep") =
                ~Redirects(last.class, v.start + v.size - last.len, last.len,
                           AddressOf(g.nodes[edge.dst]))
           /\ last.class = "cond" => edge.type # "Meta"

ArmCosts(g) ==
  [v \in {w \in 1..Len(g.nodes) : g.nodes[w].type = "BasicBlock"} |->
     [where \in Memories |->
        ArmCycles(g.nodes[v].start, g.nodes[v].code, EnteredByStepOnly(g, v), where)]]

IsTimedGraph(g, memory) ==
  /\ \A v \in {Entry, Exit} : g.nodes[v].type # "BasicBlock"
  /\ \A v \in 1..Len(g.nodes) : g.nodes[v].type = "BasicBlock" => IsArmBlock(g.nodes[v])
  /\ \A e \in 1..Len(g.edges) : IsLaidOut(g, g.edges[e])
  /\ g = calculateCost(g, memory, ArmCosts(g))

=============================================================================
