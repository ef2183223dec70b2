----------------------------- MODULE ControlFlow ----------------------------
(***************************************************************************)
(* From a program to the flow problems that are solved for it: parser,     *)
(* super graph, flow facts, costs, the graph with copies for calls and     *)
(* loops.  Beside them a machine executes the program itself; the walks of *)
(* its execution through both graphs show what the graphs are worth.       *)
(***************************************************************************)
EXTENDS SuperGraph, StaticMemory, TLC

VARIABLES
  scfg,      \* the super graph with flow facts and costs
  vivu,      \* the VIVU graph creator behind its work
  vcfg,      \* its graph as a CFG
  static,    \* the static memory: the placed blocks and their graph
  stage,     \* what is done next, at last "run" and "ended"
  failed,    \* the stage of VIVU and ILP that stopped with an assertion
  machine,   \* the execution
  walks      \* its walks in scfg and vcfg

flowVars == <<scfg, vivu, vcfg, static, stage, failed, machine, walks>>
vars == <<parserVars, superVars, flowVars>>

-----------------------------------------------------------------------------
NoWalks == [s |-> {}, v |-> {}]

Init ==
  /\ InitParser /\ InitSuper
  /\ scfg = EmptyGraph /\ vcfg = EmptyGraph
  /\ vivu = [msg |-> EmptyGraph]
  /\ static = [assigned |-> {}]
  /\ stage = "enrich" /\ failed = "no"
  /\ machine = [pc |-> 0] /\ walks = NoWalks

Parse == ParserNext /\ UNCHANGED <<superVars, flowVars>>
Link  == LinkNext /\ UNCHANGED flowVars

(* The root graph has its entry and exit in front.                         *)
Enrich ==
  /\ stage = "enrich" /\ linking = "done"
  /\ IF program.enrich /\ EnrichAsserts(super.g, program.facts)
     THEN stage' = "aborted" /\ UNCHANGED scfg
     ELSE /\ scfg' = IF program.enrich THEN getLoopBounds(super.g, program.facts) ELSE super.g
          /\ stage' = "cost"
  /\ UNCHANGED <<parserVars, superVars, vivu, vcfg, static, failed, machine, walks>>

(* Static memories are optimised on the super graph.                       *)
Virtual == program.memory # "static"

StoreCost(costs) ==
  IF costs.ok
  THEN /\ scfg' = calculateCost(scfg, program.memory, costs.of)
       /\ stage' = CASE Virtual -> "vivu"
                     [] ~Virtual /\ program.optimizer # "none" -> "assign"
                     [] ~Virtual /\ program.optimizer = "none" -> "ilp"
  ELSE stage' = "aborted" /\ UNCHANGED scfg

CalculateCost ==
  /\ stage = "cost"
  /\ StoreCost(BlockCosts(program.arch, scfg, Entry, program.metric))
  /\ UNCHANGED <<parserVars, superVars, vivu, vcfg, static, failed, machine, walks>>

CreateVivuGraph ==
  /\ stage = "vivu"
  /\ vivu' = createVivuGraph(scfg, Entry, Exit, program.enrich)
  /\ failed' = IF vivu'.ok THEN failed ELSE "vivu"
  /\ stage' = "convert"
  /\ UNCHANGED <<parserVars, superVars, scfg, vcfg, static, machine, walks>>

Convert ==
  /\ stage = "convert"
  /\ IF failed # "no" \/ ConversionFails(vivu)
     THEN failed' = (IF failed = "no" THEN "convert" ELSE failed) /\ UNCHANGED vcfg
     ELSE vcfg' = getCfg(vivu) /\ UNCHANGED failed
  /\ stage' = "ilp"
  /\ UNCHANGED <<parserVars, superVars, scfg, vivu, static, machine, walks>>

(* The ways from a vertex to the blocks at an address, or to the exit.     *)
RECURSIVE WaysTo(_, _, _)
WaysTo(g, w, addr) ==
  UNION {LET next == Follow(g, w, e)
             node == g.nodes[next.node]
         IN  IF ~MayFollow(g, w, e) THEN {}
             ELSE IF node.type = "BasicBlock" THEN (IF node.start = addr THEN {next} ELSE {})
             ELSE IF next.node = Exit THEN (IF addr = Top THEN {next} ELSE {})
             ELSE WaysTo(g, next, addr) : e \in EdgesFrom(g, w.node)}

(* A walk stays in its block until the last instruction is executed.       *)
Walked(g, ws, pc, next) ==
  UNION {IF g.nodes[w.node].end # pc THEN {w} ELSE WaysTo(g, w, next) : w \in ws}

-----------------------------------------------------------------------------
(* The solutions of the problem of a super graph that are flows of a walk; *)
(* no prefix of a walk repeats a loop more often than its bound.           *)
Solves(g, flow, facts) ==
  IsSolution(addBackEdge(g, Entry, Exit), facts, TRUE, WithBackEdge(g, flow))

WithinBounds(g, flow) ==
  \A v \in 1..Len(g.nodes) : Inducting(g, v) # {} =>
    FlowOver(flow, LoopEdges(g, v)) <=
      g.edges[Max(Inducting(g, v))].circ * FlowOver(flow, Inducting(g, v))

RECURSIVE FlowsToExit(_, _, _)
FlowsToExit(g, ws, found) ==
  LET next == {w \in UNION {{Follow(g, x, e) : e \in {f \in EdgesFrom(g, x.node) :
                                                       MayFollow(g, x, f)}} : x \in ws} :
                 WithinBounds(g, w.flow)}
      all  == found \cup {w.flow : w \in {x \in next : x.node = Exit}}
  IN  IF next = {} THEN all ELSE FlowsToExit(g, {w \in next : w.node # Exit}, all)

SolutionFlows(g) ==
  {f \in FlowsToExit(g, {Begun(g)}, {}) : Solves(g, f, program.facts)}

(* The blocks with the best worth on the worst path of the program without *)
(* a memory, or with the shortest longest path, are placed.                *)
BaselineFlows(flows) ==
  {f \in flows : \A x \in flows : GraphCost(scfg, program.metric, x) <= GraphCost(scfg, program.metric, f)}

AddsJumps ==
  \/ program.optimizer \in WithJumps
  \/ program.penalties /\ program.optimizer \notin Functionwise

PathProblem == IF program.optimizer \in WorstPath
               THEN generateOptimalILPFormulation(scfg, Entry, Exit) ELSE [ok |-> TRUE]

Place(s, a, size, placed) ==
  /\ static' = [assigned |-> a, g |-> placed.g, size |-> size,
                used |-> getUsedSispSize(program.optimizer, program.penalties, scfg, a),
                wcet |-> IF program.optimizer \in WorstPath
                         THEN getEstimatedWCET(program.optimizer, scfg, s.constraints, a, Entry) ELSE 0]
  /\ stage' = IF placed.ok THEN "ilp" ELSE "aborted"

Assign(s) ==
  IF OptimizerAsserts(program.optimizer, program.metric, scfg, func_cfgs, s)
  THEN stage' = "aborted" /\ UNCHANGED static
  ELSE \E flow \in BaselineFlows(SolutionFlows(scfg)) :
       \E answer \in calculateBlockAssignment(program.optimizer, program.metric, program.size, scfg,
                                              func_cfgs, flow, s, Entry) :
         Place(s, answer.blocks, answer.size,
               considerMemoryAssignment(program.arch, program.metric, scfg, answer.blocks, AddsJumps, Entry))

(* FSISP_WCP has shares of blocks as well, in a problem that is not one of *)
(* sets any more; it is modelled for code with all blocks in functions.    *)
HasShares == program.optimizer \in {"FSISP", "FSISP_WCP"} /\ FreeBlocks(scfg, func_cfgs) # {}

AssignBlocks ==
  /\ stage = "assign" /\ (HasShares => program.optimizer = "FSISP")
  /\ Assign(PathProblem)
  /\ UNCHANGED <<parserVars, superVars, scfg, vivu, vcfg, failed, machine, walks>>

-----------------------------------------------------------------------------
(* The cores, with the code on the chip, off it, or as it was placed: what *)
(* they have executed so far is not cut into blocks.  A CarCore keeps its  *)
(* window until it branches.                                               *)
Places == Memories \cup (IF program.optimizer = "none" THEN {} ELSE {"placed"})

Home(place, addr) ==
  IF place # "placed" THEN place
  ELSE IF \E v \in static.assigned : LET b == scfg.nodes[v]
                                     IN  addr \in b.start..(b.start + b.size - 1)
  THEN "on" ELSE "off"

CarJump(addr, cycles, where) ==
  [addr |-> addr, cycles |-> cycles, pipe |-> "none", ok |-> TRUE,
   iw |-> [i \in 1..IWS |-> [JumpWindow(addr, where)[i] EXCEPT !.valid = @ + cycles]]]

CarGoOn(core, class, addr, len, next, there) ==
  LET after == core.cycles + (IF class \in {"jump", "cond"} THEN Latency["carcore"].branch ELSE 0)
  IN  CASE next = Top -> core
        [] next # Top /\ Redirects(class, addr, len, next) -> CarJump(next, after, there)
        [] ~Redirects(class, addr, len, next) /\ class = "cond" ->
             [core EXCEPT !.cycles = after, !.pipe = "none"]
        [] ~Redirects(class, addr, len, next) /\ class # "cond" -> core

CarStep(core, class, addr, len, next, where, there) ==
  CarGoOn(CarExecute(core, [len |-> len, class |-> class], where), class, addr, len, next, there)

CoresAt(addr) ==
  [p \in Places |-> IF program.arch = "armv6m" THEN [word |-> -1, cycles |-> 0]
                    ELSE CarJump(addr, 0, Home(p, addr))]

Ticked(core, class, addr, len, next, where, there) ==
  IF program.arch = "armv6m" THEN ArmStep(core, class, addr, len, next, where)
  ELSE CarStep(core, class, addr, len, next, where, there)

(* Placed code goes on in the other memory with a jump behind its end.     *)
GoOnByJump(core, addr, next, where, there) ==
  LET jump == ConnectingJump(program.arch)
  IN  Ticked(core, jump.class, addr, jump.len, next, where, there)

Tick(core, class, addr, len, next, where, there) ==
  LET step == Ticked(core, class, addr, len, next, where, there)
  IN  IF Redirects(class, addr, len, next) \/ where = there THEN step
      ELSE GoOnByJump(step, addr + len, next, where, there)

CoresStep(cores, class, addr, len, next) ==
  [p \in Places |-> Tick(cores[p], class, addr, len, next, Home(p, addr), Home(p, next))]

-----------------------------------------------------------------------------
(* The checker of the results compares the sizes of the placed blocks.     *)
CheckerAsserts ==
  /\ ~Virtual /\ program.optimizer \notin {"none", "FSISP_OLD"} /\ ~program.penalties
  /\ \/ static.size # static.used
     \/ static.used # getSizeOfAssignedBlocks(static.g, static.assigned)

(* The machine begins; its counters are those of the loops, by their head. *)
SetUpILP ==
  /\ stage = "ilp"
  /\ LET s == addBackEdge(scfg, Entry, Exit)
         v == addBackEdge(vcfg, Entry, Exit)
         stops == \/ ILPAsserts(s, program.facts, program.enrich)
                  \/ Virtual /\ failed = "no" /\ ILPAsserts(v, program.facts, program.enrich)
     IN  /\ failed' = IF failed # "no" THEN failed
                      ELSE IF stops THEN "ilp" ELSE IF CheckerAsserts THEN "check" ELSE "no"
         /\ walks' = [s |-> WaysTo(scfg, Begun(scfg), program.entry),
                      v |-> IF Virtual /\ failed = "no" THEN WaysTo(vcfg, Begun(vcfg), program.entry)
                            ELSE {}]
  /\ machine' = [pc |-> program.entry, calls |-> << >>,
                 iterations |-> [h \in DOMAIN program.loops |-> 0],
                 exact |-> TRUE, lost |-> FALSE, cores |-> CoresAt(program.entry)]
  /\ stage' = "run"
  /\ UNCHANGED <<parserVars, superVars, scfg, vivu, vcfg, static>>

-----------------------------------------------------------------------------
(* The program: holes are filled with instructions that do nothing.        *)
LineAt(addr) ==
  program.lines[Min({i \in 1..Len(program.lines) :
                       program.lines[i].kind \in {"code", "hole"} /\ program.lines[i].addr = addr})]

Targets(l) == IF l.target = Indirect THEN l.to ELSE {l.target}

JumpTargetsOf(l) ==
  IF l.target # Indirect THEN {l.target}
  ELSE UNION {Range(program.jump_table[a]) : a \in DOMAIN program.jump_table}

(* The instructions that can be reached from some others.                *)
Following(l) ==
  IF l.kind = "hole" \/ l.op \in {"other", "call"} THEN {l.addr + l.len}
  ELSE CASE l.op = "cond" -> JumpTargetsOf(l) \cup {l.addr + l.len}
         [] l.op = "jump" -> JumpTargetsOf(l)
         [] OTHER -> {}

RECURSIVE ReachedFrom(_)
ReachedFrom(addrs) ==
  LET more == UNION {Following(l) : l \in {x \in Range(program.lines) :
                                             x.kind \in {"code", "hole"} /\ x.addr \in addrs}}
  IN  IF more \subseteq addrs THEN addrs ELSE ReachedFrom(addrs \cup more)

(* A jump back to the first instruction of a loop is an iteration; the loop*)
(* is left with the next instruction outside of it.                        *)
InLoop(h, addr) ==
  LET last == program.loops[h].last
  IN  addr \in h..last /\ last \in ReachedFrom({addr})

LeftLoops(l, next) ==
  {h \in DOMAIN program.loops : l.op # "call" /\ InLoop(h, l.addr) /\ ~InLoop(h, next)}

(* An unrolled loop is left behind its last jump back in the copy for the  *)
(* rest of the iterations only, and elsewhere in that for the first only.  *)
LosesExit(h, l, iterations) ==
  program.loops[h].bound > 0 /\ (iterations = 0) = (l.addr = program.loops[h].last)

Counted(m, l, next) ==
  LET back == l.op \in {"cond", "jump"} /\ next <= l.addr /\ next \in DOMAIN m.iterations
      left == LeftLoops(l, next)
  IN  [m EXCEPT
         !.iterations = [h \in DOMAIN @ |-> IF h \in left THEN 0
                                            ELSE IF back /\ h = next THEN @[h] + 1 ELSE @[h]],
         !.exact = @ /\ \A h \in left : m.iterations[h] = program.loops[h].bound,
         !.lost = @ \/ \E h \in left : LosesExit(h, l, m.iterations[h])]

(* The bounds of the loops are true of the program.                        *)
Execute(next, calls, op) ==
  LET l == LineAt(machine.pc)
  IN  /\ l.op = op
      /\ machine' = [Counted(machine, l, next) EXCEPT
                        !.pc = next, !.calls = calls,
                        !.cores = CoresStep(@, l.class, l.addr, l.len, next)]
      /\ \A h \in DOMAIN program.loops : machine'.iterations[h] <= program.loops[h].bound
      /\ walks' = [s |-> Walked(scfg, walks.s, machine.pc, next),
                   v |-> Walked(vcfg, walks.v, machine.pc, next)]
      /\ stage' = IF next = Top THEN "ended" ELSE "run"
      /\ UNCHANGED <<parserVars, superVars, scfg, vivu, vcfg, static, failed>>

Current == LineAt(machine.pc)

Operation   == Execute(Current.addr + Current.len, machine.calls, "other")
Decide      == \E t \in Targets(Current) \cup {Current.addr + Current.len} :
                 Execute(t, machine.calls, "cond")
Go          == \E t \in Targets(Current) : Execute(t, machine.calls, "jump")
Enter       == \E t \in Targets(Current) :
                 Execute(t, Append(machine.calls, Current.addr + Current.len), "call")
Return      == Execute(IF machine.calls = << >> THEN Top ELSE Last(machine.calls),
                       PopStack(machine.calls), "return")
FillHole    ==
  /\ Current.kind = "hole"
  /\ machine' = [machine EXCEPT
       !.pc = Current.addr + Current.len,
       !.cores = FoldLeft(LAMBDA cores, n :
                           LET addr == Current.addr + 2 * (n - 1)
                           IN  CoresStep(cores, Noop.class, addr, Noop.len, addr + Noop.len),
                         @, [n \in 1..(Current.len \div 2) |-> n])]
  /\ UNCHANGED <<parserVars, superVars, scfg, vivu, vcfg, static, stage, failed, walks>>

Run ==
  /\ stage = "run"
  /\ \/ FillHole
     \/ Current.kind = "code" /\ (Operation \/ Decide \/ Go \/ Enter \/ Return)

Next ==
  \/ Parse \/ Link
  \/ Enrich \/ CalculateCost \/ AssignBlocks \/ CreateVivuGraph \/ Convert \/ SetUpILP
  \/ Run

Spec == Init /\ [][Next]_vars

-----------------------------------------------------------------------------
(* What the tools for embedded programs produce: jumps stay in their       *)
(* function, which ends with one; calls go to functions, and none is       *)
(* recursive; the targets of indirect jumps are known; no code is dead.    *)
FunctionLabels == {l.addr : l \in {x \in Range(Labels(program)) : x.addr \notin blacklist}}
FunctionOf(addr) == Max({a \in FunctionLabels : a <= addr})
Code == {l \in Range(program.lines) : l.kind = "code"}
Jumps == {l \in Code : l.op \in {"cond", "jump"}}
Calls == {<<FunctionOf(l.addr), l.target>> : l \in {x \in Code : x.op = "call"}}

Structured ==
  /\ program.entry \in FunctionLabels \ program.ignored
  /\ {l.addr : l \in Code} \subseteq ReachedFrom(FunctionLabels)
  /\ \A l \in Jumps : JumpTargetsOf(l) # {} /\
       \A t \in JumpTargetsOf(l) : FunctionOf(t) = FunctionOf(l.addr)
  /\ \A l \in Code : l.op = "call" => getAddrLabelForAddr(l.target) # UNKNOWN_ADDR
  /\ \A f \in FunctionLabels \ program.ignored :
       LET own == {l \in Code : FunctionOf(l.addr) = f}
       IN  /\ \E l \in own : l.op \in {"return", "debug"}
           /\ \A l \in own : l.addr = Max({x.addr : x \in own}) =>
                              l.op \in {"return", "jump", "debug"}
  /\ \A l \in Range(program.lines) : l.kind = "hole" =>
       l.addr + l.len \notin JumpTargets(program)
  /\ \A c \in Calls : c[1] # c[2] /\ c[2] # program.entry

Running == stage \in {"run", "ended"}

(* Every execution is a walk in the super graph.                           *)
PathInSuperGraph == Running /\ Structured => walks.s # {}

(* It is one in the VIVU graph as well, unless it leaves a loop by an edge *)
(* that the copy it is in does not have.                                   *)
PathInVivuGraph ==
  Running /\ Virtual /\ Structured /\ failed = "no" /\ ~machine.lost => walks.v # {}

NoStaticFlow == [program.facts EXCEPT !.flow = << >>]

(* An execution whose loops take all iterations of their bounds solves the *)
(* problems of both graphs, and the facts on the flow through a block mean *)
(* the same in both: copying a loop loses or gains no iteration.  Both are *)
(* graphs of the kind for which no path is lost (PathFlow).                *)
ExecutionsSolveILP ==
  stage = "ended" /\ Structured /\ failed = "no" /\ machine.exact =>
    \A w \in walks.s, x \in walks.v :
      /\ Solves(scfg, w.flow, NoStaticFlow)
      /\ Solves(vcfg, x.flow, NoStaticFlow)
      /\ Solves(scfg, w.flow, program.facts) <=> Solves(vcfg, x.flow, program.facts)
      /\ IsProblemGraph(scfg) /\ IsProblemGraph(vcfg)

(* The jumps back that a copied loop charges as steps.                     *)
CfgNode(v) == vivu.msg.nodes[v].cfg
Unrolled == {e \in 1..Len(vcfg.edges) : vivu.cfg.nodes[CfgNode(vcfg.edges[e].dst)].type = "FlowJoinNode"}
JumpOverStep(cost) == cost.jump - cost.step

UnrolledJumps(x) ==
  LET costs == BlockCosts(program.arch, scfg, Entry, program.metric).of
      place == IF program.memory = "dynamic" THEN "on" ELSE "off"
  IN  MapThenSumSet(LAMBDA e : x.flow[e] * JumpOverStep(costs[CfgNode(vcfg.edges[e].src)][place]), Unrolled)

(* A path costs the same in both graphs, but for the first jump back of    *)
(* each entered loop, for which the copy pays the cost of leaving it.      *)
CostOfPath ==
  stage = "ended" /\ Structured /\ failed = "no" =>
    \A w \in walks.s, x \in walks.v :
      GraphCost(vcfg, program.metric, x.flow) + UnrolledJumps(x)
        = GraphCost(scfg, program.metric, w.flow)

(* A jump to the next instruction is a step in the graphs.                 *)
JumpToNext == \E l \in Jumps : l.addr + l.len \in JumpTargetsOf(l)

PenaltyOf(g, flow) ==
  FoldLeft(LAMBDA acc, e : acc + flow[e] * g.edges[e].pen, 0, [e \in 1..Len(g.edges) |-> e])

Time(place) == machine.cores[place].cycles

(* The step past a branch that the CarCore goes on with in the other       *)
(* memory: the branch is not the last instruction of its block any more,   *)
(* and is not paid for.                                                    *)
JumpBehindBranch ==
  program.arch = "carcore" /\ \E v \in BlocksOf(scfg) :
    StepsAcross(scfg, static.assigned, v) # {} /\ Last(scfg.nodes[v].code).class = "cond"

(* No execution takes longer than its path is charged, although each block *)
(* is looked at alone, with the fetch buffers of the worst way to it; the  *)
(* same is true of the placed code if the jumps it needs are added.  For   *)
(* the ARMv6-M the costs are on the graph as the theorems on TimedPath want*)
(* them, which say this of all its paths.                                  *)
TimeIsCovered ==
  stage = "ended" /\ Structured /\ ~JumpToNext /\ program.metric = "WCET" =>
    \A w \in walks.s :
      LET cost == GraphCost(scfg, "WCET", w.flow)
      IN  /\ program.arch = "armv6m" => IsTimedGraph(scfg, program.memory)
          /\ program.memory # "dynamic" => Time("off") <= cost
          /\ program.memory # "none"    => Time("on") <= cost - PenaltyOf(scfg, w.flow)
          /\ "placed" \in Places /\ AddsJumps /\ ~JumpBehindBranch =>
               Time("placed") <= GraphCost(static.g, "WCET", w.flow)

-----------------------------------------------------------------------------
Placed == stage = "ilp" /\ ~Virtual /\ program.optimizer # "none"

(* What the solver took for the size of the placed blocks is what is       *)
(* reported and what they have with the jumps added to them, and it fits,  *)
(* unless an optimizer is asked for jumps it does not know of: the checker *)
(* of the results does not stop (check_sisp_assignment).  Where FSISP takes*)
(* shares of blocks the solver states more than is placed.                 *)
AssignmentFits ==
  Placed /\ ~program.penalties =>
    /\ static.used = getSizeOfAssignedBlocks(static.g, static.assigned)
    /\ static.used <= static.size /\ static.size <= program.size
    /\ ~HasShares => static.size = static.used

PlacedCost(flow) ==
  IF program.optimizer \notin WithJumps THEN GraphCost(static.g, "WCET", flow)
  ELSE FoldLeft(LAMBDA acc, e : acc + flow[e] * EdgeCost_of(program.optimizer, scfg, static.assigned, e),
                0, [e \in 1..Len(scfg.edges) |-> e])

EnteredInside ==
  \E l \in LoopMap(scfg, LoopCausingEdges(scfg)) : l.entry # l.first

LeftInside ==
  \E l \in LoopMap(scfg, LoopCausingEdges(scfg)) :
    LET body == {v \in 1..Len(scfg.nodes) :
                   isNodeOnPath(scfg, LoopCausingEdges(scfg), v, l.first, l.last, FALSE)}
    IN  \E e \in 1..Len(scfg.edges) : /\ scfg.edges[e].src \in body \ {l.last}
                                       /\ scfg.edges[e].dst \notin body

(* The generator does not see a loop that begins where another one ends.   *)
LoopBehindLoop ==
  LET loops == LoopMap(scfg, LoopCausingEdges(scfg))
  IN  \E l, m \in loops : l # m /\ \E e \in ForwardEdges(scfg, l.last) : scfg.edges[e].dst = m.entry

(* The longest path the optimizer minimises is that of the placed code.    *)
WcpIsExact ==
  Placed /\ program.optimizer \in WorstPath /\ ~program.penalties /\ ~LoopBehindLoop =>
    LET longest == Max({PlacedCost(f) : f \in SolutionFlows(scfg)})
    IN  /\ static.wcet >= longest
        /\ ~EnteredInside /\ ~LeftInside => static.wcet = longest

-----------------------------------------------------------------------------
(* The memory state graph as the data flow analyses see it.                *)
MSGNodes == 1..Len(vivu.msg.nodes)
CFGNode(n) == vivu.cfg.nodes[vivu.msg.nodes[n].cfg]
FunctionStarts == {CFGNode(n).call : n \in MSGNodes}

CallGraph == INSTANCE CallMSG WITH
  Node <- MSGNodes, Entry <- 1, Exit <- 2, MSGs <- {},
  Function <- FunctionStarts, FunctionSize <- [f \in FunctionStarts |-> 1], BlockSize <- 1

EdgesOf(edges, far(_)) ==
  [i \in 1..Len(edges) |-> [node |-> far(vivu.msg.edges[edges[i]]),
                           type |-> vivu.msg.edges[edges[i]].type]]

Flow ==
  [out  |-> [n \in MSGNodes |-> EdgesOf(OutEdges(vivu.msg, n), LAMBDA e : e.dst)],
   in   |-> [n \in MSGNodes |-> EdgesOf(InEdges(vivu.msg, n), LAMBDA e : e.src)],
   type |-> [n \in MSGNodes |-> IF CFGNode(n).type \in {"Entry", "Exit"} THEN CFGNode(n).type
                                ELSE "Other"],
   func |-> [n \in MSGNodes |-> CFGNode(n).call]]

(* The calls open at each vertex, by the first way that leads there.       *)
RECURSIVE CallsOpen(_, _, _)
CallsOpen(flow, todo, open) ==
  IF todo = << >> THEN open
  ELSE LET n     == Head(todo)
           after == CallGraph!ContextAfter(flow, n, open[n])
           new   == {flow.out[n][i].node : i \in DOMAIN flow.out[n]} \ DOMAIN open
       IN  CallsOpen(flow, Tail(todo) \o SetToSeq(new),
                     [m \in DOMAIN open \cup new |-> IF m \in DOMAIN open THEN open[m] ELSE after])

WithContexts(flow) ==
  [x \in DOMAIN flow \cup {"context"} |->
     IF x = "context" THEN CallsOpen(flow, <<1>>, (1 :> << >>)) ELSE flow[x]]

(* No vertex lies before itself on forward edges.                          *)
RECURSIVE Before(_, _, _)
Before(flow, todo, seen) ==
  LET new == UNION {{flow.in[n][i].node : i \in {j \in DOMAIN flow.in[n] :
                       flow.in[n][j].type # "BackwardJump"}} : n \in todo} \ seen
  IN  IF new = {} THEN seen ELSE Before(flow, new, seen \cup new)

Acyclic(flow) == \A n \in MSGNodes : n \notin Before(flow, {n}, {})

(* The creator keeps what the cache and the D-ISP analyses and their proofs*)
(* assume of a graph.                                                      *)
AnalysesGetCallGraphs ==
  stage = "convert" /\ Structured /\ failed = "no" =>
    LET flow == Flow
    IN  /\ Acyclic(flow)
        /\ CallGraph!IsCallGraph(WithContexts(flow))

-----------------------------------------------------------------------------
Failed ==
  \/ parser = "aborted" \/ linking = "aborted" \/ stage = "aborted"
  \/ failed # "no"

(* A loop that ends with an unconditional jump back, one without a bound,  *)
(* and a block of several copies that is never executed.                   *)
LatchIsJump == \E l \in Jumps : l.op = "jump" /\ \E t \in JumpTargetsOf(l) : t <= l.addr
UnboundLoop ==
  program.enrich /\ \E l \in Jumps : \E t \in JumpTargetsOf(l) :
    t <= l.addr /\ t \notin DOMAIN program.loops
ZeroFlow == \E a \in DOMAIN program.facts.flow : program.facts.flow[a].bound = 0

SharedHead ==
  program.optimizer \in WorstPath /\
    \E l, m \in LoopMap(scfg, LoopCausingEdges(scfg)) : l # m /\ l.entry = m.entry

(* A weight that the knapsacks do not have for the metric, an added jump   *)
(* that a function with several ends cannot be charged for, and data       *)
(* between its blocks, which the size of a function does not count: its    *)
(* last blocks are then of no function.                                    *)
NoWeights == program.metric = "MPL" /\ program.optimizer \notin WorstPath \cup {"none"}
SeveralEnds ==
  program.optimizer \in WithJumps /\
    \E l, m \in {x \in Code : x.op = "return"} : l # m /\ FunctionOf(l.addr) = FunctionOf(m.addr)
DataInside ==
  program.optimizer \in Functionwise /\
    \E w \in {x \in Range(program.lines) : x.kind = "word"}, l \in Code :
      l.addr > w.addr /\ FunctionOf(l.addr) = FunctionOf(w.addr)

(* Structured programs with bounds for their loops pass all assertions.    *)
StructuredProgramsPass ==
  Failed => ~Structured \/ LatchIsJump \/ UnboundLoop \/ ZeroFlow
    \/ SharedHead \/ NoWeights \/ SeveralEnds \/ DataInside

=============================================================================
