---------------------------- MODULE StaticMemory ----------------------------
(***************************************************************************)
(* The optimizers that choose what lies in a static memory on the chip     *)
(* (memory/bbsisp_*.cpp, memory/fsisp_*.cpp), and the graph with the       *)
(* blocks placed there (graph/cfgcost_calc.cpp).  An assignment is the set *)
(* of the placed blocks of a super graph; a problem they hand to the       *)
(* solver is what it admits and what it makes of an assignment.            *)
(***************************************************************************)
EXTENDS VivuGraph, FlowFacts, ILPGenerator

CONSTANT Penalty   \* [jump, size -> [ca, jump, call]]: of an added jump, and
                   \* of a short jump or call that has to be long

Blockwise  == {"BBSISP", "BBSISP_JP", "BBSISP_WCP", "BBSISP_JP_WCP"}
Functionwise == {"FSISP", "FSISP_WCP", "FSISP_OLD"}
WithJumps  == {"BBSISP_JP", "BBSISP_JP_WCP"}
WorstPath  == {"BBSISP_WCP", "BBSISP_JP_WCP", "FSISP_WCP"}

BlocksOf(g) == VerticesOf(g, "BasicBlock")

-----------------------------------------------------------------------------
(* How the blocks are connected: to the next address ("ca"), by a jump, or *)
(* by a call to the first block of a function.  Returns find their way.    *)
Follower(g, v) == g.edges[Head(OutEdges(g, v))].dst

getFunctStartBBlock(g, v) ==
  IF g.nodes[v].type = "CallPoint" THEN Follower(g, Follower(g, v)) ELSE Follower(g, v)

Connection(g, e) ==
  LET dst == g.edges[e].dst
  IN  CASE g.nodes[dst].type = "CallPoint"  -> [kind |-> "call", to |-> getFunctStartBBlock(g, dst)]
        [] g.nodes[dst].type = "BasicBlock" ->
             [kind |-> IF g.edges[e].type = "ForwardStep" THEN "ca" ELSE "jump", to |-> dst]
        [] OTHER -> [kind |-> "none", to |-> 0]

(* A jump or call of two bytes has a short displacement, a longer one can *)
(* reach the other memory.  Those through a register, which need nothing   *)
(* either, do not end a block here.                                        *)
IsShort(g, v) == Last(g.nodes[v].code).len = 2

PenaltyFor(penalty, g, v, kind) ==
  IF kind = "ca" THEN penalty.ca
  ELSE IF kind # "none" /\ IsShort(g, v) THEN penalty[kind] ELSE 0

BBConnections(g, v) ==
  {e \in Range(OutEdges(g, v)) : v \in BlocksOf(g) /\ Connection(g, e).kind # "none"}

(* The edges of a block that lead from one memory to the other.            *)
Crossing(g, assigned, v) ==
  {e \in BBConnections(g, v) : (v \in assigned) # (Connection(g, e).to \in assigned)}

-----------------------------------------------------------------------------
(* The size of a placed block as the problems have it, ...                 *)
getBBSizeWithPenaltyConstraint(g, assigned, v) ==
  g.nodes[v].size + MapThenSumSet(LAMBDA e : PenaltyFor(Penalty.size, g, v, Connection(g, e).kind),
                                  Crossing(g, assigned, v))

EstimatedSize(o, g, assigned) ==
  MapThenSumSet(LAMBDA v : IF o \in WithJumps THEN getBBSizeWithPenaltyConstraint(g, assigned, v)
                           ELSE g.nodes[v].size, assigned)

(* ... and as it is reported: a block pays once for its jumps.             *)
getSizePenaltyForAssignedBasicBlock(g, assigned, v) ==
  MapThenSumSet(LAMBDA kind : PenaltyFor(Penalty.size, g, v, kind),
                {Connection(g, e).kind : e \in Crossing(g, assigned, v)})

getSizeOfAssignedBlocks(g, assigned) ==
  MapThenSumSet(LAMBDA v : g.nodes[v].size, assigned)

getUsedSizeIncludingSizePenalties(g, assigned) ==
  MapThenSumSet(LAMBDA v : g.nodes[v].size + getSizePenaltyForAssignedBasicBlock(g, assigned, v), assigned)

getUsedSispSize(o, penalties, g, assigned) ==
  IF (o \in WithJumps \/ penalties) /\ o # "FSISP_OLD"
  THEN getUsedSizeIncludingSizePenalties(g, assigned) ELSE getSizeOfAssignedBlocks(g, assigned)

-----------------------------------------------------------------------------
(* Functions are [address, cfg]; a block is of one if its address lies in  *)
(* as many bytes as the blocks of the function have.                       *)
Members(g, f) ==
  {v \in BlocksOf(g) : g.nodes[v].start \in f.address..(f.address + f.cfg.code_size - 1)}

(* The code may have blocks that are in no function.                       *)
FreeBlocks(g, functions) ==
  {v \in BlocksOf(g) : \A i \in 1..Len(functions) : v \notin Members(g, functions[i])}

(* addBBsOfFunctionToAssignedBlocks                                        *)
BlocksOfFunction(g, f) == {v \in BlocksOf(g) : g.nodes[v].start \in DOMAIN f.cfg.avMap}

WholeFunctions(g, functions, assigned) ==
  \A i \in 1..Len(functions) :
    Members(g, functions[i]) \subseteq assigned \/ Members(g, functions[i]) \cap assigned = {}

(* The old optimizer chooses functions, not blocks.                        *)
FunctionChoices(functions, size) ==
  {c \in SUBSET (1..Len(functions)) : MapThenSumSet(LAMBDA i : functions[i].cfg.code_size, c) <= size}

BlocksOfChoice(g, functions, chosen) == UNION {BlocksOfFunction(g, functions[i]) : i \in chosen}

(* The capacity is a constraint of each problem.                           *)
FeasibleBlocks(o, g, size) == {a \in SUBSET BlocksOf(g) : EstimatedSize(o, g, a) <= size}

(* The functions are taken or not.                                         *)
FeasibleFunctions(o, g, functions, size) ==
  {a \in FeasibleBlocks(o, g, size) :
     WholeFunctions(g, functions, a) /\ a \cap FreeBlocks(g, functions) = {}}

Feasible(o, g, functions, size) ==
  CASE o = "FSISP_OLD" -> {BlocksOfChoice(g, functions, c) : c \in FunctionChoices(functions, size)}
    [] o \in {"FSISP", "FSISP_WCP"} -> FeasibleFunctions(o, g, functions, size)
    [] o \in Blockwise -> FeasibleBlocks(o, g, size)

-----------------------------------------------------------------------------
(* The knapsacks weigh a block with what it gains on the worst path of the *)
(* graph without a memory.                                                 *)
Benefit(metric, g, flow, v) ==
  FoldLeft(LAMBDA acc, e : acc + flow[e] * (IF metric = "WCET" THEN g.edges[e].pen
                                           ELSE g.edges[e].cost),
           0, OutEdges(g, v))

BlocksWorth(metric, g, flow, assigned) ==
  MapThenSumSet(LAMBDA v : Benefit(metric, g, flow, v), assigned)

(* Added jumps cost; the formulation takes what the changed ones cost off. *)
JumpPenalty(g, flow, assigned) ==
  MapThenSumSet(LAMBDA v : MapThenSumSet(LAMBDA e :
      LET kind == Connection(g, e).kind
          paid == flow[e] * PenaltyFor(Penalty.jump, g, v, kind)
      IN  IF kind = "ca" THEN paid ELSE -paid, Crossing(g, assigned, v)), BlocksOf(g))

BlocksWorthWithJumps(metric, g, flow, assigned) ==
  BlocksWorth(metric, g, flow, assigned) - JumpPenalty(g, flow, assigned)

(* The old optimizer adds up per function; for MDIC it adds the sum so far *)
(* for each edge.                                                          *)
FunctionBenefit(metric, g, flow, f) ==
  LET blocks == SetToSortSeq(Members(g, f), <)
      out    == FoldLeft(LAMBDA acc, v : acc \o OutEdges(g, v), << >>, blocks)
  IN  FoldLeft(LAMBDA acc, e :
        LET cost == acc.cost + flow[e] * g.edges[e].cost
        IN  [cost |-> cost, benefit |-> acc.benefit +
               (IF metric = "WCET" THEN flow[e] * g.edges[e].pen ELSE cost)],
        [cost |-> 0, benefit |-> 0], out).benefit

FunctionsWorth(metric, g, functions, flow, assigned) ==
  MapThenSumSet(LAMBDA i : FunctionBenefit(metric, g, flow, functions[i]),
    {i \in 1..Len(functions) : BlocksOfFunction(g, functions[i]) \subseteq assigned})

-----------------------------------------------------------------------------
(* The others minimise the longest path.  A constraint bounds the variable *)
(* `of` from below by a sum: variables `times` often, edges `along` times  *)
(* their cost, and what entering a function costs.  The weights "w" belong *)
(* to vertices, "cl" and "wl" to the loop entered there, and "cf" and "wf" *)
(* to the function.                                                        *)
NoCall == [from |-> 0, to |-> 0]
AtLeast(of, vars) == [of |-> of, vars |-> vars, times |-> 1, edges |-> {}, along |-> 1, call |-> NoCall]

EdgeCosts(g, e) == IF g.nodes[g.edges[e].src].type = "BasicBlock" THEN {e} ELSE {}

(* registerAllLoopHeads: loops by the vertex they are entered at.          *)
LoopOf(g, loops, e) ==
  LET inject == getLoopInjectingEdge(g, loops, e)
  IN  [entry |-> IF inject = 0 THEN 0 ELSE g.edges[inject].dst, back |-> e,
       bound |-> IF inject = 0 THEN 0 ELSE g.edges[inject].circ,
       first |-> g.edges[e].dst, last |-> g.edges[e].src]

LoopMap(g, loops) == {l \in {LoopOf(g, loops, e) : e \in loops} : l.bound > 0}

(* The state of the generator: the graph, its back edges and loops, the    *)
(* constraints, the functions that have some, the edges that leave the     *)
(* code, and whether an assertion failed.                                  *)
Added(s, constraints) == [s EXCEPT !.constraints = @ \cup constraints]

OnPath(s, v, start, end) == isNodeOnPath(s.g, s.loops, v, start, end, FALSE)

ForwardEdges(g, v) == {e \in Range(OutEdges(g, v)) : g.edges[e].type \in ForwardTypes}

RECURSIVE SequentialCode(_, _, _, _, _)

CodeBetween(s, start, end) == SequentialCode([s EXCEPT !.leaving = {}], start, end, {start}, {})

(* A call goes on behind it; the callee is generated once.                 *)
FunctionCode(s, code, entry) ==
  [code EXCEPT !.ok = @ /\ code.leaving = {}, !.leaving = s.leaving, !.functions = @ \cup {entry}]

Callee(s, entry, exit) ==
  IF entry \in s.functions THEN s ELSE FunctionCode(s, CodeBetween(s, entry, exit), entry)

ReturnOf(g, v) == Min({r \in VerticesOf(g, "ReturnPoint") : g.nodes[r].end = g.nodes[v].end})

CallBetween(g, v) ==
  [from |-> g.edges[Head(InEdges(g, v))].src, to |-> getFunctStartBBlock(g, v)]

CallConstraints(g, v, entry, return) ==
  LET wf == <<"wf", entry, g.nodes[v].end>>
  IN  {AtLeast(<<"cf", entry>>, {<<"w", entry>>}),
       [AtLeast(<<"w", v>>, {wf}) EXCEPT !.call = CallBetween(g, v)],
       AtLeast(wf, {<<"w", return>>, <<"cf", entry>>})}

GoOnBehind(s, v, entry, return) ==
  [s |-> Added(Callee(s, entry, s.g.edges[Head(InEdges(s.g, return))].src),
               CallConstraints(s.g, v, entry, return)),
   next |-> {return}]

AtCall(s, v) == GoOnBehind(s, v, Follower(s.g, v), ReturnOf(s.g, v))

(* An edge to other code, or out of the code.                              *)
AtEdge(s, e, start, end) ==
  LET v  == s.g.edges[e].src
      to == s.g.edges[e].dst
      on == OnPath(s, to, start, end)
  IN  [s |-> [Added(s, {[AtLeast(<<"w", v>>, IF on THEN {<<"w", to>>} ELSE {})
                           EXCEPT !.edges = EdgeCosts(s.g, e)]})
              EXCEPT !.leaving = IF on THEN @ ELSE @ \cup {e}],
       next |-> IF on THEN {to} ELSE {}]

(* Mutant: a loop is executed as often as its back edge.                   *)
LoopConstraints_once(s, e, l, leaving) ==
  LET cl == <<"cl", l.entry>>
      wl == <<"wl", l.entry>>
  IN  {[AtLeast(cl, {<<"w", l.first>>}) EXCEPT !.times = l.bound, !.edges = {l.back}, !.along = l.bound],
       [AtLeast(<<"w", s.g.edges[e].src>>, {wl}) EXCEPT !.edges = EdgeCosts(s.g, e)]}
      \cup {[AtLeast(wl, {<<"w", s.g.edges[x].dst>>, cl}) EXCEPT !.edges = {x}] : x \in ForwardEdges(s.g, l.last)}
      \cup {AtLeast(wl, {<<"w", s.g.edges[x].dst>>, cl}) : x \in leaving}

(* An edge to a loop: its iterations and what follows behind its end.  The *)
(* edges that leave it elsewhere are taken to go where the others lead to. *)
LoopConstraints(s, e, l, leaving) ==
  LET cl == <<"cl", l.entry>>
      wl == <<"wl", l.entry>>
  IN  {[AtLeast(cl, {<<"w", l.first>>}) EXCEPT !.times = l.bound + 1, !.edges = {l.back}, !.along = l.bound],
       [AtLeast(<<"w", s.g.edges[e].src>>, {wl}) EXCEPT !.edges = EdgeCosts(s.g, e)]}
      \cup {[AtLeast(wl, {<<"w", s.g.edges[x].dst>>, cl}) EXCEPT !.edges = {x}] : x \in ForwardEdges(s.g, l.last)}
      \cup {AtLeast(wl, {<<"w", s.g.edges[x].dst>>, cl}) : x \in leaving}

LoopAsserts(s, e, l, leaving, start, end) ==
  \/ s.g.nodes[l.last].type # "BasicBlock"
  \/ ForwardEdges(s.g, l.last) # {} /\ ~OnPath(s, s.g.edges[e].dst, start, end)
  \/ \E x \in leaving : ~OnPath(s, s.g.edges[x].dst, start, end)

BehindLoop(s, e, l, body, start, end) ==
  [s |-> [Added(body, LoopConstraints(s, e, l, body.leaving))
            EXCEPT !.leaving = s.leaving,
                   !.ok = @ /\ ~LoopAsserts(s, e, l, body.leaving, start, end)],
   next |-> {s.g.edges[x].dst : x \in ForwardEdges(s.g, l.last)}]

AtLoop(s, e, l, start, end) == BehindLoop(s, e, l, CodeBetween(s, l.first, l.last), start, end)

(* The loop an edge enters, unless the code is that of the loop itself.    *)
EnteredLoops(s, e, start, end) ==
  {l \in s.heads : l.entry = s.g.edges[e].dst /\ l.entry # start /\ l.last # end}

Along(acc, r) == [s |-> r.s, next |-> acc.next \cup r.next]

AtStep(s, e, entered, start, end) ==
  IF entered = {} THEN AtEdge(s, e, start, end)
  ELSE AtLoop(s, e, CHOOSE l \in entered : TRUE, start, end)

Step(s, v, start, end) ==
  IF v = end THEN [s |-> Added(s, {AtLeast(<<"w", v>>, {})}), next |-> {}]
  ELSE IF s.g.nodes[v].type = "CallPoint" THEN AtCall(s, v)
  ELSE FoldLeft(LAMBDA acc, e :
           Along(acc, AtStep(acc.s, e, EnteredLoops(acc.s, e, start, end), start, end)),
         [s |-> s, next |-> {}], SetToSortSeq(ForwardEdges(s.g, v), <))

CodeFrom(r, v, start, end, processing, processed) ==
  SequentialCode(r.s, start, end, processing \cup r.next, processed \cup {v})

SequentialCode(s, start, end, processing, processed) ==
  IF processing \subseteq processed \/ ~s.ok THEN s
  ELSE LET v == Min(processing \ processed)
       IN  CodeFrom(Step(s, v, start, end), v, start, end, processing, processed)

Formulation(g, loops, heads, entry, exit) ==
  CodeBetween([g |-> g, loops |-> loops, heads |-> heads, constraints |-> {},
               functions |-> {}, leaving |-> {},
               ok |-> \A l, m \in heads : l.entry = m.entry => l = m], entry, exit)

FormulationOf(g, loops, entry, exit) == Formulation(g, loops, LoopMap(g, loops), entry, exit)

generateOptimalILPFormulation(g, entry, exit) ==
  LET s == FormulationOf(g, LoopCausingEdges(g), entry, exit)
  IN  [s EXCEPT !.ok = @ /\ s.leaving = {}]

(* What an edge costs with an assignment.                                  *)
EdgeCost_of(o, g, assigned, e) ==
  LET v == g.edges[e].src
  IN  g.edges[e].cost + (IF v \in assigned THEN 0 ELSE g.edges[e].pen)
        + (IF o = "BBSISP_JP_WCP" /\ e \in Crossing(g, assigned, v)
           THEN PenaltyFor(Penalty.jump, g, v, Connection(g, e).kind) ELSE 0)

EnteringCost(o, g, assigned, call) ==
  IF o = "BBSISP_JP_WCP" /\ call # NoCall /\ (call.from \in assigned) # (call.to \in assigned)
  THEN PenaltyFor(Penalty.jump, g, call.from, "call") ELSE 0

(* The least solution; a variable that nothing bounds is zero.             *)
AtLeastIs(o, g, assigned, c, values) ==
  MapThenSumSet(LAMBDA x : c.times * values[x], c.vars)
    + MapThenSumSet(LAMBDA e : c.along * EdgeCost_of(o, g, assigned, e), c.edges)
    + EnteringCost(o, g, assigned, c.call)

RECURSIVE LeastSolution(_, _, _, _, _)
LeastSolution(o, g, constraints, assigned, values) ==
  LET next == [x \in DOMAIN values |->
                 Max({0} \cup {AtLeastIs(o, g, assigned, c, values) : c \in {d \in constraints : d.of = x}})]
  IN  IF next = values THEN values ELSE LeastSolution(o, g, constraints, assigned, next)

getEstimatedWCET(o, g, constraints, assigned, entry) ==
  LeastSolution(o, g, constraints, assigned,
    [x \in UNION {{c.of} \cup c.vars : c \in constraints} |-> 0])[<<"w", entry>>]

-----------------------------------------------------------------------------
(* calculateBlockAssignment: what the solver may answer.  A flow is given  *)
(* for each edge, `s` are the constraints on the longest path.             *)
Objective(o, metric, g, functions, flow, s, assigned, entry) ==
  CASE o \in {"BBSISP", "FSISP"} -> BlocksWorth(metric, g, flow, assigned)
    [] o = "BBSISP_JP" -> BlocksWorthWithJumps(metric, g, flow, assigned)
    [] o = "FSISP_OLD" -> FunctionsWorth(metric, g, functions, flow, assigned)
    [] o \in WorstPath -> -getEstimatedWCET(o, g, s.constraints, assigned, entry)

BestOf(choices, Worth(_)) ==
  LET weighed == {[of |-> a, worth |-> Worth(a)] : a \in choices}
      best    == Max({x.worth : x \in weighed})
  IN  {x.of : x \in {y \in weighed : y.worth = best}}

(* FSISP declares the functions binary, and thereby their blocks.  Of a    *)
(* block of no function any share may be taken, more than all of it as     *)
(* well, so what the functions leave of the memory is filled with the one  *)
(* that is worth most for its size.                                        *)
Dearest(metric, g, flow, free) ==
  {v \in free : \A w \in free :
     Benefit(metric, g, flow, v) * g.nodes[w].size >= Benefit(metric, g, flow, w) * g.nodes[v].size}

Room(g, size, assigned) == size - getSizeOfAssignedBlocks(g, assigned)

(* What an assignment is worth with the room filled, times the size of the *)
(* block that fills it.                                                    *)
WorthFilled(metric, g, flow, size, assigned, v) ==
  g.nodes[v].size * BlocksWorth(metric, g, flow, assigned)
    + Benefit(metric, g, flow, v) * Room(g, size, assigned)

(* A share counts for the solution only if it is one.                      *)
FilledWith(g, size, assigned, v) ==
  [blocks |-> IF Room(g, size, assigned) = g.nodes[v].size THEN assigned \cup {v} ELSE assigned,
   size   |-> size]

Unfilled(o, g, assigned) == [blocks |-> assigned, size |-> EstimatedSize(o, g, assigned)]

(* The simplex method answers with a corner of the problem: one block has  *)
(* all the room, or none has, where that is worth the same.                *)
FillingAnswers(o, metric, size, g, functions, flow, dearest) ==
  UNION {{FilledWith(g, size, a, v) : v \in dearest}
           \cup {Unfilled(o, g, a) : v \in {w \in dearest : Benefit(metric, g, flow, w) = 0}} :
    a \in BestOf(FeasibleFunctions(o, g, functions, size),
                 LAMBDA a : WorthFilled(metric, g, flow, size, a, CHOOSE v \in dearest : TRUE))}

(* The blocks and the size that the solution states for them.              *)
calculateBlockAssignment(o, metric, size, g, functions, flow, s, entry) ==
  IF o = "FSISP" /\ FreeBlocks(g, functions) # {}
  THEN FillingAnswers(o, metric, size, g, functions, flow,
                      Dearest(metric, g, flow, FreeBlocks(g, functions)))
  ELSE {Unfilled(o, g, a) : a \in BestOf(Feasible(o, g, functions, size),
          LAMBDA a : Objective(o, metric, g, functions, flow, s, a, entry))}

(* The knapsacks refuse the metric MPL (the old optimizer goes on to the   *)
(* assertion of its default), the jump penalties need one end of each      *)
(* function, and the old optimizer the function of each block.             *)
RefusesMetric(o, metric) == metric = "MPL" /\ o \notin WorstPath

LacksEnd(o, g) ==
  o \in WithJumps /\ \E r \in VerticesOf(g, "ReturnPoint") :
    Len(InEdges(g, g.edges[Head(InEdges(g, r))].src)) # 1

LacksFunction(o, g, functions) == o = "FSISP_OLD" /\ FreeBlocks(g, functions) # {}

OptimizerAsserts(o, metric, g, functions, s) ==
  \/ RefusesMetric(o, metric) \/ LacksEnd(o, g) \/ LacksFunction(o, g, functions)
  \/ o \in WorstPath /\ ~s.ok

-----------------------------------------------------------------------------
(* The graph with the blocks placed.  Where a step crosses the memories,   *)
(* the block gets a jump behind its end; a short jump or call that crosses *)
(* becomes longer.                                                         *)
ConnectingJump(arch) == [len |-> IF arch = "armv6m" THEN 2 ELSE 4, class |-> "jump"]

StepsAcross(g, assigned, v) == {e \in Crossing(g, assigned, v) : Connection(g, e).kind = "ca"}

addConnectingJump(arch, node) ==
  [node EXCEPT !.size = @ + Penalty.size.ca, !.end = @ + Last(node.code).len,
               !.instrs = @ + 1, !.code = Append(@, ConnectingJump(arch))]

(* Mutant: a block with a new jump becomes longer by its own as well.      *)
alterConnecting_step(g, assigned, v, node) ==
  IF Crossing(g, assigned, v) = {} \/ ~IsShort(g, v) THEN node
  ELSE [node EXCEPT !.size = @ + 2, !.end = @ + 2]

(* alterConnectingJump and alterConnectingCall, once for a block           *)
alterConnecting(g, assigned, v, node) ==
  IF Crossing(g, assigned, v) \ StepsAcross(g, assigned, v) = {} \/ ~IsShort(g, v) THEN node
  ELSE [node EXCEPT !.size = @ + 2, !.end = @ + 2]

addConnectingJumps(arch, g, assigned) ==
  [nodes |-> [v \in DOMAIN g.nodes |->
     IF v \notin BlocksOf(g) THEN g.nodes[v]
     ELSE alterConnecting(g, assigned, v,
            IF StepsAcross(g, assigned, v) = {} THEN g.nodes[v]
            ELSE addConnectingJump(arch, g.nodes[v]))],
   edges |-> [e \in DOMAIN g.edges |->
     IF g.edges[e].src \in BlocksOf(g) /\ e \in StepsAcross(g, assigned, g.edges[e].src)
     THEN [g.edges[e] EXCEPT !.type = "ForwardJump"] ELSE g.edges[e]]]

(* setAssignedBlocks                                                       *)
setAssignedBlocks(g, assigned) ==
  [g EXCEPT !.edges = [e \in DOMAIN @ |->
     IF g.edges[e].src \in assigned THEN [g.edges[e] EXCEPT !.pen = 0] ELSE g.edges[e]]]

(* The costs are calculated again if jumps were added.                     *)
CalculatedAgain(jumps, costs, assigned) ==
  [ok |-> costs.ok,
   g  |-> IF costs.ok THEN setAssignedBlocks(calculateCost(jumps, "static", costs.of), assigned) ELSE jumps]

WithConnectingJumps(arch, metric, jumps, assigned, entry) ==
  CalculatedAgain(jumps, BlockCosts(arch, jumps, entry, metric), assigned)

considerMemoryAssignment(arch, metric, g, assigned, addJumps, entry) ==
  IF addJumps
  THEN WithConnectingJumps(arch, metric, addConnectingJumps(arch, g, assigned), assigned, entry)
  ELSE [ok |-> TRUE, g |-> setAssignedBlocks(g, assigned)]

=============================================================================
