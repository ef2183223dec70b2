# ISPTAP in TLA+

ISPTAP is the *instruction scratchpad timing analysis program*: it reads the
disassembly of a program for ARMv6-M, TriCore or CarCore, builds its control
flow, and bounds its worst case execution time (WCET) for a given instruction
memory: an instruction cache, a dynamic instruction scratchpad that loads whole
functions (D-ISP), or a static scratchpad whose content an optimizer chooses.
The bound is only worth something if it is *sound*: no execution may be missing
from the graphs, cost more than its path is charged, or miss in a memory where
the analysis promised a hit. Soundness is what this project is mostly about.

All sources named below are under `src/src/`.

## 1. The system

The program is sequential: one process, no threads, nothing persisted, no
network. What is hard is the order in which worklists visit graph nodes, the
abstract interpretation of replacement policies, the copies made for calls and
loops, what is charged on which edge, and what the phases assume of each other.

### Components, their state and how they interact

| Component | State it keeps | Operations | Modules |
|---|---|---|---|
| Dump parsers (`parser/`) | unparsed lines, labels to parse, the graph of the function at hand | parse a function, end and split blocks, find jump and call targets | `DumpParser` |
| CFG, call graph, super graph (`graph/cfgobj`, `fcgobj`, `scfgobj`) | attributed graphs | add vertices and edges, order functions, insert call sites, join functions into one graph | `FlowGraph`, `SuperGraph` |
| Flow facts (`graph/flowfact_enrichment`, `util/flowfact_reader`) | bounds on edges | loop bounds, inducting edges, static flow | `FlowFacts` |
| Costs (`graph/cfg_if`, `cfgcost_calc`, `arch/*_core_timing`) | costs and penalties on edges; instruction windows by address (CarCore) | time every block in each memory; add and lengthen jumps | `CoreTiming`, `FlowFacts`, `StaticMemory` |
| Static scratchpads (`memory/bbsisp_*`, `fsisp_*`, `sisp_*`) | problem text, chosen blocks or functions, size, estimate | state a problem, read the solution, assign blocks, connect them by jumps | `StaticMemory` |
| VIVU graph creator (`graph/vivug_creator`, `cfgloophelper`, `msgtocfg_conv`) | the memory state graph (MSG), a stack of call contexts, pending loop exits | inline every call, peel the first iteration of every loop, convert back to a CFG | `VivuGraph` |
| Cache analyses (`memory/icache_dfa*`) and their maintainers | worklist; abstract or concrete cache states per node | `analyzeCache`, `update`, `join` | `ICacheDFA`, `ICacheDFAMap`, `CacheStateMaintainer` |
| D-ISP analyses (`memory/disp_dfa*`) and their maintainers | as above, and a call context per node | `analyzeDISP`, `update`, `join` | `DISPDFA`, `DISPDFAMap`, `LRUDISP`, `DISPMemStates` |
| ILP generator and solver front end (`graph/ilpgenerator`, `util/lpsolver`) | constraint files, kind of answer | constraints for flow, loops and calls; parse the answer | `ILPGenerator`, `TimingAnalysis` |
| Pipeline (`analysis/`), memory sizes (`memory/memory_size_stepper`, `memory_params`), report (`util/report_generator`) | finished flags, actual size, values of the last line | parse, control flow, memory, estimate; repeat for each size | `TimingAnalysis` |
| Configuration, exporters, instrumentation, TriCore text | tables and text | | not modelled (section 5) |

The pipeline calls one stage after the other. A stage writes its results into
the properties of shared graphs (`memStateNProp`, `dynamicMemPenaltyEProp`,
`costEProp`, ...), the next stage reads them there. Analyses call maintainers
through virtual methods. There are no callbacks into the callers.

### What is hard, and which properties make a component right

* **From text to graphs.** Functions are cut from one list of lines, blocks are
  split when a later jump leads into them, functions are joined in the order in
  which calls are found. Right: every execution of the program is a path of the
  super graph, with calls and returns that match (`PathInSuperGraph`).
* **Copies for loops.** A jump may leave or enter a copy only where that copy
  has an edge. Right: every execution is a path of the VIVU graph too
  (`PathInVivuGraph`), and costs the same there (`CostOfPath`).
* **The flow problem.** Right: every execution with the annotated iterations is
  a solution of it (`ExecutionsSolveILP`).
* **Costs of blocks.** Each block is timed alone, with fetch buffers and
  instruction windows guessed from the kinds of its edges. Right: no execution
  takes longer than its path is charged, with the code off the chip, on it, or
  placed by an optimizer (`TimeIsCovered`).
* **Static memories.** Sizes are computed in three places and the worst path is
  encoded by hand in the knapsack. Right: what is placed fits and
  the checker of the results has nothing to object to (`AssignmentFits`), the path the optimizer minimises is the longest one
  (`WcpIsExact`).
* **Worklist.** `analyzeCache` keeps a `std::vector` as a stack, pushes a node
  once per forward in edge, *drops* a popped node whose predecessors are not
  all known, and processes a node every time it comes up. Right: no node
  is lost, every node that gets a value gets the value of its flow equation, a
  second processing changes nothing, the loop ends, and no assertion about
  predecessors fails.
* **Abstract memories.** Must and may ages have to bound the age in the real
  memory on every path; content sets have to contain the real content. A D-ISP
  counts ages in bytes, and a stack memory is a ring whose functions wrap around.
* **Loops in analyses.** Back edges are never followed; the code relies on the
  peeled first iteration to have "the memory effects of loops".
* **Special values.** Address 0 means "unused entry" to every join.
* **Phases.** Flags say which stage was passed, a second memory size starts from
  the results of the first, and a failed solver leaves them in place.

The list of hazards with their lines is in `PROJECT.json`.

## 2. Modules

| Module | Models |
|---|---|
| `FlowGraph` | graphs as values with numbered vertices and edges: `graph/graph_structure.h`, `graph/cfgobj.cpp` |
| `DumpParser` | `parseCfgForLabel` of `parser/dump_parser.cpp` and what its ARMv6-M and CarCore subclasses add, one line of the dump per step |
| `SuperGraph` | `graph/fcgobj.cpp` and `graph/scfgobj.cpp` |
| `FlowFacts` | flow facts and costs on the edges of a super graph; `IsTimedGraph` is what the proofs suppose of costs |
| `CoreTiming` | `arch/armv6m_core_timing.cpp` (fetch buffer) and the core it stands for, `arch/carcore_timing.cpp` (instruction window, two pipelines) |
| `StaticMemory` | the seven static optimizers and `graph/cfgcost_calc.cpp` |
| `VivuGraph` | `createVivuGraph`, the loop and path searches, the way back to a CFG |
| `ILPGenerator` | the constraints of `graph/ilpgenerator.cpp` as a predicate over flows, and what a step along an edge makes of a flow |
| `ControlFlow` | composition of the nine above: from the lines of a program to its flow problems, with a machine (external) that executes the program |
| `TimingAnalysis` | the pipeline, with the memory sizes it steps through, the solver's answers and the report |
| `MemoryStateGraph` | the MSG types of `graph/graph_structure.h`; `IsFlowGraph` is what every analysis may suppose of a graph, `IsCodeGraph` adds the basic blocks the cache analyses read |
| `MemStateMaintainer`, `CacheStateMaintainer` | must and may sets, `memory/mem_state_maintainer.cpp`; `update` and `join` of `memory/lru_cache_state_maintainer.cpp` and `memory/dm_cache_state_maintainer.cpp` |
| `ICacheDFA` | `analyzeCache` of `memory/icache_dfa.cpp` with its helpers, the classification and the penalties |
| `ForwardAnalysis` | abstract specification: what any forward analysis over an acyclic graph promises |
| `ICacheExecution` | composition: the analysis, then a processor that walks a path of the graph through a real LRU or direct mapped cache (hardware, external) |
| `ICacheDFAMap`, `ICacheMapExecution` | the same for `memory/icache_dfa_map.cpp` with FIFO content sets |
| `FunctionTable`, `CallMSG`, `DISPPenalty` | what both D-ISP analyses share: function sizes in whole blocks, call contexts (`graph/context_stack.cpp`) and `IsCallGraph`, cycles of a load |
| `LRUDISP`, `DISPDFA` | `memory/lru_disp_state_maintainer.cpp`; `analyzeDISP` of `memory/disp_dfa.cpp` with contexts, classification, penalties and assertions |
| `DISPMemStates`, `DISPDFAMap` | the FIFO queue with its mapping table and the ring of the stack policy; `memory/disp_dfa_map.cpp` with the maintainers that keep sets of these |
| `FunctionMemory` | the hardware (external): a memory of functions with LRU, FIFO or stack replacement, byte by byte |
| `DISPExecution`, `DISPMapExecution` | composition: a D-ISP analysis, then a program with a real call stack and a real memory |
| `PathFlow` | a path of any graph with its flow and its cost, beside the problem `ILPGenerator` states for the graph |
| `TimedPath` | an ARMv6-M (external) that executes the blocks of such a path instruction by instruction, with its code on the chip and off it |
| `MemoryStateGraph_proofs` | recursive functions over sequences, and lemmas on the forward edges of a graph, used by the other proofs about graphs |
| `FunctionMemory_proofs` | sums of function sizes, ages in the LRU memory, ranges of bytes on a ring |
| `PathFlow_proofs` | sums of flows, conservation along a path, the estimate as a bound of all paths and of the time they take |
| `ICacheExecution_proofs`, `ICacheMap_proofs`, `DISP_proofs`, `DISPMap_proofs`, `TimingAnalysis_proofs` | theorems about the specifications above, those about an analysis and its execution in one module |
| `MCGraphs`, `MCCallGraphs`, `MC…` | the graphs, programs and constants of the runs |

### Correspondence with the code

**`ControlFlow`** and what it composes:

| TLA+ | Code |
|---|---|
| `file`, `parsing`, `process`, `processed`, `blacklist` | `unparsed_file_content`, the variables of the running `parseCfgForLabel`, the lists of labels of `DumpParser` |
| a line: `[kind, addr, len, op, target, class]` | what the regular expressions of a parser give for a line; decoding is its `op` and `class` |
| `fcg`, `super`, `linking` | the `FunctionCallGraphObject`, the `SuperCFGObject` in the making |
| `scfg`, `vivu`, `vcfg` | the super graph with facts and costs, the creator behind `createVivuGraph`, the result of `msgtocfg_conv` |
| `static` | the assignment, the size the solver states for it, the size that is reported, its estimate, and the graph `cfgcost_calc` makes of it |
| `stage`, `failed` | what `analyseProgram`, `analysePipeline`, `analyseImem` and `calculateEstimate` call next; the stage whose assertion stopped the program |
| `machine`, `walks` | external: a core that executes the program in each memory, and all the paths of the two graphs that match what it executed |

A problem for the solver is a set of admitted assignments or flows and a value
of each. Every assignment that is optimal by the problem's own value is a
possible answer (`\E`), so ties are not broken in the model's favour. The
machine chooses the way at each conditional branch; only the iterations of
annotated loops are those of their bounds, which is what the equations of
`ilpgenerator.cpp:195` ask for. Whether an execution is in a graph is decided
by walking the graph beside it, block by block, by the addresses of the code.

**`TimingAnalysis`**: `pa_finished` to `ec_finished` are the flags of the class,
`baseline`, `estimate`, `report` what is kept between sizes, `lines` what was
printed, `stage` the next statement of `start`. One action is one stage
with its assertions and early returns; `SolverOutputs` are the kinds of files the
solver can leave behind (unreadable, no objective, time limit, unbounded,
values beyond 32 bits).

**`ICacheDFA`**:

| TLA+ | Code |
|---|---|
| `processing` | the local vector `processing_nodes` of `analyzeCache` (back = next) |
| `memState`, `memStateVal` | vertex properties `memStateNProp`, `memStateValNProp` |
| `penalty` | `dynamicMemPenaltyEProp`, the same value on all out edges of a node |
| `DropNode` | a popped node whose predecessors are unknown, or the exit |
| `JoinAndSetInitialMemState`, `SetInitialMemState` | one iteration of the loop, on a node with several or with one forward in edge, with the pushes at its end |
| `CalculateCachePenalty` | the code after the loop: `categorizeCacheAccesses` and `calculateCachePenalty` for all nodes |

A vector of `(address, age)` entries is modelled as a partial function from
addresses to ages: the code keeps at most one entry per address and re-sorts
the vector after a join, nothing reads its order. Basic blocks are sequences of
line addresses, given with the graph. `ICacheExecution` adds the processor:
`Fetch` accesses the next line of the node, `TakeEdge` leaves along *any* edge,
back edges included, so paths are not restricted by loop bounds or flow facts;
a property that holds on all of them holds on those of the program.
`ICacheDFAMap` adds to the worklist the `state_map` of the maintainer and the
two assertions about it: a failed `assert` is the phase `"aborted"`.

**`DISPDFA`, `DISPDFAMap`**:

| TLA+ | Code |
|---|---|
| `memState[n]`, `state_map[n]` | the memory, or the set of memories, *before* the call or return of node `n` |
| `ctxMap` | `node_context_map`, a `ContextStack` per node |
| `DropNode`, `ProcessNode` (`JoinAndSet…`, `SetInitial…`) | one iteration of the loop, `addContextForNode` of the successors included |
| `AssertionFails` | one of the assertions in the handlers, in `update` or in `updateContextForNode` stops the program |
| `CalculateMemPenalty` | `calculateMemPenalty` for all nodes; its assertions on the edges of entry and exit nodes abort it |
| `[address, pos_begin, pos_end]` in `DISPMemStates` | an entry of `StackDISPMemState`, positions cut to 16 bits as in the code |

The field `context` of a graph is no data of the code: it is the chain of calls
a node was copied for, which only the properties and the assumption on inlining
read. The executions take edges like `ICacheExecution` does, with a call stack
that entry nodes push and exit nodes pop; `looped` says that an edge backwards
was taken.

## 3. Runs

| Run | Question | Result |
|---|---|---|
| `worklist` | Does the worklist compute every state, consistently, in flow order, and end; are its direct mapped sets right? | holds, liveness and refinement of `ForwardAnalysis` included |
| `lru_paths` | Are classes, penalties and ages sound on every path of branching code and of loops with a straight body, later iterations included? | holds; with a line at the address 0 or a block the worklist never comes to, hits and penalties only |
| `fifo_branches` | Does the FIFO analysis keep the content of the cache on branching code, and when do the assertions about its state map hold? | it does; if steps are ordered before jumps and every block is entered by a forward edge |
| `disp_contexts` | Does each node get the context of its calls, which assertions can fail, and does the D-ISP analysis end? | contexts agree; only a function that does not fit, or one with two returns, stops it |
| `disp_calls` | Are the classes, ages and penalties of calls and returns sound, and do all assertions hold if functions return once? | holds |
| `disp_map` | Do the queue and the ring keep the content of the real memory through wrap around, eviction of callers and reloads on returns? | holds, unless a function fills the ring |
| `pipeline` | Does each stage find what it reads, does a line show its own size whatever failed before, does stepping through sizes end? | holds for lines of solved problems and for sizes that grow |
| `control_flow` | Is every execution in the super graph, in the VIVU graph and in both flow problems, at a cost that covers its time; do placed blocks fit; do the graphs keep what the analyses assume; which assertions can fail? | holds, with the exclusions below |
| `lru_branching_loop` | Do hits hit in loops with alternatives? | **violated** (finding 1) |
| `disp_full_ring` | Do penalties pay for a function as large as the stack memory? | **violated** (finding 2) |
| `stale_line` | Does every line that claims a solution show its size's values? | **violated** (finding 3) |
| `stepping_defaults` | Does stepping end with the default options? | **violated** (finding 4) |

### Findings

1. `lru_branching_loop`. `icache_dfa.cpp:203` ignores back edges "because the
   memory effects of loops are taken into account by unrolling the first loop
   iteration". One peeled iteration executes one alternative of the body; the
   next ones can take others and evict what the first left in the must set. A
   certain hit then misses. (The textbook analysis joins over the back edge of
   the second copy until a fixed point is reached.)
2. `disp_full_ring`. A function of exactly the size of the stack memory has
   `pos_begin = pos_end`; `checkFunctionIntersection` takes the half open range
   for an empty one, so nobody is evicted and the return to a caller that was
   overwritten is charged as a hit.
3. `stale_line`. `start()` drops the result of `calculateEstimate`; if the solver
   fails for a size its line is printed with the estimate and the solution type
   of the size before.
4. `stepping_defaults`. Start and step are 0 by default; a step of 0 doubles the
   size, and 0 doubled stays 0.

### What the properties exclude

`control_flow` states its properties for the programs on which the code keeps
them. Each exclusion is a definition of `ControlFlow`, and each is a limit of the
program that a reader should know of; without it TLC finds the counterexample
(for the programs of the run) described here.

| Definition | What the code does |
|---|---|
| `JumpBehindBranch` | if a placed CarCore block ends in a conditional branch and gets a jump added, the branch is no longer the last instruction and its penalty is not charged (`carcore_timing.cpp:895`): an execution takes longer than its path |
| `LoopBehindLoop` | the WCP formulation does not see a loop that begins where another ends (`bbsisp_optimizer_wcp.cpp:338`): its estimate is below the longest path |
| `EnteredInside`, `LeftInside` | loops entered or left in the middle are over-estimated by the WCP formulation |
| `SharedHead` | two back edges to one head fail its assertion (`:563`) |
| `LatchIsJump` | a loop that ends with an unconditional jump back fails in `msgtocfg_conv.cpp:238` |
| `UnboundLoop` | a loop without a bound stops the flow fact enrichment |
| `ZeroFlow` | the assertion at `ilpgenerator.cpp:575` assigns instead of comparing, so a static flow of 0 on a block with copies fails |
| `JumpToNext` | a jump to the next instruction is classified as a step and charged like one |
| `SeveralEnds` | the optimizers with jump penalties refuse a function with several returns |
| `NoWeights` | all knapsacks refuse the metric MPL; `FSISP_OLD` in a branch without a `break` (`fsisp_optimizer_old.cpp:155`) |
| `DataInside` | the size of a function does not count the data between its blocks, so the last blocks lie in no function (`FreeBlocks`): `FSISP_OLD` fails an assertion, `FSISP` states a size that the checker refuses |
| `HasShares` in `AssignmentFits` | only functions are declared binary (`fsisp_optimizer.cpp:244`), so the solver fills the memory with half of a free block, or with two of it; only a value of 1 counts as placed (`sisp_optimizer_if.cpp:133`), and the stated size is larger than the used one, which an assertion compares (`result_checker.cpp:131`). What is reported as used is right all the same |
| `machine.lost` in `PathInVivuGraph` | a loop left before its first jump back at its last instruction, or in the middle in a later iteration, has no edge in the copy |
| `Structured` | no jump into another function, no unknown target, no call to an address inside a function |
| `~program.penalties` in `AssignmentFits`, `WcpIsExact` | an optimizer without jump penalties that is asked to add jumps does not reserve room or time for them |

The analyses of dynamic memories have limits of the same kind: a block entered
by a `BackwardJump` only is analysed as if nothing came from there; the state map
of the FIFO analysis stops at a node that is processed twice, which a jump table
can bring about by the order of its targets (`OrderedGraphsPass`); a function
with two returns stops a D-ISP analysis at `disp_dfa.cpp:353`, and one whose
return is entered by a `BackwardJump` only is charged nothing on its return; the
estimate rests on executions with fewer iterations than the bound costing less,
since bounds are equations in the problem (`ilpgenerator.cpp:195`) and maxima to
the reader.

### Bounds, and why they are enough

* *Worklist*: all 28 acyclic shapes on four inner nodes with one root, each in
  both orders of its out edges, a loop, and graphs with detached blocks. Four
  nodes are the fewest that have a join whose predecessors become known in
  either order, a dropped node, and a node processed twice before and after its
  successor. The proofs below lift the safety part to every graph.
* *Caches*: four lines in a cache of two or three, so that every
  access pattern up to eviction and re-load occurs; blocks of one or two lines.
  For LRU an age comparison concerns two lines, so four lines suffice to have
  one that is older, one that is younger and one that is evicted. Direct
  mapped: two lines per index. Branches: diamond, switch of three (recursion of
  `join`) and a fall through from one case into another, all with all
  assignments of blocks; loops with bodies of up to three lines; a diamond, a
  fall through and a loop with a line at the address 0, and a block entered by a
  `BackwardJump` only. Without `NoZeroLine` in
  `MissesMiss` and `ForwardMaySound`, or `ForwardConnected` in the former, the run
  finds a counterexample.
* *D-ISP*: the root and four callees of 2, 4, 2, 2 and 10 bytes in blocks of
  two bytes, sizes rounded up for two of them, in a memory of 8 bytes: any
  three of the smaller ones fit, all four do not, and one never does. `disp_map`
  has eight sets of parameters, both policies, memories of 6, 8 and 10 bytes (the
  largest function is larger, fits exactly, or is the whole ring), mapping
  tables of 2, 3 and 8 entries, with and without ignoring what does not fit.
  Shapes: two calls in each branch of an alternative and a call behind it, a
  nested call that may be skipped, a loop with two calls, each with all
  assignments of callees.
* *Pipeline*: numbers of 6 bits (`UintRange` is a constant, 2^32 in the code), so
  that steps can pass the end; every type of memory, alone and with four ranges
  of sizes that end on or before the maximum, in steps and in powers of two;
  options the program refuses; seven kinds of answers of the solver, one chosen
  anew for every size.
* *Control flow*: 2,377 programs, 107,946 states. `Forward` and `Loops` are *all*
  functions of three instructions (steps, calls, conditional and unconditional
  jumps to every later place), without and with a jump back behind them, so that
  every way of entering and leaving a block of that size occurs. `Timed` has all
  instructions of two lengths and three classes in a block that is entered by
  steps only or by jumps too, for both cores: the fetch buffer has two halves, so
  three instructions reach all its states. `Static` has six programs with calls,
  nested, rotated and shared loops, both cores, all seven optimizers and a memory
  that holds about a quarter and about half of the code. `Others` has the other metrics,
  added jumps, two returns, and data between blocks with memories that leave
  room for half of a free block, for one, for several or for none. The named `Shapes` and
  `Refused` add what three instructions cannot show (jump tables, holes, data,
  start up code, functions found in another order than they lie, each refused
  input).
* `CHECK_DEADLOCK FALSE` everywhere: the program returns, and the executed
  program exits.

### Fairness

`FairSpec` of the pipeline is `Spec /\ WF_vars(Next)`: it is one sequential
function which nothing blocks, so it takes its next step as long as there is
one; that includes that the external solver returns, in one of the ways above.
The runs that compose an analysis with an execution have weak fairness of the
steps of the *analysis* only (`FairExecSpec` in `worklist`, `AnalysisSpec` in
`disp_contexts`), for the same reason. Nothing is assumed of the executed program
and no liveness is claimed of it.

## 4. Proofs

The theorems hold for every value of the constants. What they assume is what the
modules assume: every graph is an `IsCodeGraph`, for the D-ISP an `IsCallGraph`
(`GraphAssumption`), `LineNo \in Nat \ {0}`, `MissCost \in Nat`, `BlockAddr \in
[Line -> Nat]`, `rpol` is one of the policies, sizes and latencies are natural
numbers (`ArmLatencyAssumption` for those of the ARMv6-M). Nothing is assumed
about the number of nodes or lines, or about the finiteness of either. That the
graph creator delivers such graphs is
`AnalysesGetCallGraphs` of `control_flow`, which is model-checked.

**`MemoryStateGraph_proofs`.** A recursive function over a sequence exists and
satisfies its equation (`FoldExists`), concatenations have the members of their
parts (`ConcatMembers`), and what `IsFlowGraph` says of forward edges.

**`ICacheExecution_proofs`, the analysis.** `Inv` is the conjunction of `TypeOK`, `FlowConsistent`,
`PendingHavePredecessor` and `ReadyIsPending` with what ties them to the phase.
`FlowConsistent` is inductive because processing a node only reads
predecessors that are valid already, and because a valid node, processed again,
computes the same value (`FlowValueStable`); that needs *every* valid node to
have valid predecessors only, hence the conjunct `isPredecessorMemStateKnown`
in it. `ReadyIsPending` survives `DropNode` because a dropped node is not ready,
and survives a processing step because a node that becomes ready by it is a
successor and is pushed. From `Inv`: `TypeCorrect`, `SolutionIsConsistent`,
`PendingCanBeSolved`, `NothingIsLost`, `SolutionIsStable`, and
`EveryNodeIsAnalyzed`, whose argument is the acyclicity of the forward edges:
the unsolved nodes have a member with no unsolved predecessor, it would be
ready, so it would be on the empty worklist. `Refinement` shows that `Spec`
implements the safety part of `ForwardAnalysis`: the first processing of a node
is `Solve`, every other one a stutter, the end of the loop is `End`.

**`ICacheExecution_proofs`, the execution.** The core are two lemmas about one access:
`UpdateMust` and `UpdateMay` (if a must or a may set bounds the real cache, the
updated set bounds the cache after the access), and `JoinBounds` (a join bounds
whatever either argument bounds). They are lifted over the lines of a block and
over the vector of predecessors (`UpdateAlongOK`, `JoinStatesBounds`,
`FlowValueBounds`). The inductive invariant `XInv` says that the abstract state
of the program point bounds the real cache as long as the path is `Followed`
(below), together with the analysis' own `Inv`, the ranges of ages, and that
every miss so far was paid for by a fetch not classified as a hit. From it:
`MustSoundness`, `MaySoundness` (hypotheses: no line has the address 0, and
every node is entered by a forward edge), `HitsHit`, `MissesAreMisses` and
`PenaltySoundness`, for LRU and direct mapped caches of every size.

A path is `Followed` if it took no `BackwardJump`, or if every `BackwardJump` of
the graph closes a loop with a straight body behind its peeled first iteration
(`LoopsArePeeled` of `MemoryStateGraph`). There the code is right to ignore the
back edges (`icache_dfa.cpp:203`): the lines of the body were fetched once before
the loop is entered, and fetching the same lines again leaves the cache as the
first time left it (`SecondTime`; by `FrontStep`, `SameStep` and `RestStep`: what
was fetched is younger than the rest, two caches agree on it whatever they
held, and the rest does not move any more). So every iteration begins with the
cache with which the first one behind the peeled one began, which the state of
the loop's head describes. For this `XInv` has two conjuncts on the past of the
execution: who is at a node of a chain has fetched the lines of the chain up to
there (`ChainRuns`), and who is in the body of a loop had fetched the body before
(`LoopRuns`). `StraightLoopsAreSafe` says it for the graphs: if their loops are
peeled and straight, hits hit and penalties cover the misses on all paths. The
restriction is needed: finding 1 shows that a body with alternatives makes the
statements false. `PathGraphsArePeeled` is checked for the graphs of `lru_paths`.

**`ICacheMap_proofs`.** The same for the map based analysis and a FIFO cache.
`Inv` says that the states of a node are sets of contents (no line twice, no more
lines than fit), that a node has states when it is marked valid, and that they
are those its predecessors leave (`FlowConsistent`). `XInv` adds that on a path
without a `BackwardJump` the real content is one of the states of the program
point (or both are blank), so that a line in all of them is in the cache and a
line in none of them is not, and that every miss so far is paid for. From these:
`TypeCorrect`, `SolutionIsConsistent`, `ContentSoundness`, `HitsHit`,
`MissesAreMisses`, `PenaltySoundness`. The last four suppose `Regular` graphs:
every node is entered by a forward edge, and a graph starts with one block
before it forks (`StartsWithOneBlock`). The second is needed because `join`
treats the blank state, an empty set of contents, as no contribution at all; it
holds for what `vivug_creator.cpp:82` builds (a start node with one edge to the
first block) and for the graphs of the run (`OrderedGraphsStart`).

`OrderedGraphsNeverAbort` is the theorem of `OrderedGraphsPass`. Its invariant
`Separated` says that a node on the worklist is never reached by forward edges
from what lies above it, and has no states yet. A processing step keeps it:
where the steps of a node come before its jumps, what it pushes does not reach
what it pushed before (`StepsBeforeJumps`), and nothing it reaches reaches the
node itself. "Never reached" is stated with closed sets of nodes
(`NeverReaches`), not with paths, which needs no induction. So the node on top
has no states in the table when they are inserted.

**`DISP_proofs`, the memory.** The age of a function in the real D-ISP is the sum of the
sizes in front of it (`UsedSizes`), so a load moves every age by a *size*, not by
one. `MovedFront` and `FrontAges` say by how much, `LoadLruAges` adds what is
evicted. `UpdateMust` and `UpdateMay` follow: if a must or a may set bounds the
ages in the real memory (`Describes`), so does the updated set; `JoinDescribes`
is the same for a join. The assertion in `update` whose author doubts it
(`lru_disp_state_maintainer.cpp:417`) is `NonePushedOut`. That each function of a
must set lies in the memory (`DispSets`) is not enough for it: two of them may
overlap after a join, and then the one moved to the front ages the other by its
size. It holds because any two functions of a must set fit into the memory
*together* (`MustSets`), which the load of a new function establishes, since it
evicts what does not fit behind it, and a join keeps, since it only intersects.

**`DISP_proofs`, the analysis and the execution.** `CInv` says that every node on the worklist but the entry has
a context, and that a context, once stored, is the chain of calls of its node
(`ContextsMatchCalls`). It is inductive because all edges into a node agree on
the chain behind them (`IsCallGraph`), so the first context `addContextForNode`
stores is the one any later push would bring. `XCInv` adds that the running
program is at a node with exactly that chain on its stack, which every edge
preserves, a `BackwardJump` too. From these: `ContextsAreCallChains` for the
analysis and `ReturnsToTheCaller` for the execution.

`DInv` adds the conjuncts of `ICacheExecution_proofs` for states before a node
(`FlowConsistent`, `ReadyIsPending`), that every state is one of `DispStates`, so
that `NonePushedOut` applies, and three that only the assertions need: a node
with a context, or on the worklist, was reached by a forward edge
(`MetHavePredecessor`), the successors of a valid node have a context
(`SuccessorsAreMet`), and the functions in a context were entered before
(`CallsWereEntered`). From it: `TypeCorrect`, `SolutionIsConsistent`,
`OnlyTwoAssertionsFail`, and `NeverAborts` under `FunctionsFit` (outsized
functions are ignored or not called, every exit node has one edge into it).

`XInv` adds that, as long as the path is `Followed`, the state of the node
describes the real memory. `Followed` is as for the caches, with calls in place of
fetches: no `BackwardJump` was taken, or every one of the graph closes a loop whose
body, the bodies of the functions it calls included, is straight and calls and
returns to (`FunctionsCalled`) what the peeled iteration did. The argument is
about the ages of the functions in the real memory (`Ages`), sums of sizes: the
functions used since the loop's body was first entered are in front of the others
(`FrontStep`), two memories agree on their ages whatever they held before
(`SameStep`), and a load of one of them moves nothing that lies behind the front
(`RestStep`). States describe a memory by its ages only (`SameAges`).
Loading the same functions a second time therefore leaves the
memory as the first time left it (`SecondTime`), and each iteration begins with
the memory the state of the loop's head describes. `CallLoopsArePeeled` checks
the hypothesis for the loops of `disp_calls`; there `StraightLoopsAreSafe` says
that what is classified as a hit hits and penalties cover the loads in every
iteration. From `XInv`, for LRU D-ISPs of every size: `HitsHit`,
`MissesAreMisses` and `AgeSoundness` (no function has the address 0, which a join
takes for an unused entry), `PenaltySoundness` (every node is entered by a
forward edge, or the analysis charges it nothing, and a hit takes no longer than
a load, or the worst class is not the dearest; both hold for what the graph
creator builds and for the latencies of the run).

**`DISPMap_proofs`.** `WInv` is the invariant of the worklist, as in `DISP_proofs`,
with `NoneFailed`: the update on every edge into a stored node was possible.

A content of a stack memory is a ring (`IsRing`) if the bounds of every function
are its size apart, modulo the size of the memory, and no two functions share a
byte (`AllApart`). `checkFunctionIntersection`, with its case of two wrapping
ranges, is exactly the test for a shared byte (`Intersection`), an activated
function enters no other from within (`NewEntryFacts`), what it overlaps is
evicted and nothing else (`EvictMembers`, an induction over the vector), and
`normalize` only turns the ring (`NormalizeTurns`). So all states stay rings
(`RingsStayRings`), the active function is in each of them if none is too large,
and of the assertions none can fail but those `OtherAssertionsHold` names:
`OnlyTwoCausesAbort`, for graphs as in `OrderedGraphsNeverAbort` (`OrderedGraphs`),
by the same argument about the order of the worklist.

`Holding` ties a ring to the real memory: the same functions, all of them `r`
bytes further. A load keeps it with the same `r` (`LoadIsActivation`: the hardware
loses the functions whose *bytes* are overwritten, the analysis those whose
*bounds* intersect), normalizing with another. A content of a FIFO memory is the
queue reversed; that pushing out the oldest until the rest fits keeps the same
functions as letting the fewest leave at the front is `FittingIsStaying`. From
`XInv`, which says that one of the states of the node is that of the memory as
long as no `BackwardJump` was taken: `ContentSoundness` and `PenaltySoundness`.
Hypotheses: the graphs are `Regular`, positions of a ring fit into 16 bits
(`RingsFit`; they are fields of that width), and no function fills the ring
(`~FillsRing`). The last one is a limit of the code: the first function's
`pos_end` is then the size of the memory and not 0, and finding 2 shows what
becomes of the next one.

**`TimingAnalysis_proofs`.** `StagesInOrder` ties the finished flags to the stage;
it is needed because the assertions read the flags and the stage is what
sets them. `StagesAreReady`: no stage is reached without what it reads, and only
the listed options and answers stop an analysis. `FreshReport` says, for every
type of memory but `FSISP_OLD`, which values of the report belong to the size at
hand once the memory has been analysed, and which once its estimate has been
made; from it `SolvedLinesAreFresh`, under the hypothesis that no memory makes
the cost zero (with an improved cost of 0 a line shows the baseline instead).

`AllSizesAreReported` is the theorem of `EverySizeIsReported`. By the invariant
`SizesInOrder` the lines are those of the sizes below the actual size, which is
itself a size of the sequence. It is inductive because there is no size between
one and the next (`NextSize`): between two multiples of the step, and between two
powers of two (`PowersApart`, by the definition of powers as numbers with no odd
divisor but 1). `ConfigurationAssumption` says that start, step and size of a
configuration are numbers of 32 bits.

**The other analyses implement `ForwardAnalysis` too.** `Refinement` of
`ICacheMap_proofs`, `DISP_proofs` and `DISPMap_proofs` says so: the nodes that have
their states are the solved ones, the first processing of a node is `Solve`, a
further one and an abort are stutters, and putting the results on the graph is
`End`, since a node that could still be solved would be on the worklist
(`ReadyIsPending`).

**`PathFlow_proofs`.** The estimate is the best objective of a flow problem. It
bounds the time of a program only if the flow of each of its paths is a solution,
so that no path is lost, and has the cost of the path as its objective. Both are
proved for every graph (`PathsSolveTheProblem`, `ObjectiveIsCost`), and with them
that a bound on all solutions is one on every complete path that obeys the loop
bounds and flow facts (`EstimateIsSafe`). The invariant: at each vertex the flow
into it is the flow out of it, but for the entry and for the vertex the path is at
(`Conserves`), and a call was entered as often as its return, but for the times it
is still open (`CallsAreOpen`: with one return per call the equation
`extractFlowConservationForFunctionCalls` adds is right). At the exit, with no
open call, both leave exactly the equations of the problem; the back edge closes
the one of the entry and the exit. A sum over edges is a fold over a set
(`FlowOver`); `SumStep` gives its recursion, by induction over the subsets of a
finite set (`SubsetInduction`), and `SumMore` says what one flow more on one edge
does to it. Hypothesis: the graphs are `Networks`, that is `IsProblemGraph` holds:
nothing leaves the exit, no two calls and no two returns share their calling
block, callee and context, and the assertions on call points hold.
`ExecutionsSolveILP` checks that for every super graph and every graph with
contexts of `control_flow`, together with the loop bounds and facts.

**`PathFlow_proofs`, the time of a path.** `TimedPath` composes the steps of a path
with a core that executes its blocks one instruction at a time, and is an
implementation of `PathFlow` (`TimedPathsArePaths`). The calculation times each
block alone and knows of the ways into it only whether all of them are steps
(`getInitialFetchBufferState`); the core keeps the last word it has fetched until
it branches. The invariant `CoresArePaid` follows both through a block. What the
calculation counts as buffered is what the core has (`Fits`). At the start of an
instruction the calculation may be one word *ahead*: it compares the bytes left
in the buffer strictly, and so fetches a word the core still has to ask for
(`Ahead`). That word is paid already, so the time of the core *plus* the fetch of
the word ahead is what stays below the cost of the path plus what is due in the
block; without it the inequality is not inductive. One instruction keeps it
(`FetchIsCovered`, `InstructionIsPaid`), the last one of a block takes the edge
whose cost is that of its kind of exit (`ExitIsTaken`, `ChargeOfEdge`), and behind
a jump neither has anything buffered (`BlockBegins`). So `TimeOfPathsIsPaid`: at no
instruction of any path has the core needed more than is paid and due, with the
code off the chip, and without the penalties of edges with the code on it. With
`EstimateBounds` it follows that the estimate bounds the time of every complete
execution that obeys the flow facts (`EstimateIsSafeForTime`).

Hypothesis: the graphs are `TimedNetworks`, problem graphs for the metric WCET and
a static, a dynamic or no memory, whose costs are what `calculateCost` gives them
for ARMv6-M code (`IsTimedGraph`): the instructions of a block fill it, only the last
branches, and a `ForwardStep` is what goes to the next address. `TimeIsCovered`
checks `IsTimedGraph` for the super graph of every structured ARMv6-M program of
`control_flow`. It is a statement on super graphs; that an execution costs the
same in the graph with contexts is `CostOfPath`, and code that an optimizer placed
is covered by `TimeIsCovered` only. For a dynamic memory the time includes no
loads: those are what the penalties pay (`PenaltySoundness`).

Only model-checked: liveness and the liveness half of the refinement (outside
the prover's logic), what any memory does in loops whose bodies branch or hold
loops, and what FIFO and stack memories do behind an edge backwards, the CarCore's timing, and the properties of
`control_flow`, whose module uses recursive operators over programs and graphs.
`PathFlow` takes over where these end: that the graphs contain the paths of a
program, and are the kind of graphs the theorems suppose, is checked; that the
problem loses none of their paths, and that an ARMv6-M needs no longer for any of
them than it costs, is proved.

## 5. Not modelled, and why

| Part | Reason |
|---|---|
| Text of dumps, TriCore tool chain | a line is a record of what the regular expressions yield; decoding an instruction is its class. The walk over the lines (`dump_parser.cpp`) is modelled for ARMv6-M and CarCore |
| Target tables, flow fact and ratio files | inputs of the models; ratio files restrict the flow problem only further |
| `cfgmanipulator` | puts the start up code of other memories in front of a graph, from text given to it |
| Line addresses of a block (`icache_dfa.cpp:289`) | the lines of a block are an input of `ICacheDFA`; the loop over addresses in 32 bits is listed as a hazard |
| Memory budget (`memory_budget_calculator.cpp`) | a formula on configured widths; the pipeline asserts that it is not used with memory sizes |
| Search of the solver | external; every optimal answer to a stated problem is possible, and each way to fail |
| D-ISP instrumentation, exporters, reports' wording, statistics | output of text |
| Configuration, command line, factories | set up in sequence |
| `abs_stack_*`, the old timing of the CarCore, `vivug_creator.cpp` 515-618 and 731-1391 | nothing calls them |
| Names of variables in a problem (`andn`, `xor` with two numbers and `00` between) | ambiguous beyond a thousand vertices, which no instance reaches |
| Validity of iterators in `vivug_creator.cpp:239` | a matter of the graph library; the model has the meaning of valid ones |

What the models abstract from: latencies are small constants; the fetch of the
ARMv6-M is compared strictly, which only over-approximates (proved by
`TimeOfPathsIsPaid`); a branch latency of 0
on the CarCore would not cover the window's refill and is not configured; an
added jump does not move the addresses of the blocks behind it; the WCP
formulation with jump penalties is checked by its estimate, the penalties of
changed jumps included; a callee without an exit gets its entry in the super
graph as its exit, a hole in the code before a jump target starts the target's
block at the hole, and an indirect call without a table has the address 0, as
in the code. The answer to a problem with shares of blocks (`FSISP` with
`FreeBlocks`) is a corner of the polyhedron, as the simplex method finds one: one
block has all the room, or none has. `FSISP_WCP` with such blocks is a problem
over shares and longest paths, and `AssignBlocks` stops there.

## 6. Plan

What would add most, in this order:

1. Loops with several bodies, peeled and not: which of the alternatives finding 1
   is about keep the promises, for instance those that touch the same lines.
2. Line addresses of a block with 32 bit arithmetic, against the lines it touches.
3. The time of the CarCore on every path. A window that is valid earlier is not
   always better, because an update depends on the cycle of the execution, so the
   argument for the ARMv6-M, one block dominating another, does not carry over.
