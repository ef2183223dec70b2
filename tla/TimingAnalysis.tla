--------------------------- MODULE TimingAnalysis ---------------------------
(***************************************************************************)
(* The stages of an analysis (analysis/timing_analysis.cpp): the program   *)
(* graph, the costs of its blocks, the memory, the estimate and the report,*)
(* once or for a range of memory sizes.  A graph is represented by the     *)
(* size of the memory its costs are for; the costs of the longest path are *)
(* given as constants, and whether the solver finds it is open each time.  *)
(***************************************************************************)
EXTENDS Naturals

-----------------------------------------------------------------------------
(***************************************************************************)
(* The memory sizes to analyse: memory/memory_size_stepper.cpp, and what   *)
(* memory/memory_params.cpp makes of a size for each type of memory.  c is *)
(* the configuration (util/configuration.hpp) the program was started with.*)
(***************************************************************************)

CONSTANT UintRange    \* the numbers of uint32_t, 2^32 in the code

ASSUME UintAssumption == UintRange \in Nat \ {0}

BlockTypes    == {"BBSISP", "BBSISP_JP", "BBSISP_WCP", "BBSISP_JP_WCP"}
FunctionTypes == {"FSISP_OLD", "FSISP", "FSISP_WCP"}
StaticTypes   == BlockTypes \cup FunctionTypes
DynamicTypes  == {"ICACHE", "DISP"}

(* Halving while it is even leaves 1: there is no odd divisor but 1.       *)
isPowerOfTwo(n) == n > 0 /\ \A d \in 2..n : n % d = 0 => d % 2 = 0

(* getCacheParameters: lines, sets and ways of a cache of a size.          *)
CacheParameters(c, size) ==
  LET line_no == size \div c.line_size
  IN  [line_no |-> line_no,
       ways |-> IF c.associativity = 0 THEN line_no ELSE c.associativity,
       sets |-> IF c.associativity = 0 THEN 1 ELSE line_no \div c.associativity]

(* The assertions of getUsableMemorySize: a memory budget is not supported,*)
(* lines are powers of two from 8 bytes on, and the size is a multiple of  *)
(* the line or of the block of the function memory.                        *)
SizeAsserts(c, size) ==
  \/ c.budget /\ c.type \in StaticTypes \cup DynamicTypes
  \/ /\ c.type = "ICACHE"
     /\ ~(isPowerOfTwo(c.line_size) /\ c.line_size >= 8) \/ size % c.line_size # 0
  \/ c.type = "DISP" /\ size % c.block_size # 0

getUsableMemorySize(c, size) ==
  IF c.type \in StaticTypes \cup DynamicTypes THEN size ELSE 0

(* Mutant: the maximum is left out.                                        *)
isValidSize_strict(c, actual_size) == actual_size < c.size

isValidSize(c, actual_size) == actual_size <= c.size

(* Mutant: a step of 0 adds nothing.                                       *)
increaseSize_add(c, actual_size) == (actual_size + c.step) % UintRange

(* A step of 0 doubles the size instead.                                   *)
increaseSize(c, actual_size) ==
  IF c.step # 0 THEN (actual_size + c.step) % UintRange ELSE (2 * actual_size) % UintRange

-----------------------------------------------------------------------------
(***************************************************************************)
(* What util/lpsolver.cpp and ILPGenerator::solveILP make of the output of *)
(* the external program lp_solve.  An output o says whether its two files  *)
(* can be read, which of the remarks about suboptimal and unbounded        *)
(* problems it has, and the value of the objective and of each variable    *)
(* (none if the problem is infeasible or the program crashed).             *)
(***************************************************************************)

CONSTANT UNBOUND_NUMBER     \* the largest uint32_t

SolutionTypes == {"SolutionNotCalculated", "ErrorWhileSolving", "ProblemUnbound",
                  "SuboptimalSolution", "OptimalSolution"}

(* A number beyond 32 bits is printed with an exponent.                    *)
parseObjFuncVal(v) == IF v > UNBOUND_NUMBER THEN UNBOUND_NUMBER ELSE v

HasUnboundValue(o) ==
  \E v \in o.objective \cup {o.vars[x] : x \in DOMAIN o.vars} :
    parseObjFuncVal(v) = UNBOUND_NUMBER

(* The lines are sorted: remarks come before the objective and that before *)
(* the variables.  A suboptimal solution with such a value is not expected.*)
ParseAsserts(o) == o.readable /\ ~o.unbounded /\ o.suboptimal /\ HasUnboundValue(o)

(* The remark about an unbounded problem ends the parsing.                 *)
Results(o) ==
  IF o.readable /\ ~o.unbounded
  THEN [x \in DOMAIN o.vars |-> parseObjFuncVal(o.vars[x])] ELSE << >>

ParsedType(o) ==
  CASE ~o.readable -> "SolutionNotCalculated"
    [] o.readable /\ o.unbounded -> "ProblemUnbound"
    [] o.readable /\ ~o.unbounded ->
         IF ~o.err_readable THEN "ErrorWhileSolving"
         ELSE IF HasUnboundValue(o) THEN "ProblemUnbound"
         ELSE IF o.suboptimal THEN "SuboptimalSolution"
         ELSE "OptimalSolution"

(* solveILP: without any value there is no solution.                       *)
SolutionType(o) ==
  IF /\ DOMAIN Results(o) = {}
     /\ ParsedType(o) \in {"SolutionNotCalculated", "OptimalSolution", "SuboptimalSolution"}
  THEN "ErrorWhileSolving" ELSE ParsedType(o)

(* The flow of the edges is set only then.                                 *)
IsSolved(o) ==
  SolutionType(o) \notin {"SolutionNotCalculated", "ErrorWhileSolving", "ProblemUnbound"}

-----------------------------------------------------------------------------
(***************************************************************************)
(* The values of a report (util/report_generator.cpp): they are set one by *)
(* one, stay until they are set again, and are printed as a line per size  *)
(* or as one report.  Wording and statistics are left out.                 *)
(***************************************************************************)

NewReport ==
  [mem_size |-> 0, wc_cost |-> 0, wc_cost_solution_type |-> "SolutionNotCalculated",
   wc_cost_improved |-> 0, wc_cost_improved_solution_type |-> "SolutionNotCalculated",
   mem_cost |-> 0, assigned |-> {}]

setWCCostValue(r, cost, type) ==
  [r EXCEPT !.wc_cost = cost, !.wc_cost_solution_type = type]

(* The baseline and what the memory makes of it.                           *)
setWCCostValues(r, cost, improved, type, improved_type) ==
  [setWCCostValue(r, cost, type)
     EXCEPT !.wc_cost_improved = improved, !.wc_cost_improved_solution_type = improved_type]

setMemCostValue(r, cost) == [r EXCEPT !.mem_cost = cost]
setMemSize(r, size)      == [r EXCEPT !.mem_size = size]
setAssignment(r, blocks) == [r EXCEPT !.assigned = blocks]

(* printSolutionType.                                                      *)
Letter(type) ==
  CASE type = "OptimalSolution" -> "O" [] type = "SuboptimalSolution" -> "S"
    [] type = "ErrorWhileSolving" -> "E" [] OTHER -> "?"

(* generate_line: the improved cost, if there is one.                      *)
ReportLine(r) ==
  [size |-> r.mem_size, mem_cost |-> r.mem_cost, assigned |-> r.assigned,
   cost |-> IF r.wc_cost_improved # 0 THEN r.wc_cost_improved ELSE r.wc_cost,
   type |-> Letter(IF r.wc_cost_improved # 0 THEN r.wc_cost_improved_solution_type
                   ELSE r.wc_cost_solution_type)]

-----------------------------------------------------------------------------

CONSTANTS
  Configurations,       \* the configurations to start with
  SolverOutputs,        \* what lp_solve may write
  BaselineCost,         \* the cost of the longest path without a memory
  CostWith(_),          \* with a memory of a size
  MemCostWith(_),       \* the part of it the memory is responsible for
  Assigned(_)           \* the blocks or functions a static memory gets

(* The sizes are numbers of 32 bits.                                       *)
ASSUME ConfigurationAssumption ==
  \A c \in Configurations : {c.start, c.step, c.size} \subseteq 0..(UintRange - 1)

VARIABLES
  conf,                 \* the configuration
  stage,                \* what start() does next
  pa_finished, ca_finished, ma_finished, ec_finished,
  baseline,             \* baseline_calculated, and the baseline's values
  actual_size,          \* of the memory size stepper
  ma_out,               \* the size ma_out_scfg is for
  estimate,             \* estimate and estimate_solution_type
  report,               \* the values of the report generator
  lines                 \* the lines it has written (their order is that of the sizes)

vars == <<conf, stage, pa_finished, ca_finished, ma_finished, ec_finished,
          baseline, actual_size, ma_out, estimate, report, lines>>

flags == <<pa_finished, ca_finished, ma_finished, ec_finished>>

-----------------------------------------------------------------------------
Init ==
  /\ conf \in Configurations
  /\ stage = "program"
  /\ pa_finished = FALSE /\ ca_finished = FALSE
  /\ ma_finished = FALSE /\ ec_finished = FALSE
  /\ baseline = [calculated |-> FALSE, cost |-> 0, type |-> "SolutionNotCalculated"]
  /\ actual_size = 0
  /\ ma_out = 0
  /\ estimate = [cost |-> 0, type |-> "SolutionNotCalculated"]
  /\ report = NewReport
  /\ lines = {}

(* assert(false), or an assertion on a finished flag.                      *)
Abort ==
  /\ stage' = "aborted"
  /\ UNCHANGED <<conf, flags, baseline, actual_size, ma_out, estimate, report, lines>>

(* Mutant: a graph without flow facts does not count as finished.          *)
AnalyseProgram_unset ==
  /\ stage = "program"
  /\ pa_finished' = FALSE
  /\ stage' = "pipeline"
  /\ UNCHANGED <<conf, ca_finished, ma_finished, ec_finished, baseline,
                 actual_size, ma_out, estimate, report, lines>>

(* Flow facts are put on the graph only if there is a file with them.      *)
AnalyseProgram ==
  /\ stage = "program"
  /\ IF conf.enrich /\ ~conf.flowfact_file THEN Abort
     ELSE /\ pa_finished' = TRUE
          /\ stage' = "pipeline"
          /\ UNCHANGED <<conf, ca_finished, ma_finished, ec_finished, baseline,
                         actual_size, ma_out, estimate, report, lines>>

(* The header of a table is written for the metric WCET only, and there is *)
(* none for an analysis without a memory.                                  *)
HeaderAsserts ==
  conf.metric # "WCET" \/ conf.type \notin StaticTypes \cup DynamicTypes

AnalysePipeline ==
  /\ stage = "pipeline"
  /\ IF ~pa_finished \/ (conf.stepping /\ (HeaderAsserts \/ conf.budget)) THEN Abort
     ELSE /\ ca_finished' = TRUE
          /\ actual_size' = IF conf.stepping THEN conf.start ELSE conf.size
          /\ stage' = IF conf.stepping THEN "size" ELSE "memory"
          /\ UNCHANGED <<conf, pa_finished, ma_finished, ec_finished, baseline,
                         ma_out, estimate, report, lines>>

(* isValidSize in the loop over the sizes.                                 *)
TestSize ==
  /\ stage = "size"
  /\ stage' = IF isValidSize(conf, actual_size) THEN "memory" ELSE "done"
  /\ UNCHANGED <<conf, flags, baseline, actual_size, ma_out, estimate, report, lines>>

Size == getUsableMemorySize(conf, actual_size)

(* calculateBaselineEstimate: its solution is used as it is, a graph with  *)
(* no flow costs nothing.                                                  *)
CalculateBaseline ==
  /\ stage = "memory" /\ conf.type \in StaticTypes /\ ~baseline.calculated
  /\ IF ~ca_finished \/ SizeAsserts(conf, actual_size) THEN Abort
     ELSE \E o \in SolverOutputs :
       IF ParseAsserts(o) THEN Abort
       ELSE LET cost == IF IsSolved(o) THEN BaselineCost ELSE 0
                mem    == IF IsSolved(o) THEN MemCostWith(0) ELSE 0
                filled == setMemSize(setMemCostValue(
                            setWCCostValue(report, cost, SolutionType(o)), mem), 0)
            IN  /\ baseline' = [calculated |-> TRUE, cost |-> cost, type |-> SolutionType(o)]
                /\ report' = IF conf.stepping THEN filled ELSE report
                /\ lines' = IF conf.stepping THEN lines \cup {ReportLine(filled)} ELSE lines
                /\ UNCHANGED <<conf, stage, flags, actual_size, ma_out, estimate>>

(* What the analyses of the memories have in common: the costs of the graph*)
(* become those for the size, and the report is told.                      *)
Analyse(types, told) ==
  /\ stage = "memory" /\ conf.type \in types
  /\ conf.type \in StaticTypes => baseline.calculated
  /\ IF ~ca_finished \/ SizeAsserts(conf, actual_size) THEN Abort
     ELSE /\ ma_out' = Size
          /\ ma_finished' = TRUE
          /\ report' = told
          /\ stage' = "estimate"
          /\ UNCHANGED <<conf, pa_finished, ca_finished, ec_finished, baseline,
                         actual_size, estimate, lines>>

AssignedReport == setMemSize(setAssignment(report, Assigned(Size)), Size)

AnalyseBBSISP    == Analyse(BlockTypes, AssignedReport)
AnalyseFSISP     == Analyse({"FSISP", "FSISP_WCP"}, AssignedReport)
AnalyseFSISP_OLD == Analyse({"FSISP_OLD"}, report)

(* Mutant: the report is not told the size.                                *)
AnalyseICache_silent == Analyse({"ICACHE"}, report)

AnalyseICache    == Analyse({"ICACHE"}, setMemSize(report, Size))
AnalyseDISP      == Analyse({"DISP"}, setMemSize(report, Size))
AnalyseNomem     == Analyse({"NO_MEM"}, setMemSize(report, Size))
AnalyseVivuTest  == Analyse({"VIVU_TEST"}, setMemSize(report, Size))

(* The estimate of a solved problem, for the report.                       *)
EstimateReport(r, type) ==
  LET costs == IF conf.type \in StaticTypes
               THEN setWCCostValues(r, baseline.cost, CostWith(ma_out), baseline.type, type)
               ELSE setWCCostValue(r, CostWith(ma_out), type)
  IN  setMemCostValue(costs, MemCostWith(ma_out))

(* calculateEstimate: without a solution it returns before the flag and    *)
(* the report are set.                                                     *)
CalculateEstimate ==
  /\ stage = "estimate"
  /\ IF ~ma_finished THEN Abort
     ELSE \E o \in SolverOutputs :
       IF ParseAsserts(o) THEN Abort
       ELSE /\ estimate' = [cost |-> IF IsSolved(o) THEN CostWith(ma_out) ELSE 0,
                            type |-> SolutionType(o)]
            /\ ec_finished' = (ec_finished \/ IsSolved(o))
            /\ report' = IF IsSolved(o) THEN EstimateReport(report, SolutionType(o)) ELSE report
            /\ stage' = "report"
            /\ UNCHANGED <<conf, pa_finished, ca_finished, ma_finished, baseline,
                           actual_size, ma_out, lines>>

(* generate_line and the next size, or the one report.                     *)
Generate ==
  /\ stage = "report"
  /\ lines' = lines \cup {ReportLine(report)}
  /\ IF conf.stepping
     THEN stage' = "size" /\ actual_size' = increaseSize(conf, actual_size)
     ELSE stage' = "done" /\ UNCHANGED actual_size
  /\ UNCHANGED <<conf, flags, baseline, ma_out, estimate, report>>

Next ==
  \/ AnalyseProgram
  \/ AnalysePipeline
  \/ TestSize
  \/ CalculateBaseline
  \/ AnalyseBBSISP
  \/ AnalyseFSISP
  \/ AnalyseFSISP_OLD
  \/ AnalyseICache
  \/ AnalyseDISP
  \/ AnalyseNomem
  \/ AnalyseVivuTest
  \/ CalculateEstimate
  \/ Generate

Spec == Init /\ [][Next]_vars

(* One sequential function, and the solver returns.                        *)
FairSpec == Spec /\ WF_vars(Next)

-----------------------------------------------------------------------------
Solved == estimate.type \in {"OptimalSolution", "SuboptimalSolution"}

(* What stops an analysis: options that do not go together, a budget, which*)
(* is not supported, sizes that do not fit lines or blocks, and an answer  *)
(* of the solver with an unbound value in a suboptimal solution.  No stage *)
(* begins before what it reads is there.                                   *)
StageAssertionsHold ==
  stage = "aborted" =>
    \/ conf.enrich /\ ~conf.flowfact_file
    \/ conf.stepping /\ HeaderAsserts
    \/ conf.budget
    \/ SizeAsserts(conf, actual_size)
    \/ \E o \in SolverOutputs : ParseAsserts(o)

(* What a line says about a memory is true of a memory of that size.       *)
Fits(line) ==
  /\ line.cost = CostWith(line.size)
  /\ line.mem_cost = MemCostWith(line.size)
  /\ conf.type \in StaticTypes => line.assigned = Assigned(line.size)

(* A line written behind a solved problem shows the values of the size just*)
(* analysed, whatever failed for the sizes before.  (The old assignment of *)
(* functions never tells the report its size and functions.)               *)
SolvedLineIsFresh ==
  stage = "report" /\ Solved /\ conf.type # "FSISP_OLD" =>
    /\ ReportLine(report).size = Size
    /\ Fits(ReportLine(report))
    /\ ReportLine(report).type \in {"O", "S"}

(* Every line that claims a solution for a memory fits its size.           *)
LineShowsItsSize ==
  \A line \in lines : line.size # 0 /\ line.type \in {"O", "S"} => Fits(line)

(* The sizes the options ask for: from the start to the maximum in steps,  *)
(* or in powers of two.                                                    *)
Sizes ==
  {s \in conf.start..conf.size :
     IF conf.step # 0 THEN (s - conf.start) % conf.step = 0
     ELSE s % conf.start = 0 /\ isPowerOfTwo(s \div conf.start)}

(* The next size is always another one, and 32 bits hold it.               *)
Grows ==
  conf.stepping =>
    IF conf.step # 0 THEN conf.size + conf.step < UintRange
    ELSE conf.start # 0 /\ 2 * conf.size < UintRange

Ended == stage \in {"done", "aborted"}

(* An analysis ends with a line for each of its sizes, or is aborted.      *)
EverySizeIsReported ==
  /\ stage = "done" /\ conf.stepping /\ Grows /\ conf.type # "FSISP_OLD"
  => {line.size : line \in lines} \ {0} = Sizes \ {0}

SteppingEndsIfItGrows == Grows => <>Ended

(* The same for every choice of options.                                   *)
SteppingEnds == <>Ended

=============================================================================
