------------------------ MODULE TimingAnalysis_proofs -----------------------
(***************************************************************************)
(* Proofs about TimingAnalysis, for every configuration, range of sizes    *)
(* and behaviour of the solver: no stage runs before its inputs are there, *)
(* and the line of a solved problem shows the memory just analysed.        *)
(***************************************************************************)
EXTENDS TimingAnalysis, Integers, TLAPS, WellFoundedInduction

(* A stage begins behind the ones whose results it reads, and only the     *)
(* listed options and answers stop an analysis.                            *)
StagesInOrder ==
  /\ stage = "pipeline" => pa_finished
  /\ stage \in {"size", "memory", "estimate", "report"} => ca_finished
  /\ stage = "estimate" => ma_finished
  /\ StageAssertionsHold

(* The finished flags are set in the order of the stages.                  *)
THEOREM StagesAreReady == Spec => []StageAssertionsHold
<1>1. Init => StagesInOrder
  BY DEF Init, StagesInOrder, StageAssertionsHold
<1>2. StagesInOrder /\ [Next]_vars => StagesInOrder'
  <2> SUFFICES ASSUME StagesInOrder, [Next]_vars PROVE StagesInOrder'
    OBVIOUS
  <2> USE DEF StagesInOrder, StageAssertionsHold
  <2>1. CASE AnalyseProgram
    BY <2>1 DEF AnalyseProgram, Abort, flags
  <2>2. CASE AnalysePipeline
    BY <2>2 DEF AnalysePipeline, Abort, HeaderAsserts, flags
  <2>3. CASE TestSize
    BY <2>3 DEF TestSize, flags
  <2>4. CASE CalculateBaseline
    BY <2>4 DEF CalculateBaseline, Abort, flags
  <2>5. CASE \E types, told : Analyse(types, told)
    BY <2>5 DEF Analyse, Abort
  <2>6. CASE CalculateEstimate
    BY <2>6 DEF CalculateEstimate, Abort
  <2>7. CASE Generate
    BY <2>7 DEF Generate, flags
  <2>8. CASE UNCHANGED vars
    BY <2>8 DEF vars, HeaderAsserts
  <2> QED BY <2>1, <2>2, <2>3, <2>4, <2>5, <2>6, <2>7, <2>8
        DEF Next, AnalyseBBSISP, AnalyseFSISP, AnalyseFSISP_OLD, AnalyseICache,
            AnalyseDISP, AnalyseNomem, AnalyseVivuTest
<1>3. StagesInOrder => StageAssertionsHold
  BY DEF StagesInOrder
<1> QED BY <1>1, <1>2, <1>3, PTL DEF Spec

-----------------------------------------------------------------------------
(* The values of a report, and what each setter leaves of them.            *)
ReportFields ==
  {"mem_size", "wc_cost", "wc_cost_solution_type", "wc_cost_improved",
   "wc_cost_improved_solution_type", "mem_cost", "assigned"}

IsReport(r) == r = [f \in ReportFields |-> r[f]]

(* A setter changes its values and leaves the others.                      *)
LEMMA SetValue ==
  ASSUME NEW r, IsReport(r), NEW v
  PROVE  /\ LET s == setMemSize(r, v)
            IN  /\ IsReport(s) /\ s.mem_size = v
                /\ \A f \in ReportFields \ {"mem_size"} : s[f] = r[f]
         /\ LET s == setMemCostValue(r, v)
            IN  /\ IsReport(s) /\ s.mem_cost = v
                /\ \A f \in ReportFields \ {"mem_cost"} : s[f] = r[f]
         /\ LET s == setAssignment(r, v)
            IN  /\ IsReport(s) /\ s.assigned = v
                /\ \A f \in ReportFields \ {"assigned"} : s[f] = r[f]
BY DEF IsReport, ReportFields, setMemSize, setMemCostValue, setAssignment

(* The same for the costs.                                                 *)
LEMMA SetCosts ==
  ASSUME NEW r, IsReport(r), NEW cost, NEW improved, NEW type, NEW improved_type
  PROVE  /\ LET s == setWCCostValue(r, cost, type)
            IN  /\ IsReport(s) /\ s.wc_cost = cost /\ s.wc_cost_solution_type = type
                /\ \A f \in ReportFields \ {"wc_cost", "wc_cost_solution_type"} : s[f] = r[f]
         /\ LET s == setWCCostValues(r, cost, improved, type, improved_type)
            IN  /\ IsReport(s) /\ s.wc_cost_improved = improved
                /\ s.wc_cost_improved_solution_type = improved_type
                /\ s.mem_size = r.mem_size /\ s.mem_cost = r.mem_cost
                /\ s.assigned = r.assigned
BY DEF IsReport, ReportFields, setWCCostValue, setWCCostValues

(* What the report says of the size just analysed, for all but the old     *)
(* assignment of functions.                                                *)
Told ==
  /\ ma_out = Size
  /\ report.mem_size = Size
  /\ conf.type \in StaticTypes => report.assigned = Assigned(Size)

Estimated ==
  /\ report.mem_cost = MemCostWith(Size)
  /\ IF conf.type \in StaticTypes
     THEN /\ report.wc_cost_improved = CostWith(Size)
          /\ report.wc_cost_improved_solution_type = estimate.type
     ELSE /\ report.wc_cost = CostWith(Size)
          /\ report.wc_cost_solution_type = estimate.type

FreshReport ==
  conf.type # "FSISP_OLD" =>
    /\ IsReport(report)
    /\ conf.type \notin StaticTypes => report.wc_cost_improved = 0
    /\ stage \in {"estimate", "report"} => Told
    /\ stage = "report" /\ Solved => Estimated

LEMMA FreshLine ==
  ASSUME FreshReport, \A s : CostWith(s) # 0
  PROVE  SolvedLineIsFresh
<1> SUFFICES ASSUME stage = "report", Solved, conf.type # "FSISP_OLD"
             PROVE  /\ ReportLine(report).size = Size
                    /\ Fits(ReportLine(report))
                    /\ ReportLine(report).type \in {"O", "S"}
  BY DEF SolvedLineIsFresh
<1>1. Told /\ Estimated
  BY DEF FreshReport
<1>2. Letter(estimate.type) \in {"O", "S"}
  BY DEF Solved, Letter
<1>3. CASE conf.type \in StaticTypes
  BY <1>1, <1>2, <1>3 DEF ReportLine, Fits, Told, Estimated
<1>4. CASE conf.type \notin StaticTypes
  BY <1>1, <1>2, <1>4 DEF ReportLine, Fits, Told, Estimated, FreshReport
<1> QED BY <1>3, <1>4

LEMMA FreshStep == FreshReport /\ [Next]_vars => FreshReport'
<1> SUFFICES ASSUME FreshReport, [Next]_vars, conf.type # "FSISP_OLD", conf' = conf
             PROVE  FreshReport'
  BY DEF FreshReport, Next, vars, AnalyseProgram, AnalysePipeline, TestSize,
         CalculateBaseline, Analyse, CalculateEstimate, Generate, Abort, AnalyseBBSISP,
         AnalyseFSISP, AnalyseFSISP_OLD, AnalyseICache, AnalyseDISP, AnalyseNomem,
         AnalyseVivuTest
<1>0. /\ IsReport(report)
      /\ conf.type \notin StaticTypes => report.wc_cost_improved = 0
  BY DEF FreshReport
<1>1. ASSUME report' = report, stage' \notin {"estimate", "report"} PROVE FreshReport'
  BY <1>0, <1>1 DEF FreshReport
<1>2. CASE AnalyseProgram
  BY <1>1, <1>2 DEF AnalyseProgram, Abort
<1>3. CASE AnalysePipeline
  BY <1>1, <1>3 DEF AnalysePipeline, Abort
<1>4. CASE TestSize
  BY <1>1, <1>4 DEF TestSize
<1>5. CASE CalculateBaseline
  <2>1. CASE stage' = "aborted" /\ report' = report
    BY <1>1, <2>1
  <2>2. ASSUME NEW type, NEW cost, NEW mem,
               stage' = "memory",
               report' = setMemSize(setMemCostValue(
                           setWCCostValue(report, cost, type), mem), 0)
        PROVE  FreshReport'
    <3>1. IsReport(report')
      BY <1>0, <2>2, SetValue, SetCosts
    <3>2. report'.wc_cost_improved = report.wc_cost_improved
      BY <1>0, <2>2 DEF setMemSize, setMemCostValue, setWCCostValue, IsReport, ReportFields
    <3> QED BY <1>0, <2>2, <3>1, <3>2 DEF FreshReport
  <2>3. stage = "memory"
    BY <1>5 DEF CalculateBaseline
  <2> QED BY <1>1, <1>5, <2>1, <2>2, <2>3 DEF CalculateBaseline, Abort
<1>6. ASSUME NEW types, NEW told, Analyse(types, told),
             IsReport(told), told.mem_size = Size,
             conf.type \in StaticTypes => told.assigned = Assigned(Size),
             told.wc_cost_improved = report.wc_cost_improved
      PROVE  FreshReport'
  <2>1. CASE stage' = "aborted" /\ report' = report
    BY <1>1, <2>1
  <2>2. CASE stage' = "estimate" /\ report' = told /\ ma_out' = Size /\ actual_size' = actual_size
    <3>1. Size' = Size
      BY <2>2 DEF Size
    <3> QED BY <1>0, <1>6, <2>2, <3>1 DEF FreshReport, Told
  <2> QED BY <1>6, <2>1, <2>2 DEF Analyse, Abort
<1>7. CASE AnalyseBBSISP \/ AnalyseFSISP
  <2>1. LET told == AssignedReport
        IN  /\ IsReport(told) /\ told.mem_size = Size /\ told.assigned = Assigned(Size)
            /\ told.wc_cost_improved = report.wc_cost_improved
    BY <1>0, SetValue DEF AssignedReport, ReportFields
  <2> QED BY <1>6, <1>7, <2>1 DEF AnalyseBBSISP, AnalyseFSISP
<1>8. CASE AnalyseFSISP_OLD
  BY <1>8 DEF AnalyseFSISP_OLD, Analyse
<1>9. CASE AnalyseICache \/ AnalyseDISP \/ AnalyseNomem \/ AnalyseVivuTest
  <2>1. LET told == setMemSize(report, Size)
        IN  /\ IsReport(told) /\ told.mem_size = Size
            /\ told.wc_cost_improved = report.wc_cost_improved
    BY <1>0, SetValue DEF ReportFields
  <2>2. conf.type \notin StaticTypes
    BY <1>9 DEF AnalyseICache, AnalyseDISP, AnalyseNomem, AnalyseVivuTest, Analyse,
               StaticTypes, BlockTypes, FunctionTypes
  <2> QED BY <1>6, <1>9, <2>1, <2>2
          DEF AnalyseICache, AnalyseDISP, AnalyseNomem, AnalyseVivuTest
<1>10. CASE CalculateEstimate
  <2>1. CASE stage' = "aborted" /\ report' = report
    BY <1>1, <2>1
  <2>2. ASSUME NEW o \in SolverOutputs,
               stage = "estimate",
               stage' = "report",
               ma_out' = ma_out, actual_size' = actual_size,
               estimate' = [cost |-> IF IsSolved(o) THEN CostWith(ma_out) ELSE 0,
                            type |-> SolutionType(o)],
               report' = IF IsSolved(o) THEN EstimateReport(report, SolutionType(o))
                         ELSE report
        PROVE  FreshReport'
    <3>1. Told /\ Size' = Size
      BY <2>2 DEF FreshReport, Size
    <3>2. CASE ~IsSolved(o)
      <4>1. ~Solved'
        BY <2>2, <3>2 DEF IsSolved, Solved
      <4> QED BY <1>0, <2>2, <3>1, <3>2, <4>1 DEF FreshReport, Told
    <3>3. CASE IsSolved(o)
      <4>1. CASE conf.type \in StaticTypes
        <5>1. report' = setMemCostValue(setWCCostValues(report, baseline.cost,
                          CostWith(Size), baseline.type, SolutionType(o)), MemCostWith(Size))
          BY <2>2, <3>1, <3>3, <4>1 DEF EstimateReport, Told
        <5>2. /\ IsReport(report')
              /\ report'.mem_size = report.mem_size /\ report'.assigned = report.assigned
              /\ report'.mem_cost = MemCostWith(Size)
              /\ report'.wc_cost_improved = CostWith(Size)
              /\ report'.wc_cost_improved_solution_type = SolutionType(o)
          BY <1>0, <5>1, SetValue, SetCosts DEF ReportFields
        <5> QED BY <2>2, <3>1, <4>1, <5>2 DEF FreshReport, Told, Estimated
      <4>2. CASE conf.type \notin StaticTypes
        <5>1. report' = setMemCostValue(setWCCostValue(report, CostWith(Size),
                          SolutionType(o)), MemCostWith(Size))
          BY <2>2, <3>1, <3>3, <4>2 DEF EstimateReport, Told
        <5>2. /\ IsReport(report')
              /\ report'.mem_size = report.mem_size
              /\ report'.wc_cost_improved = report.wc_cost_improved
              /\ report'.mem_cost = MemCostWith(Size)
              /\ report'.wc_cost = CostWith(Size)
              /\ report'.wc_cost_solution_type = SolutionType(o)
          <6> DEFINE costs == setWCCostValue(report, CostWith(Size), SolutionType(o))
          <6>1. /\ IsReport(costs)
                /\ costs.wc_cost = CostWith(Size)
                /\ costs.wc_cost_solution_type = SolutionType(o)
                /\ costs.mem_size = report.mem_size
                /\ costs.wc_cost_improved = report.wc_cost_improved
            BY <1>0 DEF setWCCostValue, IsReport, ReportFields
          <6>2. report' = setMemCostValue(costs, MemCostWith(Size))
            BY <5>1
          <6> HIDE DEF costs
          <6> QED BY <6>1, <6>2 DEF setMemCostValue, IsReport, ReportFields
        <5> QED BY <1>0, <2>2, <3>1, <4>2, <5>2 DEF FreshReport, Told, Estimated
      <4> QED BY <4>1, <4>2
    <3> QED BY <3>2, <3>3
  <2> QED BY <1>10, <2>1, <2>2 DEF CalculateEstimate, Abort
<1>11. CASE Generate
  BY <1>1, <1>11 DEF Generate
<1>12. CASE UNCHANGED vars
  BY <1>12 DEF vars, FreshReport, Told, Estimated, Size, Solved
<1> QED BY <1>2, <1>3, <1>4, <1>5, <1>7, <1>8, <1>9, <1>10, <1>11, <1>12 DEF Next

(* If a program costs something with each memory, the line of a solved     *)
(* problem shows the costs, the size and the content of the memory just    *)
(* analysed.                                                               *)
THEOREM SolvedLinesAreFresh ==
  ASSUME \A s : CostWith(s) # 0
  PROVE  Spec => []SolvedLineIsFresh
<1>1. Init => FreshReport
  BY DEF Init, FreshReport, NewReport, IsReport, ReportFields
<1>2. FreshReport /\ [Next]_vars => FreshReport'
  BY FreshStep
<1>3. FreshReport => SolvedLineIsFresh
  BY FreshLine
<1> QED BY <1>1, <1>2, <1>3, PTL DEF Spec

-----------------------------------------------------------------------------
(***************************************************************************)
(* The sizes stepped through.                                              *)
(***************************************************************************)

(* A larger factor gives a larger product, by one summand at least.         *)
LEMMA Products ==
  ASSUME NEW d \in Nat \ {0}, NEW p \in Nat, NEW q \in Nat
  PROVE  /\ p * d \in Nat
         /\ p < q => p * d + d <= q * d
<1>1. p * d \in Nat
  OBVIOUS
<1>2. ASSUME p < q PROVE p * d + d <= q * d
  <2>1. PICK e \in Nat : q = p + 1 + e
    <3>1. q - p - 1 \in Nat /\ q = p + 1 + (q - p - 1)
      BY <1>2
    <3> QED BY <3>1
  <2>2. q * d = p * d + d + e * d
    BY <2>1
  <2>3. e * d \in Nat
    OBVIOUS
  <2> QED BY <1>1, <2>2, <2>3
<1> QED BY <1>1, <1>2

(* A number without a remainder is a multiple, of exactly one quotient.     *)
LEMMA Divides ==
  ASSUME NEW d \in Nat \ {0}, NEW s \in Nat
  PROVE  /\ s % d = 0 <=> s = (s \div d) * d
         /\ s \div d \in Nat
         /\ \A q \in Nat : s = q * d => s % d = 0 /\ s \div d = q
<1> DEFINE p == s \div d
           r == s % d
<1>1. p \in Nat /\ r \in Nat /\ r < d /\ s = d * p + r
  OBVIOUS
<1> HIDE DEF p, r
<1>2. d * p = p * d /\ p * d \in Nat
  BY <1>1
<1>3. ASSUME NEW q \in Nat, s = q * d PROVE r = 0 /\ p = q
  <2>1. ~(p < q)
    BY <1>1, <1>2, <1>3, Products
  <2>2. ~(q < p)
    BY <1>1, <1>2, <1>3, Products
  <2>3. p = q
    BY <1>1, <2>1, <2>2
  <2> QED BY <1>1, <1>2, <1>3, <2>3
<1>4. r = 0 <=> s = p * d
  BY <1>1, <1>2
<1> QED BY <1>1, <1>3, <1>4 DEF p, r

(* Twice a power of two is one: an odd divisor of the double divides it.    *)
LEMMA DoublePower ==
  ASSUME NEW n \in Nat, isPowerOfTwo(n)
  PROVE  isPowerOfTwo(2 * n)
<1>1. n > 0
  BY DEF isPowerOfTwo
<1> SUFFICES ASSUME NEW d \in 2..(2 * n), (2 * n) % d = 0, d % 2 # 0
             PROVE  FALSE
  BY <1>1 DEF isPowerOfTwo
<1>2. PICK q \in Nat : 2 * n = q * d
  <2>1. d \in Nat \ {0} /\ 2 * n \in Nat
    OBVIOUS
  <2> QED BY <2>1, Divides
<1>3. PICK e \in Nat : d = 2 * e + 1
  <2>1. d = 2 * (d \div 2) + 1 /\ d \div 2 \in Nat
    OBVIOUS
  <2> QED BY <2>1
<1>4. PICK m \in Int : q = 2 * m
  <2>1. q * d = 2 * (q * e) + q
    BY <1>3
  <2>2. n - q * e \in Int /\ q = 2 * (n - q * e)
    BY <1>2, <2>1
  <2> QED BY <2>2
<1>5. m \in Nat
  BY <1>4
<1>6. n = m * d
  <2>1. q * d = 2 * (m * d)
    BY <1>4
  <2>2. m * d \in Nat
    BY <1>5
  <2> QED BY <1>2, <2>1, <2>2
<1>7. n % d = 0
  <2>1. d \in Nat \ {0}
    OBVIOUS
  <2> QED BY <1>5, <1>6, <2>1, Divides
<1>8. d <= n
  <2>1. 0 < m
    BY <1>1, <1>5, <1>6
  <2> QED BY <1>5, <1>6, <2>1, Products
<1> QED BY <1>7, <1>8 DEF isPowerOfTwo

(* Every other power of two than 1 is twice one.                            *)
LEMMA HalfPower ==
  ASSUME NEW n \in Nat, isPowerOfTwo(n), n # 1
  PROVE  \E h \in Nat : n = 2 * h /\ isPowerOfTwo(h)
<1>1. n > 1
  BY DEF isPowerOfTwo
<1>2. n % n = 0
  <2>1. n = 1 * n
    OBVIOUS
  <2> QED BY <1>1, <2>1, Divides
<1>3. n % 2 = 0
  BY <1>1, <1>2 DEF isPowerOfTwo
<1>4. PICK h \in Nat : n = 2 * h
  BY <1>3
<1>5. ASSUME NEW d \in 2..h, h % d = 0 PROVE d % 2 = 0
  <2>1. PICK q \in Nat : h = q * d
    BY <1>5, Divides
  <2>2. n = (2 * q) * d
    BY <1>4, <2>1
  <2>3. n % d = 0
    BY <2>2, Divides
  <2> QED BY <1>4, <2>3 DEF isPowerOfTwo
<1>6. h > 0
  BY <1>1, <1>4
<1> QED BY <1>4, <1>5, <1>6 DEF isPowerOfTwo

(* Between a power of two and its double is no other one.                   *)
LEMMA PowersApart ==
  ASSUME NEW n \in Nat, NEW m \in Nat, isPowerOfTwo(n), isPowerOfTwo(m),
         n <= m, m < 2 * n
  PROVE  m = n
<1> DEFINE Between(k) == \E l \in Nat :
             isPowerOfTwo(k) /\ isPowerOfTwo(l) /\ k < l /\ l < 2 * k
           S == {k \in Nat : Between(k)}
<1> SUFFICES ASSUME S # {} PROVE FALSE
  OBVIOUS
<1>1. IsWellFoundedOn(OpToRel(<, Nat), Nat)
  BY NatLessThanWellFounded
<1>2. PICK k \in S : \A j \in S : <<j, k>> \notin OpToRel(<, Nat)
  <2>1. S \subseteq Nat
    OBVIOUS
  <2> QED BY <1>1, <2>1, WFMin
<1>3. PICK l \in Nat : isPowerOfTwo(k) /\ isPowerOfTwo(l) /\ k < l /\ l < 2 * k
  OBVIOUS
<1>4. k # 1 /\ l # 1
  BY <1>3
<1>5. PICK h \in Nat : k = 2 * h /\ isPowerOfTwo(h)
  BY <1>3, <1>4, HalfPower
<1>6. PICK g \in Nat : l = 2 * g /\ isPowerOfTwo(g)
  BY <1>3, <1>4, HalfPower
<1>7. h < g /\ g < 2 * h /\ h < k
  BY <1>3, <1>5, <1>6
<1>8. h \in S
  BY <1>5, <1>6, <1>7
<1>9. <<h, k>> \in OpToRel(<, Nat)
  BY <1>7 DEF OpToRel
<1> QED BY <1>2, <1>8, <1>9

(* The sizes that start and step lead to, the maximum aside.               *)
IsStep(s) ==
  /\ s \in Nat /\ s >= conf.start
  /\ IF conf.step # 0 THEN (s - conf.start) % conf.step = 0
     ELSE s % conf.start = 0 /\ isPowerOfTwo(s \div conf.start)

Numbers ==
  /\ conf.start \in Nat /\ conf.step \in Nat /\ conf.size \in Nat
  /\ UintRange \in Nat

LEMMA SizesAreSteps ==
  ASSUME Numbers, NEW s
  PROVE  s \in Sizes <=> IsStep(s) /\ s <= conf.size
BY DEF Sizes, IsStep, Numbers

(* The first step is the start.                                            *)
LEMMA FirstSize ==
  ASSUME Numbers, conf.stepping, Grows
  PROVE  /\ IsStep(conf.start)
         /\ \A s : IsStep(s) => s >= conf.start
<1>1. CASE conf.step # 0
  <2>1. conf.start - conf.start = 0 * conf.step
    BY DEF Numbers
  <2>2. conf.step \in Nat \ {0} /\ conf.start - conf.start \in Nat
    BY <1>1 DEF Numbers
  <2>3. (conf.start - conf.start) % conf.step = 0
    BY <2>1, <2>2, Divides
  <2> QED BY <1>1, <2>3 DEF IsStep, Numbers
<1>2. CASE conf.step = 0
  <2>1. conf.start \in Nat \ {0} /\ conf.start = 1 * conf.start
    BY <1>2 DEF Numbers, Grows
  <2>2. conf.start % conf.start = 0 /\ conf.start \div conf.start = 1
    BY <2>1, Divides
  <2>3. isPowerOfTwo(1)
    BY DEF isPowerOfTwo
  <2> QED BY <1>2, <2>1, <2>2, <2>3 DEF IsStep
<1> QED BY <1>1, <1>2

(* The size behind one that is not beyond the maximum is the next step: it *)
(* is a step, and none is between the two.                                 *)
LEMMA NextSize ==
  ASSUME Numbers, conf.stepping, Grows, NEW a, IsStep(a), a <= conf.size
  PROVE  /\ IsStep(increaseSize(conf, a))
         /\ \A s : IsStep(s) => (s < increaseSize(conf, a) <=> s <= a)
<1> DEFINE start == conf.start
           step == conf.step
           b == increaseSize(conf, a)
<1>0. start \in Nat /\ step \in Nat /\ a \in Nat /\ a >= start
  BY DEF Numbers, IsStep
<1>1. CASE step # 0
  <2>1. b = a + step
    <3>1. a + step < UintRange /\ a + step \in Nat /\ UintRange \in Nat
      BY <1>0, <1>1 DEF Grows, Numbers
    <3>2. (a + step) % UintRange = a + step
      BY <3>1
    <3> QED BY <1>1, <3>2 DEF increaseSize
  <2>2. PICK p \in Nat : a - start = p * step
    <3>1. (a - start) % step = 0 /\ a - start \in Nat /\ step \in Nat \ {0}
      BY <1>0, <1>1 DEF IsStep
    <3> QED BY <3>1, Divides
  <2>3. IsStep(b)
    <3>1. b - start = (p + 1) * step /\ b - start \in Nat /\ p + 1 \in Nat
      <4> HIDE DEF b, start, step
      <4>1. (p + 1) * step = p * step + step
        BY <1>0, <2>2
      <4>2. p * step \in Nat
        BY <1>0, <2>2
      <4> QED BY <1>0, <2>1, <2>2, <4>1, <4>2
    <3>2. (b - start) % step = 0
      <4>1. step \in Nat \ {0}
        BY <1>0, <1>1
      <4> HIDE DEF b, start, step
      <4> QED BY <3>1, <4>1, Divides
    <3> QED BY <1>0, <1>1, <2>1, <3>2 DEF IsStep
  <2>4. ASSUME NEW s, IsStep(s) PROVE s < b <=> s <= a
    <3>1. (s - start) % step = 0 /\ s - start \in Nat /\ step \in Nat \ {0} /\ s \in Nat
      BY <1>0, <1>1, <2>4 DEF IsStep
    <3>2. PICK q \in Nat : s - start = q * step
      BY <3>1, Divides
    <3>3. p < q => p * step + step <= q * step
      BY <3>1, Products
    <3>4. q < p => q * step + step <= p * step
      BY <3>1, Products
    <3> HIDE DEF b, start, step
    <3>5. p * step \in Nat /\ q * step \in Nat
      BY <3>1
    <3> QED BY <1>0, <2>1, <2>2, <3>1, <3>2, <3>3, <3>4, <3>5
  <2> QED BY <2>3, <2>4
<1>2. CASE step = 0
  <2>0. start \in Nat \ {0}
    BY <1>0, <1>2 DEF Grows
  <2>1. b = 2 * a
    <3>1. 2 * a < UintRange /\ 2 * a \in Nat /\ UintRange \in Nat
      BY <1>0, <1>2 DEF Grows, Numbers
    <3>2. (2 * a) % UintRange = 2 * a
      BY <3>1
    <3> QED BY <1>2, <3>2 DEF increaseSize
  <2> DEFINE p == a \div start
  <2>2. p \in Nat /\ a = p * start /\ isPowerOfTwo(p)
    <3>1. a % start = 0 /\ isPowerOfTwo(p)
      BY <1>2 DEF IsStep
    <3> QED BY <1>0, <2>0, <3>1, Divides
  <2> HIDE DEF p
  <2>3. IsStep(b)
    <3>1. b = (2 * p) * start /\ 2 * p \in Nat /\ b \in Nat
      BY <1>0, <2>1, <2>2
    <3>2. b % start = 0 /\ b \div start = 2 * p
      <4> DEFINE q == 2 * p
      <4>1. q \in Nat /\ b = q * start /\ b \in Nat
        BY <3>1
      <4> HIDE DEF b, start, q
      <4>2. b % start = 0 /\ b \div start = q
        BY <2>0, <4>1, Divides
      <4> QED BY <4>2 DEF q
    <3>3. isPowerOfTwo(2 * p)
      BY <2>2, DoublePower
    <3> QED BY <1>0, <1>2, <2>1, <3>2, <3>3 DEF IsStep
  <2>4. ASSUME NEW s, IsStep(s) PROVE s < b <=> s <= a
    <3> DEFINE q == s \div start
    <3>1. s \in Nat /\ s % start = 0 /\ isPowerOfTwo(q)
      BY <1>2, <2>4 DEF IsStep
    <3>2. q \in Nat /\ s = q * start
      BY <2>0, <3>1, Divides
    <3> HIDE DEF q, b, start
    <3>3. p < q => p * start + start <= q * start
      BY <2>0, <2>2, <3>2, Products
    <3>4. ~(p < q /\ q < 2 * p)
      BY <2>2, <3>1, <3>2, PowersApart
    <3>5. 2 * p < q => (2 * p) * start + start <= q * start
      BY <2>0, <2>2, <3>2, Products
    <3>6. (2 * p) * start = 2 * (p * start)
      BY <2>0, <2>2
    <3>7. q < p => q * start + start <= p * start
      BY <2>0, <2>2, <3>2, Products
    <3>8. p \in Nat /\ q \in Nat /\ p > 0
      BY <2>2, <3>2 DEF isPowerOfTwo
    <3>9. p < q => 2 * p <= q
      BY <3>4, <3>8
    <3>10. q * start \in Nat /\ p * start \in Nat
      BY <2>0, <2>2, <3>2
    <3>11. CASE p < q
      <4>1. q = 2 * p \/ 2 * p < q
        BY <3>8, <3>9, <3>11
      <4>2. q * start >= 2 * a
        BY <1>0, <2>0, <2>2, <3>5, <3>6, <3>10, <4>1
      <4>3. a < q * start
        BY <1>0, <2>0, <2>2, <3>3, <3>10, <3>11
      <4> QED BY <1>0, <2>1, <3>1, <3>2, <4>2, <4>3
    <3>12. CASE ~(p < q)
      <4>1. q * start <= a
        BY <1>0, <2>0, <2>2, <3>7, <3>8, <3>10, <3>12
      <4>2. a < 2 * a
        BY <1>0, <2>0, <2>2, <3>8, <3>10, Products
      <4> QED BY <1>0, <2>1, <3>1, <3>2, <4>1, <4>2
    <3> QED BY <3>11, <3>12
  <2> QED BY <2>3, <2>4
<1> QED BY <1>1, <1>2

(* The sizes that have a line.                                             *)
Reported == {line.size : line \in lines} \ {0}

Analysing == {"size", "memory", "estimate", "report"}

(* The lines are those of the steps below the actual size, which is a step *)
(* itself and, once it has been tested, one of the sizes asked for.        *)
SizesInOrder ==
  conf.stepping /\ Grows /\ conf.type # "FSISP_OLD" =>
    /\ stage \in {"program", "pipeline"} => lines = {}
    /\ stage \in Analysing =>
         /\ conf.type \in StaticTypes \cup DynamicTypes
         /\ IsStep(actual_size)
         /\ Reported = {s \in Sizes : s < actual_size} \ {0}
    /\ stage \in Analysing \ {"size"} => actual_size <= conf.size
    /\ stage = "done" => Reported = Sizes \ {0}

SizesInv == conf \in Configurations /\ FreshReport /\ SizesInOrder

LEMMA SizesNumbers ==
  ASSUME conf \in Configurations
  PROVE  Numbers
BY ConfigurationAssumption, UintAssumption DEF Numbers

(* A step keeps the sizes in order.                                        *)
LEMMA SizesStep == SizesInv /\ [Next]_vars => SizesInv'
<1> SUFFICES ASSUME SizesInv, [Next]_vars, conf' = conf
             PROVE  SizesInOrder'
  BY FreshStep
     DEF SizesInv, Next, vars, AnalyseProgram, AnalysePipeline, TestSize,
         CalculateBaseline, Analyse, CalculateEstimate, Generate, Abort, AnalyseBBSISP,
         AnalyseFSISP, AnalyseFSISP_OLD, AnalyseICache, AnalyseDISP, AnalyseNomem,
         AnalyseVivuTest
<1> SUFFICES ASSUME conf.stepping, Grows, conf.type # "FSISP_OLD"
             PROVE  SizesInOrder'
  BY DEF SizesInOrder, Grows
<1>1. Numbers
  BY SizesNumbers DEF SizesInv
<1>2. /\ stage \in {"program", "pipeline"} => lines = {}
      /\ stage \in Analysing =>
           /\ conf.type \in StaticTypes \cup DynamicTypes
           /\ IsStep(actual_size)
           /\ Reported = {s \in Sizes : s < actual_size} \ {0}
      /\ stage \in Analysing \ {"size"} => actual_size <= conf.size
      /\ stage = "done" => Reported = Sizes \ {0}
  BY DEF SizesInv, SizesInOrder
<1>3. Sizes' = Sizes /\ \A s : IsStep(s)' <=> IsStep(s)
  BY DEF Sizes, IsStep
<1>4. ASSUME stage' = "aborted" PROVE SizesInOrder'
  BY <1>4 DEF SizesInOrder, Analysing
<1>5. ASSUME stage \in Analysing \ {"size"}, stage' \in Analysing \ {"size"},
             actual_size' = actual_size, Reported' = Reported
      PROVE  SizesInOrder'
  BY <1>2, <1>3, <1>5 DEF SizesInOrder, Analysing
<1>6. CASE AnalyseProgram
  BY <1>2, <1>4, <1>6 DEF AnalyseProgram, Abort, SizesInOrder, Analysing
<1>7. CASE AnalysePipeline
  <2>1. CASE ~Abort
    <3>1. /\ stage' = "size" /\ actual_size' = conf.start /\ lines' = {}
          /\ conf.type \in StaticTypes \cup DynamicTypes
      BY <1>2, <1>7, <2>1 DEF AnalysePipeline, HeaderAsserts
    <3>2. IsStep(conf.start) /\ \A s \in Sizes : ~(s < conf.start)
      <4>1. \A s \in Sizes : s \in Nat /\ s >= conf.start
        BY <1>1, SizesAreSteps, FirstSize DEF IsStep
      <4> QED BY <1>1, <4>1, FirstSize DEF Numbers
    <3>3. Reported' = {}
      BY <3>1 DEF Reported
    <3> QED BY <1>3, <3>1, <3>2, <3>3 DEF SizesInOrder, Analysing
  <2> QED BY <1>4, <2>1 DEF Abort
<1>8. CASE TestSize
  <2>1. /\ stage = "size" /\ actual_size' = actual_size /\ Reported' = Reported
        /\ stage' = IF actual_size <= conf.size THEN "memory" ELSE "done"
    BY <1>8 DEF TestSize, isValidSize, Reported
  <2>2. CASE actual_size <= conf.size
    BY <1>2, <1>3, <2>1, <2>2 DEF SizesInOrder, Analysing
  <2>3. CASE ~(actual_size <= conf.size)
    <3>1. \A s \in Sizes : s < actual_size
      <4> TAKE s \in Sizes
      <4>1. s \in Nat /\ s <= conf.size
        BY <1>1, SizesAreSteps DEF IsStep
      <4>2. actual_size \in Nat /\ conf.size \in Nat
        BY <1>1, <1>2, <2>1 DEF IsStep, Analysing, Numbers
      <4> QED BY <2>3, <4>1, <4>2
    <3>2. Reported = Sizes \ {0}
      BY <1>2, <2>1, <3>1 DEF Analysing
    <3> QED BY <1>3, <2>1, <2>3, <3>2 DEF SizesInOrder, Analysing
  <2> QED BY <2>2, <2>3
<1>9. CASE CalculateBaseline
  <2>1. CASE ~Abort
    <3>1. PICK o \in SolverOutputs, cost \in {0, BaselineCost}, mem \in {0, MemCostWith(0)} :
            /\ stage = "memory" /\ stage' = "memory" /\ actual_size' = actual_size
            /\ lines' = lines \cup {ReportLine(setMemSize(setMemCostValue(
                 setWCCostValue(report, cost, SolutionType(o)), mem), 0))}
      BY <1>9, <2>1 DEF CalculateBaseline
    <3> DEFINE priced == setMemCostValue(
                 setWCCostValue(report, cost, SolutionType(o)), mem)
    <3>2. IsReport(priced)
      BY SetValue, SetCosts DEF SizesInv, FreshReport
    <3>3. setMemSize(priced, 0).mem_size = 0
      <4> HIDE DEF priced
      <4> QED BY <3>2, SetValue
    <3>4. Reported' = Reported
      BY <3>1, <3>3 DEF Reported, ReportLine
    <3> QED BY <1>5, <3>1, <3>4 DEF Analysing
  <2> QED BY <1>4, <2>1 DEF Abort
<1>10. ASSUME NEW types, NEW told, Analyse(types, told) PROVE SizesInOrder'
  BY <1>4, <1>5, <1>10 DEF Analyse, Abort, Reported, Analysing
<1>11. CASE CalculateEstimate
  BY <1>4, <1>5, <1>11 DEF CalculateEstimate, Abort, Reported, Analysing
<1>12. CASE Generate
  <2>1. /\ stage = "report" /\ stage' = "size"
        /\ lines' = lines \cup {ReportLine(report)}
        /\ actual_size' = increaseSize(conf, actual_size)
    BY <1>12 DEF Generate
  <2>2. ReportLine(report).size = actual_size
    <3>1. report.mem_size = Size /\ Size = actual_size
      BY <1>2, <2>1 DEF SizesInv, FreshReport, Told, Size, getUsableMemorySize, Analysing
    <3> QED BY <3>1 DEF ReportLine
  <2>3. Reported' = (Reported \cup {actual_size}) \ {0}
    BY <2>1, <2>2 DEF Reported
  <2>4. /\ IsStep(actual_size) /\ actual_size <= conf.size
        /\ Reported = {s \in Sizes : s < actual_size} \ {0}
        /\ conf.type \in StaticTypes \cup DynamicTypes
    BY <1>2, <2>1 DEF Analysing
  <2>5. /\ IsStep(actual_size')
        /\ \A s \in Sizes : s < actual_size' <=> s <= actual_size
    BY <1>1, <2>1, <2>4, NextSize, SizesAreSteps
  <2>6. \A s \in Sizes : s <= actual_size <=> s < actual_size \/ s = actual_size
    <3> TAKE s \in Sizes
    <3>1. s \in Nat /\ actual_size \in Nat
      BY <1>1, <2>4, SizesAreSteps DEF IsStep
    <3> QED BY <3>1
  <2>7. actual_size \in Sizes
    BY <1>1, <2>4, SizesAreSteps
  <2>8. Reported' = {s \in Sizes : s < actual_size'} \ {0}
    BY <2>3, <2>4, <2>5, <2>6, <2>7
  <2> QED BY <1>3, <2>1, <2>4, <2>5, <2>8 DEF SizesInOrder, Analysing
<1>13. CASE UNCHANGED vars
  BY <1>2, <1>3, <1>13 DEF vars, SizesInOrder, Reported
<1> QED BY <1>6, <1>7, <1>8, <1>9, <1>10, <1>11, <1>12, <1>13
      DEF Next, AnalyseBBSISP, AnalyseFSISP, AnalyseFSISP_OLD, AnalyseICache,
          AnalyseDISP, AnalyseNomem, AnalyseVivuTest

(* An analysis of a range of sizes that is not aborted ends with a line    *)
(* for each of them and for no other, in steps or in powers of two, for    *)
(* every type of memory whose report is told its size.                     *)
THEOREM AllSizesAreReported == Spec => []EverySizeIsReported
<1>1. Init => SizesInv
  <2> SUFFICES ASSUME Init PROVE SizesInv
    OBVIOUS
  <2>1. FreshReport
    BY DEF Init, FreshReport, NewReport, IsReport, ReportFields
  <2> QED BY <2>1 DEF Init, SizesInv, SizesInOrder, Analysing
<1>2. SizesInv /\ [Next]_vars => SizesInv'
  BY SizesStep
<1>3. SizesInv => EverySizeIsReported
  BY DEF SizesInv, SizesInOrder, EverySizeIsReported, Reported
<1> QED BY <1>1, <1>2, <1>3, PTL DEF Spec

=============================================================================
