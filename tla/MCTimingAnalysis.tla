--------------------------- MODULE MCTimingAnalysis -------------------------
(***************************************************************************)
(* Model checking TimingAnalysis: every type of memory, alone and with a   *)
(* range of sizes that ends on or before the maximum, in steps or in powers*)
(* of two, and options the program does not support.  Numbers have 6 bits. *)
(***************************************************************************)
EXTENDS TimingAnalysis

Configuration(type, stepping, start, step, size) ==
  [type |-> type, stepping |-> stepping, start |-> start, step |-> step, size |-> size,
   line_size |-> 8, block_size |-> 4, associativity |-> 0, metric |-> "WCET",
   enrich |-> TRUE, flowfact_file |-> TRUE, budget |-> FALSE]

AllTypes == StaticTypes \cup DynamicTypes \cup {"NO_MEM", "VIVU_TEST"}

Single  == {Configuration(type, FALSE, 0, 0, 24) : type \in AllTypes}
Stepped == {Configuration(type, TRUE, r[1], r[2], r[3]) :
              type \in AllTypes, r \in {<<8, 8, 24>>, <<0, 16, 40>>, <<4, 12, 30>>, <<8, 0, 31>>}}

(* Options the program stops at, and those with which it does not stop.    *)
Refused ==
  LET c == Configuration("ICACHE", TRUE, 8, 8, 24)
  IN  {[c EXCEPT !.metric = "MPL"], [c EXCEPT !.flowfact_file = FALSE],
       [c EXCEPT !.budget = TRUE], [c EXCEPT !.line_size = 12],
       [c EXCEPT !.stepping = FALSE, !.budget = TRUE]}
Endless ==
  {Configuration("ICACHE", TRUE, 0, 0, 24), Configuration("DISP", TRUE, 0, 32, 63)}

MCConfigurations == Single \cup Stepped \cup Refused \cup Endless
Defaults == {Configuration("BBSISP", TRUE, 0, 0, 24)}
CacheSizes == {Configuration("ICACHE", TRUE, 8, 8, 24)}

MCUnbound == 63

Output(readable, err, suboptimal, unbounded, objective, values) ==
  [readable |-> readable, err_readable |-> err, suboptimal |-> suboptimal,
   unbounded |-> unbounded, objective |-> objective, vars |-> values]

Good      == Output(TRUE, TRUE, FALSE, FALSE, {20}, <<1, 2>>)
TimedOut  == Output(TRUE, TRUE, TRUE, FALSE, {20}, <<1, 2>>)
Crashed   == Output(TRUE, TRUE, FALSE, FALSE, {}, << >>)
Unbounded == Output(TRUE, TRUE, FALSE, TRUE, {}, << >>)
TooLarge  == Output(TRUE, TRUE, FALSE, FALSE, {20}, <<1, 100>>)
NoFile    == Output(FALSE, TRUE, FALSE, FALSE, {}, << >>)
NoErrors  == Output(TRUE, FALSE, FALSE, FALSE, {20}, <<1, 2>>)

MCOutputs == {Good, TimedOut, Crashed, Unbounded, TooLarge, NoFile, NoErrors}
Reliable  == {Good}

MCCost(size) == 1000 - size
MCMemCost(size) == 500 - size
MCAssigned(size) == {b \in {10, 20, 30} : b <= size}
=============================================================================
