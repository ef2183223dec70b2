------------------------------- MODULE MCDISP -------------------------------
(***************************************************************************)
(* Model checking DISPExecution on the graphs of MCCallGraphs.             *)
(***************************************************************************)
EXTENDS DISPExecution, MCCallGraphs

(* The analysis alone, as a function that runs until it returns.           *)
AnalysisSpec == ExecInit /\ [][Analyse]_allVars /\ WF_allVars(Analyse)

(* The loops of the graphs are what StraightLoopsAreSafe is about: behind  *)
(* j comes an iteration that calls what the peeled one called.             *)
ASSUME CallLoopsArePeeled ==
  Node = MCNode =>
    \A graph \in SingleReturnGraphs :
      LoopsArePeeled(graph, FunctionsCalled(graph),
                     {<<"e1", "b1", "x1", "r1", "e2", "b2", "x2", "r2", "j">>,
                      <<"l", "e3", "b3", "x3", "r3", "e4", "b4", "x4", "r4">>})

=============================================================================
