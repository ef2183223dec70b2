------------------------------ MODULE MCICache ------------------------------
(***************************************************************************)
(* Model checking ICacheExecution on the graphs of MCGraphs.               *)
(***************************************************************************)
EXTENDS ICacheExecution, MCGraphs

(* Branching code and loops with a straight body.                          *)
PathGraphs == BranchGraphs \cup LoopGraphs

(* With a line at the address 0 or a block the worklist never comes to,    *)
(* the must sets and the penalties are sound all the same.                 *)
AllPathGraphs == PathGraphs \cup ZeroGraphs \cup DetachedGraphs

LineOrZeroAddr == (zero :> 0) @@ MCBlockAddr

(* The loops are peeled: n2 and n3 before n4 (LoopNode is another set).    *)
ASSUME PathGraphsArePeeled ==
  Node = MCNode => \A g \in PathGraphs : LoopsArePeeled(g, g.lines, {<<"n2", "n3">>, <<"n4">>})

(* Every shape of four blocks besides.                                     *)
AllGraphs == WorklistGraphs \cup BranchGraphs

=============================================================================
