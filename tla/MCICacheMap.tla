---------------------------- MODULE MCICacheMap -----------------------------
(***************************************************************************)
(* Model checking ICacheMapExecution on the graphs of MCGraphs.            *)
(***************************************************************************)
EXTENDS ICacheMapExecution, MCGraphs

(* Branching code on which the worklist meets no node twice, and the graphs*)
(* on which it is checked itself.                                          *)
OrderedGraphs == {g \in BranchGraphs : StepsBeforeJumps(g)} \cup WorklistGraphs

(* No path forks before its first block.                                   *)
ASSUME OrderedGraphsStart == \A g \in OrderedGraphs : StartsWithOneBlock(g)

=============================================================================
