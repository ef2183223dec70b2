------------------------------ MODULE PathFlow ------------------------------
(***************************************************************************)
(* The paths the flow problem of graph/ilpgenerator.cpp stands for.  A path*)
(* goes on along any edge, except that a call returns to where it was made,*)
(* and ends at the exit; it pays the weight of each edge it takes.  What   *)
(* the pipeline reports as the estimate is the best objective of the       *)
(* problem, so it is one of all paths only if each of them is a solution.  *)
(***************************************************************************)
EXTENDS ILPGenerator

CONSTANTS
  Graphs,     \* the graphs problems are stated for
  Facts,      \* the static flow facts of the program
  UseFacts,   \* whether loop bounds and flow facts are constraints
  Metric      \* what the weights are

VARIABLES
  graph,      \* the graph, without its back edge
  walk,       \* where the path is, the calls it is in, and its flow
  cost        \* what it has paid

vars == <<graph, walk, cost>>

Init ==
  /\ graph \in Graphs
  /\ walk = Begun(graph)
  /\ cost = 0

TakeEdge(e) ==
  /\ e \in EdgesFrom(graph, walk.node)
  /\ MayFollow(graph, walk, e)
  /\ walk' = Follow(graph, walk, e)
  /\ cost' = cost + Weight(graph, e, Metric)
  /\ UNCHANGED graph

Next == \E e \in 1..Len(graph.edges) : TakeEdge(e)

Spec == Init /\ [][Next]_vars

-----------------------------------------------------------------------------
Problem == addBackEdge(graph, Entry, Exit)

Flow == WithBackEdge(graph, walk.flow)

(* A path is complete at the exit, behind the returns of all its calls.    *)
Complete == walk.node = Exit /\ walk.calls = << >>

(* The loop bounds and flow facts are true of it, if they are used.        *)
ObeysFacts ==
  UseFacts => LoopBoundsHold(Problem, Flow) /\ StaticFlowsHold(Problem, Facts, Flow)

(* No complete path is lost: conservation, the injected flow and the       *)
(* matching of returns to calls hold of the flow of every one of them.     *)
PathsAreSolutions ==
  Complete /\ ObeysFacts => IsSolution(Problem, Facts, UseFacts, Flow)

(* The objective at the flow of a path is what the path pays.              *)
CostIsObjective == cost = GraphCost(graph, Metric, walk.flow)

(* A bound on the objective of all solutions is one on all such paths.     *)
IsEstimate(best) ==
  \A flow \in [1..Len(Problem.edges) -> Nat] :
    IsSolution(Problem, Facts, UseFacts, flow) => GraphCost(Problem, Metric, flow) <= best

EstimateCoversPaths ==
  Complete /\ ObeysFacts => \A best \in Int : IsEstimate(best) => cost <= best

=============================================================================
