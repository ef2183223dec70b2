-------------------------- MODULE MemoryStateGraph --------------------------
(***************************************************************************)
(* The memory state graph (MSG) the data flow analyses of memory/ work on: *)
(* the types of graph/graph_structure.h, and what is known of the graphs   *)
(* graph/vivug_creator.cpp builds.  Boost keeps the in and the out edges   *)
(* of a vertex in the order in which they were added.                      *)
(***************************************************************************)
EXTENDS Integers, Sequences

CONSTANTS
  Node,      \* the MSG vertices
  Entry,     \* the entry vertex
  Exit,      \* the exit vertex
  MSGs       \* the memory state graphs to analyse

EdgeTypes == {"ForwardStep", "ForwardStepUnroll", "ForwardJump",
              "BackwardJump", "Meta"}

Edges == [node : Node, type : EdgeTypes]

(* The targets of the edges that are not BackwardJump, in edge order: the  *)
(* filter of the loops over in_edges and out_edges.                        *)
ForwardEdges(edges) ==
  LET fwd[i \in 0..Len(edges)] ==
        IF i = 0 THEN << >>
        ELSE IF edges[i].type = "BackwardJump" THEN fwd[i - 1]
        ELSE Append(fwd[i - 1], edges[i].node)
  IN  fwd[Len(edges)]

HasForwardEdge(edges, n) ==
  \E i \in 1..Len(edges) : edges[i].type # "BackwardJump" /\ edges[i].node = n

(* The edges of a vertex come in the order in which they were added;       *)
(* nothing enters the entry or leaves the exit.                            *)
IsFlowGraph(g) ==
  /\ g.out \in [Node -> Seq(Edges)]
  /\ g.in \in [Node -> Seq(Edges)]
  /\ \A n, m \in Node : HasForwardEdge(g.out[n], m) <=> HasForwardEdge(g.in[m], n)
  /\ g.in[Entry] = << >>
  /\ g.out[Exit] = << >>

(* The edges that are not BackwardJump form no cycle: some node of every   *)
(* set has no forward predecessor in it.                                   *)
ForwardAcyclic(g) ==
  \A S \in (SUBSET Node) \ {{}} :
    \E n \in S : \A m \in S : ~HasForwardEdge(g.in[n], m)

(* What a cache analysis sees of a graph: the flow, and the addresses of   *)
(* the cache lines of each basic block (none for the other node types, to  *)
(* which the exit belongs).                                                *)
CodeGraphs(Addr) ==
  [out : [Node -> Seq(Edges)], in : [Node -> Seq(Edges)],
   lines : [Node -> Seq(Addr)]]

IsCodeGraph(g, Addr) ==
  /\ g \in CodeGraphs(Addr)
  /\ IsFlowGraph(g)
  /\ ForwardAcyclic(g)
  /\ g.lines[Exit] = << >>

(* Every node but the entry is entered by a forward edge.  The creator     *)
(* adds a vertex together with an edge into it, but that edge may be a     *)
(* BackwardJump that closes no loop, so this is no part of IsFlowGraph.    *)
ForwardConnected(g) ==
  \A n \in Node \ {Entry} : \E m \in Node : HasForwardEdge(g.in[n], m)

(* n is in a set of nodes that no forward edge leaves, and m is not.       *)
NeverReaches(g, n, m) ==
  \E S \in SUBSET (Node \ {m}) :
    n \in S /\ \A k \in S, l \in Node : HasForwardEdge(g.out[k], l) => l \in S

(* The successors of every node come in an order in which no later one     *)
(* leads back to an earlier one, as those of a conditional jump do: the    *)
(* step to the next block first, the jump beyond it second.                *)
StepsBeforeJumps(g) ==
  \A n \in Node : \A i, j \in 1..Len(ForwardEdges(g.out[n])) :
    i < j => NeverReaches(g, ForwardEdges(g.out[n])[j], ForwardEdges(g.out[n])[i])

(* What the memory is asked for along the first nodes of a chain of nodes, *)
(* given what it is asked for by each: lines of code or functions.         *)
LinesAlong(lines, chain) ==
  LET along[i \in 0..Len(chain)] ==
        IF i = 0 THEN << >> ELSE along[i - 1] \o lines[chain[i]]
  IN  along

HasEdge(g, n, m) == \E i \in 1..Len(g.out[n]) : g.out[n][i].node = m

HasBackEdge(g, n, m) ==
  \E i \in 1..Len(g.out[n]) : g.out[n][i] = [node |-> m, type |-> "BackwardJump"]

EnteredFrom(g, m, nodes) == m # Entry /\ \A n \in Node : HasEdge(g, n, m) => n \in nodes

IsChain(g, chain) ==
  chain # << >> /\ \A i \in 2..Len(chain) : EnteredFrom(g, chain[i], {chain[i - 1]})

(* A loop with a straight body behind its peeled first iteration: whatever *)
(* enters the body comes from either and has fetched the lines of the body.*)
IsPeeledLoop(g, lines, first, body) ==
  /\ IsChain(g, first) /\ IsChain(g, body)
  /\ EnteredFrom(g, body[1], {first[Len(first)], body[Len(body)]})
  /\ LinesAlong(lines, first)[Len(first)] = LinesAlong(lines, body)[Len(body)]

(* Every BackwardJump closes such a loop: what vivug_creator.cpp makes of  *)
(* loops whose body neither branches nor holds another loop.               *)
LoopsArePeeled(g, lines, chains) ==
  \A n, m \in Node : HasBackEdge(g, n, m) =>
    \E first, body \in chains :
      IsPeeledLoop(g, lines, first, body) /\ body[1] = m /\ body[Len(body)] = n

ASSUME EndsAssumption ==
  /\ Entry \in Node
  /\ Exit \in Node
  /\ Entry # Exit

=============================================================================
