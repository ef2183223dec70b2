----------------------------- MODULE ILPGenerator ---------------------------
(***************************************************************************)
(* The implicit path enumeration of graph/ilpgenerator.cpp: an integer for *)
(* the flow on each edge, and what a path from the entry to the exit makes *)
(* of them.  A flow is a function from the edges of the graph to Nat.      *)
(***************************************************************************)
EXTENDS FlowGraph

EdgesInto(g, v) == {e \in 1..Len(g.edges) : g.edges[e].dst = v}
EdgesFrom(g, v) == {e \in 1..Len(g.edges) : g.edges[e].src = v}
OnlyEdge(edges) == CHOOSE e \in edges : TRUE

(* addBackEdge: from the exit to the entry, with a flow of one, in place of*)
(* that of an earlier call.                                                *)
addBackEdge(g, entry, exit) ==
  addEdge(IF EdgesFrom(g, exit) = {} THEN g
          ELSE [g EXCEPT !.edges = SelectSeq(@, LAMBDA e : e.src # exit \/ e.dst # entry)],
          exit, entry, "InductingBackEdge")

FlowOver(flow, edges) == MapThenSumSet(LAMBDA e : flow[e], edges)

FlowConserved(g, flow) ==
  \A v \in 1..Len(g.nodes) : FlowOver(flow, EdgesInto(g, v)) = FlowOver(flow, EdgesFrom(g, v))

VerticesOf(g, type) == {v \in 1..Len(g.nodes) : g.nodes[v].type = type}

(* extractFlowConservation needs an equation for every vertex, ...         *)
ConservationAsserts(g) ==
  \E v \in 1..Len(g.nodes) : EdgesInto(g, v) = {} \/ EdgesFrom(g, v) = {}

(* ... and that for calls as many returns as calls.                        *)
CallContextAsserts(g) ==
  \/ Cardinality(VerticesOf(g, "CallPoint")) # Cardinality(VerticesOf(g, "ReturnPoint"))
  \/ \E v \in VerticesOf(g, "CallPoint") : Cardinality(EdgesFrom(g, v)) # 1
  \/ \E v \in VerticesOf(g, "ReturnPoint") : Cardinality(EdgesInto(g, v)) # 1

(* A call returns to the caller: the first return point of the same        *)
(* calling block, function and number.                                     *)
SameContext(g, c, r) ==
  /\ g.nodes[c].end = g.nodes[r].end
  /\ g.nodes[c].call = g.nodes[r].call
  /\ g.nodes[c].ctx = g.nodes[r].ctx

ReturnsMatchCalls(g, flow) ==
  \A c \in VerticesOf(g, "CallPoint") :
    LET returns == {r \in VerticesOf(g, "ReturnPoint") : SameContext(g, c, r)}
    IN  returns # {} =>
          flow[OnlyEdge(EdgesFrom(g, c))] = flow[OnlyEdge(EdgesInto(g, Min(returns)))]

(* getLoopBounds: the flow on the edges into a vertex without a bound is   *)
(* the bound times the flow on those with one; the last of the bounds      *)
(* counts for all.                                                         *)
Inducting(g, v) == {e \in EdgesInto(g, v) : g.edges[e].circ >= 0}
LoopEdges(g, v) == {e \in EdgesInto(g, v) : g.edges[e].circ < 0}

LoopBoundsHold(g, flow) ==
  \A v \in 1..Len(g.nodes) :
    Inducting(g, v) # {} /\ LoopEdges(g, v) # {} =>
      FlowOver(flow, LoopEdges(g, v)) =
        g.edges[Max(Inducting(g, v))].circ * FlowOver(flow, Inducting(g, v))

(* Static bounds: all edges into the copies of a block together.  The      *)
(* assertion on them assigns, and fails for the second edge of a bound of  *)
(* zero.                                                                   *)
EdgesOfFact(g, addr) == {e \in 1..Len(g.edges) : g.edges[e].flow = addr}

StaticAsserts(g, facts) ==
  \E addr \in DOMAIN facts.flow : facts.flow[addr].bound = 0 /\ Cardinality(EdgesOfFact(g, addr)) > 1

StaticFlowsHold(g, facts, flow) ==
  \A addr \in DOMAIN facts.flow :
    LET all == FlowOver(flow, EdgesOfFact(g, addr))
    IN  EdgesOfFact(g, addr) # {} =>
          CASE facts.flow[addr].type = "EXACT" -> all = facts.flow[addr].bound
            [] facts.flow[addr].type = "MAX"   -> all <= facts.flow[addr].bound
            [] facts.flow[addr].type = "MIN"   -> all >= facts.flow[addr].bound

ILPAsserts(g, facts, useFacts) ==
  ConservationAsserts(g) \/ CallContextAsserts(g) \/ (useFacts /\ StaticAsserts(g, facts))

(* What the problem asks of a flow, on a graph with its back edge.         *)
IsSolution(g, facts, useFacts, flow) ==
  /\ flow[Len(g.edges)] = 1
  /\ FlowConserved(g, flow)
  /\ ReturnsMatchCalls(g, flow)
  /\ useFacts => LoopBoundsHold(g, flow) /\ StaticFlowsHold(g, facts, flow)

(* getWeightOfEdge and getGraphCost.                                       *)
Weight(g, e, metric) ==
  IF metric = "WCET" THEN g.edges[e].cost + g.edges[e].pen ELSE g.edges[e].cost

GraphCost(g, metric, flow) ==
  FlowOver([e \in 1..Len(g.edges) |-> flow[e] * Weight(g, e, metric)], 1..Len(g.edges))

-----------------------------------------------------------------------------
(***************************************************************************)
(* What the problem is about: a path, with the vertex it has come to, the  *)
(* calls it is in, and how often it has taken each edge.                   *)
(***************************************************************************)
Begun(g) == [node |-> Entry, calls |-> << >>, flow |-> [e \in 1..Len(g.edges) |-> 0]]

CallOf(node) == <<node.end, node.call, node.ctx>>

Follow(g, w, e) ==
  LET v == g.nodes[g.edges[e].dst]
  IN  [node |-> g.edges[e].dst, flow |-> [w.flow EXCEPT ![e] = @ + 1],
       calls |-> CASE v.type = "CallPoint"   -> Append(w.calls, CallOf(v))
                   [] v.type = "ReturnPoint" -> Front(w.calls)
                   [] OTHER -> w.calls]

(* A call returns to where it was made.                                    *)
MayFollow(g, w, e) ==
  LET v == g.nodes[g.edges[e].dst]
  IN  v.type = "ReturnPoint" => w.calls # << >> /\ Last(w.calls) = CallOf(v)

WithBackEdge(g, flow) ==
  [e \in 1..Len(g.edges) + 1 |-> IF e > Len(g.edges) THEN 1 ELSE flow[e]]

(* The graphs a problem can be stated for: nothing leaves the exit, and no *)
(* two calls, and no two returns, share their context.                     *)
Vertex ==
  [type : STRING, start : Int, end : Int, call : Int, size : Int, instrs : Int,
   code : Seq([len : Int, class : STRING]), ctx : Int]

Edge ==
  [src : Int, dst : Int, type : STRING, circ : Int, capl : Int, caph : Int,
   flow : Int, cost : Int, pen : Int]

IsProblemGraph(g) ==
  /\ g \in [nodes : Seq(Vertex), edges : Seq(Edge)]
  /\ {Entry, Exit} \subseteq 1..Len(g.nodes)
  /\ \A e \in 1..Len(g.edges) : /\ {g.edges[e].src, g.edges[e].dst} \subseteq 1..Len(g.nodes)
                                /\ g.edges[e].src # Exit
  /\ \A v \in {Entry, Exit} : g.nodes[v].type \notin {"CallPoint", "ReturnPoint"}
  /\ \A type \in {"CallPoint", "ReturnPoint"} : \A v, w \in VerticesOf(g, type) :
       SameContext(g, v, w) => v = w
  /\ ~CallContextAsserts(addBackEdge(g, Entry, Exit))

=============================================================================
