----------------------------- MODULE VivuGraph ------------------------------
(***************************************************************************)
(* The graph with virtual inlining and virtual unrolling that the analyses *)
(* of dynamic memories work on (graph/vivug_creator.cpp), and its way back *)
(* to a control flow graph (graph/msgtocfg_conv.cpp).  Every call gets its *)
(* own copy of the callee; of every loop there is a copy for the first     *)
(* iteration and one for the rest, entered by a flow join node.            *)
(***************************************************************************)
EXTENDS FlowGraph

-----------------------------------------------------------------------------
(***************************************************************************)
(* Loops and paths in a super graph (graph/cfgloophelper.cpp).  The        *)
(* searches keep a stack of the calls they are in, by the address of the   *)
(* calling block, which call and return points have as their end address.  *)
(***************************************************************************)

ForwardTypes == {"ForwardStep", "ForwardJump", "Meta"}

Top0(stack) == IF stack = << >> THEN 0 ELSE Last(stack)
PopStack(stack) == IF stack = << >> THEN stack ELSE Front(stack)

-----------------------------------------------------------------------------
(* getPath: a depth first search on forward edges.  A call point is pushed *)
(* on every visit, and popped once.                                        *)
RECURSIVE PathSearch(_, _, _)
PathSearch(g, end, p) ==
  IF p.todo = << >> THEN p.path
  ELSE
    LET actual == Last(p.todo)
        node   == g.nodes[actual]
        calls  == CASE node.type = "CallPoint"   -> Append(p.calls, actual)
                    [] node.type = "ReturnPoint" -> PopStack(p.calls)
                    [] OTHER -> p.calls
        path   == IF p.path # << >> /\ Last(p.path) = actual THEN p.path
                  ELSE Append(p.path, actual)
        forward == SelectSeq(OutEdges(g, actual), LAMBDA e : g.edges[e].type \in ForwardTypes)
        Ignored(t) == /\ g.nodes[t].type = "ReturnPoint" /\ calls # << >>
                      /\ g.nodes[Last(calls)].end # g.nodes[t].end
        targets == [i \in 1..Len(forward) |-> g.edges[forward[i]].dst]
        next    == SelectSeq(targets, LAMBDA t : t \notin p.processed /\ ~Ignored(t))
    IN  IF actual \in p.processed
        THEN PathSearch(g, end, [p EXCEPT !.todo = Front(@), !.path = PopStack(@),
               !.calls = CASE node.type = "CallPoint"   -> PopStack(@)
                           [] node.type = "ReturnPoint" -> Append(@, actual)
                           [] OTHER -> @])
        ELSE IF end \in Range(targets) THEN Append(path, end)
        ELSE PathSearch(g, end,
               [todo |-> p.todo \o next, path |-> path, calls |-> calls,
                processed |-> IF next = << >> THEN p.processed \cup {actual} ELSE p.processed])

getPath(g, start, end) ==
  IF start = end THEN <<start>>
  ELSE PathSearch(g, end, [todo |-> <<start>>, path |-> << >>, calls |-> << >>, processed |-> {}])

isLoopCausingBackEdge(g, e) ==
  g.edges[e].type = "BackwardJump" /\ getPath(g, g.edges[e].dst, g.edges[e].src) # << >>

LoopCausingEdges(g) == {e \in 1..Len(g.edges) : isLoopCausingBackEdge(g, e)}

-----------------------------------------------------------------------------
(* isPredecessorNode and isSuccessorNode are mirror images: d is the       *)
(* direction, with the vertices that open and close a call in it.          *)
Backwards == [opens |-> "ReturnPoint", closes |-> "CallPoint", back |-> TRUE]
Forwards  == [opens |-> "CallPoint", closes |-> "ReturnPoint", back |-> FALSE]

NextNodes(g, loops, d, v) ==
  LET all == IF d.back THEN InEdges(g, v) ELSE OutEdges(g, v)
      followed == SelectSeq(all, LAMBDA e : e \notin loops /\
                    g.edges[e].type \in ForwardTypes \cup {"BackwardJump"})
  IN  [i \in 1..Len(followed) |-> IF d.back THEN g.edges[followed[i]].src
                                  ELSE g.edges[followed[i]].dst]

(* A vertex is done in a context: the calls that were open around it.      *)
RECURSIVE Search(_, _, _, _, _, _, _)
Search(g, loops, d, goal, barrier, same_level, p) ==
  IF p.todo = << >> THEN FALSE
  ELSE
    LET actual == Last(p.todo)
        type   == g.nodes[actual].type
        addr   == g.nodes[actual].end
        around == IF type = d.opens THEN PopStack(p.calls) ELSE p.calls
        calls  == CASE type = d.opens  /\ Top0(p.calls) # addr -> Append(p.calls, addr)
                    [] type = d.closes /\ Top0(p.calls) = addr -> PopStack(p.calls)
                    [] OTHER -> p.calls
        targets == NextNodes(g, loops, d, actual)
        Closes(t) == g.nodes[t].type = d.closes
        Done(t)   == <<t, IF Closes(t) THEN PopStack(calls) ELSE calls>> \in p.processed
        Ignored(t) == \/ t = barrier
                      \/ Closes(t) /\ (calls = << >> \/ Last(calls) # g.nodes[t].end)
        next    == SelectSeq(targets, LAMBDA t : ~Done(t) /\ ~Ignored(t))
    IN  IF <<actual, around>> \in p.processed
        THEN Search(g, loops, d, goal, barrier, same_level,
               [p EXCEPT !.todo = Front(@),
                  !.calls = CASE type = d.opens  -> PopStack(@)
                              [] type = d.closes -> Append(@, addr)
                              [] OTHER -> @])
        ELSE \/ goal \in Range(targets) /\ (~same_level \/ calls = << >>)
             \/ Search(g, loops, d, goal, barrier, same_level,
                  [todo |-> p.todo \o next, calls |-> calls,
                   processed |-> IF next # << >> THEN p.processed
                     ELSE p.processed \cup
                            {<<actual, IF type = d.opens THEN PopStack(calls) ELSE calls>>}])

SearchFrom(g, loops, d, node, goal, barrier, same_level) ==
  Search(g, loops, d, goal, barrier, same_level,
         [todo |-> <<node>>, calls |-> << >>, processed |-> {}])

isNodeOnPath(g, loops, node, path_begin, path_end, same_level) ==
  \/ node \in {path_begin, path_end}
  \/ /\ path_begin # path_end
     /\ SearchFrom(g, loops, Backwards, node, path_begin, path_end, same_level)
     /\ SearchFrom(g, loops, Forwards, node, path_end, path_begin, same_level)

-----------------------------------------------------------------------------
(* getInjectingEdgeForPath: from the back edge to the head, the first edge *)
(* with a loop bound that comes from outside of the loop; 0 if none does.  *)
RECURSIVE InjectingEdge(_, _, _, _, _)
InjectingEdge(g, loops, path, i, calls) ==
  IF i = 0 THEN 0
  ELSE
    LET node  == g.nodes[path[i]]
        inner == CASE node.type = "ReturnPoint" -> Append(calls, node.end)
                   [] node.type = "CallPoint"   -> PopStack(calls)
                   [] OTHER -> calls
        from  == SelectSeq(InEdges(g, path[i]), LAMBDA e :
                   /\ g.edges[e].type \in ForwardTypes
                   /\ g.edges[e].circ # -1
                   /\ g.edges[e].src \notin Range(path)
                   /\ ~isNodeOnPath(g, loops, g.edges[e].src, Head(path), Last(path), TRUE))
    IN  IF inner = << >> /\ from # << >> THEN Head(from)
        ELSE InjectingEdge(g, loops, path, i - 1, inner)

getLoopInjectingEdge(g, loops, e) ==
  LET path == getPath(g, g.edges[e].dst, g.edges[e].src)
  IN  InjectingEdge(g, loops, path, Len(path), << >>)


-----------------------------------------------------------------------------

(* A vertex of the MSG knows its CFG vertex and the context it is for.     *)
MSGNode(v) == [cfg |-> v, ctx |-> 0]

addMSGEdge(s, from, to, type, circ) ==
  [s EXCEPT !.msg.edges = Append(@, [src |-> from, dst |-> to, type |-> type, circ |-> circ])]

newMSGVertex(s, v) ==
  [s EXCEPT !.msg.nodes = Append(@, MSGNode(v)), !.at = Len(s.msg.nodes) + 1]

(* Mutant: the copies of a callee share their vertices.                    *)
MSGVertexFor_shared(s, t, map) ==
  LET known == {m \in 1..Len(s.msg.nodes) : s.msg.nodes[m].cfg = t}
  IN  IF known # {} THEN [s EXCEPT !.at = Min(known)] ELSE newMSGVertex(s, t)

(* The exit has one vertex, and a map, if there is one, one for the others.*)
MSGVertexFor(s, t, map) ==
  IF t = s.exit THEN [s EXCEPT !.at = 2]
  ELSE IF t \in DOMAIN map THEN [s EXCEPT !.at = map[t], !.msg.nodes[map[t]].ctx = 0]
  ELSE newMSGVertex(s, t)

(* addMSGVertex with an edge of the super graph.                           *)
addMSGVertex(s, from, t, map, e) ==
  LET new  == MSGVertexFor(s, t, map)
      circ == s.cfg.edges[e].circ
  IN  addMSGEdge(new, from, new.at, s.cfg.edges[e].type, IF circ > 0 THEN 1 ELSE circ)

(* Mutant: the rest of the loop gets all iterations.                       *)
Rest_all(bound) == bound

(* The iterations the rest of a loop has, of its bound.                    *)
Rest(bound) == IF bound > 0 THEN bound - 1 ELSE bound

(* addMSGVertex with a ForwardStepUnroll edge: the copy t of a loop head   *)
(* behind a join node, which is a new vertex in both graphs.               *)
addRestOfLoop(s, from, t, bound) ==
  LET head  == MSGVertexFor(s, t, << >>)
      dummy == newMSGVertex([head EXCEPT !.cfg = addVertex(@, [BlankNode EXCEPT !.type = "FlowJoinNode"])],
                            Order(s.cfg) + 1)
      entered == addMSGEdge(dummy, from, dummy.at, "ForwardStepUnroll", -1)
  IN  [addMSGEdge(entered, dummy.at, head.at, "Meta", Rest(bound)) EXCEPT !.at = head.at]

-----------------------------------------------------------------------------
getBackEdgeInDegree(g, v) ==
  Cardinality({e \in 1..Len(g.edges) : g.edges[e].dst = v /\ g.edges[e].type = "BackwardJump"})

Exits(l, head) == IF head \in DOMAIN l.loop_exits THEN l.loop_exits[head] ELSE << >>

isLastUnhandledLoopEdge(s, l, head) ==
  getBackEdgeInDegree(s.cfg, head) = 1 + Len(Exits(l, head))

registerLoopExit(l, exit, head) ==
  IF exit \in Range(Exits(l, head)) THEN l
  ELSE [l EXCEPT !.loop_exits = [h \in DOMAIN @ \cup {head} |->
          IF h = head THEN Append(Exits(l, head), exit) ELSE l.loop_exits[h]]]

(* Mutant: the earlier back edges are lost.                                *)
addForwardStepUnrollEdges_lost(s, exits, head) == s

(* The earlier back edges of the first iteration lead to the join node too.*)
addForwardStepUnrollEdges(s, exits, head) ==
  LET join == s.msg.edges[Head(InEdges(s.msg, head))].src
  IN  FoldLeft(LAMBDA acc, x : addMSGEdge(acc, x, join, "ForwardStepUnroll", -1), s, exits)

Bound(s, e) == s.cfg.edges[s.inject[e]].circ

(* Loops are unrolled only if they have a flow fact with iterations.       *)
IsUnrolled(s, e) == s.enrich /\ e \in s.loops /\ Bound(s, e) > 0

(* A back edge whose loop no edge with a bound enters is looked up with an *)
(* edge descriptor that was never set.                                     *)
NoBound(s, e) == s.enrich /\ e \in s.loops /\ s.inject[e] = 0

-----------------------------------------------------------------------------
(* createVivuGraphForSequentialCode: the copy of the code from start to    *)
(* end.  s is the creator, with the vertex the call returns in s.at; l are *)
(* the variables of the call.                                              *)
RECURSIVE Sequential(_, _, _, _), Process(_, _, _, _, _), UnrollLoops(_, _, _, _, _)

PutContext(s, m, id) == [s EXCEPT !.msg.nodes[m].ctx = id]

(* A call: the callee from its entry to its exit, then the return point of *)
(* the same calling block, with the number of the call in their context.   *)
ReturnPointsOf(s, v) ==
  {r \in 1..Order(s.cfg) : s.cfg.nodes[r].type = "ReturnPoint"
                           /\ s.cfg.nodes[r].end = s.cfg.nodes[v].end}

CallFails(s, v) ==
  \/ ReturnPointsOf(s, v) = {}
  \/ Len(InEdges(s.cfg, Min(ReturnPointsOf(s, v)))) # 1
  \/ Len(OutEdges(s.cfg, v)) # 1

ProcessCall(s, l, start, smsg, end, v, m) ==
  LET addr   == s.cfg.nodes[v].end
      id     == IF addr \in DOMAIN s.contexts THEN s.contexts[addr] ELSE 0
      r      == Min(ReturnPointsOf(s, v))
      back   == Head(InEdges(s.cfg, r))
      call   == Head(OutEdges(s.cfg, v))
      counted == [s EXCEPT !.contexts = [a \in DOMAIN @ \cup {addr} |->
                                           IF a = addr THEN id + 1 ELSE s.contexts[a]]]
      entry  == addMSGVertex(counted, m, s.cfg.edges[call].dst, << >>, call)
      callee == Sequential(entry, s.cfg.edges[call].dst, entry.at, s.cfg.edges[back].src)
      return == addMSGVertex(callee, callee.at, r, << >>, back)
  IN  IF CallFails(s, v) THEN [s EXCEPT !.ok = FALSE]
      ELSE IF ~callee.ok THEN callee
      ELSE Process(PutContext(PutContext(return, m, id), return.at, id),
                   [l EXCEPT !.processing = Append(@, <<r, return.at>>)], start, smsg, end)

(* The back edges of a vertex: the last one into a loop head leads into the*)
(* rest of the loop, which is left from there.  Returns <<s, l, the MSG    *)
(* vertex the code behind is entered from>>.                               *)
UnrollLoops(s, l, start, v, out) ==
  LET m == out[1]
      edges == out[2]
      e == Head(edges)
      head == s.cfg.edges[e].dst
      rest == addRestOfLoop(s, m, head, Bound(s, e))
      joined == addForwardStepUnrollEdges(rest, Exits(l, head), rest.at)
      inner  == Sequential(joined, head, rest.at, v)
      looped == addMSGEdge(inner, inner.at, rest.at, "BackwardJump", s.cfg.edges[e].circ)
  IN  IF edges = << >> \/ ~s.ok THEN <<s, l, out[3]>>
      ELSE IF s.cfg.edges[e].type # "BackwardJump"
      THEN UnrollLoops(s, l, start, v, <<m, Tail(edges), out[3]>>)
      ELSE IF NoBound(s, e) THEN <<[s EXCEPT !.ok = FALSE], l, out[3]>>
      ELSE IF ~IsUnrolled(s, e) \/ head = start
      THEN UnrollLoops(s, l, start, v, <<m, Tail(edges), out[3]>>)
      ELSE IF ~isLastUnhandledLoopEdge(s, l, head)
      THEN UnrollLoops(s, registerLoopExit(l, m, head), start, v, <<m, Tail(edges), out[3]>>)
      ELSE UnrollLoops(IF inner.ok THEN looped ELSE inner, l, start, v,
                       <<m, Tail(edges), inner.at>>)

(* The copy of an edge: forward, or back to the head of the loop that is   *)
(* being copied.  Only what lies on a path from start to end is copied.    *)
CopyFollows(s, start, end, e) ==
  \/ s.exit = end \/ s.entry = start
  \/ isNodeOnPath(s.cfg, s.loops, s.cfg.edges[e].dst, start, end, FALSE)

CopyForward(s, l, from, e) ==
  LET t   == s.cfg.edges[e].dst
      new == addMSGVertex(s, from, t, l.map, e)
  IN  IF s.cfg.nodes[t].type = "ReturnPoint" THEN <<s, l>>
      ELSE <<new, [l EXCEPT !.processing = Append(@, <<t, new.at>>),
                            !.map = IF t = s.exit THEN @
                                    ELSE [x \in DOMAIN @ \cup {t} |->
                                            IF x = t THEN new.at ELSE l.map[x]]]>>

CopyEdges(s, l, start, smsg, end, v, m, from) ==
  FoldLeft(LAMBDA acc, e :
             IF ~CopyFollows(acc[1], start, end, e) THEN acc
             ELSE IF s.cfg.edges[e].type \in ForwardTypes \/ e \notin s.loops
             THEN CopyForward(acc[1], acc[2], from, e)
             ELSE IF s.cfg.edges[e].dst = start
             THEN <<addMSGEdge(acc[1], m, smsg, "BackwardJump", -1), acc[2]>>
             ELSE acc,
           <<s, l>>, OutEdges(s.cfg, v))

Process(s, l, start, smsg, end) ==
  IF ~s.ok THEN s
  ELSE IF l.processing = << >> THEN [s EXCEPT !.at = l.out]
  ELSE
    LET v    == Last(l.processing)[1]
        m    == Last(l.processing)[2]
        rest == [l EXCEPT !.processing = Front(@), !.processed = @ \cup {v}]
    IN  IF v \in l.processed
        THEN Process(s, [l EXCEPT !.processing = Front(@)], start, smsg, end)
        ELSE IF v = end THEN Process(s, [rest EXCEPT !.out = m], start, smsg, end)
        ELSE IF s.cfg.nodes[v].type = "CallPoint"
        THEN ProcessCall(s, rest, start, smsg, end, v, m)
        ELSE LET unrolled == UnrollLoops(s, rest, start, v, <<m, OutEdges(s.cfg, v), m>>)
                 copied == CopyEdges(unrolled[1], unrolled[2], start, smsg, end, v, m, unrolled[3])
             IN  IF ~unrolled[1].ok THEN unrolled[1]
                 ELSE Process(copied[1], copied[2], start, smsg, end)

Sequential(s, start, smsg, end) ==
  Process(s, [processing |-> <<<<start, smsg>>>>, processed |-> {}, loop_exits |-> << >>,
              map |-> (start :> smsg), out |-> smsg],
          start, smsg, end)

(* createVivuGraph: the entry and the exit are the vertices 1 and 2.       *)
createVivuGraph(g, entry, exit, enrich) ==
  LET loops == LoopCausingEdges(g)
      s == Sequential(
             [cfg |-> g, msg |-> [nodes |-> <<MSGNode(entry), MSGNode(exit)>>, edges |-> << >>],
              entry |-> entry, exit |-> exit, enrich |-> enrich, contexts |-> << >>, at |-> 0,
              loops |-> loops,
              inject |-> [e \in loops |-> getLoopInjectingEdge(g, loops, e)], ok |-> TRUE],
             entry, 1, exit)
  IN  [s EXCEPT !.ok = @ /\ s.at = 2]

-----------------------------------------------------------------------------
(* MsgToCfgConverter: a CFG vertex for each MSG vertex (here with the same *)
(* number), and an edge for each edge, with the properties of the edge it  *)
(* is a copy of.  A ForwardStepUnroll edge is a copy of the one edge by    *)
(* which the loop is left.                                                 *)
LeavingEdges(g, v) ==
  SelectSeq(OutEdges(g, v), LAMBDA e : g.edges[e].type # "BackwardJump")

(* Mutant: the edge that is left by is not told from the back edge.        *)
OriginalEdges_back(s, me) ==
  LET u == s.msg.nodes[me.src].cfg
      v == s.msg.nodes[me.dst].cfg
  IN  IF me.type = "ForwardStepUnroll" THEN OutEdges(s.cfg, u)
      ELSE SelectSeq(OutEdges(s.cfg, u), LAMBDA e : s.cfg.edges[e].dst = v)

OriginalEdges(s, me) ==
  LET u == s.msg.nodes[me.src].cfg
      v == s.msg.nodes[me.dst].cfg
  IN  IF me.type = "ForwardStepUnroll" THEN LeavingEdges(s.cfg, u)
      ELSE SelectSeq(OutEdges(s.cfg, u), LAMBDA e : s.cfg.edges[e].dst = v)

(* The last of the edges between two vertices stands for all of them.      *)
LastEdgeBetween(s, me) ==
  Last(SelectSeq(s.msg.edges, LAMBDA x : x.src = me.src /\ x.dst = me.dst))

ConnectFails(s, me) ==
  LET u == s.msg.nodes[me.src].cfg
  IN  IF me.type = "ForwardStepUnroll"
      THEN Len(OutEdges(s.cfg, u)) # 2 \/ Len(LeavingEdges(s.cfg, u)) # 1
      ELSE OriginalEdges(s, me) = << >> /\ s.cfg.nodes[u].type # "FlowJoinNode"

FlowJoinEdge == Head(addEdge(EmptyGraph, 1, 1, "ForwardStep").edges)

connectNodes(s, edge) ==
  LET me == LastEdgeBetween(s, edge)
      original == OriginalEdges(s, me)
      copy == IF original = << >> THEN FlowJoinEdge ELSE s.cfg.edges[Last(original)]
  IN  [copy EXCEPT !.src = me.src, !.dst = me.dst, !.circ = me.circ, !.pen = 0]

ConversionFails(s) == \E i \in 1..Len(s.msg.edges) : ConnectFails(s, LastEdgeBetween(s, s.msg.edges[i]))

getCfg(s) ==
  [nodes |-> [i \in 1..Len(s.msg.nodes) |->
                [s.cfg.nodes[s.msg.nodes[i].cfg] EXCEPT !.ctx = s.msg.nodes[i].ctx]],
   edges |-> [i \in 1..Len(s.msg.edges) |-> connectNodes(s, s.msg.edges[i])]]

=============================================================================
