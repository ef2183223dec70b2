----------------------------- MODULE FlowGraph ------------------------------
(***************************************************************************)
(* The attributed graphs of graph/graph_structure.h as values: vertices    *)
(* and edges are numbered in the order in which they are added, and the    *)
(* edges of a vertex keep that order.  Two vertices may be joined by       *)
(* several edges.                                                          *)
(***************************************************************************)
EXTENDS Integers, Sequences, FiniteSets, SequencesExt

UNKNOWN_ADDR == 0
Top == 2147483647      \* stands for 0xffffffff, the -1 of an unsigned word

(* A vertex as Boost constructs it: every attribute is zero, and BasicBlock*)
(* is the zero of the vertex types.                                        *)
BlankNode ==
  [type |-> "BasicBlock", start |-> 0, end |-> 0, call |-> 0, size |-> 0,
   instrs |-> 0, code |-> << >>, ctx |-> 0]

EmptyGraph == [nodes |-> << >>, edges |-> << >>]

addVertex(g, node) == [g EXCEPT !.nodes = Append(@, node)]

Order(g) == Len(g.nodes)

(* Costs are zero, no flow fact is known and no loop is left (-1).         *)
addEdge(g, u, v, type) ==
  [g EXCEPT !.edges = Append(@,
     [src |-> u, dst |-> v, type |-> type, circ |-> -1, capl |-> 0, caph |-> 0,
      flow |-> -1, cost |-> 0, pen |-> 0])]

removeEdge(g, e) ==
  [g EXCEPT !.edges = SubSeq(@, 1, e - 1) \o SubSeq(@, e + 1, Len(@))]

OutEdges(g, u) == SelectSeq([e \in 1..Len(g.edges) |-> e], LAMBDA e : g.edges[e].src = u)
InEdges(g, v)  == SelectSeq([e \in 1..Len(g.edges) |-> e], LAMBDA e : g.edges[e].dst = v)


-----------------------------------------------------------------------------
(***************************************************************************)
(* The control flow graph of a function while it is parsed                 *)
(* (graph/cfgobj.cpp).  A block is [start, end, size, instrs, code]; `end` *)
(* is the address of its last instruction.                                 *)
(***************************************************************************)

Entry == 1
Exit  == 2

NewObject ==
  [g |-> [nodes |-> << [BlankNode EXCEPT !.type = "Entry", !.call = Top],
                       [BlankNode EXCEPT !.type = "Exit", !.start = Top, !.end = Top,
                                         !.call = Top] >>,
          edges |-> << >>],
   avMap |-> << >>, incomplete |-> << >>, call_sites |-> << >>,
   call_targets |-> << >>, entry_connected |-> FALSE, code_size |-> 0]

BlockAt(c, addr) == c.avMap[addr]

WithBlock(c, addr, type) ==
  IF addr \in DOMAIN c.avMap THEN c
  ELSE [c EXCEPT !.g = addVertex(@, [BlankNode EXCEPT !.type = type]),
                 !.avMap = [a \in DOMAIN @ \cup {addr} |->
                              IF a = addr THEN Order(c.g) + 1 ELSE @[a]]]

(* Only the first of equal addresses is erased, and there is only one.     *)
eraseBB(c, addr) ==
  [c EXCEPT !.incomplete = SelectSeq(@, LAMBDA a : a # addr)]

pushTargetBB(c, addr) ==
  IF addr = UNKNOWN_ADDR \/ \E i \in 1..Len(c.incomplete) : c.incomplete[i] = addr THEN c
  ELSE [c EXCEPT !.incomplete = Append(@, addr)]

(* The first block nothing leads to is where the function is entered.      *)
ConnectEntry(c, u, addr) ==
  IF c.entry_connected \/ InEdges(c.g, u) # << >> THEN c
  ELSE [c EXCEPT !.g = addEdge([@ EXCEPT !.nodes[Entry].call = addr], Entry, u, "Meta"),
                 !.entry_connected = TRUE]

setSourceBB(c, bb) ==
  LET known == WithBlock(IF bb.start \in DOMAIN c.avMap THEN eraseBB(c, bb.start) ELSE c,
                         bb.start, "BasicBlock")
      u     == BlockAt(known, bb.start)
      entered == ConnectEntry(known, u, bb.start)
  IN  [entered EXCEPT
         !.g.nodes[u] = [type |-> "BasicBlock", start |-> bb.start, end |-> bb.end,
                         call |-> Top, size |-> bb.size, instrs |-> bb.instrs,
                         code |-> bb.code, ctx |-> 0],
         !.code_size = @ + bb.size]

(* A target is to be parsed if it is not known yet.                        *)
getTargetBB(c, addr) ==
  IF addr \in DOMAIN c.avMap THEN c
  ELSE pushTargetBB(WithBlock(c, addr, IF addr = UNKNOWN_ADDR THEN "UnknownJumpTarget"
                                       ELSE "BasicBlock"), addr)

EdgeTo(c, bb, addr, type) ==
  LET known == getTargetBB(c, addr)
  IN  [known EXCEPT !.g = addEdge(@, BlockAt(known, bb.start), BlockAt(known, addr), type)]

(* addBBNode: a block with one successor, ...                              *)
addBBNode(c, bb, next) ==
  EdgeTo(setSourceBB(c, bb), bb, next,
         IF bb.start + bb.size = next THEN "ForwardStep"
         ELSE IF bb.start + bb.size < next THEN "ForwardJump" ELSE "BackwardJump")

(* ... with the targets of an indirect jump, ...                           *)
addBBJumps(c, bb, targets) ==
  FoldLeft(LAMBDA acc, t : EdgeTo(acc, bb, t, IF bb.start + bb.size <= t THEN "ForwardJump"
                                              ELSE "BackwardJump"),
           setSourceBB(c, bb), targets)

(* ... a step and one conditional jump (whose target becomes a vertex      *)
(* before the edges are added) or the targets of a conditional indirect one*)
CondType(bb, t) == IF bb.end < t THEN "ForwardJump" ELSE "BackwardJump"

addBBConds(c, bb, next, targets) ==
  FoldLeft(LAMBDA acc, t : EdgeTo(acc, bb, t, CondType(bb, t)),
           EdgeTo(setSourceBB(c, bb), bb, next, "ForwardStep"), targets)

addBBCond(c, bb, next, t) ==
  LET known == getTargetBB(getTargetBB(setSourceBB(c, bb), next), t)
  IN  EdgeTo(EdgeTo(known, bb, next, "ForwardStep"), bb, t, CondType(bb, t))

(* ... or with a return.                                                   *)
addBBReturn(c, bb) ==
  LET known == setSourceBB(c, bb)
  IN  [known EXCEPT !.g = addEdge(@, BlockAt(known, bb.start), Exit, "Meta")]

addCallTarget(c, callee) ==
  IF \E i \in 1..Len(c.call_targets) : c.call_targets[i] = callee THEN c
  ELSE [c EXCEPT !.call_targets = Append(@, callee)]

(* A call site between the block of the call and the next one.  It keeps   *)
(* the start of the calling block as its end address.                      *)
CallSiteOf(c, bb, next, callee) ==
  LET w == Order(c.g) + 1
      g == addVertex(c.g, [BlankNode EXCEPT !.type = "CallSite", !.end = bb.start,
                                            !.call = callee])
  IN  addCallTarget([c EXCEPT
        !.g = addEdge(addEdge(g, BlockAt(c, bb.start), w, "ForwardJump"),
                      w, BlockAt(c, next), "Meta"),
        !.call_sites = Append(@, [address |-> callee, vertex |-> w])], callee)

addBBCallNode(c, bb, next, callees) ==
  FoldLeft(LAMBDA acc, f : CallSiteOf(acc, bb, next, f),
           getTargetBB(setSourceBB(c, bb), next), callees)

(* Everything that was named as a target is parsed, and there is a return. *)
isFinished(c) == c.incomplete = << >> /\ InEdges(c.g, Exit) # << >>

getCallSiteCount(c, callee) ==
  Len(SelectSeq(c.call_sites, LAMBDA s : s.address = callee))

=============================================================================
