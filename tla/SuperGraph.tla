------------------------------ MODULE SuperGraph ----------------------------
(***************************************************************************)
(* The call graph of the parsed functions (graph/fcgobj.cpp) and the super *)
(* graph in which each function appears once (graph/scfgobj.cpp): a call   *)
(* site becomes a call point before the callee's entry and a return point  *)
(* behind its exit.                                                        *)
(***************************************************************************)
EXTENDS DumpParser

VARIABLES
  fcg,        \* the function call graph
  super,      \* the super graph in the making
  linking     \* "no", "insert", "done" or "aborted"

superVars == <<fcg, super, linking>>

-----------------------------------------------------------------------------
NewCallGraph == [completed |-> << >>, incomplete |-> << >>, size |-> << >>, calls |-> {}]

(* addFunc: the function becomes complete, its callees are awaited.        *)
addFunc(fg, f) ==
  LET callees == Range(f.cfg.call_targets)
      new     == SelectSeq(f.cfg.call_targets, LAMBDA a :
                   a # UNKNOWN_ADDR /\ a \notin Range(fg.completed) \cup Range(fg.incomplete)
                                                   \cup {f.address})
  IN  [completed  |-> Append(fg.completed, f.address),
       incomplete |-> SelectSeq(fg.incomplete, LAMBDA a : a # f.address) \o new,
       size  |-> [a \in DOMAIN fg.size \cup {f.address} |->
                    IF a = f.address THEN f.cfg.code_size ELSE fg.size[a]],
       calls |-> fg.calls \cup {[from |-> f.address, to |-> a,
                                 count |-> getCallSiteCount(f.cfg, a)] : a \in callees}]

cfgOf(addr) == func_cfgs[Min(FunctionId(addr))].cfg

(* addFunc asserts that an address is added once.                          *)
ConnectAsserts ==
  \/ FunctionId(program.entry) = {}
  \/ \E i, j \in Range(getFunctionIDsCalledByStartLabel) :
       i # j /\ func_cfgs[i].address = func_cfgs[j].address

-----------------------------------------------------------------------------
(* joinCfg works on a copy s of the object; s.at is the vertex that the    *)
(* last call of setSource or getTarget returned.                           *)
WithVertexAt(s, addr, node) ==
  IF addr \in DOMAIN s.avMap THEN [s EXCEPT !.at = s.avMap[addr]]
  ELSE [s EXCEPT !.g = addVertex(@, node), !.at = Order(s.g) + 1,
                 !.avMap = [a \in DOMAIN @ \cup {addr} |->
                              IF a = addr THEN Order(s.g) + 1 ELSE @[a]]]

setSource(s, node) ==
  LET known == IF node.type = "BasicBlock" THEN WithVertexAt(s, node.start, BlankNode)
               ELSE [s EXCEPT !.g = addVertex(@, BlankNode), !.at = Order(s.g) + 1]
  IN  [known EXCEPT !.g.nodes[known.at] = node,
         !.call_sites = IF node.type = "CallSite" /\ node.call # UNKNOWN_ADDR
                        THEN Append(@, [address |-> node.call, vertex |-> known.at]) ELSE @]

getTarget(s, addr) == WithVertexAt(s, addr, BlankNode)

CopyEdge(s, edge, u, v) ==
  [s EXCEPT !.g.edges = Append(@, [edge EXCEPT !.src = u, !.dst = v])]

(* The call site and its edge to the block behind the call.                *)
JoinCallSite(s, cfg, site) ==
  LET v    == setSource(s, cfg.nodes[site])
      back == cfg.edges[Head(OutEdges(cfg, site))]
      w    == getTarget(v, cfg.nodes[back.dst].start)
  IN  [CopyEdge(w, [back EXCEPT !.type = "Meta"], v.at, w.at) EXCEPT !.at = v.at]

JoinTarget(s, cfg, t) ==
  LET node == cfg.nodes[t]
  IN  CASE node.type = "BasicBlock" -> getTarget(s, node.start)
        [] node.type = "CallSite"   -> JoinCallSite(s, cfg, t)
        [] node.type = "Exit" -> IF s.exit_found THEN [s EXCEPT !.at = s.exit_node]
                                 ELSE LET x == setSource(s, node)
                                      IN  [x EXCEPT !.exit_node = x.at, !.exit_found = TRUE]
        [] OTHER -> [s EXCEPT !.ok = FALSE]   \* Entry, UnknownJumpTarget: assert(false)

JoinEdge(s, cfg, u, e) ==
  LET v == JoinTarget(s, cfg, cfg.edges[e].dst)
  IN  IF v.ok THEN CopyEdge(v, cfg.edges[e], u, v.at) ELSE v

JoinVertex(s, cfg, n) ==
  IF cfg.nodes[n].type \notin {"BasicBlock", "Entry"} \/ ~s.ok THEN s
  ELSE LET u == setSource(s, cfg.nodes[n])
           w == IF cfg.nodes[n].type = "Entry" THEN [u EXCEPT !.entry_node = u.at] ELSE u
       IN  FoldLeft(LAMBDA acc, e : IF acc.ok THEN JoinEdge(acc, cfg, u.at, e) ELSE acc,
                    w, OutEdges(cfg, n))

(* The exit of a function that does not return stays a constructed         *)
(* descriptor, which is that of the first vertex.                          *)
joinCfg(s, cfg) ==
  FoldLeft(LAMBDA acc, n : JoinVertex(acc, cfg, n),
           [s EXCEPT !.entry_node = 1, !.exit_node = 1, !.exit_found = FALSE],
           [n \in 1..Order(cfg) |-> n])

(* splitCallSite: the return point takes over the edges of the call site,  *)
(* then the callee comes in between.                                       *)
MoveOutEdges(g, from, to) ==
  LET moved == SelectSeq(g.edges, LAMBDA e : e.src = from)
      kept  == [g EXCEPT !.edges = SelectSeq(@, LAMBDA e : e.src # from)]
  IN  FoldLeft(LAMBDA acc, e : addEdge(acc, to, e.dst, "Meta"), kept, moved)

splitCallSite(s, site) ==
  LET node   == s.g.nodes[site]
      r      == Order(s.g) + 1
      return == [BlankNode EXCEPT !.type = "ReturnPoint", !.start = Top,
                                  !.end = node.end, !.call = node.call]
      moved  == MoveOutEdges(addVertex([s.g EXCEPT !.nodes[site].type = "CallPoint"], return),
                             site, r)
  IN  IF node.type # "CallSite" \/ node.call \notin DOMAIN s.entryOf
      THEN [s EXCEPT !.ok = FALSE]
      ELSE [s EXCEPT !.g = addEdge(addEdge(moved, site, s.entryOf[node.call], "Meta"),
                                   s.exitOf[node.call], r, "Meta")]

(* All call sites to a function are split and dropped.                     *)
SplitCallSites(s, f) ==
  LET sites == SelectSeq(s.call_sites, LAMBDA c : c.address = f)
      split == FoldLeft(LAMBDA acc, c : IF acc.ok THEN splitCallSite(acc, c.vertex) ELSE acc,
                        s, sites)
  IN  [split EXCEPT !.call_sites = SelectSeq(@, LAMBDA c : c.address # f)]

Joined(s, addr) ==
  LET j == joinCfg(s, cfgOf(addr).g)
      Put(f, v) == [a \in DOMAIN f \cup {addr} |-> IF a = addr THEN v ELSE f[a]]
  IN  [j EXCEPT !.entryOf = Put(@, j.entry_node), !.exitOf = Put(@, j.exit_node),
                !.inserted = Append(@, addr)]

(* Mutant: only the call sites to the new function are split.              *)
insertCallSite_new(s, addr) ==
  LET j == IF addr \in Range(s.inserted) THEN s ELSE Joined(s, addr)
  IN  IF j.ok THEN SplitCallSites(j, addr) ELSE j

insertCallSite(s, addr) ==
  LET j == IF addr \in Range(s.inserted) THEN s ELSE Joined(s, addr)
  IN  FoldLeft(LAMBDA acc, f : IF acc.ok THEN SplitCallSites(acc, f) ELSE acc, j, j.inserted)

NewSuper(root, c) ==
  [g |-> c.g, avMap |-> << >>, call_sites |-> c.call_sites, inserted |-> <<root>>,
   entryOf |-> << >>, exitOf |-> << >>, entry_node |-> 1, exit_node |-> 1,
   exit_found |-> FALSE, at |-> 0, next |-> 1, ok |-> TRUE]

-----------------------------------------------------------------------------
InitSuper ==
  /\ fcg = NewCallGraph
  /\ super = NewSuper(0, NewObject)
  /\ linking = "no"

(* connectFunctionCFGs; the root graph becomes the super graph.            *)
ConnectFunctions ==
  /\ parser = "parsed" /\ linking = "no"
  /\ IF ConnectAsserts THEN linking' = "aborted" /\ UNCHANGED <<fcg, super>>
     ELSE /\ fcg' = FoldLeft(LAMBDA acc, i : addFunc(acc, func_cfgs[i]), NewCallGraph,
                             getFunctionIDsCalledByStartLabel)
          /\ super' = NewSuper(program.entry, cfgOf(program.entry))
          /\ linking' = "insert"
  /\ UNCHANGED parserVars

(* One round of the loop over the functions of the call graph.             *)
InsertFunction ==
  /\ linking = "insert" /\ super.next <= Len(fcg.completed)
  /\ super' = [insertCallSite(super, fcg.completed[super.next]) EXCEPT !.next = @ + 1]
  /\ linking' = IF super'.ok THEN "insert" ELSE "aborted"
  /\ UNCHANGED <<parserVars, fcg>>

(* Every call site has to be inserted.                                     *)
SuperGraphDone ==
  /\ linking = "insert" /\ super.next > Len(fcg.completed)
  /\ linking' = IF super.call_sites = << >> THEN "done" ELSE "aborted"
  /\ UNCHANGED <<parserVars, fcg, super>>

LinkNext == ConnectFunctions \/ InsertFunction \/ SuperGraphDone

=============================================================================
