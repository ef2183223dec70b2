------------------------------- MODULE CallMSG ------------------------------
(***************************************************************************)
(* The memory state graphs a D-ISP analysis reads: functions are inlined   *)
(* call by call, entry and exit nodes mark the calls, and a call context   *)
(* is the chain of open calls (graph/context_stack.cpp).                   *)
(***************************************************************************)
EXTENDS MemoryStateGraph, FunctionTable

NodeTypes == {"Entry", "Exit", "Other"}

(* The type of the CFG vertex behind a node, and the function an entry     *)
(* node enters, which is the address of the first block (getFunctionAddress*)
(* is read for entry nodes only).  `context` is no data of the code: it is *)
(* the chain of calls the graph creator copied the node for.               *)
CallGraphs ==
  [out : [Node -> Seq(Edges)], in : [Node -> Seq(Edges)],
   type : [Node -> NodeTypes], func : [Node -> Function],
   context : [Node -> Seq(Function)]]

Pop(stack) == IF stack = << >> THEN stack ELSE SubSeq(stack, 1, Len(stack) - 1)

(* The call context behind a node.                                         *)
ContextAfter(g, n, context) ==
  CASE g.type[n] = "Entry" -> Append(context, g.func[n])
    [] g.type[n] = "Exit"  -> Pop(context)
    [] OTHER               -> context

(* What the D-ISP is asked for behind a node of the graph: the function    *)
(* called or the one returned to, if any.                                  *)
CalledAt(g, n) ==
  IF g.type[n] = "Entry" THEN <<g.func[n]>>
  ELSE IF g.type[n] = "Exit" /\ Pop(g.context[n]) # << >>
  THEN <<Pop(g.context[n])[Len(g.context[n]) - 1]>>
  ELSE << >>

FunctionsCalled(g) == [n \in Node |-> CalledAt(g, n)]

(* Functions are inlined call by call: every edge stays in the context of  *)
(* its source, but for those behind entry and exit nodes; an entry has one *)
(* edge, to the first block; a node behind an entry or an exit has no      *)
(* other forward edge into it; what is not the entry lies in a function,   *)
(* and the exit is that of the first one called.  (That the forward edges  *)
(* form no cycle is only needed for the analysis to end.)                  *)
IsCallGraph(g) ==
  /\ g \in CallGraphs
  /\ IsFlowGraph(g)
  /\ g.type[Entry] = "Entry"
  /\ g.type[Exit] = "Exit"
  /\ g.context[Entry] = << >>
  /\ Pop(g.context[Exit]) = << >>
  /\ \A n \in Node : \A i \in 1..Len(g.out[n]) :
       g.context[g.out[n][i].node] = ContextAfter(g, n, g.context[n])
  /\ \A n \in Node :
       /\ g.type[n] = "Entry" => Len(g.out[n]) = 1
       /\ n # Entry => g.context[n] # << >>
       /\ \A i \in 1..Len(ForwardEdges(g.in[n])) :
            g.type[ForwardEdges(g.in[n])[i]] # "Other" =>
              Len(ForwardEdges(g.in[n])) = 1

=============================================================================
