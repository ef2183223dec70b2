------------------------------ MODULE MCGraphs ------------------------------
(***************************************************************************)
(* Small memory state graphs for the model checking runs.  A graph is      *)
(* written as its sequence of edges <<from, to, type>>, in the order in    *)
(* which the graph creator adds them, and the lines of its basic blocks.   *)
(***************************************************************************)
EXTENDS Naturals, SequencesExt

CONSTANTS l1, l2, l3, l4, l5, l6,   \* the cache lines
          zero                      \* the address 0

MCLine == {l1, l2, l3, l4}

MCLineOrZero == MCLine \cup {zero}

(* Neighbouring blocks of memory hold the lines in this order.             *)
MCBlockAddr == (l1 :> 4) @@ (l2 :> 5) @@ (l3 :> 6) @@ (l4 :> 7)

MCNode == {"entry", "n1", "n2", "n3", "n4", "n5", "exit"}

(* The edge sequence es as the out and in edges of every node; the nodes   *)
(* the shape does not use are blocks without lines (call and return        *)
(* points) between the entry and the rest.                                 *)
Graph(es, lines) ==
  LET used  == {es[i][1] : i \in 1..Len(es)} \cup {es[i][2] : i \in 1..Len(es)}
      chain == <<"entry">> \o SetToSeq(MCNode \ used)
      all   == [i \in 1..Len(chain) - 1 |-> <<chain[i], chain[i + 1], "ForwardStep">>]
                 \o [i \in 1..Len(es) |->
                       IF es[i][1] = "entry"
                       THEN <<chain[Len(chain)], es[i][2], es[i][3]>> ELSE es[i]]
  IN  [out |-> [n \in MCNode |->
                  LET sel == SelectSeq(all, LAMBDA e : e[1] = n)
                  IN  [i \in 1..Len(sel) |-> [node |-> sel[i][2], type |-> sel[i][3]]]],
       in  |-> [n \in MCNode |->
                  LET sel == SelectSeq(all, LAMBDA e : e[2] = n)
                  IN  [i \in 1..Len(sel) |-> [node |-> sel[i][1], type |-> sel[i][3]]]],
       lines |-> [n \in MCNode |->
                  IF n \in DOMAIN lines THEN lines[n] ELSE << >>]]

(* if-then-else; the false branch jumps forward.                           *)
Diamond == << <<"entry", "n1", "ForwardStep">>,
              <<"n1", "n2", "ForwardStep">>, <<"n1", "n3", "ForwardJump">>,
              <<"n2", "n4", "ForwardJump">>, <<"n3", "n4", "ForwardStep">>,
              <<"n4", "exit", "ForwardStep">> >>

(* A jump table whose first entry is the block the second one falls into:  *)
(* n2 is on the worklist below n3 and above, and is processed twice.       *)
FallThrough == << <<"entry", "n1", "ForwardStep">>,
                  <<"n1", "n2", "ForwardJump">>, <<"n1", "n3", "ForwardJump">>,
                  <<"n3", "n2", "ForwardStep">>, <<"n2", "n4", "ForwardStep">>,
                  <<"n4", "exit", "ForwardStep">> >>

(* A switch of three cases that join: the recursive case of join().        *)
Switch == << <<"entry", "n1", "ForwardStep">>,
             <<"n1", "n2", "ForwardStep">>, <<"n1", "n3", "ForwardJump">>,
             <<"n1", "n4", "ForwardJump">>,
             <<"n2", "n5", "ForwardJump">>, <<"n3", "n5", "ForwardJump">>,
             <<"n4", "n5", "ForwardStep">>, <<"n5", "exit", "ForwardStep">> >>

(* What the VIVU graph creator makes of a loop with a straight body: the   *)
(* first iteration n2, the flow join node n3, the other iterations n4 with *)
(* the back edge, and the code n5 behind the loop.                         *)
StraightLoop == << <<"entry", "n1", "ForwardStep">>, <<"n1", "n2", "ForwardStep">>,
                   <<"n2", "n3", "ForwardStepUnroll">>, <<"n3", "n4", "Meta">>,
                   <<"n4", "n4", "BackwardJump">>, <<"n4", "n5", "ForwardStep">>,
                   <<"n5", "exit", "ForwardStep">> >>

Block == {<<l1>>, <<l2>>, <<l3>>, <<l1, l2>>, <<l3, l4>>}

BranchGraphs ==
  {Graph(sh, "n1" :> b1 @@ "n2" :> b2 @@ "n3" :> b3 @@ "n4" :> b4 @@
             "n5" :> (IF sh = Switch THEN <<l1>> ELSE << >>)) :
     sh \in {Diamond, FallThrough, Switch},
     b1 \in {<<l1>>, <<l1, l2>>}, b2 \in Block, b3 \in Block, b4 \in Block}

(* Code with a line at the address 0.                                      *)
ZeroBlock == {<<zero>>, <<l1>>, <<zero, l2>>}

ZeroGraphs ==
  {Graph(sh, "n1" :> b1 @@ "n2" :> b2 @@ "n3" :> b3 @@ "n4" :> b4) :
     sh \in {Diamond, FallThrough},
     b1 \in ZeroBlock, b2 \in ZeroBlock, b3 \in ZeroBlock, b4 \in ZeroBlock}
  \cup {Graph(StraightLoop, "n1" :> b1 @@ "n2" :> b2 @@ "n4" :> b2 @@ "n5" :> b5) :
          b1 \in ZeroBlock, b2 \in ZeroBlock, b5 \in ZeroBlock}

LoopGraphs ==
  {Graph(StraightLoop, "n1" :> b1 @@ "n2" :> b2 @@ "n4" :> b2 @@ "n5" :> b5) :
     b1 \in Block, b2 \in Block \cup {<<l1, l2, l3>>, <<l2, l3, l4>>},
     b5 \in Block}

(* Every acyclic shape on n1..n4 below n1, each node's successors added in *)
(* ascending or in descending order; a node without a successor leads to   *)
(* the exit.                                                               *)
Inner == <<"n1", "n2", "n3", "n4">>

AscendingPairs == << <<1, 2>>, <<1, 3>>, <<1, 4>>, <<2, 3>>, <<2, 4>>, <<3, 4>> >>

Shapes == {pairs \in SUBSET {AscendingPairs[i] : i \in 1..6} :
             \A i \in 2..4 : \E p \in pairs : p[2] = i}

ShapeEdges(pairs, order) ==
  LET inner == SelectSeq(order, LAMBDA p : p \in pairs)
      ends  == SetToSeq({i \in 1..4 : \A p \in pairs : p[1] # i})
  IN  << <<"entry", "n1", "ForwardStep">> >>
        \o [i \in 1..Len(inner) |->
              <<Inner[inner[i][1]], Inner[inner[i][2]], "ForwardJump">>]
        \o [i \in 1..Len(ends) |-> <<Inner[ends[i]], "exit", "ForwardStep">>]

ShapeGraphs ==
  {Graph(ShapeEdges(pairs, order),
         "n1" :> <<l1>> @@ "n2" :> <<l2>> @@ "n3" :> <<l3, l4>> @@ "n4" :> <<l1>>) :
     pairs \in Shapes,
     order \in {AscendingPairs, Reverse(AscendingPairs)}}

-----------------------------------------------------------------------------
(* A block laid out behind its function, reached by a forward jump, jumps  *)
(* back to n2.  The edge closes no loop, so n2 is not unrolled, but its    *)
(* type is BackwardJump all the same.                                      *)
ColdBlock == << <<"entry", "n1", "ForwardStep">>,
                <<"n1", "n2", "ForwardStep">>, <<"n1", "n3", "ForwardJump">>,
                <<"n2", "exit", "ForwardStep">>, <<"n3", "n2", "BackwardJump">> >>

ColdBlockGraphs ==
  {Graph(ColdBlock, "n1" :> <<l1>> @@ "n2" :> b2 @@ "n3" :> b3) :
     b2 \in Block, b3 \in Block}

(* Graphs in which a block is entered by a BackwardJump only.              *)
DetachedBlock == << <<"entry", "n1", "ForwardStep">>,
                    <<"n1", "n3", "ForwardJump">>, <<"n3", "n2", "BackwardJump">>,
                    <<"n2", "n4", "ForwardStep">>, <<"n4", "exit", "ForwardStep">> >>

DetachedGraphs ==
  {Graph(DetachedBlock, "n1" :> <<l1>> @@ "n3" :> b3 @@ "n2" :> b2 @@ "n4" :> <<l1>>) :
     b2 \in Block, b3 \in Block}

(* The graphs on which the worklist itself is checked.                     *)
WorklistGraphs ==
  ShapeGraphs \cup DetachedGraphs
    \cup {Graph(StraightLoop, "n1" :> <<l1, l2>> @@ "n2" :> <<l1>> @@ "n4" :> <<l1>>)}

-----------------------------------------------------------------------------
(***************************************************************************)
(* The graph the VIVU graph creator makes of a loop whose body has three   *)
(* alternatives: p precedes the loop, h is its head, a, b and c are the    *)
(* alternatives, t closes the loop, q follows it; a 1 marks the unrolled   *)
(* first iteration, a 2 the others, j is the flow join node.               *)
(***************************************************************************)
LoopLine == {l1, l2, l3, l4, l5, l6}

LoopBlockAddr ==
  (l1 :> 4) @@ (l2 :> 5) @@ (l3 :> 6) @@ (l4 :> 7) @@ (l5 :> 8) @@ (l6 :> 9)

LoopNode == {"entry", "p", "h1", "a1", "b1", "c1", "t1", "j",
             "h2", "a2", "b2", "c2", "t2", "q", "exit"}

Body(h, a, b, c, t) ==
  << <<h, a, "ForwardStep">>, <<h, b, "ForwardJump">>, <<h, c, "ForwardJump">>,
     <<a, t, "ForwardJump">>, <<b, t, "ForwardJump">>, <<c, t, "ForwardStep">> >>

LoopEdges ==
  << <<"entry", "p", "ForwardStep">>, <<"p", "h1", "ForwardStep">> >>
    \o Body("h1", "a1", "b1", "c1", "t1")
    \o << <<"t1", "j", "ForwardStepUnroll">>, <<"j", "h2", "Meta">> >>
    \o Body("h2", "a2", "b2", "c2", "t2")
    \o << <<"t2", "h2", "BackwardJump">>, <<"t2", "q", "ForwardStep">>,
          <<"q", "exit", "ForwardStep">> >>

LoopLines ==
  "p" :> <<l1>> @@ "h1" :> <<l2>> @@ "h2" :> <<l2>> @@
  "a1" :> <<l3>> @@ "a2" :> <<l3>> @@ "b1" :> <<l4>> @@ "b2" :> <<l4>> @@
  "c1" :> <<l5>> @@ "c2" :> <<l5>> @@ "t1" :> <<l6>> @@ "t2" :> <<l6>> @@
  "q" :> <<l1>> @@ "entry" :> << >> @@ "j" :> << >> @@ "exit" :> << >>

BranchingLoop ==
  {[out |-> [n \in LoopNode |->
               LET sel == SelectSeq(LoopEdges, LAMBDA e : e[1] = n)
               IN  [i \in 1..Len(sel) |-> [node |-> sel[i][2], type |-> sel[i][3]]]],
    in  |-> [n \in LoopNode |->
               LET sel == SelectSeq(LoopEdges, LAMBDA e : e[2] = n)
               IN  [i \in 1..Len(sel) |-> [node |-> sel[i][1], type |-> sel[i][3]]]],
    lines |-> LoopLines]}

=============================================================================
