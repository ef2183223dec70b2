------------------------------- MODULE MCCallGraphs ----------------------------
(***************************************************************************)
(* Small memory state graphs with calls for the D-ISP runs.  A graph is    *)
(* written as its edges <<from, to, type>> and the functions its entry     *)
(* nodes enter, which give every node its call chain.                      *)
(***************************************************************************)
EXTENDS Integers, SequencesExt

CONSTANTS main, f, g, h, k,   \* the functions
          zero                \* the address 0

MCFunction == {main, f, g, h, k}

(* In blocks of two bytes the functions take 2, 4, 2, 2 and 10 bytes.      *)
Sizes == (main :> 2) @@ (f :> 3) @@ (g :> 1) @@ (h :> 2) @@ (k :> 9)

Nodes == <<"entry", "a", "e1", "b1", "x1", "r1", "e2", "b2", "x2", "r2",
           "j", "l", "e3", "b3", "x3", "r3", "e4", "b4", "x4", "r4",
           "e5", "b5", "x5", "r5", "exit">>

MCNode == ToSet(Nodes)

EntryNodes == {"entry", "e1", "e2", "e3", "e4", "e5"}
ExitNodes  == {"exit", "x1", "x2", "x3", "x4", "x5"}

Step(n, m) == <<n, m, "ForwardStep">>

Path(nodes) == [i \in 1..Len(nodes) - 1 |-> Step(nodes[i], nodes[i + 1])]

(* The graph of an edge sequence; the nodes it does not use are blocks     *)
(* between the entry and the rest.                                         *)
CallGraph(es, func) ==
  LET used == {es[i][1] : i \in 1..Len(es)} \cup {es[i][2] : i \in 1..Len(es)}
      chain == <<"entry">> \o SelectSeq(Nodes, LAMBDA n : n \notin used)
      all   == Path(chain)
                 \o [i \in 1..Len(es) |->
                       IF es[i][1] = "entry"
                       THEN <<chain[Len(chain)], es[i][2], es[i][3]>> ELSE es[i]]
      type(n) == IF n \notin used THEN "Other"
                 ELSE IF n \in EntryNodes THEN "Entry"
                 ELSE IF n \in ExitNodes THEN "Exit" ELSE "Other"
      calls == [n \in MCNode |-> IF n \in DOMAIN func THEN func[n] ELSE main]
      (* The call chains that reach the nodes within some steps.           *)
      reach[s \in 0..Cardinality(MCNode)] ==
        IF s = 0 THEN ("entry" :> << >>)
        ELSE LET known == reach[s - 1]
                 new == {i \in 1..Len(all) : all[i][1] \in DOMAIN known
                                              /\ all[i][2] \notin DOMAIN known}
                 after(i) ==
                   LET n == all[i][1]
                   IN  CASE type(n) = "Entry" -> Append(known[n], calls[n])
                         [] type(n) = "Exit"  -> Front(known[n])
                         [] OTHER             -> known[n]
             IN  [n \in DOMAIN known \cup {all[i][2] : i \in new} |->
                    IF n \in DOMAIN known THEN known[n]
                    ELSE after(CHOOSE i \in new : all[i][2] = n)]
  IN  [out |-> [n \in MCNode |->
                  LET sel == SelectSeq(all, LAMBDA e : e[1] = n)
                  IN  [i \in 1..Len(sel) |-> [node |-> sel[i][2], type |-> sel[i][3]]]],
       in  |-> [n \in MCNode |->
                  LET sel == SelectSeq(all, LAMBDA e : e[2] = n)
                  IN  [i \in 1..Len(sel) |-> [node |-> sel[i][1], type |-> sel[i][3]]]],
       type |-> [n \in MCNode |-> type(n)],
       func |-> calls,
       context |-> reach[Cardinality(MCNode)]]

(* if-then-else with two calls in each branch, and a call behind it.       *)
Alternatives ==
  Path(<<"entry", "a", "e1", "b1", "x1", "r1", "e2", "b2", "x2", "r2", "j",
         "e3", "b3", "x3", "r3", "exit">>)
    \o Path(<<"a", "e4", "b4", "x4", "r4", "e5", "b5", "x5", "r5", "j">>)

(* A function that calls another one or not, and a call behind it.         *)
Nested ==
  Path(<<"entry", "a", "e1", "b1", "e2", "b2", "x2", "r2", "j", "x1", "r1",
         "e3", "b3", "x3", "r3", "exit">>)
    \o <<Step("b1", "j")>>

(* A loop with two calls in its body, and a call behind it.                *)
CallLoop ==
  Path(<<"entry", "a", "e1", "b1", "x1", "r1", "e2", "b2", "x2", "r2", "j", "l",
         "e3", "b3", "x3", "r3", "e4", "b4", "x4", "r4",
         "e5", "b5", "x5", "r5", "exit">>)
    \o << <<"r4", "l", "BackwardJump">> >>

Callees == {f, g, h, k}

SingleReturnGraphs ==
  {CallGraph(Alternatives,
             "e1" :> c1 @@ "e2" :> c2 @@ "e3" :> c3 @@ "e4" :> c4 @@ "e5" :> c5) :
     c1 \in Callees, c2 \in Callees, c3 \in Callees, c4 \in Callees, c5 \in Callees}
  \cup {CallGraph(Nested, "e1" :> c1 @@ "e2" :> c2 @@ "e3" :> c3) :
          c1 \in Callees, c2 \in Callees, c3 \in Callees}
  \cup {CallGraph(CallLoop,
                  "e1" :> c1 @@ "e2" :> c2 @@ "e3" :> c1 @@ "e4" :> c2 @@ "e5" :> c3) :
          c1 \in Callees, c2 \in Callees, c3 \in Callees}

(* A function with a return in each branch: both lead to its one exit node.*)
TwoReturns ==
  Path(<<"entry", "a", "e1", "b1", "x1", "r1", "exit">>) \o Path(<<"b1", "j", "x1">>)

TwoReturnGraphs == {CallGraph(TwoReturns, "e1" :> c) : c \in Callees}

(* A function whose return block is entered by a jump backwards only, from *)
(* a block laid out behind it; the function has called another one.        *)
DetachedReturn ==
  Path(<<"entry", "a", "e1", "b1", "e2", "b2", "x2", "r2">>)
    \o << <<"r2", "l", "ForwardJump">>, <<"l", "j", "BackwardJump">> >>
    \o Path(<<"j", "x1", "r1", "exit">>)

DetachedReturnGraphs ==
  {CallGraph(DetachedReturn, "e1" :> c1 @@ "e2" :> c2) : c1 \in Callees, c2 \in Callees}

AllCallGraphs == SingleReturnGraphs \cup TwoReturnGraphs \cup DetachedReturnGraphs
=============================================================================
