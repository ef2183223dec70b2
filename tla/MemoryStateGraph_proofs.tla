---------------------- MODULE MemoryStateGraph_proofs -----------------------
(***************************************************************************)
(* What the filter of the forward edges returns, for every edge sequence.  *)
(***************************************************************************)
EXTENDS MemoryStateGraph, TLAPS, WellFoundedInduction

-----------------------------------------------------------------------------
(***************************************************************************)
(* The recursive functions of the specifications fold a step over the      *)
(* elements of a sequence.  Such a definition stands for a function only   *)
(* if one satisfies its equation; here it is shown that one does.          *)
(***************************************************************************)

(* A nonempty set of natural numbers has a least element.                  *)
LEMMA LeastNatural ==
  ASSUME NEW S \in SUBSET Nat, S # {}
  PROVE  \E m \in S : \A k \in S : m <= k
<1>1. IsWellFoundedOn(OpToRel(<, Nat), Nat)
  BY NatLessThanWellFounded
<1>2. PICK m \in S : \A k \in S : <<k, m>> \notin OpToRel(<, Nat)
  BY <1>1, WFMin
<1>3. \A k \in S : ~(k < m)
  BY <1>2 DEF OpToRel
<1> QED BY <1>3

(* Induction, for a property given as the set of numbers that have it.     *)
LEMMA SetInduction ==
  ASSUME NEW S \in SUBSET Nat, 0 \in S, \A n \in S : n + 1 \in S
  PROVE  S = Nat
<1> SUFFICES ASSUME Nat \ S # {} PROVE FALSE
  OBVIOUS
<1>1. PICK m \in Nat \ S : \A k \in Nat \ S : m <= k
  BY LeastNatural
<1>2. m # 0 /\ m - 1 \in Nat /\ m - 1 \in S
  BY <1>1
<1> QED BY <1>1, <1>2

(* f goes from x0 through the steps a + 1 to n.                             *)
IsTrace(f, x0, a, n, step) ==
  f[a] = x0 /\ \A k \in a + 1 .. n : f[k] = step[<<k, f[k - 1]>>]

(* A trace of the states of a fold over the positions after a exists.      *)
THEOREM TraceExists ==
  \A S, x0, a, n, step :
    /\ x0 \in S
    /\ a \in Nat /\ n \in Nat /\ a <= n
    /\ step \in [(a + 1 .. n) \X S -> S]
    => \E f \in [a..n -> S] : IsTrace(f, x0, a, n, step)
<1> SUFFICES ASSUME NEW S, NEW x0 \in S, NEW a \in Nat, NEW n \in Nat, a <= n,
                    NEW step \in [(a + 1 .. n) \X S -> S]
             PROVE  \E f \in [a..n -> S] : IsTrace(f, x0, a, n, step)
  OBVIOUS
<1> DEFINE Trace(m, f) == /\ f \in [a .. a + m -> S]
                          /\ f[a] = x0
                          /\ \A k \in a + 1 .. a + m : f[k] = step[<<k, f[k - 1]>>]
           Reached == {m \in Nat : a + m <= n => \E f \in [a .. a + m -> S] : Trace(m, f)}
<1>1. 0 \in Reached
  <2> DEFINE f == [i \in a .. a + 0 |-> x0]
  <2>1. Trace(0, f)
    OBVIOUS
  <2> QED BY <2>1
<1>2. ASSUME NEW m \in Reached PROVE m + 1 \in Reached
  <2> SUFFICES ASSUME a + (m + 1) <= n
               PROVE  \E f \in [a .. a + (m + 1) -> S] : Trace(m + 1, f)
    OBVIOUS
  <2>1. PICK f \in [a .. a + m -> S] : Trace(m, f)
    OBVIOUS
  <2> DEFINE last == a + (m + 1)
             g == [i \in a .. last |-> IF i = last THEN step[<<last, f[last - 1]>>] ELSE f[i]]
  <2>2. last - 1 \in a .. a + m /\ last \in a + 1 .. n
    OBVIOUS
  <2>3. step[<<last, f[last - 1]>>] \in S
    BY <2>1, <2>2
  <2>4. g \in [a .. last -> S]
    BY <2>1, <2>3
  <2>5. g[a] = x0
    BY <2>1
  <2>6. ASSUME NEW k \in a + 1 .. last PROVE g[k] = step[<<k, g[k - 1]>>]
    <3>1. CASE k = last
      <4>1. last - 1 \in a .. last /\ last - 1 # last
        OBVIOUS
      <4>2. g[last - 1] = f[last - 1]
        BY <4>1
      <4>3. g[last] = step[<<last, f[last - 1]>>]
        BY <2>2
      <4> HIDE DEF g
      <4> QED BY <3>1, <4>2, <4>3
    <3>2. CASE k # last
      BY <3>2, <2>1
    <3> QED BY <3>1, <3>2
  <2> QED BY <2>4, <2>5, <2>6
<1>3. Reached = Nat
  <2> HIDE DEF Reached
  <2>1. Reached \in SUBSET Nat  BY DEF Reached
  <2> QED BY <1>1, <1>2, <2>1, SetInduction
<1>4. n - a \in Nat /\ a + (n - a) = n
  OBVIOUS
<1>5. n - a \in Reached
  <2> HIDE DEF Reached
  <2> QED BY <1>3, <1>4
<1>6. PICK f \in [a .. n -> S] : Trace(n - a, f)
  BY <1>4, <1>5
<1> QED BY <1>4, <1>6 DEF IsTrace

(* The same for a fold that starts from a state of its own, ...             *)
COROLLARY FoldExists ==
  ASSUME NEW S, NEW x0 \in S, NEW n \in Nat, NEW step \in [(1..n) \X S -> S]
  PROVE  \E f \in [0..n -> S] : IsTrace(f, x0, 0, n, step)
<1>1. step \in [(0 + 1 .. n) \X S -> S] /\ 0 \in Nat /\ 0 <= n
  OBVIOUS
<1> QED BY <1>1, TraceExists

(* ... and for one that starts from the first element.                     *)
COROLLARY FoldExistsFrom1 ==
  ASSUME NEW S, NEW x0 \in S, NEW n \in Nat, 1 <= n, NEW step \in [(2..n) \X S -> S]
  PROVE  \E f \in [1..n -> S] : IsTrace(f, x0, 1, n, step)
<1>1. step \in [(1 + 1 .. n) \X S -> S] /\ 1 \in Nat
  OBVIOUS
<1> QED BY <1>1, TraceExists


-----------------------------------------------------------------------------

(* The filter of the edges is the last state of a trace of appends.        *)
LEMMA ForwardEdgesTrace ==
  ASSUME NEW edges \in Seq(Edges)
  PROVE  \E f \in [0..Len(edges) -> Seq(Node)] :
           /\ f[0] = << >>
           /\ \A k \in 1..Len(edges) :
                f[k] = IF edges[k].type = "BackwardJump" THEN f[k - 1]
                       ELSE Append(f[k - 1], edges[k].node)
           /\ ForwardEdges(edges) = f[Len(edges)]
<1> DEFINE n == Len(edges)
           Op(k, s) == IF edges[k].type = "BackwardJump" THEN s
                       ELSE Append(s, edges[k].node)
           step == [p \in (1..n) \X Seq(Node) |-> Op(p[1], p[2])]
           Eq(f) == f = [i \in 0..n |-> IF i = 0 THEN << >> ELSE Op(i, f[i - 1])]
           g == CHOOSE g : Eq(g)
<1>1. n \in Nat /\ << >> \in Seq(Node)
  OBVIOUS
<1>2. step \in [(1..n) \X Seq(Node) -> Seq(Node)]
  <2>1. ASSUME NEW k \in 1..n, NEW s \in Seq(Node) PROVE Op(k, s) \in Seq(Node)
    <3>1. edges[k] \in Edges
      OBVIOUS
    <3>2. edges[k].node \in Node
      BY <3>1 DEF Edges
    <3> QED BY <3>2
  <2> HIDE DEF Op
  <2> QED BY <2>1
<1>3. PICK f \in [0..n -> Seq(Node)] : IsTrace(f, << >>, 0, n, step)
  <2> HIDE DEF step, n
  <2> QED BY <1>1, <1>2, FoldExists
<1>4. \A k \in 1..n : f[k] = Op(k, f[k - 1])
  <2> TAKE k \in 1..n
  <2>1. k - 1 \in 0..n /\ f[k - 1] \in Seq(Node)
    BY <1>1
  <2>2. <<k, f[k - 1]>> \in (1..n) \X Seq(Node)
    BY <2>1
  <2>3. f[k] = step[<<k, f[k - 1]>>]
    <3> HIDE DEF step, n
    <3> QED BY <1>3 DEF IsTrace
  <2> HIDE DEF n, Op
  <2> QED BY <2>2, <2>3
<1>5. Eq(f)
  <2>1. f[0] = << >>
    BY <1>3 DEF IsTrace
  <2>2. \A i \in 0..n : f[i] = IF i = 0 THEN << >> ELSE Op(i, f[i - 1])
    <3> TAKE i \in 0..n
    <3>1. i = 0 \/ i \in 1..n
      BY <1>1
    <3> HIDE DEF Op, n
    <3> QED BY <1>4, <2>1, <3>1
  <2> HIDE DEF Op, n
  <2> QED BY <2>2
<1>6. Eq(g)
  BY <1>5
<1>7. \A k \in 0..n : g[k] = f[k]
  <2> DEFINE Same == {k \in Nat : k \in 0..n => g[k] = f[k]}
  <2> HIDE DEF g
  <2>1. 0 \in Same
    BY <1>1, <1>3, <1>6 DEF IsTrace
  <2>2. ASSUME NEW k \in Same PROVE k + 1 \in Same
    <3> SUFFICES ASSUME k + 1 \in 0..n PROVE g[k + 1] = f[k + 1]
      OBVIOUS
    <3>1. g[k] = f[k] /\ k + 1 # 0 /\ (k + 1) - 1 = k /\ k + 1 \in 1..n
      BY <1>1
    <3>2. g[k + 1] = Op(k + 1, g[k])
      BY <1>6, <3>1
    <3> HIDE DEF Op
    <3> QED BY <3>1, <3>2, <1>4
  <2>3. Same \in SUBSET Nat
    OBVIOUS
  <2>4. Same = Nat
    <3> HIDE DEF Same
    <3> QED BY <2>1, <2>2, <2>3, SetInduction
  <2> QED BY <2>4, <1>1
<1>8. ForwardEdges(edges) = g[n]
  BY DEF ForwardEdges
<1>9. f[0] = << >>
  BY <1>3 DEF IsTrace
<1> HIDE DEF g
<1>10. \A k \in 1..Len(edges) :
         f[k] = IF edges[k].type = "BackwardJump" THEN f[k - 1]
                ELSE Append(f[k - 1], edges[k].node)
  BY <1>4
<1>11. ForwardEdges(edges) = f[Len(edges)]
  BY <1>1, <1>7, <1>8
<1>12. f \in [0..Len(edges) -> Seq(Node)]
  OBVIOUS
<1> HIDE DEF n
<1> QED BY <1>9, <1>10, <1>11, <1>12, Zenon

(* The forward edges are the edges that are not BackwardJump, no more and  *)
(* no less.                                                                *)
LEMMA ForwardEdgesMembers ==
  ASSUME NEW edges \in Seq(Edges)
  PROVE  /\ ForwardEdges(edges) \in Seq(Node)
         /\ \A n \in Node :
              (\E i \in 1..Len(ForwardEdges(edges)) : ForwardEdges(edges)[i] = n)
                <=> HasForwardEdge(edges, n)
<1>1. PICK f \in [0..Len(edges) -> Seq(Node)] :
        /\ f[0] = << >>
        /\ \A k \in 1..Len(edges) :
             f[k] = IF edges[k].type = "BackwardJump" THEN f[k - 1]
                    ELSE Append(f[k - 1], edges[k].node)
        /\ ForwardEdges(edges) = f[Len(edges)]
  BY ForwardEdgesTrace
<1> DEFINE Holds(s, n) == \E i \in 1..Len(s) : s[i] = n
           Before(k, n) == \E i \in 1..k : edges[i].type # "BackwardJump" /\ edges[i].node = n
           Good == {k \in Nat : k \in 0..Len(edges) =>
                                  \A n \in Node : Holds(f[k], n) <=> Before(k, n)}
<1>2. Len(edges) \in Nat
  OBVIOUS
<1>3. 0 \in Good
  BY <1>1
<1>4. ASSUME NEW k \in Good PROVE k + 1 \in Good
  <2> SUFFICES ASSUME k + 1 \in 0..Len(edges), NEW n \in Node
               PROVE  Holds(f[k + 1], n) <=> Before(k + 1, n)
    OBVIOUS
  <2>1. /\ k \in 0..Len(edges) /\ k + 1 \in 1..Len(edges) /\ (k + 1) - 1 = k
        /\ f[k] \in Seq(Node)
    BY <1>1, <1>2
  <2>2. Holds(f[k], n) <=> Before(k, n)
    BY <2>1
  <2>3. edges[k + 1].node \in Node
    <3>1. edges[k + 1] \in Edges
      BY <2>1
    <3> QED BY <3>1 DEF Edges
  <2>4. Before(k + 1, n) <=> \/ Before(k, n)
                             \/ edges[k + 1].type # "BackwardJump" /\ edges[k + 1].node = n
    BY <2>1
  <2>5. CASE edges[k + 1].type = "BackwardJump"
    <3>1. f[k + 1] = f[k]
      BY <1>1, <2>1, <2>5
    <3> QED BY <2>2, <2>4, <2>5, <3>1
  <2>6. CASE edges[k + 1].type # "BackwardJump"
    <3>1. f[k + 1] = Append(f[k], edges[k + 1].node)
      BY <1>1, <2>1, <2>6
    <3>2. Holds(f[k + 1], n) <=> Holds(f[k], n) \/ edges[k + 1].node = n
      BY <3>1, <2>1, <2>3
    <3> HIDE DEF Holds, Before
    <3> QED BY <2>2, <2>4, <2>6, <3>2
  <2> QED BY <2>5, <2>6
<1>5. Good = Nat
  <2>1. Good \in SUBSET Nat
    OBVIOUS
  <2> HIDE DEF Good
  <2> QED BY <1>3, <1>4, <2>1, SetInduction
<1>6. \A n \in Node : Holds(f[Len(edges)], n) <=> Before(Len(edges), n)
  BY <1>2, <1>5
<1> QED BY <1>1, <1>2, <1>6 DEF HasForwardEdge

-----------------------------------------------------------------------------
(***************************************************************************)
(* What the graph assumptions say of the forward edges of a node.          *)
(***************************************************************************)

(* A concatenation holds what its parts hold.                              *)
LEMMA ConcatMembers ==
  ASSUME NEW s \in Seq(Node), NEW t \in Seq(Node), NEW x \in Node
  PROVE  (\E i \in 1..Len(s \o t) : (s \o t)[i] = x)
           <=> (\E i \in 1..Len(s) : s[i] = x) \/ (\E i \in 1..Len(t) : t[i] = x)
<1>1. ASSUME NEW i \in 1..Len(s \o t), (s \o t)[i] = x
      PROVE  (\E j \in 1..Len(s) : s[j] = x) \/ (\E j \in 1..Len(t) : t[j] = x)
  <2>1. CASE i <= Len(s)
    BY <1>1, <2>1
  <2>2. CASE i > Len(s)
    <3>1. i - Len(s) \in 1..Len(t) /\ t[i - Len(s)] = x
      BY <1>1, <2>2
    <3> QED BY <3>1
  <2> QED BY <2>1, <2>2
<1>2. ASSUME NEW j \in 1..Len(s), s[j] = x
      PROVE  \E i \in 1..Len(s \o t) : (s \o t)[i] = x
  <2>1. j \in 1..Len(s \o t) /\ (s \o t)[j] = x
    BY <1>2
  <2> QED BY <2>1
<1>3. ASSUME NEW j \in 1..Len(t), t[j] = x
      PROVE  \E i \in 1..Len(s \o t) : (s \o t)[i] = x
  <2>1. Len(s) + j \in 1..Len(s \o t) /\ (s \o t)[Len(s) + j] = x
    BY <1>3
  <2> QED BY <2>1
<1> QED BY <1>1, <1>2, <1>3

(* A stack without its top.                                                *)
LEMMA SequenceBelow ==
  ASSUME NEW S, NEW s \in Seq(S), s # << >>
  PROVE  /\ SubSeq(s, 1, Len(s) - 1) \in Seq(S)
         /\ Len(SubSeq(s, 1, Len(s) - 1)) = Len(s) - 1
         /\ \A i \in 1..Len(SubSeq(s, 1, Len(s) - 1)) : SubSeq(s, 1, Len(s) - 1)[i] = s[i]
<1> DEFINE n == Len(s) - 1
<1>1. n \in Nat /\ n < Len(s)
  OBVIOUS
<1> HIDE DEF n
<1>2. \A i \in 1..n : i \in 1..Len(s) /\ s[i] \in S
  BY <1>1
<1>3. SubSeq(s, 1, n) = [i \in 1..n |-> s[i]]
  BY <1>1
<1>4. SubSeq(s, 1, n) \in Seq(S) /\ Len(SubSeq(s, 1, n)) = n
  BY <1>1, <1>2, <1>3
<1>5. \A i \in 1..n : SubSeq(s, 1, n)[i] = s[i]
  BY <1>3
<1> QED BY <1>4, <1>5 DEF n

(* The in and out edges agree, nothing enters the entry or leaves the      *)
(* exit along a forward edge.                                              *)
LEMMA FlowGraphFacts ==
  ASSUME NEW g, IsFlowGraph(g)
  PROVE  /\ \A n \in Node : ForwardEdges(g.in[n]) \in Seq(Node)
         /\ \A n \in Node : ForwardEdges(g.out[n]) \in Seq(Node)
         /\ \A n, m \in Node :
              (\E i \in 1..Len(ForwardEdges(g.in[n])) : ForwardEdges(g.in[n])[i] = m)
                <=> HasForwardEdge(g.in[n], m)
         /\ \A n, m \in Node :
              (\E i \in 1..Len(ForwardEdges(g.out[n])) : ForwardEdges(g.out[n])[i] = m)
                <=> HasForwardEdge(g.in[m], n)
         /\ Len(ForwardEdges(g.in[Entry])) = 0
         /\ \A n \in Node : ~HasForwardEdge(g.in[n], Exit)
<1>1. \A n \in Node : g.in[n] \in Seq(Edges) /\ g.out[n] \in Seq(Edges)
  BY DEF IsFlowGraph
<1>2. \A n, m \in Node : HasForwardEdge(g.out[n], m) <=> HasForwardEdge(g.in[m], n)
  BY DEF IsFlowGraph
<1>3. ASSUME NEW n \in Node PROVE ~HasForwardEdge(g.in[n], Exit)
  <2>1. ~HasForwardEdge(g.out[Exit], n)
    <3>1. g.out[Exit] = << >>
      BY DEF IsFlowGraph
    <3> QED BY <3>1 DEF HasForwardEdge
  <2> QED BY <1>2, <2>1, EndsAssumption
<1>4. Len(ForwardEdges(g.in[Entry])) = 0
  <2> DEFINE edges == ForwardEdges(g.in[Entry])
  <2>1. g.in[Entry] = << >>
    BY DEF IsFlowGraph
  <2>2. Entry \in Node
    BY EndsAssumption
  <2>3. \A n \in Node : ~HasForwardEdge(g.in[Entry], n)
    BY <2>1 DEF HasForwardEdge
  <2>4. edges \in Seq(Node)
    BY <1>1, <2>2, ForwardEdgesMembers
  <2>5. \A i \in 1..Len(edges) : FALSE
    BY <1>1, <2>2, <2>3, <2>4, ForwardEdgesMembers
  <2> HIDE DEF edges
  <2>6. Len(edges) = 0
    BY <2>4, <2>5
  <2> QED BY <2>6 DEF edges
<1> QED BY <1>1, <1>2, <1>3, <1>4, ForwardEdgesMembers

(* Nor does an edge of a code graph lead back to its own node.             *)
LEMMA CodeGraphFacts ==
  ASSUME NEW Addr, NEW g, IsCodeGraph(g, Addr)
  PROVE  /\ g \in CodeGraphs(Addr)
         /\ \A n \in Node : ForwardEdges(g.in[n]) \in Seq(Node)
         /\ \A n \in Node : ForwardEdges(g.out[n]) \in Seq(Node)
         /\ \A n, m \in Node :
              (\E i \in 1..Len(ForwardEdges(g.in[n])) : ForwardEdges(g.in[n])[i] = m)
                <=> HasForwardEdge(g.in[n], m)
         /\ \A n, m \in Node :
              (\E i \in 1..Len(ForwardEdges(g.out[n])) : ForwardEdges(g.out[n])[i] = m)
                <=> HasForwardEdge(g.in[m], n)
         /\ Len(ForwardEdges(g.in[Entry])) = 0
         /\ \A n \in Node : ~HasForwardEdge(g.in[n], n)
         /\ \A n \in Node : ~HasForwardEdge(g.in[n], Exit)
         /\ \A n \in Node : g.lines[n] \in Seq(Addr)
<1>1. g \in CodeGraphs(Addr) /\ IsFlowGraph(g)
  BY DEF IsCodeGraph, IsFlowGraph, ForwardAcyclic
<1>2. \A n \in Node : g.lines[n] \in Seq(Addr)
  BY <1>1 DEF CodeGraphs
<1>3. ASSUME NEW n \in Node PROVE ~HasForwardEdge(g.in[n], n)
  <2>1. {n} \in (SUBSET Node) \ {{}}
    OBVIOUS
  <2>2. \E k \in {n} : \A m \in {n} : ~HasForwardEdge(g.in[k], m)
    BY <2>1 DEF IsCodeGraph, IsFlowGraph, ForwardAcyclic
  <2> QED BY <2>2
<1> QED BY <1>1, <1>2, <1>3, FlowGraphFacts

-----------------------------------------------------------------------------
(***************************************************************************)
(* What the memory is asked for along a chain of nodes, part by part.      *)
(***************************************************************************)
LEMMA LinesAlongTrace ==
  ASSUME NEW S, NEW lines \in [Node -> Seq(S)], NEW chain \in Seq(Node)
  PROVE  /\ LinesAlong(lines, chain) \in [0..Len(chain) -> Seq(S)]
         /\ LinesAlong(lines, chain)[0] = << >>
         /\ \A k \in 1..Len(chain) :
              LinesAlong(lines, chain)[k] = LinesAlong(lines, chain)[k - 1] \o lines[chain[k]]
<1> DEFINE n == Len(chain)
           More(w, k) == w \o lines[chain[k]]
           step == [p \in (1..n) \X Seq(S) |-> More(p[2], p[1])]
           Eq(f) == f = [i \in 0..n |-> IF i = 0 THEN << >> ELSE More(f[i - 1], i)]
<1>1. n \in Nat /\ << >> \in Seq(S)
  OBVIOUS
<1>2. step \in [(1..n) \X Seq(S) -> Seq(S)]
  <2>1. \A k \in 1..n : lines[chain[k]] \in Seq(S)
    OBVIOUS
  <2>2. \A k \in 1..n, w \in Seq(S) : More(w, k) \in Seq(S)
    BY <2>1
  <2> HIDE DEF n, More
  <2> QED BY <2>2
<1> HIDE DEF More
<1>3. PICK f \in [0..n -> Seq(S)] : IsTrace(f, << >>, 0, n, step)
  <2> HIDE DEF step, n
  <2> QED BY <1>1, <1>2, FoldExists
<1>4. \A k \in 1..n : f[k] = More(f[k - 1], k)
  <2> TAKE k \in 1..n
  <2>1. k - 1 \in 0..n /\ f[k - 1] \in Seq(S)
    <3> HIDE DEF n
    <3> QED BY <1>1
  <2>2. <<k, f[k - 1]>> \in (1..n) \X Seq(S)
    BY <2>1
  <2>3. f[k] = step[<<k, f[k - 1]>>]
    <3> HIDE DEF step, n
    <3> QED BY <1>3 DEF IsTrace
  <2> HIDE DEF n
  <2> QED BY <2>2, <2>3
<1>5. Eq(f)
  BY <1>3, <1>4 DEF IsTrace
<1> DEFINE h == CHOOSE h : Eq(h)
<1>6. LinesAlong(lines, chain) = h /\ Eq(h)
  BY <1>5 DEF LinesAlong, More
<1> HIDE DEF h
<1>7. \A k \in 0..n : h[k] = f[k]
  <2> DEFINE Same == {k \in Nat : k \in 0..n => h[k] = f[k]}
  <2>1. 0 \in Same
    BY <1>3, <1>6 DEF IsTrace
  <2>2. ASSUME NEW k \in Same PROVE k + 1 \in Same
    <3> SUFFICES ASSUME k + 1 \in 0..n PROVE h[k + 1] = f[k + 1]
      OBVIOUS
    <3>1. h[k] = f[k] /\ k + 1 # 0 /\ (k + 1) - 1 = k /\ k + 1 \in 1..n
      BY <1>1
    <3>2. h[k + 1] = More(h[k], k + 1)
      BY <1>6, <3>1
    <3> QED BY <3>1, <3>2, <1>4
  <2>3. Same \in SUBSET Nat
    OBVIOUS
  <2>4. Same = Nat
    <3> HIDE DEF Same
    <3> QED BY <2>1, <2>2, <2>3, SetInduction
  <2> QED BY <2>4, <1>1
<1>8. h \in [0..n -> Seq(S)]
  BY <1>6, <1>7
<1>9. h[0] = << >> /\ \A k \in 1..n : h[k] = More(h[k - 1], k)
  <2> HIDE DEF n
  <2>1. 0 \in 0..n /\ \A k \in 1..n : k \in 0..n /\ k # 0
    BY <1>1
  <2> QED BY <1>6, <2>1
<1> QED BY <1>6, <1>8, <1>9 DEF More

(* A part is the beginning of what it is continued to.                     *)
LEMMA ConcatParts ==
  ASSUME NEW S, NEW s \in Seq(S), NEW t \in Seq(S)
  PROVE  /\ s \o t \in Seq(S) /\ Len(s \o t) = Len(s) + Len(t)
         /\ Len(s) \in Nat /\ Len(t) \in Nat /\ Len(s \o t) \in Nat
         /\ Len(s) <= Len(s \o t)
         /\ \A q \in 1..Len(s) : (s \o t)[q] = s[q]
         /\ \A q \in 1..Len(t) : Len(s) + q \in 1..Len(s \o t) /\ (s \o t)[Len(s) + q] = t[q]
OBVIOUS

(* All of it, and how much of it comes before the i-th node.               *)
LinesOf(lines, chain) == LinesAlong(lines, chain)[Len(chain)]

LinesBefore(lines, chain, i) == Len(LinesAlong(lines, chain)[i - 1])

(* The lines of a node stand in those of the chain behind the lines of the *)
(* nodes before.                                                           *)
LEMMA LinesOfChain ==
  ASSUME NEW S, NEW lines \in [Node -> Seq(S)], NEW chain \in Seq(Node), NEW i \in 1..Len(chain)
  PROVE  /\ LinesOf(lines, chain) \in Seq(S)
         /\ LinesBefore(lines, chain, i) \in Nat /\ LinesBefore(lines, chain, 1) = 0
         /\ Len(lines[chain[i]]) \in Nat
         /\ LinesBefore(lines, chain, i) + Len(lines[chain[i]]) <= Len(LinesOf(lines, chain))
         /\ i < Len(chain) =>
              LinesBefore(lines, chain, i + 1)
                = LinesBefore(lines, chain, i) + Len(lines[chain[i]])
         /\ i = Len(chain) =>
              Len(LinesOf(lines, chain)) = LinesBefore(lines, chain, i) + Len(lines[chain[i]])
         /\ \A k \in 1..Len(lines[chain[i]]) :
              LinesOf(lines, chain)[LinesBefore(lines, chain, i) + k] = lines[chain[i]][k]
<1> DEFINE n == Len(chain)
           along == LinesAlong(lines, chain)
           part(k) == lines[chain[k]]
           More(w, k) == w \o part(k)
<1>1. n \in Nat /\ i \in Nat /\ 1 <= i /\ i <= n /\ i - 1 \in 0..n /\ i \in 1..n /\ n \in 0..n
  OBVIOUS
<1>2. /\ along \in [0..n -> Seq(S)] /\ along[0] = << >>
      /\ \A k \in 1..n : along[k] = More(along[k - 1], k)
  BY LinesAlongTrace
<1>3. \A k \in 1..n : part(k) \in Seq(S)
  OBVIOUS
<1> HIDE DEF along, part, n
<1>4. \A k \in 1..n, w \in Seq(S) :
        /\ More(w, k) \in Seq(S) /\ Len(More(w, k)) = Len(w) + Len(part(k))
        /\ Len(w) \in Nat /\ Len(part(k)) \in Nat /\ Len(More(w, k)) \in Nat
        /\ Len(w) <= Len(More(w, k))
        /\ \A q \in 1..Len(w) : More(w, k)[q] = w[q]
        /\ \A q \in 1..Len(part(k)) :
             Len(w) + q \in 1..Len(More(w, k)) /\ More(w, k)[Len(w) + q] = part(k)[q]
  <2> TAKE k \in 1..n, w \in Seq(S)
  <2>1. part(k) \in Seq(S)
    BY <1>3
  <2> QED BY <2>1, ConcatParts
<1> HIDE DEF More
<1>5. \A k \in 0..n : along[k] \in Seq(S) /\ Len(along[k]) \in Nat
  <2> TAKE k \in 0..n
  <2>1. along[k] \in Seq(S)
    BY <1>2
  <2> QED BY <2>1
<1> DEFINE Part(j, m) == /\ Len(along[j]) <= Len(along[m])
                         /\ \A q \in 1..Len(along[j]) : along[m][q] = along[j][q]
           Good == {m \in Nat : m <= n => \A j \in 0..m : Part(j, m)}
<1>6. 0 \in Good
  <2>1. \A j \in 0..0 : j = 0
    OBVIOUS
  <2>2. Len(along[0]) <= Len(along[0])
    BY <1>1, <1>5
  <2> QED BY <2>1, <2>2
<1>7. ASSUME NEW m \in Good PROVE m + 1 \in Good
  <2> SUFFICES ASSUME m + 1 <= n, NEW j \in 0..m + 1 PROVE Part(j, m + 1)
    OBVIOUS
  <2>1. /\ m \in 0..n /\ m + 1 \in 1..n /\ m + 1 \in 0..n /\ (m + 1) - 1 = m /\ m <= n
        /\ m \in Nat
    BY <1>1
  <2>2. Part(m, m + 1)
    <3>1. along[m + 1] = More(along[m], m + 1)
      BY <1>2, <2>1
    <3> QED BY <1>4, <1>5, <2>1, <3>1
  <2>3. CASE j = m + 1
    <3>1. Len(along[m + 1]) <= Len(along[m + 1])
      BY <1>5, <2>1
    <3> QED BY <2>3, <3>1
  <2>4. CASE j \in 0..m
    <3>1. Part(j, m)
      BY <2>1, <2>4
    <3>2. j \in 0..n
      BY <1>1, <2>1, <2>4
    <3>3. Len(along[j]) \in Nat /\ Len(along[m]) \in Nat /\ Len(along[m + 1]) \in Nat
      BY <1>5, <2>1, <3>2
    <3>4. \A q \in 1..Len(along[j]) : q \in 1..Len(along[m])
      BY <3>1, <3>3
    <3>5. Len(along[j]) <= Len(along[m + 1])
      BY <2>2, <3>1, <3>3
    <3> QED BY <2>2, <3>1, <3>4, <3>5
  <2>5. j = m + 1 \/ j \in 0..m
    BY <2>1
  <2> QED BY <2>3, <2>4, <2>5
<1>8. Good = Nat
  <2>1. Good \in SUBSET Nat
    OBVIOUS
  <2> HIDE DEF Good
  <2> QED BY <1>6, <1>7, <2>1, SetInduction
<1>9. Part(i, n)
  <2>1. n <= n /\ i \in 0..n
    BY <1>1
  <2>2. n \in Good
    <3> HIDE DEF Good
    <3> QED BY <1>1, <1>8
  <2> HIDE DEF Part
  <2> QED BY <2>1, <2>2
<1>10. /\ along[i] = More(along[i - 1], i)
       /\ Len(along[i]) = Len(along[i - 1]) + Len(part(i))
       /\ Len(along[i - 1]) \in Nat /\ Len(part(i)) \in Nat /\ Len(along[i]) \in Nat
       /\ \A q \in 1..Len(part(i)) :
            /\ Len(along[i - 1]) + q \in 1..Len(along[i])
            /\ along[i][Len(along[i - 1]) + q] = part(i)[q]
  <2> DEFINE Grown(w, v) ==
        /\ Len(v) = Len(w) + Len(part(i))
        /\ Len(w) \in Nat /\ Len(part(i)) \in Nat /\ Len(v) \in Nat
        /\ \A q \in 1..Len(part(i)) :
             /\ Len(w) + q \in 1..Len(v)
             /\ v[Len(w) + q] = part(i)[q]
  <2>1. along[i] = More(along[i - 1], i)
    BY <1>1, <1>2
  <2>2. along[i - 1] \in Seq(S)
    BY <1>1, <1>5
  <2>3. Grown(along[i - 1], More(along[i - 1], i))
    <3> HIDE DEF n
    <3> QED BY <1>1, <1>4, <2>2
  <2>4. Grown(along[i - 1], along[i])
    <3> HIDE DEF Grown
    <3> QED BY <2>1, <2>3
  <2> HIDE DEF n
  <2> QED BY <2>1, <2>4
<1>11. LinesOf(lines, chain) = along[n] /\ LinesBefore(lines, chain, i) = Len(along[i - 1])
       /\ LinesBefore(lines, chain, 1) = Len(along[0])
       /\ LinesBefore(lines, chain, i + 1) = Len(along[i])
  <2>1. (i + 1) - 1 = i /\ 1 - 1 = 0
    <3>1. i \in Nat
      BY <1>1
    <3> HIDE DEF along, part, n, More, Part
    <3> QED BY <3>1
  <2>2. LinesOf(lines, chain) = along[n]
    BY DEF LinesOf, along, n
  <2>3. \A k : LinesBefore(lines, chain, k) = Len(along[k - 1])
    BY DEF LinesBefore, along
  <2> HIDE DEF along, n
  <2> QED BY <2>1, <2>2, <2>3
<1>12. Len(along[0]) = 0 /\ along[n] \in Seq(S)
  BY <1>1, <1>2, <1>5
<1>13. \A q \in 1..Len(part(i)) : along[n][Len(along[i - 1]) + q] = part(i)[q]
  BY <1>9, <1>10
<1>14. Len(along[i]) <= Len(along[n])
  BY <1>9
<1> HIDE DEF Part
<1> QED BY <1>1, <1>10, <1>11, <1>12, <1>13, <1>14 DEF part, n

=============================================================================
