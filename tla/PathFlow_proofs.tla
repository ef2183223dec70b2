--------------------------- MODULE PathFlow_proofs --------------------------
(***************************************************************************)
(* Every path of a graph solves the flow problem that is stated for it, and*)
(* costs what the objective says: the estimate covers all paths.  The time *)
(* an ARMv6-M takes for a path is no more than the path costs: so the      *)
(* estimate covers the time of every execution.                            *)
(***************************************************************************)
EXTENDS TimedPath, TLAPS, FiniteSetTheorems, SequenceTheorems, WellFoundedInduction

-----------------------------------------------------------------------------
(* Induction, for a property given as the set of what has it: over the     *)
(* numbers, ...                                                            *)
LEMMA SetInduction ==
  ASSUME NEW S \in SUBSET Nat, 0 \in S, \A n \in S : n + 1 \in S
  PROVE  S = Nat
<1> SUFFICES ASSUME Nat \ S # {} PROVE FALSE
  OBVIOUS
<1>1. IsWellFoundedOn(OpToRel(<, Nat), Nat)
  BY NatLessThanWellFounded
<1>2. PICK m \in Nat \ S : \A k \in Nat \ S : <<k, m>> \notin OpToRel(<, Nat)
  BY <1>1, WFMin
<1>3. m \in Nat \ S /\ \A k \in Nat \ S : ~(k < m)
  BY <1>2 DEF OpToRel
<1>4. m # 0 /\ m - 1 \in Nat /\ m - 1 < m
  BY <1>3
<1>5. m - 1 \in S
  BY <1>3, <1>4
<1> QED BY <1>4, <1>5

(* ... and over the subsets of a finite set, an element more at a time.    *)
LEMMA SubsetInduction ==
  ASSUME NEW E, IsFiniteSet(E), NEW P \in SUBSET (SUBSET E), {} \in P,
         \A S \in SUBSET E : S # {} /\ (\A x \in S : S \ {x} \in P) => S \in P
  PROVE  P = SUBSET E
<1> DEFINE Sizes == {m \in Nat : \A S \in SUBSET E : Cardinality(S) = m => S \in P}
<1>1. 0 \in Sizes
  BY FS_Subset, FS_EmptySet
<1>2. ASSUME NEW m \in Sizes PROVE m + 1 \in Sizes
  <2> SUFFICES ASSUME NEW S \in SUBSET E, Cardinality(S) = m + 1 PROVE S \in P
    OBVIOUS
  <2>1. IsFiniteSet(S) /\ m \in Nat
    BY FS_Subset
  <2>2. S # {}
    BY <2>1, FS_EmptySet
  <2>3. ASSUME NEW x \in S PROVE S \ {x} \in P
    <3>1. Cardinality(S \ {x}) = Cardinality(S) - 1
      BY <2>1, FS_RemoveElement
    <3>2. Cardinality(S \ {x}) = m /\ S \ {x} \in SUBSET E
      BY <2>1, <3>1
    <3> QED BY <3>2
  <2> QED BY <2>2, <2>3
<1>3. Sizes = Nat
  <2> HIDE DEF Sizes
  <2>1. Sizes \in SUBSET Nat  BY DEF Sizes
  <2> QED BY <1>1, <1>2, <2>1, SetInduction
<1>4. ASSUME NEW S \in SUBSET E PROVE S \in P
  <2>1. Cardinality(S) \in Nat
    BY FS_Subset, FS_CardinalityType
  <2> QED BY <1>3, <2>1
<1> QED BY <1>4

-----------------------------------------------------------------------------
(* The flow over a set of edges: nothing for none, and the flow on some    *)
(* edge more than that on the others.                                      *)
Some(S) == CHOOSE e \in S : TRUE

LEMMA SumStep ==
  ASSUME NEW E, IsFiniteSet(E), NEW f \in [E -> Int]
  PROVE  /\ \A S \in SUBSET E : FlowOver(f, S) \in Int
         /\ FlowOver(f, {}) = 0
         /\ \A S \in SUBSET E : S # {} =>
              FlowOver(f, S) = f[Some(S)] + FlowOver(f, S \ {Some(S)})
<1> DEFINE Body(S, g) == IF S = {} THEN 0 ELSE f[Some(S)] + g[S \ {Some(S)}]
           IsIter(S, g) == g = [T \in SUBSET S |-> Body(T, g)]
<1>0. \A S : S # {} => Some(S) \in S
  BY DEF Some
<1>1. ASSUME NEW S PROVE FlowOver(f, S) = (CHOOSE g : IsIter(S, g))[S]
  BY DEF FlowOver, MapThenSumSet, MapThenFoldSet, Some
<1>2. ASSUME NEW S \in SUBSET E
      PROVE  \E t \in [SUBSET S -> Int] :
               /\ \A T \in SUBSET S : t[T] = Body(T, t)
               /\ FlowOver(f, S) = t[S]
  <2> DEFINE Upto(m, g) == \A T \in SUBSET S : Cardinality(T) <= m => g[T] = Body(T, g)
             Exists(m) == \E g \in [SUBSET S -> Int] : Upto(m, g)
             Good == {m \in Nat : Exists(m)}
  <2>1. ASSUME NEW T \in SUBSET S, T # {}
        PROVE  /\ f[Some(T)] \in Int
               /\ T \ {Some(T)} \in SUBSET S
               /\ Cardinality(T) \in Nat /\ Cardinality(T \ {Some(T)}) = Cardinality(T) - 1
    <3>1. Some(T) \in T /\ IsFiniteSet(T)
      BY <1>0, <2>1, FS_Subset
    <3>2. Cardinality(T) \in Nat /\ Cardinality(T \ {Some(T)}) = Cardinality(T) - 1
      BY <3>1, FS_RemoveElement, FS_CardinalityType
    <3> QED BY <3>1, <3>2
  <2>2. ASSUME NEW g \in [SUBSET S -> Int], NEW T \in SUBSET S PROVE Body(T, g) \in Int
    <3>1. CASE T = {}
      BY <3>1
    <3>2. CASE T # {}
      <4>1. f[Some(T)] \in Int /\ g[T \ {Some(T)}] \in Int
        BY <2>1, <3>2
      <4> QED BY <3>2, <4>1
    <3> QED BY <3>1, <3>2
  <2>3. ASSUME NEW T \in SUBSET S, Cardinality(T) <= 0 PROVE T = {}
    BY <2>3, FS_Subset, FS_EmptySet, FS_CardinalityType
  <2>4. 0 \in Good
    <3> DEFINE g == [T \in SUBSET S |-> 0]
    <3>1. g \in [SUBSET S -> Int] /\ Upto(0, g)
      BY <2>3
    <3> HIDE DEF g, Upto
    <3> QED BY <3>1
  <2>5. ASSUME NEW m \in Good PROVE m + 1 \in Good
    <3>1. m \in Nat /\ Exists(m)
      OBVIOUS
    <3> HIDE DEF Upto
    <3>2. PICK g \in [SUBSET S -> Int] : Upto(m, g)
      BY <3>1
    <3> DEFINE h == [T \in SUBSET S |-> Body(T, g)]
    <3>3. h \in [SUBSET S -> Int]
      BY <2>2
    <3>4. ASSUME NEW T \in SUBSET S, Cardinality(T) <= m + 1 PROVE h[T] = Body(T, h)
      <4>1. CASE T = {}
        BY <4>1
      <4>2. CASE T # {}
        <5> DEFINE R == T \ {Some(T)}
        <5>1. R \in SUBSET S /\ Cardinality(R) <= m
          BY <2>1, <3>1, <3>4, <4>2
        <5> HIDE DEF R
        <5>2. g[R] = h[R]
          BY <3>2, <5>1 DEF Upto
        <5> QED BY <4>2, <5>2 DEF R
      <4> QED BY <4>1, <4>2
    <3>5. Upto(m + 1, h)
      BY <3>4 DEF Upto
    <3> HIDE DEF h
    <3> QED BY <3>1, <3>3, <3>5
  <2>6. Good = Nat
    <3> HIDE DEF Good
    <3>1. Good \in SUBSET Nat  BY DEF Good
    <3> QED BY <2>4, <2>5, <3>1, SetInduction
  <2>7. IsFiniteSet(S) /\ Cardinality(S) \in Nat
    BY FS_Subset, FS_CardinalityType
  <2> HIDE DEF Upto
  <2>8. PICK g \in [SUBSET S -> Int] : Upto(Cardinality(S), g)
    <3>1. Cardinality(S) \in Good
      BY <2>6, <2>7
    <3> QED BY <3>1
  <2>9. \A T \in SUBSET S : Cardinality(T) <= Cardinality(S)
    BY <2>7, FS_Subset
  <2>10. IsIter(S, g)
    BY <2>8, <2>9 DEF Upto
  <2> DEFINE iter == CHOOSE x : IsIter(S, x)
  <2>11. IsIter(S, iter)
    BY <2>10
  <2>12. FlowOver(f, S) = iter[S]
    BY <1>1
  <2> HIDE DEF iter
  <2>13. \A T \in SUBSET S : iter[T] = Body(T, iter)
    BY <2>11
  <2>14. iter = [T \in SUBSET S |-> iter[T]]
    BY <2>11
  <2> DEFINE Typed == {T \in SUBSET S : iter[T] \in Int}
  <2>15. Typed = SUBSET S
    <3>1. {} \in Typed
      <4>1. iter[{}] = Body({}, iter)
        BY <2>13
      <4> QED BY <4>1
    <3>2. ASSUME NEW T \in SUBSET S, T # {}, \A x \in T : T \ {x} \in Typed PROVE T \in Typed
      <4>1. iter[T] = f[Some(T)] + iter[T \ {Some(T)}]
        BY <2>13, <3>2
      <4>2. f[Some(T)] \in Int /\ iter[T \ {Some(T)}] \in Int
        BY <1>0, <3>2
      <4> QED BY <4>1, <4>2
    <3> HIDE DEF Typed
    <3>3. Typed \in SUBSET (SUBSET S)  BY DEF Typed
    <3> QED BY <2>7, <3>1, <3>2, <3>3, SubsetInduction
  <2>16. iter \in [SUBSET S -> Int]
    BY <2>14, <2>15
  <2> QED BY <2>12, <2>13, <2>16
<1>3. ASSUME NEW S \in SUBSET E PROVE FlowOver(f, S) \in Int
  <2>1. PICK t \in [SUBSET S -> Int] : FlowOver(f, S) = t[S]
    BY <1>2
  <2> QED BY <2>1
<1>4. FlowOver(f, {}) = 0
  BY <1>2
<1>5. ASSUME NEW S \in SUBSET E, S # {}
      PROVE  FlowOver(f, S) = f[Some(S)] + FlowOver(f, S \ {Some(S)})
  <2> DEFINE R == S \ {Some(S)}
  <2>1. PICK t \in [SUBSET S -> Int] :
          (\A T \in SUBSET S : t[T] = Body(T, t)) /\ FlowOver(f, S) = t[S]
    BY <1>2
  <2>2. R \in SUBSET E /\ R \in SUBSET S /\ IsFiniteSet(R)
    BY FS_Subset
  <2>3. FlowOver(f, S) = f[Some(S)] + t[R]
    BY <1>5, <2>1
  <2> HIDE DEF R
  <2>4. PICK u \in [SUBSET R -> Int] :
          (\A T \in SUBSET R : u[T] = Body(T, u)) /\ FlowOver(f, R) = u[R]
    BY <1>2, <2>2
  <2> DEFINE Same == {T \in SUBSET R : t[T] = u[T]}
  <2>5. {} \in Same
    BY <2>1, <2>4
  <2>6. ASSUME NEW T \in SUBSET R, T # {}, \A x \in T : T \ {x} \in Same PROVE T \in Same
    <3>1. t[T \ {Some(T)}] = u[T \ {Some(T)}]
      BY <1>0, <2>6
    <3>2. t[T] = Body(T, t) /\ u[T] = Body(T, u)
      BY <2>1, <2>2, <2>4
    <3> QED BY <2>6, <3>1, <3>2
  <2>7. Same = SUBSET R
    <3> HIDE DEF Same
    <3>1. Same \in SUBSET (SUBSET R) /\ IsFiniteSet(R)
      BY <2>2 DEF Same
    <3>2. \A T \in SUBSET R : T # {} /\ (\A x \in T : T \ {x} \in Same) => T \in Same
      BY <2>6
    <3> QED BY <2>5, <3>1, <3>2, SubsetInduction
  <2>8. t[R] = u[R]
    BY <2>7
  <2> QED BY <2>3, <2>4, <2>8 DEF R
<1> QED BY <1>3, <1>4, <1>5

LEMMA SumSame ==
  ASSUME NEW D, IsFiniteSet(D), NEW f \in [D -> Int],
         NEW E, IsFiniteSet(E), NEW g \in [E -> Int],
         NEW S \in SUBSET D, S \in SUBSET E, \A e \in S : f[e] = g[e]
  PROVE  FlowOver(f, S) = FlowOver(g, S)
<1> DEFINE Same == {T \in SUBSET S : FlowOver(f, T) = FlowOver(g, T)}
<1>1. {} \in Same
  BY SumStep
<1>2. ASSUME NEW T \in SUBSET S, T # {}, \A x \in T : T \ {x} \in Same PROVE T \in Same
  <2>1. Some(T) \in T
    BY <1>2 DEF Some
  <2>2. FlowOver(f, T) = f[Some(T)] + FlowOver(f, T \ {Some(T)})
    BY <1>2, SumStep
  <2>3. FlowOver(g, T) = g[Some(T)] + FlowOver(g, T \ {Some(T)})
    BY <1>2, SumStep
  <2> QED BY <1>2, <2>1, <2>2, <2>3
<1>3. Same = SUBSET S
  <2> HIDE DEF Same
  <2>1. Same \in SUBSET (SUBSET S) /\ IsFiniteSet(S)
    BY FS_Subset DEF Same
  <2>2. \A T \in SUBSET S : T # {} /\ (\A x \in T : T \ {x} \in Same) => T \in Same
    BY <1>2
  <2> QED BY <1>1, <2>1, <2>2, SubsetInduction
<1> QED BY <1>3

LEMMA SumTake ==
  ASSUME NEW E, IsFiniteSet(E), NEW f \in [E -> Int], NEW S \in SUBSET E, NEW x \in S
  PROVE  FlowOver(f, S) = f[x] + FlowOver(f, S \ {x})
<1> DEFINE Good == {T \in SUBSET E : \A y \in T : FlowOver(f, T) = f[y] + FlowOver(f, T \ {y})}
<1>1. {} \in Good
  OBVIOUS
<1>2. ASSUME NEW T \in SUBSET E, T # {}, \A y \in T : T \ {y} \in Good PROVE T \in Good
  <2> SUFFICES ASSUME NEW y \in T PROVE FlowOver(f, T) = f[y] + FlowOver(f, T \ {y})
    OBVIOUS
  <2> HIDE DEF Good
  <2>0. PICK c : c = Some(T)
    OBVIOUS
  <2>1. c \in T
    BY <1>2, <2>0 DEF Some
  <2>2. FlowOver(f, T) = f[c] + FlowOver(f, T \ {c})
    BY <1>2, <2>0, SumStep
  <2>3. CASE y # c
    <3>1. FlowOver(f, T \ {c}) = f[y] + FlowOver(f, (T \ {c}) \ {y})
      <4>1. T \ {c} \in Good /\ y \in T \ {c}
        BY <1>2, <2>1, <2>3
      <4> QED BY <4>1 DEF Good
    <3>2. FlowOver(f, T \ {y}) = f[c] + FlowOver(f, (T \ {y}) \ {c})
      <4>1. T \ {y} \in Good /\ c \in T \ {y}
        BY <1>2, <2>1, <2>3
      <4> QED BY <4>1 DEF Good
    <3>3. (T \ {c}) \ {y} = (T \ {y}) \ {c}
      OBVIOUS
    <3>4. FlowOver(f, (T \ {c}) \ {y}) \in Int /\ f[y] \in Int /\ f[c] \in Int
      BY <2>1, SumStep
    <3>5. \A a, b, i, j, l, m \in Int :
            (l = a + i /\ i = b + m /\ j = a + m) => l = b + j
      OBVIOUS
    <3>6. FlowOver(f, T) \in Int /\ FlowOver(f, T \ {c}) \in Int /\ FlowOver(f, T \ {y}) \in Int
      BY SumStep
    <3>7. FlowOver(f, T \ {y}) = f[c] + FlowOver(f, (T \ {c}) \ {y})
      BY <3>2, <3>3
    <3> QED BY <2>2, <3>1, <3>4, <3>5, <3>6, <3>7
  <2>4. CASE y = c
    BY <2>2, <2>4
  <2> QED BY <2>3, <2>4
<1>3. Good = SUBSET E
  <2> HIDE DEF Good
  <2>1. Good \in SUBSET (SUBSET E)
    BY DEF Good
  <2>2. \A T \in SUBSET E : T # {} /\ (\A y \in T : T \ {y} \in Good) => T \in Good
    BY <1>2
  <2> QED BY <1>1, <2>1, <2>2, SubsetInduction
<1> QED BY <1>3

LEMMA SumZero ==
  ASSUME NEW E, IsFiniteSet(E), NEW f \in [E -> Int], NEW S \in SUBSET E, \A e \in S : f[e] = 0
  PROVE  FlowOver(f, S) = 0
<1> DEFINE Good == {T \in SUBSET S : FlowOver(f, T) = 0}
<1>1. {} \in Good
  BY SumStep
<1>2. ASSUME NEW T \in SUBSET S, T # {}, \A x \in T : T \ {x} \in Good PROVE T \in Good
  <2>1. Some(T) \in T
    BY <1>2 DEF Some
  <2>2. FlowOver(f, T) = f[Some(T)] + FlowOver(f, T \ {Some(T)})
    BY <1>2, SumStep
  <2> QED BY <1>2, <2>1, <2>2
<1>3. Good = SUBSET S
  <2> HIDE DEF Good
  <2>1. Good \in SUBSET (SUBSET S) /\ IsFiniteSet(S)
    BY FS_Subset DEF Good
  <2>2. \A T \in SUBSET S : T # {} /\ (\A x \in T : T \ {x} \in Good) => T \in Good
    BY <1>2
  <2> QED BY <1>1, <2>1, <2>2, SubsetInduction
<1> QED BY <1>3

LEMMA SumOne ==
  ASSUME NEW E, IsFiniteSet(E), NEW f \in [E -> Int], NEW x \in E
  PROVE  FlowOver(f, {x}) = f[x]
<1>1. FlowOver(f, {x}) = f[x] + FlowOver(f, {x} \ {x})
  BY SumTake
<1>2. {x} \ {x} = {} /\ FlowOver(f, {}) = 0 /\ f[x] \in Int
  BY SumStep
<1> QED BY <1>1, <1>2

(* More on one edge is as much more over every set the edge is in.         *)
LEMMA SumMore ==
  ASSUME NEW E, IsFiniteSet(E), NEW f \in [E -> Int], NEW g \in [E -> Int], NEW e \in E,
         \A x \in E \ {e} : g[x] = f[x], NEW S \in SUBSET E
  PROVE  FlowOver(g, S) = FlowOver(f, S) + (IF e \in S THEN g[e] - f[e] ELSE 0)
<1>1. FlowOver(f, S) \in Int
  BY SumStep
<1>2. CASE e \notin S
  <2>1. FlowOver(g, S) = FlowOver(f, S)
    BY <1>2, SumSame
  <2> QED BY <1>1, <1>2, <2>1
<1>3. CASE e \in S
  <2>1. FlowOver(f, S) = f[e] + FlowOver(f, S \ {e})
    BY <1>3, SumTake
  <2>2. FlowOver(g, S) = g[e] + FlowOver(g, S \ {e})
    BY <1>3, SumTake
  <2>3. FlowOver(g, S \ {e}) = FlowOver(f, S \ {e})
    BY SumSame
  <2>4. FlowOver(f, S \ {e}) \in Int /\ f[e] \in Int /\ g[e] \in Int
    BY SumStep
  <2> QED BY <1>3, <2>1, <2>2, <2>3, <2>4
<1> QED BY <1>2, <1>3

-----------------------------------------------------------------------------
(* The edges of the vertices, without and with the back edge.              *)
LEMMA EdgeSets ==
  ASSUME NEW g, IsProblemGraph(g)
  PROVE  /\ Len(g.edges) \in Nat /\ IsFiniteSet(1..Len(g.edges))
         /\ \A e \in 1..Len(g.edges) : g.edges[e] \in Edge
         /\ \A v : /\ EdgesInto(g, v) \in SUBSET (1..Len(g.edges))
                  /\ EdgesFrom(g, v) \in SUBSET (1..Len(g.edges))
                  /\ \A e \in 1..Len(g.edges) : /\ e \in EdgesInto(g, v) <=> v = g.edges[e].dst
                                                /\ e \in EdgesFrom(g, v) <=> v = g.edges[e].src
         /\ EdgesFrom(g, Exit) = {}
<1>1. g.edges \in Seq(Edge) /\ \A e \in 1..Len(g.edges) : g.edges[e].src # Exit
  BY DEF IsProblemGraph
<1>2. Len(g.edges) \in Nat /\ IsFiniteSet(1..Len(g.edges))
  <2>1. Len(g.edges) \in Nat
    BY <1>1
  <2> QED BY <2>1, FS_Interval
<1> QED BY <1>1, <1>2 DEF EdgesInto, EdgesFrom

LEMMA BackEdge ==
  ASSUME NEW g, IsProblemGraph(g)
  PROVE  LET n == Len(g.edges)
             p == addBackEdge(g, Entry, Exit)
         IN  /\ p.nodes = g.nodes
             /\ Len(p.edges) = n + 1
             /\ \A e \in 1..n : p.edges[e] = g.edges[e]
             /\ p.edges[n + 1].cost = 0 /\ p.edges[n + 1].pen = 0
             /\ \A v : /\ EdgesInto(p, v) = EdgesInto(g, v) \cup (IF v = Entry THEN {n + 1} ELSE {})
                      /\ EdgesFrom(p, v) = EdgesFrom(g, v) \cup (IF v = Exit THEN {n + 1} ELSE {})
<1> DEFINE n == Len(g.edges)
           p == addBackEdge(g, Entry, Exit)
           b == [src |-> Exit, dst |-> Entry, type |-> "InductingBackEdge", circ |-> -1, capl |-> 0,
                 caph |-> 0, flow |-> -1, cost |-> 0, pen |-> 0]
<1>1. g.edges \in Seq(Edge) /\ g = [nodes |-> g.nodes, edges |-> g.edges] /\ n \in Nat
  BY DEF IsProblemGraph
<1>2. p.nodes = g.nodes /\ p.edges = Append(g.edges, b)
  <2>1. p = addEdge(g, Exit, Entry, "InductingBackEdge")
    BY EdgeSets DEF addBackEdge
  <2> QED BY <1>1, <2>1 DEF addEdge
<1> HIDE DEF p
<1>3. Len(p.edges) = n + 1 /\ (\A e \in 1..n : p.edges[e] = g.edges[e]) /\ p.edges[n + 1] = b
  <2> HIDE DEF b
  <2> SUFFICES ASSUME NEW s, s \in Seq(Edge), NEW c
               PROVE  /\ Len(Append(s, c)) = Len(s) + 1 /\ Append(s, c)[Len(s) + 1] = c
                      /\ \A e \in 1..Len(s) : Append(s, c)[e] = s[e]
    BY <1>1, <1>2
  <2> QED OBVIOUS
<1>4. p.edges[n + 1].src = Exit /\ p.edges[n + 1].dst = Entry
  BY <1>3
<1>5. p.edges[n + 1].cost = 0 /\ p.edges[n + 1].pen = 0
  BY <1>3
<1> HIDE DEF b
<1>6. 1..(n + 1) = 1..n \cup {n + 1} /\ n + 1 \notin 1..n
  BY <1>1
<1>7. ASSUME NEW v PROVE EdgesInto(p, v) = EdgesInto(g, v) \cup (IF v = Entry THEN {n + 1} ELSE {})
  BY <1>3, <1>4, <1>6 DEF EdgesInto
<1>8. ASSUME NEW v PROVE EdgesFrom(p, v) = EdgesFrom(g, v) \cup (IF v = Exit THEN {n + 1} ELSE {})
  BY <1>3, <1>4, <1>6 DEF EdgesFrom
<1> QED BY <1>2, <1>3, <1>5, <1>7, <1>8 DEF p

-----------------------------------------------------------------------------
(* How often a call is open.                                               *)
Times(s, x) == Cardinality({i \in 1..Len(s) : s[i] = x})

LEMMA TimesPushed ==
  ASSUME NEW S, NEW s \in Seq(S), NEW y \in S, NEW x
  PROVE  /\ Times(s, x) \in Nat
         /\ Append(s, y) \in Seq(S)
         /\ Times(Append(s, y), x) = Times(s, x) + (IF x = y THEN 1 ELSE 0)
<1> DEFINE n == Len(s)
           t == Append(s, y)
           A == {i \in 1..n : s[i] = x}
           B == {i \in 1..Len(t) : t[i] = x}
<1>1. n \in Nat /\ Len(t) = n + 1 /\ (\A i \in 1..n : t[i] = s[i]) /\ t[n + 1] = y
  OBVIOUS
<1>2. t \in Seq(S)
  OBVIOUS
<1> HIDE DEF t
<1>3. IsFiniteSet(A)
  <2>1. A \in SUBSET (1..n) /\ IsFiniteSet(1..n)
    BY <1>1, FS_Interval
  <2> QED BY <2>1, FS_Subset
<1>4. B = IF x = y THEN A \cup {n + 1} ELSE A
  <2>1. 1..(n + 1) = 1..n \cup {n + 1} /\ n + 1 \notin 1..n
    BY <1>1
  <2> QED BY <1>1, <2>1
<1>5. n + 1 \notin A
  BY <1>1
<1>6. Cardinality(A) \in Nat
  BY <1>3, FS_CardinalityType
<1> HIDE DEF A, B
<1>7. Cardinality(B) = Cardinality(A) + (IF x = y THEN 1 ELSE 0)
  <2>1. Cardinality(A \cup {n + 1}) = Cardinality(A) + 1
    BY <1>3, <1>5, FS_AddElement
  <2> QED BY <1>4, <1>6, <2>1
<1> QED BY <1>2, <1>6, <1>7 DEF Times, t, A, B

LEMMA TimesPopped ==
  ASSUME NEW S, NEW s \in Seq(S), s # << >>, NEW x
  PROVE  /\ Front(s) \in Seq(S)
         /\ Times(s, x) = Times(Front(s), x) + (IF x = Last(s) THEN 1 ELSE 0)
<1>1. Front(s) \in Seq(S) /\ Last(s) \in S
  BY DEF Front, Last
<1>2. s = Append(Front(s), Last(s))
  <2>1. Len(s) \in Nat /\ Len(s) >= 1 /\ Len(Front(s)) = Len(s) - 1
    <3>1. Len(s) \in Nat /\ Len(s) # 0
      OBVIOUS
    <3>2. Len(s) - 1 \in Nat /\ Len(s) >= 1
      BY <3>1
    <3>3. Len(SubSeq(s, 1, Len(s) - 1)) = Len(s) - 1
      <4>1. Len(s) - 1 \in Int /\ 1 \in Int /\ \A i \in 1..(Len(s) - 1) : s[i] \in S
        BY <3>1, <3>2
      <4>2. Len(SubSeq(s, 1, Len(s) - 1)) = IF 1 <= Len(s) - 1 THEN (Len(s) - 1) - 1 + 1 ELSE 0
        BY <4>1, SubSeqProperties
      <4>3. \A l \in Nat : l # 0 => (IF 1 <= l - 1 THEN (l - 1) - 1 + 1 ELSE 0) = l - 1
        OBVIOUS
      <4> QED BY <3>1, <4>2, <4>3
    <3> QED BY <3>1, <3>2, <3>3 DEF Front
  <2>2. \A i \in 1..(Len(s) - 1) : Front(s)[i] = s[i]
    BY <2>1 DEF Front
  <2>3. Append(Front(s), Last(s)) \in Seq(S) /\ Len(Append(Front(s), Last(s))) = Len(s)
    BY <1>1, <2>1
  <2>4. ASSUME NEW i \in 1..Len(s) PROVE Append(Front(s), Last(s))[i] = s[i]
    <3>1. CASE i = Len(s)
      BY <1>1, <2>1, <3>1 DEF Last
    <3>2. CASE i # Len(s)
      <4>1. i \in 1..(Len(s) - 1)
        BY <2>1, <3>2
      <4> QED BY <1>1, <2>1, <2>2, <4>1
    <3> QED BY <3>1, <3>2
  <2> QED BY <2>3, <2>4
<1>3. Times(Append(Front(s), Last(s)), x) = Times(Front(s), x) + (IF x = Last(s) THEN 1 ELSE 0)
  BY <1>1, TimesPushed
<1> QED BY <1>1, <1>2, <1>3

-----------------------------------------------------------------------------
(* What holds of a path all the way: what has come into a vertex has left  *)
(* it, but where the path is now, and a call has returned as often as it   *)
(* was made, but for the ones still open.                                  *)
OneIf(b) == IF b THEN 1 ELSE 0

Contexts(g) == {CallOf(g.nodes[v]) : v \in 1..Len(g.nodes)}

IsWalk(g, w) ==
  /\ w.node \in 1..Len(g.nodes)
  /\ w.calls \in Seq(Contexts(g))
  /\ w.flow \in [1..Len(g.edges) -> Nat]

Conserves(g, w) ==
  \A v \in 1..Len(g.nodes) :
    FlowOver(w.flow, EdgesInto(g, v)) + OneIf(v = Entry) =
      FlowOver(w.flow, EdgesFrom(g, v)) + OneIf(v = w.node)

CallsAreOpen(g, w) ==
  \A c \in VerticesOf(g, "CallPoint"), r \in VerticesOf(g, "ReturnPoint") :
    SameContext(g, c, r) =>
      FlowOver(w.flow, EdgesInto(g, c)) =
        FlowOver(w.flow, EdgesInto(g, r)) + Times(w.calls, CallOf(g.nodes[c]))

LEMMA CountOne ==
  ASSUME NEW E, IsFiniteSet(E), NEW f \in [E -> Nat], NEW g \in [E -> Nat], NEW e \in E,
         g[e] = f[e] + 1, \A x \in E \ {e} : g[x] = f[x], NEW S \in SUBSET E
  PROVE  FlowOver(f, S) \in Int /\ FlowOver(g, S) = FlowOver(f, S) + OneIf(e \in S)
<1>1. f \in [E -> Int] /\ g \in [E -> Int]
  OBVIOUS
<1>2. FlowOver(g, S) = FlowOver(f, S) + (IF e \in S THEN g[e] - f[e] ELSE 0)
  BY <1>1, SumMore
<1>3. FlowOver(f, S) \in Int
  BY <1>1, SumStep
<1>4. g[e] - f[e] = 1
  OBVIOUS
<1> QED BY <1>2, <1>3, <1>4 DEF OneIf

LEMMA BegunHolds ==
  ASSUME NEW g, IsProblemGraph(g)
  PROVE  IsWalk(g, Begun(g)) /\ Conserves(g, Begun(g)) /\ CallsAreOpen(g, Begun(g))
<1> DEFINE w == Begun(g)
<1>1. w.node = Entry /\ w.calls = << >> /\ w.flow = [e \in 1..Len(g.edges) |-> 0]
  BY DEF Begun
<1> HIDE DEF w
<1>2. IsWalk(g, w)
  BY <1>1 DEF IsWalk, IsProblemGraph
<1>3. \A v : FlowOver(w.flow, EdgesInto(g, v)) = 0 /\ FlowOver(w.flow, EdgesFrom(g, v)) = 0
  BY <1>1, EdgeSets, SumZero
<1>4. Conserves(g, w)
  BY <1>1, <1>3 DEF Conserves
<1>5. \A x : Times(w.calls, x) = 0
  BY <1>1, FS_EmptySet DEF Times
<1>6. CallsAreOpen(g, w)
  BY <1>3, <1>5 DEF CallsAreOpen
<1> QED BY <1>2, <1>4, <1>6 DEF w

LEMMA FollowHolds ==
  ASSUME NEW g, IsProblemGraph(g), NEW w, IsWalk(g, w), Conserves(g, w), CallsAreOpen(g, w),
         NEW e \in EdgesFrom(g, w.node), MayFollow(g, w, e)
  PROVE  LET x == Follow(g, w, e)
         IN  IsWalk(g, x) /\ Conserves(g, x) /\ CallsAreOpen(g, x)
<1> DEFINE x == Follow(g, w, e)
           d == g.edges[e].dst
           n == Len(g.edges)
<1>1. e \in 1..n /\ g.edges[e].src = w.node /\ d \in 1..Len(g.nodes)
  BY EdgeSets DEF EdgesFrom, IsProblemGraph
<1>2. /\ x.node = d
      /\ x.flow = [w.flow EXCEPT ![e] = @ + 1]
      /\ g.nodes[d].type = "CallPoint" => x.calls = Append(w.calls, CallOf(g.nodes[d]))
      /\ g.nodes[d].type = "ReturnPoint" => x.calls = Front(w.calls)
      /\ g.nodes[d].type \notin {"CallPoint", "ReturnPoint"} => x.calls = w.calls
  BY DEF Follow
<1>3. g.nodes[d].type = "ReturnPoint" => w.calls # << >> /\ Last(w.calls) = CallOf(g.nodes[d])
  BY DEF MayFollow
<1> HIDE DEF x
<1>4. w.calls \in Seq(Contexts(g)) /\ CallOf(g.nodes[d]) \in Contexts(g)
  BY <1>1 DEF IsWalk, Contexts
<1>5. x.calls \in Seq(Contexts(g))
  <2>1. Append(w.calls, CallOf(g.nodes[d])) \in Seq(Contexts(g))
    BY <1>4
  <2>2. w.calls # << >> => Front(w.calls) \in Seq(Contexts(g))
    BY <1>4, TimesPopped
  <2> QED BY <1>2, <1>3, <1>4, <2>1, <2>2
<1>6. PICK f, h : f = w.flow /\ h = x.flow
  OBVIOUS
<1>7. /\ f \in [1..n -> Nat] /\ h \in [1..n -> Nat]
      /\ h[e] = f[e] + 1 /\ \A y \in 1..n \ {e} : h[y] = f[y]
  <2>1. f \in [1..n -> Nat]
    BY <1>6 DEF IsWalk
  <2>2. h = [f EXCEPT ![e] = f[e] + 1]
    BY <1>2, <1>6
  <2> HIDE DEF n
  <2> QED BY <1>1, <2>1, <2>2
<1>8. IsWalk(g, x)
  BY <1>1, <1>2, <1>5, <1>6, <1>7 DEF IsWalk
<1>9. ASSUME NEW S \in SUBSET (1..n)
      PROVE  FlowOver(x.flow, S) = FlowOver(w.flow, S) + OneIf(e \in S) /\ FlowOver(w.flow, S) \in Int
  <2>1. IsFiniteSet(1..n)
    BY EdgeSets
  <2>2. FlowOver(f, S) \in Int /\ FlowOver(h, S) = FlowOver(f, S) + OneIf(e \in S)
    <3> HIDE DEF n
    <3> QED BY <1>1, <1>7, <2>1, CountOne
  <2> QED BY <1>6, <2>2
<1>10. ASSUME NEW v
       PROVE  /\ FlowOver(w.flow, EdgesInto(g, v)) \in Int /\ FlowOver(w.flow, EdgesFrom(g, v)) \in Int
              /\ FlowOver(x.flow, EdgesInto(g, v)) = FlowOver(w.flow, EdgesInto(g, v)) + OneIf(v = d)
              /\ FlowOver(x.flow, EdgesFrom(g, v)) = FlowOver(w.flow, EdgesFrom(g, v)) + OneIf(v = w.node)
  <2>1. EdgesInto(g, v) \in SUBSET (1..n) /\ EdgesFrom(g, v) \in SUBSET (1..n)
    BY EdgeSets
  <2>2. (e \in EdgesInto(g, v) <=> v = d) /\ (e \in EdgesFrom(g, v) <=> v = w.node)
    BY <1>1, EdgeSets
  <2> QED BY <1>9, <2>1, <2>2
<1>11. Conserves(g, x)
  <2> SUFFICES ASSUME NEW v \in 1..Len(g.nodes)
               PROVE  FlowOver(x.flow, EdgesInto(g, v)) + OneIf(v = Entry) =
                        FlowOver(x.flow, EdgesFrom(g, v)) + OneIf(v = d)
    BY <1>2 DEF Conserves
  <2>1. FlowOver(w.flow, EdgesInto(g, v)) + OneIf(v = Entry) =
          FlowOver(w.flow, EdgesFrom(g, v)) + OneIf(v = w.node)
    BY DEF Conserves
  <2>2. OneIf(v = Entry) \in Int /\ OneIf(v = d) \in Int /\ OneIf(v = w.node) \in Int
    BY DEF OneIf
  <2> HIDE DEF d
  <2> QED BY <1>10, <2>1, <2>2
<1>12. CallsAreOpen(g, x)
  <2> SUFFICES ASSUME NEW c \in VerticesOf(g, "CallPoint"), NEW r \in VerticesOf(g, "ReturnPoint"),
                      SameContext(g, c, r)
               PROVE  FlowOver(x.flow, EdgesInto(g, c)) =
                        FlowOver(x.flow, EdgesInto(g, r)) + Times(x.calls, CallOf(g.nodes[c]))
    BY DEF CallsAreOpen
  <2>1. FlowOver(w.flow, EdgesInto(g, c)) =
          FlowOver(w.flow, EdgesInto(g, r)) + Times(w.calls, CallOf(g.nodes[c]))
    BY DEF CallsAreOpen
  <2>2. g.nodes[c].type = "CallPoint" /\ g.nodes[r].type = "ReturnPoint"
    BY DEF VerticesOf
  <2>3. \A type \in {"CallPoint", "ReturnPoint"} : \A a, b \in VerticesOf(g, type) :
          SameContext(g, a, b) => a = b
    BY DEF IsProblemGraph
  <2>4. \A a, b : CallOf(g.nodes[a]) = CallOf(g.nodes[b]) <=> SameContext(g, a, b)
    BY DEF CallOf, SameContext
  <2>5. Times(w.calls, CallOf(g.nodes[c])) \in Nat
    BY <1>4, TimesPushed
  <2>6. CASE g.nodes[d].type = "CallPoint"
    <3>1. Times(x.calls, CallOf(g.nodes[c])) =
            Times(w.calls, CallOf(g.nodes[c])) + OneIf(CallOf(g.nodes[c]) = CallOf(g.nodes[d]))
      <4>1. Times(Append(w.calls, CallOf(g.nodes[d])), CallOf(g.nodes[c])) =
              Times(w.calls, CallOf(g.nodes[c])) + (IF CallOf(g.nodes[c]) = CallOf(g.nodes[d]) THEN 1 ELSE 0)
        BY <1>4, TimesPushed
      <4> QED BY <1>2, <2>6, <4>1 DEF OneIf
    <3>2. d \in VerticesOf(g, "CallPoint")
      BY <1>1, <2>6 DEF VerticesOf
    <3>3. (CallOf(g.nodes[c]) = CallOf(g.nodes[d])) <=> (c = d)
      BY <2>3, <2>4, <3>2
    <3>4. r # d
      BY <2>2, <2>6
    <3> HIDE DEF d
    <3> QED BY <1>10, <2>1, <2>5, <3>1, <3>3, <3>4 DEF OneIf
  <2>7. CASE g.nodes[d].type = "ReturnPoint"
    <3>1. Times(w.calls, CallOf(g.nodes[c])) =
            Times(x.calls, CallOf(g.nodes[c])) + OneIf(CallOf(g.nodes[c]) = CallOf(g.nodes[d]))
      BY <1>2, <1>3, <1>4, <2>7, TimesPopped DEF OneIf
    <3>2. d \in VerticesOf(g, "ReturnPoint")
      BY <1>1, <2>7 DEF VerticesOf
    <3>3. CallOf(g.nodes[c]) = CallOf(g.nodes[d]) <=> r = d
      <4>1. CallOf(g.nodes[c]) = CallOf(g.nodes[r])
        BY <2>4
      <4> QED BY <2>3, <2>4, <3>2, <4>1
    <3>4. c # d
      BY <2>2, <2>7
    <3>5. Times(x.calls, CallOf(g.nodes[c])) \in Nat
      BY <1>4, <1>5, TimesPushed
    <3> HIDE DEF d
    <3> QED BY <1>10, <2>1, <3>1, <3>3, <3>4, <3>5 DEF OneIf
  <2>8. CASE g.nodes[d].type \notin {"CallPoint", "ReturnPoint"}
    <3>1. c # d /\ r # d /\ x.calls = w.calls
      BY <1>2, <2>2, <2>8
    <3> HIDE DEF d
    <3> QED BY <1>10, <2>1, <2>5, <3>1 DEF OneIf
  <2> QED BY <2>6, <2>7, <2>8
<1> QED BY <1>8, <1>11, <1>12 DEF x

-----------------------------------------------------------------------------
(* The flow of the problem is that of the path and a one on the back edge. *)
LEMMA WithBack ==
  ASSUME NEW g, IsProblemGraph(g), NEW f \in [1..Len(g.edges) -> Nat]
  PROVE  LET n == Len(g.edges)
             F == WithBackEdge(g, f)
         IN  /\ F \in [1..(n + 1) -> Nat] /\ F[n + 1] = 1 /\ \A e \in 1..n : F[e] = f[e]
             /\ \A S \in SUBSET (1..n) : /\ FlowOver(f, S) \in Int
                                        /\ FlowOver(F, S) = FlowOver(f, S)
                                        /\ FlowOver(F, S \cup {n + 1}) = FlowOver(f, S) + 1
<1> DEFINE n == Len(g.edges)
           F == WithBackEdge(g, f)
<1>1. n \in Nat /\ IsFiniteSet(1..n) /\ IsFiniteSet(1..(n + 1))
  <2>1. n \in Nat /\ IsFiniteSet(1..n)
    BY EdgeSets
  <2>2. n + 1 \in Int /\ 1 \in Int
    BY <2>1
  <2> HIDE DEF n
  <2>3. IsFiniteSet(1..(n + 1))
    BY <2>2, FS_Interval
  <2> QED BY <2>1, <2>3
<1>2. F = [e \in 1..(n + 1) |-> IF e > n THEN 1 ELSE f[e]]
  BY DEF WithBackEdge
<1> HIDE DEF n, F
<1>3. f \in [1..n -> Nat]
  BY DEF n
<1>4. F \in [1..(n + 1) -> Nat] /\ F[n + 1] = 1 /\ \A e \in 1..n : F[e] = f[e]
  BY <1>1, <1>2, <1>3
<1>5. PICK D, E, h : D = 1..n /\ E = 1..(n + 1) /\ h = f
  OBVIOUS
<1>6. h \in [D -> Int] /\ F \in [E -> Int] /\ IsFiniteSet(D) /\ IsFiniteSet(E)
  BY <1>1, <1>3, <1>4, <1>5
<1>7. D \in SUBSET E /\ n + 1 \in E /\ n + 1 \notin D /\ \A e \in D : F[e] = h[e]
  BY <1>1, <1>4, <1>5
<1>8. ASSUME NEW S \in SUBSET D
      PROVE  /\ FlowOver(h, S) \in Int
             /\ FlowOver(F, S) = FlowOver(h, S)
             /\ FlowOver(F, S \cup {n + 1}) = FlowOver(h, S) + 1
  <2>1. S \in SUBSET E /\ \A e \in S : F[e] = h[e]
    BY <1>7
  <2>2. FlowOver(h, S) \in Int
    BY <1>6, SumStep
  <2>3. FlowOver(F, S) = FlowOver(h, S)
    BY <1>6, <2>1, SumSame
  <2>4. PICK T : T = S \cup {n + 1}
    OBVIOUS
  <2>5. T \in SUBSET E /\ n + 1 \in T /\ T \ {n + 1} = S
    BY <1>7, <2>4
  <2>6. FlowOver(F, T) = F[n + 1] + FlowOver(F, T \ {n + 1})
    BY <1>6, <2>5, SumTake
  <2>7. FlowOver(F, T) = 1 + FlowOver(h, S)
    BY <1>4, <2>3, <2>5, <2>6
  <2>8. FlowOver(F, S \cup {n + 1}) = FlowOver(h, S) + 1
    BY <2>2, <2>4, <2>7
  <2> QED BY <2>2, <2>3, <2>8
<1> QED BY <1>4, <1>5, <1>8 DEF n, F

(* A complete path is conserved everywhere, and returns from every call.   *)
LEMMA CompleteSolves ==
  ASSUME NEW g, IsProblemGraph(g), NEW w, IsWalk(g, w), Conserves(g, w), CallsAreOpen(g, w),
         w.node = Exit, w.calls = << >>
  PROVE  LET p == addBackEdge(g, Entry, Exit)
             F == WithBackEdge(g, w.flow)
         IN  F[Len(p.edges)] = 1 /\ FlowConserved(p, F) /\ ReturnsMatchCalls(p, F)
<1> DEFINE p == addBackEdge(g, Entry, Exit)
           F == WithBackEdge(g, w.flow)
           n == Len(g.edges)
<1>1. PICK f : f = w.flow
  OBVIOUS
<1>2. f \in [1..n -> Nat] /\ n \in Nat
  BY <1>1, EdgeSets DEF IsWalk
<1>3. /\ F \in [1..(n + 1) -> Nat] /\ F[n + 1] = 1 /\ \A e \in 1..n : F[e] = f[e]
      /\ \A S \in SUBSET (1..n) : /\ FlowOver(f, S) \in Int
                                 /\ FlowOver(F, S) = FlowOver(f, S)
                                 /\ FlowOver(F, S \cup {n + 1}) = FlowOver(f, S) + 1
  BY <1>1, <1>2, WithBack
<1>4. /\ p.nodes = g.nodes /\ Len(p.edges) = n + 1
      /\ \A v : /\ EdgesInto(p, v) = EdgesInto(g, v) \cup (IF v = Entry THEN {n + 1} ELSE {})
               /\ EdgesFrom(p, v) = EdgesFrom(g, v) \cup (IF v = Exit THEN {n + 1} ELSE {})
  BY BackEdge
<1>5. \A v : EdgesInto(g, v) \in SUBSET (1..n) /\ EdgesFrom(g, v) \in SUBSET (1..n)
  BY EdgeSets
<1>6. \A v \in 1..Len(g.nodes) :
        FlowOver(f, EdgesInto(g, v)) + OneIf(v = Entry) = FlowOver(f, EdgesFrom(g, v)) + OneIf(v = Exit)
  BY <1>1 DEF Conserves
<1>7. Entry # Exit
  BY DEF Entry, Exit
<1>8. ~CallContextAsserts(p) /\ \A v \in {Entry, Exit} : g.nodes[v].type \notin {"CallPoint", "ReturnPoint"}
  BY DEF IsProblemGraph
<1> HIDE DEF p, F, n
<1>9. FlowConserved(p, F)
  <2> SUFFICES ASSUME NEW v \in 1..Len(g.nodes)
               PROVE  FlowOver(F, EdgesInto(p, v)) = FlowOver(F, EdgesFrom(p, v))
    BY <1>4 DEF FlowConserved
  <2>1. FlowOver(F, EdgesInto(p, v)) = FlowOver(f, EdgesInto(g, v)) + OneIf(v = Entry)
    <3>1. CASE v = Entry
      BY <1>3, <1>4, <1>5, <3>1 DEF OneIf
    <3>2. CASE v # Entry
      <4>1. EdgesInto(p, v) = EdgesInto(g, v)
        BY <1>4, <3>2
      <4>2. FlowOver(F, EdgesInto(g, v)) = FlowOver(f, EdgesInto(g, v)) /\ FlowOver(f, EdgesInto(g, v)) \in Int
        BY <1>3, <1>5
      <4> QED BY <3>2, <4>1, <4>2 DEF OneIf
    <3> QED BY <3>1, <3>2
  <2>2. FlowOver(F, EdgesFrom(p, v)) = FlowOver(f, EdgesFrom(g, v)) + OneIf(v = Exit)
    <3>1. CASE v = Exit
      BY <1>3, <1>4, <1>5, <3>1 DEF OneIf
    <3>2. CASE v # Exit
      <4>1. EdgesFrom(p, v) = EdgesFrom(g, v)
        BY <1>4, <3>2
      <4>2. FlowOver(F, EdgesFrom(g, v)) = FlowOver(f, EdgesFrom(g, v)) /\ FlowOver(f, EdgesFrom(g, v)) \in Int
        BY <1>3, <1>5
      <4> QED BY <3>2, <4>1, <4>2 DEF OneIf
    <3> QED BY <3>1, <3>2
  <2> QED BY <1>6, <2>1, <2>2
<1>10. ASSUME NEW S \in SUBSET (1..n), Cardinality(S) = 1 PROVE F[OnlyEdge(S)] = FlowOver(f, S)
  <2>1. IsFiniteSet(1..n) /\ IsFiniteSet(S)
    <3>1. IsFiniteSet(1..n)
      BY <1>2, FS_Interval
    <3> QED BY <3>1, FS_Subset
  <2>2. PICK e : S = {e}
    BY <1>10, <2>1, FS_Singleton
  <2>3. OnlyEdge(S) = e /\ e \in 1..n
    BY <2>2 DEF OnlyEdge
  <2>4. FlowOver(f, {e}) = f[e]
    <3>1. f \in [1..n -> Int]
      BY <1>2
    <3> QED BY <2>1, <2>3, <3>1, SumOne
  <2> QED BY <1>3, <2>2, <2>3, <2>4
<1>11. ReturnsMatchCalls(p, F)
  <2> SUFFICES ASSUME NEW c \in VerticesOf(p, "CallPoint"),
                      NEW R, R = {r \in VerticesOf(p, "ReturnPoint") : SameContext(p, c, r)}, R # {}
               PROVE  F[OnlyEdge(EdgesFrom(p, c))] = F[OnlyEdge(EdgesInto(p, Min(R)))]
    BY DEF ReturnsMatchCalls
  <2>1. PICK r \in R : TRUE
    OBVIOUS
  <2>2. /\ \A type : VerticesOf(p, type) = VerticesOf(g, type)
        /\ \A a, b : SameContext(p, a, b) = SameContext(g, a, b)
    BY <1>4 DEF VerticesOf, SameContext
  <2>3. c \in VerticesOf(g, "CallPoint") /\ r \in VerticesOf(g, "ReturnPoint") /\ SameContext(g, c, r)
    BY <2>1, <2>2
  <2>4. R = {r}
    <3>1. ASSUME NEW q \in R PROVE q = r
      <4>1. q \in VerticesOf(g, "ReturnPoint") /\ SameContext(g, c, q)
        BY <2>2
      <4>2. SameContext(g, q, r)
        BY <2>3, <4>1 DEF SameContext
      <4> QED BY <2>3, <4>1, <4>2 DEF IsProblemGraph
    <3> QED BY <2>1, <3>1
  <2>5. Min(R) = r
    <3>1. r \in Int
      BY <2>3 DEF VerticesOf
    <3>2. \A y \in {r} : r <= y
      BY <3>1
    <3>3. Min({r}) \in {r}
      BY <3>2 DEF Min
    <3> QED BY <2>4, <3>3
  <2>6. /\ c \in 1..Len(g.nodes) /\ r \in 1..Len(g.nodes)
        /\ c \notin {Entry, Exit} /\ r \notin {Entry, Exit}
    BY <1>8, <2>3 DEF VerticesOf
  <2>7. EdgesFrom(p, c) = EdgesFrom(g, c) /\ EdgesInto(p, r) = EdgesInto(g, r)
    BY <1>4, <2>6
  <2>8. Cardinality(EdgesFrom(p, c)) = 1 /\ Cardinality(EdgesInto(p, r)) = 1
    BY <1>8, <2>1, <2>2, <2>3 DEF CallContextAsserts
  <2>9. /\ F[OnlyEdge(EdgesFrom(p, c))] = FlowOver(f, EdgesFrom(g, c))
        /\ F[OnlyEdge(EdgesInto(p, r))] = FlowOver(f, EdgesInto(g, r))
    BY <1>5, <1>10, <2>7, <2>8
  <2>10. FlowOver(f, EdgesInto(g, c)) = FlowOver(f, EdgesFrom(g, c))
    <3>1. OneIf(c = Entry) = 0 /\ OneIf(c = Exit) = 0
      BY <2>6 DEF OneIf
    <3>2. FlowOver(f, EdgesInto(g, c)) \in Int /\ FlowOver(f, EdgesFrom(g, c)) \in Int
      BY <1>3, <1>5
    <3> QED BY <1>6, <2>6, <3>1, <3>2
  <2>11. FlowOver(f, EdgesInto(g, c)) = FlowOver(f, EdgesInto(g, r))
    <3>1. FlowOver(f, EdgesInto(g, c)) =
            FlowOver(f, EdgesInto(g, r)) + Times(w.calls, CallOf(g.nodes[c]))
      BY <1>1, <2>3 DEF CallsAreOpen
    <3>2. Times(w.calls, CallOf(g.nodes[c])) = 0
      BY FS_EmptySet DEF Times
    <3>3. FlowOver(f, EdgesInto(g, r)) \in Int
      BY <1>3, <1>5
    <3> QED BY <3>1, <3>2, <3>3
  <2> QED BY <2>5, <2>9, <2>10, <2>11
<1> QED BY <1>3, <1>4, <1>9, <1>11 DEF p, F

-----------------------------------------------------------------------------
(* The objective: an edge more is its weight more, and the back edge costs *)
(* nothing.                                                                *)
Costs(g, metric, flow) == [e \in 1..Len(g.edges) |-> flow[e] * Weight(g, e, metric)]

LEMMA WeightsAreInts ==
  ASSUME NEW g, IsProblemGraph(g), NEW m, NEW f \in [1..Len(g.edges) -> Nat]
  PROVE  /\ \A e \in 1..Len(g.edges) : Weight(g, e, m) \in Int
         /\ Costs(g, m, f) \in [1..Len(g.edges) -> Int]
         /\ GraphCost(g, m, f) = FlowOver(Costs(g, m, f), 1..Len(g.edges))
         /\ GraphCost(g, m, f) \in Int
<1>1. ASSUME NEW e \in 1..Len(g.edges) PROVE Weight(g, e, m) \in Int
  <2>1. g.edges[e].cost \in Int /\ g.edges[e].pen \in Int
    BY EdgeSets DEF Edge
  <2> QED BY <2>1 DEF Weight
<1>2. Costs(g, m, f) \in [1..Len(g.edges) -> Int]
  BY <1>1 DEF Costs
<1>3. GraphCost(g, m, f) = FlowOver(Costs(g, m, f), 1..Len(g.edges))
  BY DEF GraphCost, Costs
<1>4. FlowOver(Costs(g, m, f), 1..Len(g.edges)) \in Int
  BY <1>2, EdgeSets, SumStep
<1> QED BY <1>1, <1>2, <1>3, <1>4

LEMMA CostStep ==
  ASSUME NEW g, IsProblemGraph(g), NEW m, NEW f \in [1..Len(g.edges) -> Nat],
         NEW e \in 1..Len(g.edges)
  PROVE  GraphCost(g, m, [f EXCEPT ![e] = @ + 1]) = GraphCost(g, m, f) + Weight(g, e, m)
<1>1. PICK E, x : E = 1..Len(g.edges) /\ x = e
  OBVIOUS
<1>2. PICK h : h = [f EXCEPT ![e] = f[e] + 1]
  OBVIOUS
<1>3. h \in [E -> Nat] /\ h[x] = f[x] + 1 /\ f[x] \in Nat /\ \A y \in E \ {x} : h[y] = f[y]
  BY <1>1, <1>2
<1>4. PICK a, b : a = Costs(g, m, f) /\ b = Costs(g, m, h)
  OBVIOUS
<1>5. /\ a \in [E -> Int] /\ b \in [E -> Int] /\ IsFiniteSet(E) /\ E \in SUBSET E /\ x \in E
      /\ Weight(g, x, m) \in Int
      /\ GraphCost(g, m, f) = FlowOver(a, E) /\ GraphCost(g, m, h) = FlowOver(b, E)
      /\ GraphCost(g, m, f) \in Int
  BY <1>1, <1>3, <1>4, WeightsAreInts, EdgeSets
<1>6. a[x] = f[x] * Weight(g, x, m) /\ b[x] = h[x] * Weight(g, x, m)
  BY <1>1, <1>4 DEF Costs
<1>7. \A y \in E \ {x} : b[y] = a[y]
  BY <1>1, <1>3, <1>4 DEF Costs
<1>8. FlowOver(b, E) = FlowOver(a, E) + (IF x \in E THEN b[x] - a[x] ELSE 0)
  <2>1. a \in [E -> Int] /\ b \in [E -> Int] /\ IsFiniteSet(E) /\ E \in SUBSET E /\ x \in E
    BY <1>5
  <2> QED BY <1>7, <2>1, SumMore
<1>9. b[x] - a[x] = Weight(g, x, m)
  <2>1. \A k \in Nat, v \in Int : (k + 1) * v - k * v = v
    OBVIOUS
  <2> QED BY <1>3, <1>5, <1>6, <2>1
<1> QED BY <1>1, <1>2, <1>5, <1>8, <1>9

LEMMA CostOfBegun ==
  ASSUME NEW g, IsProblemGraph(g), NEW m
  PROVE  GraphCost(g, m, Begun(g).flow) = 0
<1> DEFINE f == Begun(g).flow
<1>1. f = [e \in 1..Len(g.edges) |-> 0]
  BY DEF Begun
<1> HIDE DEF f
<1>2. f \in [1..Len(g.edges) -> Nat]
  BY <1>1
<1>3. /\ Costs(g, m, f) \in [1..Len(g.edges) -> Int]
      /\ \A e \in 1..Len(g.edges) : Weight(g, e, m) \in Int
      /\ GraphCost(g, m, f) = FlowOver(Costs(g, m, f), 1..Len(g.edges))
  BY <1>2, WeightsAreInts
<1>4. \A e \in 1..Len(g.edges) : Costs(g, m, f)[e] = 0
  BY <1>1, <1>3 DEF Costs
<1>5. FlowOver(Costs(g, m, f), 1..Len(g.edges)) = 0
  BY <1>3, <1>4, EdgeSets, SumZero
<1> QED BY <1>3, <1>5 DEF f

LEMMA CostWithBack ==
  ASSUME NEW g, IsProblemGraph(g), NEW m, NEW f \in [1..Len(g.edges) -> Nat]
  PROVE  GraphCost(addBackEdge(g, Entry, Exit), m, WithBackEdge(g, f)) = GraphCost(g, m, f)
<1>1. PICK n, p, F : n = Len(g.edges) /\ p = addBackEdge(g, Entry, Exit) /\ F = WithBackEdge(g, f)
  OBVIOUS
<1>2. PICK D, E : D = 1..n /\ E = 1..(n + 1)
  OBVIOUS
<1>3. /\ n \in Nat /\ Len(p.edges) = n + 1
      /\ (\A e \in 1..n : p.edges[e] = g.edges[e]) /\ p.edges[n + 1].cost = 0 /\ p.edges[n + 1].pen = 0
  BY <1>1, BackEdge, EdgeSets
<1>4. (\A e \in D : F[e] = f[e]) /\ F[n + 1] = 1
  BY <1>1, <1>2, WithBack
<1>5. IsFiniteSet(D) /\ IsFiniteSet(E)
  <2>1. n \in Int /\ n + 1 \in Int /\ 1 \in Int
    BY <1>3
  <2> QED BY <1>2, <2>1, FS_Interval
<1>6. PICK a, b : a = Costs(g, m, f) /\ b = Costs(p, m, F)
  OBVIOUS
<1>7. a \in [D -> Int] /\ GraphCost(g, m, f) = FlowOver(a, D) /\ GraphCost(g, m, f) \in Int
  BY <1>1, <1>2, <1>6, WeightsAreInts
<1>8. b = [e \in E |-> F[e] * Weight(p, e, m)] /\ GraphCost(p, m, F) = FlowOver(b, E)
  BY <1>2, <1>3, <1>6 DEF Costs, GraphCost
<1>9. D \in SUBSET D /\ D \in SUBSET E /\ E \in SUBSET E /\ n + 1 \in E /\ E \ {n + 1} = D
  BY <1>2, <1>3
<1>10. Weight(p, n + 1, m) = 0 /\ \A e \in D : Weight(p, e, m) = Weight(g, e, m)
  BY <1>2, <1>3 DEF Weight
<1>11. b[n + 1] = 0
  BY <1>4, <1>8, <1>9, <1>10
<1>12. ASSUME NEW e \in D PROVE b[e] = a[e] /\ b[e] \in Int
  <2>1. b[e] = F[e] * Weight(p, e, m)
    BY <1>8, <1>9
  <2>2. a[e] = f[e] * Weight(g, e, m)
    BY <1>1, <1>2, <1>6 DEF Costs
  <2>3. F[e] = f[e] /\ Weight(p, e, m) = Weight(g, e, m)
    BY <1>4, <1>10
  <2> QED BY <1>7, <2>1, <2>2, <2>3
<1>13. b \in [E -> Int]
  <2>1. \A e \in E : b[e] \in Int
    BY <1>9, <1>11, <1>12
  <2> QED BY <1>8, <2>1
<1>14. FlowOver(b, E) = b[n + 1] + FlowOver(b, D)
  BY <1>5, <1>9, <1>13, SumTake
<1>15. FlowOver(b, D) = FlowOver(a, D)
  BY <1>5, <1>7, <1>9, <1>12, <1>13, SumSame
<1> QED BY <1>1, <1>7, <1>8, <1>11, <1>14, <1>15

-----------------------------------------------------------------------------
(* The inductive invariant, for graphs a problem can be stated for.        *)
Networks == \A g \in Graphs : IsProblemGraph(g)

PathInv ==
  /\ graph \in Graphs
  /\ IsWalk(graph, walk)
  /\ Conserves(graph, walk)
  /\ CallsAreOpen(graph, walk)
  /\ CostIsObjective

LEMMA PathInit ==
  ASSUME Networks, Init PROVE PathInv
<1>1. graph \in Graphs /\ IsProblemGraph(graph) /\ walk = Begun(graph) /\ cost = 0
  BY DEF Networks, Init
<1>2. IsWalk(graph, walk) /\ Conserves(graph, walk) /\ CallsAreOpen(graph, walk)
  BY <1>1, BegunHolds
<1>3. CostIsObjective
  BY <1>1, CostOfBegun DEF CostIsObjective
<1> QED BY <1>1, <1>2, <1>3 DEF PathInv

LEMMA PathStep ==
  ASSUME Networks, PathInv, [Next]_vars PROVE PathInv'
<1>1. CASE UNCHANGED vars
  BY <1>1 DEF PathInv, CostIsObjective, vars
<1>2. ASSUME NEW e \in 1..Len(graph.edges), TakeEdge(e) PROVE PathInv'
  <2>1. /\ graph \in Graphs /\ IsProblemGraph(graph)
        /\ IsWalk(graph, walk) /\ Conserves(graph, walk) /\ CallsAreOpen(graph, walk)
        /\ cost = GraphCost(graph, Metric, walk.flow)
    BY DEF PathInv, Networks, CostIsObjective
  <2>2. /\ e \in EdgesFrom(graph, walk.node) /\ MayFollow(graph, walk, e)
        /\ walk' = Follow(graph, walk, e)
        /\ cost' = cost + Weight(graph, e, Metric)
        /\ graph' = graph
    BY <1>2 DEF TakeEdge
  <2>3. IsWalk(graph, walk') /\ Conserves(graph, walk') /\ CallsAreOpen(graph, walk')
    BY <2>1, <2>2, FollowHolds
  <2>4. walk'.flow = [walk.flow EXCEPT ![e] = @ + 1]
    BY <2>2 DEF Follow
  <2>5. walk.flow \in [1..Len(graph.edges) -> Nat]
    BY <2>1 DEF IsWalk
  <2>6. GraphCost(graph, Metric, walk'.flow) = GraphCost(graph, Metric, walk.flow) + Weight(graph, e, Metric)
    BY <2>1, <2>4, <2>5, CostStep
  <2>7. CostIsObjective'
    BY <2>1, <2>2, <2>6 DEF CostIsObjective
  <2> QED BY <2>1, <2>2, <2>3, <2>7 DEF PathInv
<1> QED BY <1>1, <1>2 DEF Next

(* Following a path keeps conservation, the open calls and the cost what   *)
(* they are.                                                               *)
THEOREM PathsKeepInv == Networks => (Spec => []PathInv)
<1> SUFFICES ASSUME Networks PROVE Spec => []PathInv
  OBVIOUS
<1>1. Init => PathInv
  BY PathInit
<1>2. PathInv /\ [Next]_vars => PathInv'
  BY PathStep
<1> QED BY <1>1, <1>2, PTL DEF Spec

(* No path is lost: the flow of every complete one is a solution.          *)
LEMMA CompleteIsSolution ==
  ASSUME Networks, PathInv PROVE PathsAreSolutions
<1> SUFFICES ASSUME Complete, ObeysFacts PROVE IsSolution(Problem, Facts, UseFacts, Flow)
  BY DEF PathsAreSolutions
<1>1. /\ IsProblemGraph(graph) /\ IsWalk(graph, walk) /\ Conserves(graph, walk)
      /\ CallsAreOpen(graph, walk) /\ walk.node = Exit /\ walk.calls = << >>
  BY DEF PathInv, Networks, Complete
<1>2. Flow[Len(Problem.edges)] = 1 /\ FlowConserved(Problem, Flow) /\ ReturnsMatchCalls(Problem, Flow)
  BY <1>1, CompleteSolves DEF Flow, Problem
<1> QED BY <1>2 DEF IsSolution, ObeysFacts

(* The flow problem loses no path: the flow of each complete one that obeys*)
(* the flow facts satisfies all its equations.                             *)
THEOREM PathsSolveTheProblem == Networks => (Spec => []PathsAreSolutions)
<1> SUFFICES ASSUME Networks PROVE Spec => []PathsAreSolutions
  OBVIOUS
<1>1. Spec => []PathInv
  BY PathsKeepInv
<1>2. PathInv => PathsAreSolutions
  BY CompleteIsSolution
<1> QED BY <1>1, <1>2, PTL

(* The objective at the flow of a path is what the path pays.              *)
THEOREM ObjectiveIsCost == Networks => (Spec => []CostIsObjective)
<1> SUFFICES ASSUME Networks PROVE Spec => []CostIsObjective
  OBVIOUS
<1>1. Spec => []PathInv
  BY PathsKeepInv
<1>2. PathInv => CostIsObjective
  BY DEF PathInv
<1> QED BY <1>1, <1>2, PTL

(* The estimate is one of every path that keeps to the flow facts.         *)
LEMMA EstimateBounds ==
  ASSUME Networks, PathInv PROVE EstimateCoversPaths
<1> SUFFICES ASSUME Complete, ObeysFacts, NEW best \in Int, IsEstimate(best) PROVE cost <= best
  BY DEF EstimateCoversPaths
<1>1. IsProblemGraph(graph) /\ walk.flow \in [1..Len(graph.edges) -> Nat]
  BY DEF PathInv, Networks, IsWalk
<1>2. IsSolution(Problem, Facts, UseFacts, Flow)
  BY CompleteIsSolution DEF PathsAreSolutions
<1>3. Flow \in [1..Len(Problem.edges) -> Nat]
  <2>1. Len(Problem.edges) = Len(graph.edges) + 1
    BY <1>1, BackEdge DEF Problem
  <2>2. Flow \in [1..(Len(graph.edges) + 1) -> Nat]
    BY <1>1, WithBack DEF Flow
  <2> QED BY <2>1, <2>2
<1>4. GraphCost(Problem, Metric, Flow) <= best
  BY <1>2, <1>3 DEF IsEstimate
<1>5. GraphCost(Problem, Metric, Flow) = cost
  BY <1>1, CostWithBack DEF Problem, Flow, PathInv, CostIsObjective
<1> QED BY <1>4, <1>5

(* What no solution of the problem exceeds, no path exceeds: the best      *)
(* objective is a safe estimate.                                           *)
THEOREM EstimateIsSafe == Networks => (Spec => []EstimateCoversPaths)
<1> SUFFICES ASSUME Networks PROVE Spec => []EstimateCoversPaths
  OBVIOUS
<1>1. Spec => []PathInv
  BY PathsKeepInv
<1>2. PathInv => EstimateCoversPaths
  BY EstimateBounds
<1> QED BY <1>1, <1>2, PTL

-----------------------------------------------------------------------------
(***************************************************************************)
(* The time of an ARMv6-M.  The core enters a block with any word fetched, *)
(* the calculation with an empty buffer or half a word; what is buffered   *)
(* according to the calculation was fetched by the core, and the words that*)
(* were fetched once more than the calculation knows are ahead of time.    *)
(***************************************************************************)

(* How many words the calculation is ahead of the core: one, if it takes   *)
(* more to be buffered than what is left of the word of the last fetch.    *)
Ahead(addr, left) == IF left > addr % 4 THEN 1 ELSE 0

FetchedWords(addr, len, word) == ((addr \div 4)..((addr + len - 1) \div 4)) \ {word}

(* What is buffered according to the calculation was fetched by the core.  *)
Fits(addr, left, word) ==
  /\ left \in {0, 2, 4} /\ left <= (addr % 4) + 2
  /\ left > 0 /\ addr % 4 = 2 => word = addr \div 4

LEMMA FewWords ==
  ASSUME NEW q \in Nat, NEW word \in Int
  PROVE  /\ Cardinality((q..q) \ {word}) = (IF word = q THEN 0 ELSE 1)
         /\ Cardinality((q..(q + 1)) \ {word}) = (IF word \in {q, q + 1} THEN 1 ELSE 2)
<1>1. q..q = {q} /\ q..(q + 1) = {q, q + 1}
  OBVIOUS
<1>2. Cardinality({}) = 0 /\ \A x : Cardinality({x}) = 1
  BY FS_EmptySet, FS_Singleton
<1>3. Cardinality({q, q + 1}) = 2
  <2>1. IsFiniteSet({q}) /\ q + 1 \notin {q} /\ {q} \cup {q + 1} = {q, q + 1}
    <3>1. IsFiniteSet({q})
      BY FS_Singleton
    <3>2. q + 1 # q
      OBVIOUS
    <3> QED BY <3>1, <3>2
  <2>2. Cardinality({q} \cup {q + 1}) = Cardinality({q}) + 1
    BY <2>1, FS_AddElement
  <2>3. Cardinality({q}) = 1
    BY <1>2
  <2> QED BY <2>1, <2>2, <2>3
<1>4. Cardinality((q..q) \ {word}) = (IF word = q THEN 0 ELSE 1)
  <2>1. CASE word = q
    <3>1. (q..q) \ {word} = {}
      BY <1>1, <2>1
    <3> QED BY <1>2, <2>1, <3>1
  <2>2. CASE word # q
    <3>1. (q..q) \ {word} = {q}
      BY <1>1, <2>2
    <3> QED BY <1>2, <2>2, <3>1
  <2> QED BY <2>1, <2>2
<1>5. Cardinality((q..(q + 1)) \ {word}) = (IF word \in {q, q + 1} THEN 1 ELSE 2)
  <2>1. CASE word = q
    <3>1. (q..(q + 1)) \ {word} = {q + 1}
      BY <1>1, <2>1
    <3> QED BY <1>2, <2>1, <3>1
  <2>2. CASE word = q + 1
    <3>1. (q..(q + 1)) \ {word} = {q}
      BY <1>1, <2>2
    <3> QED BY <1>2, <2>2, <3>1
  <2>3. CASE word \notin {q, q + 1}
    <3>1. (q..(q + 1)) \ {word} = {q, q + 1}
      BY <1>1, <2>3
    <3> QED BY <1>3, <2>3, <3>1
  <2> QED BY <2>1, <2>2, <2>3
<1> QED BY <1>4, <1>5

LEMMA HalfWords ==
  ASSUME NEW addr \in Nat, addr % 2 = 0
  PROVE  \E q \in Nat : \/ addr = 4 * q
                        \/ addr = 4 * q + 2
<1>1. addr \div 4 \in Nat /\ addr = 4 * (addr \div 4) + (addr % 4) /\ addr % 4 \in 0..3
  OBVIOUS
<1>2. addr % 4 \in {0, 2}
  BY <1>1
<1> QED BY <1>1, <1>2

LEMMA FetchIsCovered ==
  ASSUME NEW addr \in Nat, addr % 2 = 0, NEW len \in {2, 4}, NEW left, NEW word \in Int,
         Fits(addr, left, word)
  PROVE  LET F == getInstructionsFetchLatency(addr, len, left)
             fetched == Cardinality(FetchedWords(addr, len, word))
         IN  /\ addr + len \in Nat /\ (addr + len) % 2 = 0
             /\ Fits(addr + len, F.left, (addr + len - 1) \div 4)
             /\ F.words \in 0..2 /\ fetched \in 0..2
             /\ fetched + Ahead(addr + len, F.left) <= F.words + Ahead(addr, left)
<1> DEFINE F == getInstructionsFetchLatency(addr, len, left)
           fetched == Cardinality(FetchedWords(addr, len, word))
<1>1. PICK q \in Nat : addr = 4 * q \/ addr = 4 * q + 2
  BY HalfWords
<1>2. left \in {0, 2, 4} /\ left <= (addr % 4) + 2 /\ (left > 0 /\ addr % 4 = 2 => word = addr \div 4)
  BY DEF Fits
<1>3. addr + len \in Nat /\ (addr + len) % 2 = 0
  BY <1>1
<1>4. CASE addr = 4 * q
  <2>1. addr % 4 = 0 /\ addr \div 4 = q /\ (addr + len - 1) \div 4 = q
    BY <1>4
  <2>2. (addr + len) % 4 = (IF len = 2 THEN 2 ELSE 0)
    BY <1>4
  <2>3. len = 2 => (addr + len) \div 4 = q
    BY <1>4
  <2>4. fetched \in 0..1
    <3>1. FetchedWords(addr, len, word) = (q..q) \ {word}
      BY <2>1 DEF FetchedWords
    <3>2. Cardinality((q..q) \ {word}) = (IF word = q THEN 0 ELSE 1)
      BY FewWords
    <3>3. fetched = (IF word = q THEN 0 ELSE 1)
      BY <3>1, <3>2
    <3> HIDE DEF fetched
    <3> QED BY <3>3
  <2>5. left \in {0, 2}
    BY <1>2, <2>1
  <2>6. F = [words |-> 1, left |-> left + 4 - len]
    <3>1. ~(len < left) /\ ~(left \in 3..4) /\ len >= left
      BY <2>5
    <3> QED BY <2>1, <3>1 DEF getInstructionsFetchLatency
  <2>7. Fits(addr + len, F.left, (addr + len - 1) \div 4)
    BY <2>1, <2>2, <2>3, <2>5, <2>6 DEF Fits
  <2>8. Ahead(addr + len, F.left) = (IF left = 0 THEN 0 ELSE 1) /\ Ahead(addr, left) = (IF left = 0 THEN 0 ELSE 1)
    BY <2>1, <2>2, <2>5, <2>6 DEF Ahead
  <2> HIDE DEF F, fetched
  <2> QED BY <1>3, <2>4, <2>5, <2>6, <2>7, <2>8 DEF F, fetched
<1>5. CASE addr = 4 * q + 2
  <2>1. addr % 4 = 2 /\ addr \div 4 = q
    BY <1>5
  <2>2. CASE len = 2
    <3>1. (addr + len - 1) \div 4 = q /\ (addr + len) % 4 = 0
      BY <1>5, <2>2
    <3>2. fetched = (IF word = q THEN 0 ELSE 1)
      <4>1. FetchedWords(addr, len, word) = (q..q) \ {word}
        BY <2>1, <3>1 DEF FetchedWords
      <4>2. Cardinality((q..q) \ {word}) = (IF word = q THEN 0 ELSE 1)
        BY FewWords
      <4> QED BY <4>1, <4>2
    <3>3. F = (IF left = 4 THEN [words |-> 0, left |-> 2] ELSE [words |-> 1, left |-> left])
      BY <1>2, <2>1, <2>2 DEF getInstructionsFetchLatency
    <3>4. Fits(addr + len, F.left, (addr + len - 1) \div 4)
      BY <1>2, <3>1, <3>3 DEF Fits
    <3>5. /\ Ahead(addr + len, F.left) = (IF left = 0 THEN 0 ELSE 1)
          /\ Ahead(addr, left) = (IF left = 4 THEN 1 ELSE 0)
      BY <1>2, <2>1, <3>1, <3>3 DEF Ahead
    <3>6. left > 0 => word = q
      BY <1>2, <2>1
    <3> HIDE DEF F, fetched
    <3> QED BY <1>2, <1>3, <3>2, <3>3, <3>4, <3>5, <3>6 DEF F, fetched
  <2>3. CASE len = 4
    <3>1. (addr + len - 1) \div 4 = q + 1 /\ (addr + len) % 4 = 2 /\ (addr + len) \div 4 = q + 1
      BY <1>5, <2>3
    <3>2. fetched = (IF word \in {q, q + 1} THEN 1 ELSE 2)
      <4>1. FetchedWords(addr, len, word) = (q..(q + 1)) \ {word}
        BY <2>1, <3>1 DEF FetchedWords
      <4>2. Cardinality((q..(q + 1)) \ {word}) = (IF word \in {q, q + 1} THEN 1 ELSE 2)
        BY FewWords
      <4> QED BY <4>1, <4>2
    <3>3. F = (IF left = 4 THEN [words |-> 1, left |-> 4] ELSE [words |-> 2, left |-> left + 2])
      BY <1>2, <2>1, <2>3 DEF getInstructionsFetchLatency
    <3>4. Fits(addr + len, F.left, (addr + len - 1) \div 4)
      BY <1>2, <3>1, <3>3 DEF Fits
    <3>5. /\ Ahead(addr + len, F.left) = (IF left = 0 THEN 0 ELSE 1)
          /\ Ahead(addr, left) = (IF left = 4 THEN 1 ELSE 0)
      BY <1>2, <2>1, <3>1, <3>3 DEF Ahead
    <3>6. left > 0 => word = q
      BY <1>2, <2>1
    <3> HIDE DEF F, fetched
    <3> QED BY <1>2, <1>3, <3>2, <3>3, <3>4, <3>5, <3>6 DEF F, fetched
  <2> QED BY <2>2, <2>3
<1> QED BY <1>1, <1>4, <1>5

(* What the loop of the calculation over the code of a block computes.     *)
IsAlong(along, start, code, step, where) ==
  /\ along[0] = [addr |-> start, left |-> getInitialFetchBufferState(start, step),
                 step |-> 0, jump |-> 0]
  /\ \A k \in 1..Len(code) : along[k] = ArmExecute(along[k - 1], code[k], where)

LEMMA AlongEquations ==
  ASSUME NEW start, NEW code, NEW step, NEW where, Len(code) \in Nat
  PROVE  IsAlong(ArmAlong(start, code, step, where), start, code, step, where)
<1>1. PICK n, first : n = Len(code)
        /\ first = [addr |-> start, left |-> getInitialFetchBufferState(start, step),
                    step |-> 0, jump |-> 0]
  OBVIOUS
<1> DEFINE Body(g, k) == IF k = 0 THEN first ELSE ArmExecute(g[k - 1], code[k], where)
           Upto(m, g) == \A k \in 0..n : k <= m => g[k] = Body(g, k)
           Good == {m \in Nat : \E g : Upto(m, g)}
<1>2. 0 \in Good
  <2> DEFINE g == [k \in 0..n |-> first]
  <2>1. Upto(0, g)
    <3> SUFFICES ASSUME NEW k \in 0..n, k <= 0 PROVE g[k] = Body(g, k)
      OBVIOUS
    <3>1. k = 0
      BY <1>1
    <3> QED BY <3>1
  <2> HIDE DEF g, Upto
  <2> QED BY <2>1
<1>3. ASSUME NEW m \in Good PROVE m + 1 \in Good
  <2>1. PICK g : Upto(m, g)
    OBVIOUS
  <2> DEFINE h == [k \in 0..n |-> Body(g, k)]
  <2>2. Upto(m + 1, h)
    <3> SUFFICES ASSUME NEW k \in 0..n, k <= m + 1 PROVE h[k] = Body(h, k)
      OBVIOUS
    <3>1. CASE k = 0
      BY <3>1
    <3>2. CASE k # 0
      <4>1. k - 1 \in 0..n /\ k - 1 <= m
        BY <1>1, <3>2
      <4>2. g[k - 1] = h[k - 1]
        <5> HIDE DEF Body
        <5>1. g[k - 1] = Body(g, k - 1)
          BY <2>1, <4>1
        <5> QED BY <4>1, <5>1
      <4> QED BY <3>2, <4>2
    <3> QED BY <3>1, <3>2
  <2> HIDE DEF h, Upto
  <2> QED BY <2>2
<1>4. \E g : Upto(n, g)
  <2> HIDE DEF Upto
  <2>1. Good \in SUBSET Nat
    OBVIOUS
  <2> HIDE DEF Good
  <2>2. n \in Good
    BY <1>1, <1>2, <1>3, <2>1, SetInduction
  <2> QED BY <2>2 DEF Good
<1>5. PICK g : Upto(n, g)
  BY <1>4
<1> DEFINE h == [k \in 0..n |-> Body(g, k)]
<1>6. h = [k \in 0..n |-> Body(h, k)]
  <2>1. ASSUME NEW k \in 0..n PROVE Body(g, k) = Body(h, k)
    <3>1. CASE k = 0
      BY <3>1
    <3>2. CASE k # 0
      <4>1. k - 1 \in 0..n /\ k - 1 <= n
        BY <1>1, <3>2
      <4>2. g[k - 1] = h[k - 1]
        <5> HIDE DEF Body
        <5>1. g[k - 1] = Body(g, k - 1)
          BY <1>5, <4>1
        <5> QED BY <4>1, <5>1
      <4> QED BY <3>2, <4>2
    <3> QED BY <3>1, <3>2
  <2> QED BY <2>1
<1> HIDE DEF h
<1>7. PICK along : along = ArmAlong(start, code, step, where)
  OBVIOUS
<1>8. along = [k \in 0..n |-> Body(along, k)]
  <2>1. along = CHOOSE f : f = [k \in 0..n |-> Body(f, k)]
    BY <1>1, <1>7 DEF ArmAlong
  <2> HIDE DEF Body
  <2> QED BY <1>6, <2>1
<1>9. along[0] = first
  BY <1>1, <1>8
<1>10. ASSUME NEW k \in 1..n PROVE along[k] = ArmExecute(along[k - 1], code[k], where)
  <2>1. k \in 0..n /\ k # 0
    BY <1>1
  <2>2. along[k] = Body(along, k)
    BY <1>8, <2>1
  <2> QED BY <2>1, <2>2
<1> QED BY <1>1, <1>7, <1>9, <1>10 DEF IsAlong

(* The addresses are those of the instructions, whatever is in the buffer  *)
(* and wherever the code lies; the cycles are known up to the last branch. *)
IsCounted(along, other, n) ==
  \A k \in 0..n :
    /\ along[k].addr \in Nat /\ along[k].addr % 2 = 0 /\ along[k].addr = other[k].addr
    /\ Fits(along[k].addr, along[k].left, along[k].addr \div 4)
    /\ along[k].step \in Nat /\ along[k].jump \in Nat
    /\ k < n => along[k].jump = along[k].step

LEMMA AlongHolds ==
  ASSUME NEW node, IsArmBlock(node), node.code \in Seq([len : Int, class : STRING]),
         NEW step \in BOOLEAN, NEW where \in Memories
  PROVE  IsCounted(ArmAlong(node.start, node.code, step, where),
                   ArmAlong(node.start, node.code, FALSE, "on"), Len(node.code))
<1>1. PICK n, along, other :
        /\ n = Len(node.code)
        /\ along = ArmAlong(node.start, node.code, step, where)
        /\ other = ArmAlong(node.start, node.code, FALSE, "on")
  OBVIOUS
<1>2. n \in Nat /\ n = Len(node.code)
  BY <1>1
<1> DEFINE Kept(k) ==
             /\ along[k].addr \in Nat /\ along[k].addr % 2 = 0 /\ along[k].addr = other[k].addr
             /\ Fits(along[k].addr, along[k].left, along[k].addr \div 4)
             /\ along[k].step \in Nat /\ along[k].jump \in Nat
             /\ k < n => along[k].jump = along[k].step
           Good == {k \in Nat : k <= n => Kept(k)}
<1>3. node.start \in Nat /\ node.start % 2 = 0
  BY DEF IsArmBlock
<1>9. /\ along[0] = [addr |-> node.start, left |-> getInitialFetchBufferState(node.start, step),
                    step |-> 0, jump |-> 0]
      /\ \A k \in 1..n : along[k] = ArmExecute(along[k - 1], node.code[k], where)
  <2>1. IsAlong(along, node.start, node.code, step, where)
    BY <1>1, <1>2, AlongEquations
  <2> QED BY <1>2, <2>1 DEF IsAlong
<1>10. /\ other[0].addr = node.start
       /\ \A k \in 1..n : other[k] = ArmExecute(other[k - 1], node.code[k], "on")
  <2>1. /\ other[0] = [addr |-> node.start, left |-> getInitialFetchBufferState(node.start, FALSE),
                       step |-> 0, jump |-> 0]
        /\ \A k \in 1..n : other[k] = ArmExecute(other[k - 1], node.code[k], "on")
    <3>1. IsAlong(other, node.start, node.code, FALSE, "on")
      BY <1>1, <1>2, AlongEquations
    <3> QED BY <1>2, <3>1 DEF IsAlong
  <2> QED BY <2>1
<1>4. 0 \in Good
  <2>1. along[0] = [addr |-> node.start, left |-> getInitialFetchBufferState(node.start, step),
                    step |-> 0, jump |-> 0]
    BY <1>9
  <2>2. other[0].addr = node.start
    BY <1>10
  <2>3. Fits(node.start, getInitialFetchBufferState(node.start, step), node.start \div 4)
    BY <1>3 DEF Fits, getInitialFetchBufferState
  <2>4. /\ along[0].addr = node.start /\ along[0].step = 0 /\ along[0].jump = 0
        /\ along[0].left = getInitialFetchBufferState(node.start, step)
    BY <2>1
  <2> QED BY <1>3, <2>2, <2>3, <2>4
<1>5. ASSUME NEW k \in Good PROVE k + 1 \in Good
  <2> SUFFICES ASSUME k + 1 <= n PROVE Kept(k + 1)
    OBVIOUS
  <2>1. k \in Nat /\ k + 1 \in 1..n /\ k + 1 - 1 = k /\ k < n
    BY <1>2
  <2>2. Kept(k)
    <3> HIDE DEF Kept
    <3> QED BY <1>2, <2>1
  <2>3. PICK i, acc, old : i = node.code[k + 1] /\ acc = along[k] /\ old = other[k]
    OBVIOUS
  <2>4. i.len \in {2, 4} /\ i.class \in ArmClasses
    BY <1>2, <2>1, <2>3 DEF IsArmBlock
  <2>5. along[k + 1] = ArmExecute(acc, i, where) /\ other[k + 1] = ArmExecute(old, i, "on")
    <3>1. along[k + 1] = ArmExecute(along[k + 1 - 1], node.code[k + 1], where)
      BY <1>9, <2>1
    <3>2. other[k + 1] = ArmExecute(other[k + 1 - 1], node.code[k + 1], "on")
      BY <1>10, <2>1
    <3> QED BY <2>1, <2>3, <3>1, <3>2
  <2>6. PICK F : F = getInstructionsFetchLatency(acc.addr, i.len, acc.left)
    OBVIOUS
  <2>7. /\ acc.addr \in Nat /\ acc.addr % 2 = 0 /\ acc.addr = old.addr
        /\ Fits(acc.addr, acc.left, acc.addr \div 4)
        /\ acc.step \in Nat /\ acc.jump = acc.step
    BY <2>1, <2>2, <2>3
  <2>8. /\ acc.addr + i.len \in Nat /\ (acc.addr + i.len) % 2 = 0 /\ F.words \in Nat
        /\ Fits(acc.addr + i.len, F.left, (acc.addr + i.len - 1) \div 4)
    <3>1. PICK a, l, left, word : /\ a = acc.addr /\ l = i.len /\ left = acc.left
                                  /\ word = acc.addr \div 4
      OBVIOUS
    <3>2. a \in Nat /\ a % 2 = 0 /\ l \in {2, 4} /\ word \in Int /\ Fits(a, left, word)
      BY <2>4, <2>7, <3>1
    <3>3. /\ a + l \in Nat /\ (a + l) % 2 = 0
          /\ Fits(a + l, getInstructionsFetchLatency(a, l, left).left, (a + l - 1) \div 4)
          /\ getInstructionsFetchLatency(a, l, left).words \in 0..2
      BY <3>2, FetchIsCovered
    <3> QED BY <2>6, <3>1, <3>3
  <2>9. Fits(acc.addr + i.len, F.left, (acc.addr + i.len) \div 4)
    BY <2>8 DEF Fits
  <2>10. PICK f, s, j : /\ f = Latency["armv6m"].fetch[where]
                        /\ s = ArmLatency(i.class, "step", where)
                        /\ j = ArmLatency(i.class, "jump", where)
    OBVIOUS
  <2>11. f \in Nat /\ s \in Nat /\ j \in Nat
    BY <2>4, <2>10, ArmLatencyAssumption
  <2>12. /\ along[k + 1].addr = acc.addr + i.len /\ other[k + 1].addr = old.addr + i.len
         /\ along[k + 1].left = F.left
         /\ along[k + 1].step = acc.step + F.words * f + 1 + s
         /\ along[k + 1].jump = acc.jump + F.words * f + 1 + j
    BY <2>5, <2>6, <2>10 DEF ArmExecute
  <2>13. F.words * f \in Nat
    <3>1. \A a, b \in Nat : a * b \in Nat
      OBVIOUS
    <3> QED BY <2>8, <2>11, <3>1
  <2>14. along[k + 1].step \in Nat /\ along[k + 1].jump \in Nat
    BY <2>7, <2>11, <2>12, <2>13
  <2>15. k + 1 < n => along[k + 1].jump = along[k + 1].step
    <3> SUFFICES ASSUME k + 1 < n PROVE along[k + 1].jump = along[k + 1].step
      OBVIOUS
    <3>1. i.class # "cond"
      BY <1>2, <2>1, <2>3 DEF IsArmBlock
    <3>2. s = j
      BY <2>10, <3>1 DEF ArmLatency
    <3> QED BY <2>7, <2>12, <3>2
  <2> HIDE DEF Good
  <2> QED BY <2>7, <2>8, <2>9, <2>12, <2>14, <2>15
<1>6. Good = Nat
  <2> HIDE DEF Kept
  <2>1. Good \in SUBSET Nat
    OBVIOUS
  <2> HIDE DEF Good
  <2> QED BY <1>4, <1>5, <2>1, SetInduction
<1>7. \A k \in 0..n : Kept(k)
  <2> HIDE DEF Kept
  <2> QED BY <1>2, <1>6
<1>11. IsCounted(along, other, n)
  BY <1>7 DEF IsCounted
<1> QED BY <1>1, <1>11

Fetch(where) == Latency["armv6m"].fetch[where]

LEMMA FewFetches ==
  ASSUME NEW f \in Nat, NEW c \in 0..2, NEW w \in 0..2, NEW a \in 0..1, NEW b \in 0..1, c + a <= w + b
  PROVE  /\ c * f \in Nat /\ w * f \in Nat /\ f * a \in Nat /\ f * b \in Nat
         /\ c * f + f * a <= w * f + f * b
<1>1. 0 * f = 0 /\ 1 * f = f /\ 2 * f = f + f /\ f * 0 = 0 /\ f * 1 = f
  OBVIOUS
<1>2. c \in {0, 1, 2} /\ w \in {0, 1, 2} /\ a \in {0, 1} /\ b \in {0, 1}
  OBVIOUS
<1>3. c * f = (IF c = 0 THEN 0 ELSE IF c = 1 THEN f ELSE f + f)
  BY <1>1, <1>2
<1>4. w * f = (IF w = 0 THEN 0 ELSE IF w = 1 THEN f ELSE f + f)
  BY <1>1, <1>2
<1>5. f * a = (IF a = 0 THEN 0 ELSE f) /\ f * b = (IF b = 0 THEN 0 ELSE f)
  BY <1>1, <1>2
<1> QED BY <1>2, <1>3, <1>4, <1>5

LEMMA PaidMore ==
  ASSUME NEW x \in Nat, NEW y \in Nat, NEW paid \in Int, NEW fp \in Nat, NEW fq \in Nat,
         NEW cf \in Nat, NEW wf \in Nat, NEW j \in Nat, cf + fp <= wf + fq, x + fq <= paid + y
  PROVE  x + cf + 1 + j + fp <= paid + (y + wf + 1 + j)
OBVIOUS

LEMMA EndWord ==
  ASSUME NEW a \in Nat, NEW len \in {2, 4}, NEW b, b = a + len
  PROVE  (a + len - 1) \div 4 = (b - 1) \div 4
OBVIOUS

(* An instruction takes no more than it costs, by the way it goes on; if it*)
(* is not taken by a branch, the core keeps what is counted as buffered.   *)
IsPaidFor(core, i, at, to, next, where, paid) ==
  LET after == ArmStep(core, i.class, at.addr, i.len, next, where)
      taken == Redirects(i.class, at.addr, i.len, next)
  IN  Fits(at.addr, at.left, core.word) =>
        /\ after \in [word : Int, cycles : Nat]
        /\ to.addr = at.addr + i.len
        /\ ~taken => after.word = (to.addr - 1) \div 4 /\ Fits(to.addr, to.left, after.word)
        /\ core.cycles + Fetch(where) * Ahead(at.addr, at.left) <= paid + at.step =>
             after.cycles + Fetch(where) * Ahead(to.addr, to.left) <=
               paid + (IF taken THEN to.jump ELSE to.step)

LEMMA InstructionIsPaid ==
  ASSUME NEW node, IsArmBlock(node), node.code \in Seq([len : Int, class : STRING]),
         NEW step \in BOOLEAN, NEW where \in Memories,
         NEW k \in Nat, k < Len(node.code), NEW next, NEW paid \in Int,
         NEW core \in [word : Int, cycles : Nat]
  PROVE  IsPaidFor(core, node.code[k + 1], ArmAlong(node.start, node.code, step, where)[k],
                   ArmAlong(node.start, node.code, step, where)[k + 1], next, where, paid)
<1>1. PICK n, i, l, at, to, taken, after :
        /\ n = Len(node.code) /\ i = node.code[k + 1] /\ l = i.len
        /\ at = ArmAlong(node.start, node.code, step, where)[k]
        /\ to = ArmAlong(node.start, node.code, step, where)[k + 1]
        /\ taken = Redirects(i.class, at.addr, i.len, next)
        /\ after = ArmStep(core, i.class, at.addr, i.len, next, where)
  OBVIOUS
<1>0. SUFFICES ASSUME Fits(at.addr, at.left, core.word)
      PROVE  /\ after \in [word : Int, cycles : Nat]
             /\ to.addr = at.addr + i.len
             /\ ~taken => after.word = (to.addr - 1) \div 4 /\ Fits(to.addr, to.left, after.word)
             /\ core.cycles + Fetch(where) * Ahead(at.addr, at.left) <= paid + at.step =>
                  after.cycles + Fetch(where) * Ahead(to.addr, to.left) <=
                    paid + (IF taken THEN to.jump ELSE to.step)
  BY <1>1 DEF IsPaidFor
<1>2. n \in Nat /\ k \in 0..n /\ k < n /\ k + 1 \in 1..n /\ k + 1 \in 0..n /\ k + 1 - 1 = k
  BY <1>1
<1>3. l \in {2, 4} /\ i.class \in ArmClasses
  BY <1>1, <1>2 DEF IsArmBlock
<1>4. /\ at.addr \in Nat /\ at.addr % 2 = 0 /\ at.step \in Nat /\ at.jump = at.step
      /\ to.addr \in Nat
  <2>1. PICK along : along = ArmAlong(node.start, node.code, step, where)
    OBVIOUS
  <2>2. IsCounted(along, ArmAlong(node.start, node.code, FALSE, "on"), n)
    BY <1>1, <2>1, AlongHolds
  <2>3. at = along[k] /\ to = along[k + 1]
    BY <1>1, <2>1
  <2> QED BY <1>2, <2>2, <2>3 DEF IsCounted
<1>5. to = ArmExecute(at, i, where)
  <2>1. IsAlong(ArmAlong(node.start, node.code, step, where), node.start, node.code, step, where)
    BY <1>1, <1>2, AlongEquations
  <2>2. PICK along : along = ArmAlong(node.start, node.code, step, where)
    OBVIOUS
  <2>3. along[k + 1] = ArmExecute(along[k + 1 - 1], node.code[k + 1], where)
    BY <1>1, <1>2, <2>1, <2>2 DEF IsAlong
  <2> QED BY <1>1, <1>2, <2>2, <2>3
<1>6. PICK f, s, j, F : /\ f = Fetch(where)
                        /\ s = ArmLatency(i.class, "step", where)
                        /\ j = ArmLatency(i.class, "jump", where)
                        /\ F = getInstructionsFetchLatency(at.addr, l, at.left)
  OBVIOUS
<1>7. f \in Nat /\ s \in Nat /\ j \in Nat
  BY <1>3, <1>6, ArmLatencyAssumption DEF Fetch
<1>8. /\ to.addr = at.addr + l /\ to.left = F.left
      /\ to.step = at.step + F.words * f + 1 + s
      /\ to.jump = at.jump + F.words * f + 1 + j
  <2>1. F = getInstructionsFetchLatency(at.addr, i.len, at.left) /\ f = Latency["armv6m"].fetch[where]
    BY <1>1, <1>6 DEF Fetch
  <2>2. /\ to.addr = at.addr + i.len /\ to.left = F.left
        /\ to.step = at.step + F.words * f + 1 + s
        /\ to.jump = at.jump + F.words * f + 1 + j
    BY <1>5, <1>6, <2>1 DEF ArmExecute
  <2> QED BY <1>1, <2>2
<1>9. PICK word, c : /\ word = core.word
                     /\ c = Cardinality(FetchedWords(at.addr, l, word))
  OBVIOUS
<1>10. /\ after.word = (IF taken THEN -1 ELSE (at.addr + l - 1) \div 4)
       /\ after.cycles = core.cycles + c * f + 1 + (IF taken THEN j ELSE s)
       /\ after = [word |-> IF taken THEN -1 ELSE (at.addr + l - 1) \div 4,
                   cycles |-> core.cycles + c * f + 1 + (IF taken THEN j ELSE s)]
  <2>1. taken \in BOOLEAN
    BY <1>1 DEF Redirects
  <2>2. ArmLatency(i.class, IF taken THEN "jump" ELSE "step", where) = (IF taken THEN j ELSE s)
    BY <1>6
  <2>3. after = [word |-> IF taken THEN -1 ELSE (at.addr + l - 1) \div 4,
                 cycles |-> core.cycles + c * f + 1
                              + ArmLatency(i.class, IF taken THEN "jump" ELSE "step", where)]
    BY <1>1, <1>6, <1>9 DEF ArmStep, Fetch, FetchedWords
  <2> QED BY <2>2, <2>3
<1>11. /\ Fits(at.addr + l, F.left, (at.addr + l - 1) \div 4)
       /\ F.words \in 0..2 /\ c \in 0..2
       /\ c + Ahead(at.addr + l, F.left) <= F.words + Ahead(at.addr, at.left)
  <2>1. PICK a, left : a = at.addr /\ left = at.left
    OBVIOUS
  <2>2. a \in Nat /\ a % 2 = 0 /\ l \in {2, 4} /\ word \in Int /\ Fits(a, left, word)
    BY <1>0, <1>3, <1>4, <1>9, <2>1
  <2>3. /\ Fits(a + l, getInstructionsFetchLatency(a, l, left).left, (a + l - 1) \div 4)
        /\ getInstructionsFetchLatency(a, l, left).words \in 0..2
        /\ Cardinality(FetchedWords(a, l, word)) \in 0..2
        /\ Cardinality(FetchedWords(a, l, word)) + Ahead(a + l, getInstructionsFetchLatency(a, l, left).left)
             <= getInstructionsFetchLatency(a, l, left).words + Ahead(a, left)
    BY <2>2, FetchIsCovered
  <2> QED BY <1>6, <1>9, <2>1, <2>3
<1>12. PICK w, p, q : w = F.words /\ p = Ahead(to.addr, to.left) /\ q = Ahead(at.addr, at.left)
  OBVIOUS
<1>13. p \in 0..1 /\ q \in 0..1 /\ w \in 0..2 /\ c + p <= w + q
  BY <1>8, <1>11, <1>12 DEF Ahead
<1>14. PICK cf, wf, fp, fq : cf = c * f /\ wf = w * f /\ fp = f * p /\ fq = f * q
  OBVIOUS
<1>15. cf \in Nat /\ wf \in Nat /\ fp \in Nat /\ fq \in Nat /\ cf + fp <= wf + fq
  BY <1>7, <1>11, <1>13, <1>14, FewFetches
<1>16. /\ core.cycles \in Nat
       /\ after.cycles = core.cycles + cf + 1 + (IF taken THEN j ELSE s)
       /\ to.step = at.step + wf + 1 + s /\ to.jump = at.step + wf + 1 + j
  BY <1>4, <1>6, <1>8, <1>10, <1>12, <1>14
<1>17. core.cycles + fq <= paid + at.step => after.cycles + fp <= paid + (IF taken THEN to.jump ELSE to.step)
  <2> SUFFICES ASSUME core.cycles + fq <= paid + at.step
               PROVE  after.cycles + fp <= paid + (IF taken THEN to.jump ELSE to.step)
    OBVIOUS
  <2>1. PICK x, y, z : x = core.cycles /\ y = at.step /\ z = after.cycles
    OBVIOUS
  <2>2. x \in Nat /\ y \in Nat /\ x + fq <= paid + y
    BY <1>4, <1>16, <2>1
  <2>3. ASSUME NEW d \in Nat PROVE x + cf + 1 + d + fp <= paid + (y + wf + 1 + d)
    BY <1>7, <1>15, <2>2, PaidMore
  <2>4. CASE taken
    <3>1. z = x + cf + 1 + j /\ to.jump = y + wf + 1 + j
      BY <1>16, <2>1, <2>4
    <3>2. x + cf + 1 + j + fp <= paid + (y + wf + 1 + j)
      BY <1>7, <2>3
    <3> QED BY <2>1, <2>4, <3>1, <3>2
  <2>5. CASE ~taken
    <3>1. z = x + cf + 1 + s /\ to.step = y + wf + 1 + s
      BY <1>16, <2>1, <2>5
    <3>2. x + cf + 1 + s + fp <= paid + (y + wf + 1 + s)
      BY <1>7, <2>3
    <3> QED BY <2>1, <2>5, <3>1, <3>2
  <2> QED BY <2>4, <2>5
<1>18. after \in [word : Int, cycles : Nat]
  <2>1. after.cycles \in Nat
    BY <1>7, <1>15, <1>16
  <2>2. after.word \in Int
    BY <1>3, <1>4, <1>10
  <2> QED BY <1>10, <2>1, <2>2
<1>20. PICK a, b : a = at.addr /\ b = to.addr /\ b = a + l /\ a \in Nat /\ l \in {2, 4}
  BY <1>3, <1>4, <1>8
<1>21. (a + l - 1) \div 4 = (b - 1) \div 4
  BY <1>20, EndWord
<1>19. ~taken => after.word = (to.addr - 1) \div 4 /\ Fits(to.addr, to.left, after.word)
  <2> SUFFICES ASSUME ~taken PROVE after.word = (to.addr - 1) \div 4 /\ Fits(to.addr, to.left, after.word)
    OBVIOUS
  <2>3. after.word = (a + l - 1) \div 4
    <3>1. after.word = (IF taken THEN -1 ELSE (at.addr + l - 1) \div 4)
      BY <1>10
    <3> QED BY <1>20, <3>1
  <2>4. Fits(b, to.left, (a + l - 1) \div 4)
    BY <1>8, <1>11, <1>20
  <2> QED BY <1>20, <1>21, <2>3, <2>4
<1> QED BY <1>1, <1>6, <1>8, <1>12, <1>14, <1>17, <1>18, <1>19

(* What an edge pays for the block it leaves is what leaving it costs there*)
Charge(g, e, where) == IF where = "off" THEN Weight(g, e, "WCET") ELSE g.edges[e].cost

Covers(memory, where) == memory # (IF where = "off" THEN "dynamic" ELSE "none")

AlongBlock(g, v, where) ==
  ArmAlong(g.nodes[v].start, g.nodes[v].code, EnteredByStepOnly(g, v), where)

LEMMA BlockIsCounted ==
  ASSUME NEW g, IsProblemGraph(g), NEW memory, IsTimedGraph(g, memory), NEW v \in 1..Len(g.nodes),
         g.nodes[v].type = "BasicBlock", NEW where \in Memories
  PROVE  /\ IsArmBlock(g.nodes[v]) /\ g.nodes[v].code \in Seq([len : Int, class : STRING])
         /\ Len(g.nodes[v].code) \in Nat /\ Len(g.nodes[v].code) > 0
         /\ EnteredByStepOnly(g, v) \in BOOLEAN
         /\ g.nodes[v].start \in Nat /\ g.nodes[v].start % 2 = 0 /\ g.nodes[v].size \in Int
         /\ IsCounted(AlongBlock(g, v, where),
                      ArmAlong(g.nodes[v].start, g.nodes[v].code, FALSE, "on"), Len(g.nodes[v].code))
<1>1. PICK node : node = g.nodes[v]
  OBVIOUS
<1>2. node \in Vertex
  BY <1>1 DEF IsProblemGraph
<1>3. IsArmBlock(node)
  BY <1>1 DEF IsTimedGraph
<1>4. node.code \in Seq([len : Int, class : STRING])
  BY <1>2 DEF Vertex
<1>5. Len(node.code) \in Nat /\ Len(node.code) > 0
  <2>1. node.code # << >>
    BY <1>3 DEF IsArmBlock
  <2> QED BY <1>4, <2>1
<1>6. PICK b : b = EnteredByStepOnly(g, v)
  OBVIOUS
<1>7. b \in BOOLEAN
  BY <1>6 DEF EnteredByStepOnly
<1>8. IsCounted(ArmAlong(node.start, node.code, b, where), ArmAlong(node.start, node.code, FALSE, "on"),
                Len(node.code))
  BY <1>3, <1>4, <1>7, AlongHolds
<1>9. node.start \in Nat /\ node.start % 2 = 0 /\ node.size \in Int
  BY <1>2, <1>3 DEF IsArmBlock, Vertex
<1> QED BY <1>1, <1>3, <1>4, <1>5, <1>6, <1>7, <1>8, <1>9 DEF AlongBlock

LEMMA ChargeOfEdge ==
  ASSUME NEW g, IsProblemGraph(g), NEW memory \in {"none", "static", "dynamic"}, IsTimedGraph(g, memory),
         NEW e \in 1..Len(g.edges), NEW where \in Memories, Covers(memory, where),
         NEW v, v = g.edges[e].src
  PROVE  Charge(g, e, where) =
           (IF g.nodes[v].type = "BasicBlock"
            THEN EdgeCost(g.edges[e].type, AlongBlock(g, v, where)[Len(g.nodes[v].code)]) ELSE 0)
<1>1. PICK edge, type : edge = g.edges[e] /\ type = edge.type
  OBVIOUS
<1>2. edge.src = v /\ v \in 1..Len(g.nodes)
  BY <1>1 DEF IsProblemGraph
<1>3. /\ edge.cost \in Int /\ edge.pen \in Int
  BY <1>1, EdgeSets DEF Edge
<1>4. CASE g.nodes[v].type # "BasicBlock"
  <2>1. edge.cost = 0 /\ edge.pen = 0
    BY <1>1, <1>2, <1>4 DEF IsTimedGraph, IsLaidOut
  <2> QED BY <1>1, <1>4, <2>1 DEF Charge, Weight
<1>5. CASE g.nodes[v].type = "BasicBlock"
  <2>1. PICK costs : costs = ArmCosts(g)
    OBVIOUS
  <2>2. v \in DOMAIN costs
    BY <1>2, <1>5, <2>1 DEF ArmCosts
  <2>3. PICK on, off : on = EdgeCost(type, costs[v].on) /\ off = EdgeCost(type, costs[v].off)
    OBVIOUS
  <2>4. /\ edge.cost = (IF memory = "none" THEN off ELSE on)
        /\ edge.pen = (IF memory = "static" THEN off - on ELSE 0)
    <3>1. g = calculateCost(g, memory, costs)
      BY <2>1 DEF IsTimedGraph
    <3>2. g.edges[e] = [g.edges[e] EXCEPT !.cost = IF memory = "none" THEN off ELSE on,
                                          !.pen = IF memory = "static" THEN off - on ELSE 0]
      <4> DEFINE On(x) == EdgeCost(g.edges[x].type, costs[g.edges[x].src].on)
                 Off(x) == EdgeCost(g.edges[x].type, costs[g.edges[x].src].off)
                 Paying(x) == [g.edges[x] EXCEPT !.cost = IF memory = "none" THEN Off(x) ELSE On(x),
                                                 !.pen = IF memory = "static" THEN Off(x) - On(x) ELSE 0]
      <4>1. g.edges = [x \in DOMAIN g.edges |->
              IF g.edges[x].src \notin DOMAIN costs THEN g.edges[x] ELSE Paying(x)]
        BY <3>1 DEF calculateCost, IsProblemGraph
      <4>2. e \in DOMAIN g.edges /\ g.edges[e].src = v /\ g.edges[e].type = type
        BY <1>1, <1>2 DEF IsProblemGraph
      <4>3. g.edges[e] = Paying(e)
        <5> HIDE DEF Paying
        <5> QED BY <2>2, <4>1, <4>2
      <4>4. On(e) = on /\ Off(e) = off
        BY <2>3, <4>2
      <4> HIDE DEF On, Off
      <4> QED BY <4>3, <4>4
    <3>3. PICK x, y : /\ x = (IF memory = "none" THEN off ELSE on)
                      /\ y = (IF memory = "static" THEN off - on ELSE 0)
      OBVIOUS
    <3>4. edge \in Edge /\ edge = [edge EXCEPT !.cost = x, !.pen = y]
      BY <1>1, <3>2, <3>3, EdgeSets DEF IsProblemGraph
    <3>5. edge.cost = x /\ edge.pen = y
      BY <3>4 DEF Edge
    <3> QED BY <3>3, <3>5
  <2>5. ASSUME NEW w \in Memories
        PROVE  EdgeCost(type, costs[v][w]) = EdgeCost(type, AlongBlock(g, v, w)[Len(g.nodes[v].code)])
    <3>1. PICK c, end : c = costs[v][w] /\ end = AlongBlock(g, v, w)[Len(g.nodes[v].code)]
      OBVIOUS
    <3>2. c = ArmCycles(g.nodes[v].start, g.nodes[v].code, EnteredByStepOnly(g, v), w)
      BY <1>2, <1>5, <2>1, <3>1 DEF ArmCosts
    <3>3. c = [step |-> end.step, jump |-> end.jump]
      BY <3>1, <3>2 DEF ArmCycles, AlongBlock
    <3>4. EdgeCost(type, c) = EdgeCost(type, end)
      BY <3>3 DEF EdgeCost
    <3> QED BY <3>1, <3>4
  <2>6. on = EdgeCost(type, costs[v]["on"]) /\ off = EdgeCost(type, costs[v]["off"])
    BY <2>3
  <2>7. CASE where = "on"
    <3>1. memory # "none"
      BY <2>7 DEF Covers
    <3>2. edge.cost = on
      BY <2>4, <3>1
    <3> QED BY <1>1, <1>5, <2>5, <2>6, <2>7, <3>2 DEF Charge
  <2>8. CASE where = "off"
    <3>1. memory \in {"none", "static"}
      BY <2>8 DEF Covers
    <3>2. edge.cost + edge.pen = off
      <4>1. CASE memory = "none"
        <5>1. edge.cost = off /\ edge.pen = 0
          BY <2>4, <4>1
        <5> QED BY <1>3, <5>1
      <4>2. CASE memory = "static"
        <5>1. edge.cost = on /\ edge.pen = off - on
          BY <2>4, <4>2
        <5>2. off \in Int
          <6>1. PICK n, end : /\ n = Len(g.nodes[v].code) /\ end = AlongBlock(g, v, "off")[n]
            OBVIOUS
          <6>2. n \in Nat /\ IsCounted(AlongBlock(g, v, "off"),
                  ArmAlong(g.nodes[v].start, g.nodes[v].code, FALSE, "on"), n)
            BY <1>2, <1>5, <6>1, BlockIsCounted DEF Memories
          <6>3. n \in 0..n
            BY <6>2
          <6>4. end.step \in Nat /\ end.jump \in Nat
            BY <6>1, <6>2, <6>3 DEF IsCounted
          <6>5. off = EdgeCost(type, end)
            BY <2>5, <2>6, <6>1 DEF Memories
          <6> QED BY <6>4, <6>5 DEF EdgeCost
        <5> QED BY <1>3, <5>1, <5>2
      <4> QED BY <3>1, <4>1, <4>2
    <3>3. Weight(g, e, "WCET") = off
      BY <1>1, <3>2 DEF Weight
    <3> QED BY <1>1, <1>5, <2>5, <2>6, <2>8, <3>3 DEF Charge, Memories
  <2> QED BY <2>7, <2>8 DEF Memories
<1> QED BY <1>4, <1>5

LEMMA Positions ==
  ASSUME NEW n \in Nat, n > 0
  PROVE  n \in 0..n /\ n - 1 \in 0..n /\ n - 1 < n /\ n \in 1..n /\ n - 1 + 1 = n /\ n - 1 \in Nat
OBVIOUS

LEMMA ExecuteFields ==
  ASSUME NEW at, NEW i, NEW where
  PROVE  LET to == ArmExecute(at, i, where)
             words == getInstructionsFetchLatency(at.addr, i.len, at.left).words
         IN  /\ to.addr = at.addr + i.len
             /\ to.step = at.step + words * Fetch(where) + 1 + ArmLatency(i.class, "step", where)
             /\ to.jump = at.jump + words * Fetch(where) + 1 + ArmLatency(i.class, "jump", where)
BY DEF ArmExecute, Fetch

(* An edge out of a block is paid for by the way the core goes on.         *)
IsExit(g, memory, e, where) ==
  LET v     == g.edges[e].src
      n     == Len(g.nodes[v].code)
      at    == AlongBlock(g, v, where)[n - 1]
      to    == AlongBlock(g, v, where)[n]
      taken == Redirects(g.nodes[v].code[n].class, at.addr, g.nodes[v].code[n].len,
                         AddressOf(g.nodes[g.edges[e].dst]))
  IN  /\ Covers(memory, where) => Charge(g, e, where) = (IF taken THEN to.jump ELSE to.step)
      /\ g.edges[e].type = "ForwardStep" => ~taken /\ AddressOf(g.nodes[g.edges[e].dst]) = to.addr

LEMMA ExitIsTaken ==
  ASSUME NEW g, IsProblemGraph(g), NEW memory \in {"none", "static", "dynamic"}, IsTimedGraph(g, memory),
         NEW e \in 1..Len(g.edges), NEW where \in Memories, g.nodes[g.edges[e].src].type = "BasicBlock"
  PROVE  IsExit(g, memory, e, where)
<1>1. PICK v, n, node, edge, i, next, at, to, taken :
        /\ v = g.edges[e].src /\ n = Len(g.nodes[v].code)
        /\ node = g.nodes[v] /\ edge = g.edges[e] /\ i = node.code[n]
        /\ next = AddressOf(g.nodes[edge.dst])
        /\ at = AlongBlock(g, v, where)[n - 1] /\ to = AlongBlock(g, v, where)[n]
        /\ taken = Redirects(i.class, at.addr, i.len, next)
  OBVIOUS
<1>2. v \in 1..Len(g.nodes) /\ edge.src = v
  BY <1>1 DEF IsProblemGraph
<1>3. /\ IsArmBlock(node) /\ node.code \in Seq([len : Int, class : STRING]) /\ n \in Nat /\ n > 0
      /\ node.start \in Nat /\ EnteredByStepOnly(g, v) \in BOOLEAN
      /\ IsCounted(AlongBlock(g, v, where), ArmAlong(node.start, node.code, FALSE, "on"), n)
  BY <1>1, <1>2, BlockIsCounted
<1>4. PICK along, end : along = AlongBlock(g, v, where) /\ end = ArmAlong(node.start, node.code, FALSE, "on")
  OBVIOUS
<1>5. n \in 0..n /\ n - 1 \in 0..n /\ n - 1 < n /\ n \in 1..n /\ n - 1 + 1 = n
  BY <1>3, Positions
<1>6. /\ at.addr \in Nat /\ to.addr \in Nat /\ to.addr = end[n].addr /\ at.jump = at.step
      /\ at.step \in Nat
  <2>1. IsCounted(along, end, n) /\ at = along[n - 1] /\ to = along[n]
    BY <1>1, <1>3, <1>4
  <2> QED BY <1>5, <2>1 DEF IsCounted
<1>7. to = ArmExecute(at, i, where)
  <2>1. IsAlong(along, node.start, node.code, EnteredByStepOnly(g, v), where)
    BY <1>1, <1>3, <1>4, AlongEquations DEF AlongBlock
  <2>2. along[n] = ArmExecute(along[n - 1], node.code[n], where)
    BY <1>1, <1>5, <2>1 DEF IsAlong
  <2> QED BY <1>1, <1>4, <2>2
<1>8. i.len \in {2, 4} /\ i.class \in ArmClasses
  BY <1>1, <1>3, <1>5 DEF IsArmBlock
<1>9. to.addr = at.addr + i.len
  BY <1>7, ExecuteFields
<1>10. i.class # "cond" => to.jump = to.step
  <2> SUFFICES ASSUME i.class # "cond" PROVE to.jump = to.step
    OBVIOUS
  <2>1. ArmLatency(i.class, "step", where) = ArmLatency(i.class, "jump", where)
    BY DEF ArmLatency
  <2>2. PICK w : w = getInstructionsFetchLatency(at.addr, i.len, at.left).words
    OBVIOUS
  <2>3. /\ to.step = at.step + w * Fetch(where) + 1 + ArmLatency(i.class, "step", where)
        /\ to.jump = at.jump + w * Fetch(where) + 1 + ArmLatency(i.class, "jump", where)
    BY <1>7, <2>2, ExecuteFields
  <2> QED BY <1>6, <2>1, <2>3
<1>11. node.start + node.size - i.len = at.addr
  <2>1. node.start + node.size = end[n].addr
    BY <1>1, <1>3, <1>4 DEF IsArmBlock
  <2>2. PICK s, z, l, a : s = node.start /\ z = node.size /\ l = i.len /\ a = at.addr
    OBVIOUS
  <2>3. s \in Int /\ z \in Int /\ l \in Int /\ a \in Int
    <3>1. node.size \in Int
      BY <1>1, <1>2, BlockIsCounted
    <3> QED BY <1>3, <1>6, <1>8, <2>2, <3>1
  <2>4. s + z = a + l
    BY <1>6, <1>9, <2>1, <2>2
  <2>5. s + z - l = a
    BY <2>3, <2>4
  <2> QED BY <2>2, <2>5
<1>12. Last(node.code) = i
  BY <1>1 DEF Last
<1>13. /\ (edge.type = "ForwardStep") = ~Redirects(i.class, at.addr, i.len, next)
       /\ i.class = "cond" => edge.type # "Meta"
  <2>1. IsLaidOut(g, edge)
    BY <1>1 DEF IsTimedGraph
  <2> QED BY <1>1, <1>2, <1>11, <1>12, <2>1 DEF IsLaidOut
<1>14. taken = Redirects(i.class, at.addr, i.len, next) /\ taken \in BOOLEAN
  BY <1>1 DEF Redirects
<1>15. Covers(memory, where) => Charge(g, e, where) = EdgeCost(edge.type, to)
  BY <1>1, <1>4, ChargeOfEdge
<1>16. EdgeCost(edge.type, to) = (IF taken THEN to.jump ELSE to.step)
  BY <1>10, <1>13, <1>14 DEF EdgeCost
<1>17. edge.type = "ForwardStep" => ~taken /\ next = to.addr
  <2> SUFFICES ASSUME edge.type = "ForwardStep" PROVE ~taken /\ next = to.addr
    OBVIOUS
  <2>1. ~Redirects(i.class, at.addr, i.len, next)
    BY <1>13
  <2>2. next = at.addr + i.len
    BY <2>1 DEF Redirects
  <2> QED BY <1>9, <1>14, <2>1, <2>2
<1> QED BY <1>1, <1>15, <1>16, <1>17 DEF IsExit

(* A block begins with nothing ahead, and finds what is to be buffered.    *)
BeginsAt(first, start, word) ==
  /\ first.addr = start /\ first.step = 0
  /\ Ahead(first.addr, first.left) = 0
  /\ Fits(first.addr, first.left, word)

LEMMA BlockBegins ==
  ASSUME NEW g, IsProblemGraph(g), NEW memory, IsTimedGraph(g, memory), NEW v \in 1..Len(g.nodes),
         g.nodes[v].type = "BasicBlock", NEW where \in Memories, NEW word \in Int,
         EnteredByStepOnly(g, v) => word = (g.nodes[v].start - 1) \div 4
  PROVE  BeginsAt(AlongBlock(g, v, where)[0], g.nodes[v].start, word)
<1>0. PICK first : first = AlongBlock(g, v, where)[0]
  OBVIOUS
<1>1. PICK start, b : start = g.nodes[v].start /\ b = EnteredByStepOnly(g, v)
  OBVIOUS
<1>2. start \in Nat /\ start % 2 = 0 /\ b \in BOOLEAN /\ Len(g.nodes[v].code) \in Nat
  BY <1>1, BlockIsCounted
<1>3. first = [addr |-> start, left |-> getInitialFetchBufferState(start, b), step |-> 0, jump |-> 0]
  <2>1. IsAlong(AlongBlock(g, v, where), start, g.nodes[v].code, b, where)
    BY <1>1, <1>2, AlongEquations DEF AlongBlock
  <2> QED BY <1>0, <2>1 DEF IsAlong
<1>4. PICK q \in Nat : start = 4 * q \/ start = 4 * q + 2
  BY <1>2, HalfWords
<1>5. CASE start = 4 * q
  <2>1. start % 4 = 0
    BY <1>5
  <2>2. first.left = 0 /\ first.addr = start /\ first.step = 0
    BY <1>3, <2>1 DEF getInitialFetchBufferState
  <2>3. BeginsAt(first, start, word)
    BY <2>1, <2>2 DEF Ahead, Fits, BeginsAt
  <2> QED BY <1>0, <1>1, <2>3
<1>6. CASE start = 4 * q + 2
  <2>1. start % 4 = 2 /\ start \div 4 = q /\ (start - 1) \div 4 = q
    BY <1>6
  <2>2. first.left = (IF b THEN 2 ELSE 0) /\ first.addr = start /\ first.step = 0
    BY <1>3, <2>1 DEF getInitialFetchBufferState
  <2>3. b => word = q
    BY <1>1, <2>1
  <2>4. BeginsAt(first, start, word)
    BY <1>2, <2>1, <2>2, <2>3 DEF Ahead, Fits, BeginsAt
  <2> QED BY <1>0, <1>1, <2>4
<1> QED BY <1>4, <1>5, <1>6

-----------------------------------------------------------------------------
(* The graphs a problem is stated for that have the times of an ARMv6-M.   *)
TimedNetworks ==
  /\ Metric = "WCET" /\ Memory \in {"none", "static", "dynamic"}
  /\ \A g \in Graphs : IsProblemGraph(g) /\ IsTimedGraph(g, Memory)

Paid(where) == IF where = "off" THEN cost ELSE CostWithoutPenalties

(* In a block the core and the calculation have executed the same: the core*)
(* has what counts as buffered, and the words the calculation is ahead are *)
(* ones it can still be asked to fetch.                                    *)
BlockIsPaid(where) ==
  LET at == AlongBlock(graph, walk.node, where)[executed]
  IN  /\ pc = at.addr
      /\ Fits(at.addr, at.left, cores[where].word)
      /\ Covers(Memory, where) =>
           Time(where) + Fetch(where) * Ahead(at.addr, at.left) <= Paid(where) + at.step

CoresArePaid ==
  IF InBlock THEN /\ executed \in Nat /\ executed < Len(Block.code)
                  /\ \A where \in Memories : BlockIsPaid(where)
  ELSE \A where \in Memories : Covers(Memory, where) => Time(where) <= Paid(where)

TimedInv ==
  /\ PathInv
  /\ cores \in [Memories -> [word : Int, cycles : Nat]]
  /\ CoresArePaid

(* An edge more is its charge more.                                        *)
LEMMA CostWithout ==
  ASSUME NEW g, IsProblemGraph(g), NEW f \in [1..Len(g.edges) -> Nat]
  PROVE  FlowOver([e \in 1..Len(g.edges) |-> f[e] * g.edges[e].cost], 1..Len(g.edges)) =
           GraphCost(g, "MDIC", f)
<1>1. \A e : Weight(g, e, "MDIC") = g.edges[e].cost
  BY DEF Weight
<1>2. [e \in 1..Len(g.edges) |-> f[e] * g.edges[e].cost] =
        [e \in 1..Len(g.edges) |-> f[e] * Weight(g, e, "MDIC")]
  BY <1>1
<1> QED BY <1>2 DEF GraphCost

LEMMA PaidIsInt ==
  ASSUME Networks, PathInv, NEW where \in Memories PROVE Paid(where) \in Int
<1>1. /\ IsProblemGraph(graph) /\ walk.flow \in [1..Len(graph.edges) -> Nat]
      /\ cost = GraphCost(graph, Metric, walk.flow)
  BY DEF PathInv, Networks, IsWalk, CostIsObjective
<1>2. GraphCost(graph, Metric, walk.flow) \in Int /\ GraphCost(graph, "MDIC", walk.flow) \in Int
  BY <1>1, WeightsAreInts
<1>3. CostWithoutPenalties = GraphCost(graph, "MDIC", walk.flow)
  BY <1>1, CostWithout DEF CostWithoutPenalties
<1> QED BY <1>1, <1>2, <1>3 DEF Paid

LEMMA PaidStep ==
  ASSUME Networks, PathInv, Metric = "WCET", NEW e \in 1..Len(graph.edges), TakeEdge(e),
         NEW where \in Memories
  PROVE  Paid(where)' = Paid(where) + Charge(graph, e, where) /\ Charge(graph, e, where) \in Int
<1>1. IsProblemGraph(graph) /\ walk.flow \in [1..Len(graph.edges) -> Nat]
  BY DEF PathInv, Networks, IsWalk
<1>2. graph' = graph /\ cost' = cost + Weight(graph, e, "WCET") /\ walk' = Follow(graph, walk, e)
  BY DEF TakeEdge
<1>3. walk'.flow = [walk.flow EXCEPT ![e] = @ + 1]
  BY <1>2 DEF Follow
<1>4. walk'.flow \in [1..Len(graph.edges) -> Nat]
  <2>1. PICK f, n : f = walk.flow /\ n = Len(graph.edges)
    OBVIOUS
  <2>2. f \in [1..n -> Nat] /\ f[e] + 1 \in Nat
    BY <1>1, <2>1
  <2>3. [f EXCEPT ![e] = f[e] + 1] \in [1..n -> Nat]
    BY <2>2
  <2> QED BY <1>3, <2>1, <2>3
<1>5. CASE where = "off"
  <2>1. Weight(graph, e, "WCET") \in Int
    BY <1>1, WeightsAreInts
  <2> QED BY <1>2, <1>5, <2>1 DEF Paid, Charge
<1>6. CASE where # "off"
  <2>1. CostWithoutPenalties = GraphCost(graph, "MDIC", walk.flow)
    BY <1>1, CostWithout DEF CostWithoutPenalties
  <2>2. CostWithoutPenalties' = GraphCost(graph, "MDIC", walk'.flow)
    <3>1. FlowOver([d \in 1..Len(graph.edges) |-> walk'.flow[d] * graph.edges[d].cost], 1..Len(graph.edges))
            = GraphCost(graph, "MDIC", walk'.flow)
      BY <1>1, <1>4, CostWithout
    <3> QED BY <1>2, <3>1 DEF CostWithoutPenalties
  <2>3. GraphCost(graph, "MDIC", walk'.flow) = GraphCost(graph, "MDIC", walk.flow) + Weight(graph, e, "MDIC")
    BY <1>1, <1>3, CostStep
  <2>4. Weight(graph, e, "MDIC") = graph.edges[e].cost /\ graph.edges[e].cost \in Int
    <3>1. Weight(graph, e, "MDIC") = graph.edges[e].cost
      BY DEF Weight
    <3>2. Weight(graph, e, "MDIC") \in Int
      BY <1>1, WeightsAreInts
    <3> QED BY <3>1, <3>2
  <2> QED BY <1>6, <2>1, <2>2, <2>3, <2>4 DEF Paid, Charge
<1> QED BY <1>5, <1>6

LEMMA TimedBegins ==
  ASSUME TimedNetworks, TimedInit PROVE TimedInv
<1>1. Networks /\ IsTimedGraph(graph, Memory) /\ graph \in Graphs /\ walk = Begun(graph)
  BY DEF TimedNetworks, Networks, TimedInit, Init
<1>2. PathInv
  BY <1>1, PathInit DEF TimedInit
<1>3. cores = [where \in Memories |-> [word |-> -1, cycles |-> 0]]
  BY DEF TimedInit
<1>4. cores \in [Memories -> [word : Int, cycles : Nat]]
  BY <1>3
<1>5. ~InBlock
  BY <1>1 DEF InBlock, Block, Begun, IsTimedGraph
<1>6. ASSUME NEW where \in Memories PROVE Time(where) <= Paid(where)
  <2>1. /\ IsProblemGraph(graph) /\ walk.flow \in [1..Len(graph.edges) -> Nat]
        /\ walk.flow = Begun(graph).flow /\ cost = 0
    BY <1>1, <1>2 DEF PathInv, Networks, IsWalk, TimedInit, Init
  <2>2. CostWithoutPenalties = 0
    BY <2>1, CostWithout, CostOfBegun DEF CostWithoutPenalties
  <2>3. Time(where) = 0
    BY <1>3 DEF Time
  <2> QED BY <2>1, <2>2, <2>3 DEF Paid
<1> QED BY <1>2, <1>4, <1>5, <1>6 DEF TimedInv, CoresArePaid

(* An instruction inside a block.                                          *)
LEMMA InsideIsPaid ==
  ASSUME TimedNetworks, TimedInv, ExecuteInside PROVE TimedInv'
<1>1. /\ Networks /\ PathInv /\ IsProblemGraph(graph) /\ IsTimedGraph(graph, Memory)
      /\ InBlock /\ executed + 1 < Len(Block.code)
      /\ graph' = graph /\ walk' = walk /\ cost' = cost
      /\ pc' = pc + Instruction.len /\ executed' = executed + 1
      /\ cores' = CoresStep(pc + Instruction.len)
  BY DEF TimedNetworks, Networks, TimedInv, PathInv, ExecuteInside, vars
<1>2. PathInv'
  BY <1>1 DEF PathInv, CostIsObjective
<1>3. PICK v, node, k, n, i : /\ v = walk.node /\ node = graph.nodes[v] /\ k = executed
                              /\ n = Len(node.code) /\ i = node.code[k + 1]
  OBVIOUS
<1>4. Block = node /\ Instruction = i
  BY <1>3 DEF Block, Instruction
<1>5. v \in 1..Len(graph.nodes) /\ node.type = "BasicBlock"
  BY <1>1, <1>3, <1>4 DEF InBlock, PathInv, IsWalk
<1>6. /\ k \in Nat /\ k + 1 < n /\ \A where \in Memories : BlockIsPaid(where)
  BY <1>1, <1>3, <1>4 DEF TimedInv, CoresArePaid
<1>7. /\ IsArmBlock(node) /\ node.code \in Seq([len : Int, class : STRING]) /\ n \in Nat
      /\ EnteredByStepOnly(graph, v) \in BOOLEAN
  BY <1>1, <1>3, <1>5, BlockIsCounted DEF Memories
<1>8. k + 1 \in Nat /\ k < n /\ k + 1 \in 0..n /\ k + 1 \in 1..n
  BY <1>6, <1>7
<1>9. ~Redirects(i.class, pc, i.len, pc + i.len)
  BY <1>3, <1>6, <1>7, <1>8 DEF IsArmBlock, Redirects
<1>10. cores \in [Memories -> [word : Int, cycles : Nat]]
  BY DEF TimedInv
<1>11. ASSUME NEW where \in Memories
       PROVE  cores'[where] \in [word : Int, cycles : Nat] /\ BlockIsPaid(where)'
  <2>1. PICK along, at, to, core, after :
          /\ along = ArmAlong(node.start, node.code, EnteredByStepOnly(graph, v), where)
          /\ at = along[k] /\ to = along[k + 1] /\ core = cores[where]
          /\ after = ArmStep(core, i.class, pc, i.len, pc + i.len, where)
    OBVIOUS
  <2>2. cores'[where] = after
    BY <1>1, <1>4, <2>1 DEF CoresStep
  <2>3. /\ pc = at.addr /\ Fits(at.addr, at.left, core.word)
        /\ Covers(Memory, where) => core.cycles + Fetch(where) * Ahead(at.addr, at.left) <= Paid(where) + at.step
    BY <1>3, <1>6, <2>1 DEF BlockIsPaid, AlongBlock, Time
  <2>4. core \in [word : Int, cycles : Nat]
    BY <1>10, <2>1
  <2>5. /\ after \in [word : Int, cycles : Nat]
        /\ to.addr = pc + i.len /\ Fits(to.addr, to.left, after.word)
        /\ Covers(Memory, where) => after.cycles + Fetch(where) * Ahead(to.addr, to.left) <= Paid(where) + to.step
    <3>1. Paid(where) \in Int
      BY <1>1, PaidIsInt
    <3>2. PICK step, next, paid : /\ step = EnteredByStepOnly(graph, v) /\ next = pc + i.len
                                  /\ paid = Paid(where)
      OBVIOUS
    <3>3. /\ step \in BOOLEAN /\ paid \in Int /\ k \in Nat /\ k < Len(node.code)
          /\ core \in [word : Int, cycles : Nat] /\ Fits(at.addr, at.left, core.word)
          /\ at = ArmAlong(node.start, node.code, step, where)[k]
          /\ to = ArmAlong(node.start, node.code, step, where)[k + 1]
          /\ i = node.code[k + 1]
      BY <1>3, <1>6, <1>7, <1>8, <2>1, <2>3, <2>4, <3>1, <3>2
    <3>4. IsPaidFor(core, i, at, to, next, where, paid)
      BY <1>7, <3>3, InstructionIsPaid
    <3> QED BY <1>9, <2>1, <2>3, <3>2, <3>4 DEF IsPaidFor
  <2>6. AlongBlock(graph, walk.node, where)' = along
    BY <1>1, <1>3, <2>1 DEF AlongBlock
  <2>7. Paid(where)' = Paid(where)
    BY <1>1 DEF Paid, CostWithoutPenalties
  <2>8. executed' = k + 1 /\ pc' = to.addr /\ Time(where)' = after.cycles
    BY <1>1, <1>3, <1>4, <2>2, <2>5 DEF Time
  <2> QED BY <2>1, <2>2, <2>5, <2>6, <2>7, <2>8 DEF BlockIsPaid
<1>12. cores' \in [Memories -> [word : Int, cycles : Nat]]
  BY <1>1, <1>11 DEF CoresStep
<1>13. InBlock' /\ Block' = Block
  BY <1>1 DEF InBlock, Block
<1>14. executed' \in Nat /\ executed' < Len(Block'.code)
  BY <1>1, <1>3, <1>8, <1>13
<1> QED BY <1>2, <1>11, <1>12, <1>13, <1>14 DEF TimedInv, CoresArePaid

(* An edge: what the core has taken is paid, and a block entered by a step *)
(* begins in the word the core has fetched last.                           *)
LEMMA EdgeIsPaid ==
  ASSUME TimedNetworks, TimedInv, NEW e \in 1..Len(graph.edges), Leave(e), NEW where \in Memories
  PROVE  /\ cores'[where] \in [word : Int, cycles : Nat]
         /\ Covers(Memory, where) => cores'[where].cycles <= Paid(where)'
         /\ graph.edges[e].type = "ForwardStep" =>
              cores'[where].word = (AddressOf(graph.nodes[graph.edges[e].dst]) - 1) \div 4
<1>1. /\ Networks /\ PathInv /\ IsProblemGraph(graph) /\ IsTimedGraph(graph, Memory)
      /\ Memory \in {"none", "static", "dynamic"} /\ Metric = "WCET"
      /\ cores \in [Memories -> [word : Int, cycles : Nat]] /\ CoresArePaid
  BY DEF TimedNetworks, Networks, TimedInv, PathInv
<1>2. /\ TakeEdge(e)
      /\ IF InBlock
         THEN /\ executed + 1 = Len(Block.code)
              /\ cores' = CoresStep(AddressOf(graph.nodes[graph.edges[e].dst]))
         ELSE cores' = cores
  BY DEF Leave
<1>3. PICK v, node, n, core, next, type :
        /\ v = graph.edges[e].src /\ node = graph.nodes[v] /\ n = Len(node.code)
        /\ core = cores[where] /\ next = AddressOf(graph.nodes[graph.edges[e].dst])
        /\ type = graph.edges[e].type
  OBVIOUS
<1>4. v = walk.node /\ Block = node /\ v \in 1..Len(graph.nodes)
  BY <1>1, <1>2, <1>3 DEF TakeEdge, EdgesFrom, Block, IsProblemGraph
<1>5. core \in [word : Int, cycles : Nat]
  BY <1>1, <1>3
<1>6. PICK paid, charge : paid = Paid(where) /\ charge = Charge(graph, e, where)
  OBVIOUS
<1>7. paid \in Int /\ Paid(where)' = paid + charge
  BY <1>1, <1>2, <1>6, PaidIsInt, PaidStep
<1>8. CASE ~InBlock
  <2>1. cores'[where] = core
    BY <1>2, <1>3, <1>8
  <2>2. node.type # "BasicBlock"
    BY <1>4, <1>8 DEF InBlock
  <2>3. type # "ForwardStep"
    BY <1>1, <1>3, <2>2 DEF IsTimedGraph, IsLaidOut
  <2>4. Covers(Memory, where) => charge = 0
    BY <1>1, <1>3, <1>6, <2>2, ChargeOfEdge
  <2>5. Covers(Memory, where) => core.cycles <= paid
    BY <1>1, <1>3, <1>6, <1>8 DEF CoresArePaid, Time
  <2>6. Covers(Memory, where) => core.cycles <= Paid(where)'
    BY <1>5, <1>7, <2>4, <2>5
  <2> QED BY <1>3, <1>5, <2>1, <2>3, <2>6
<1>9. CASE InBlock
  <2>1. PICK k, i, at, to, after, taken :
          /\ k = n - 1 /\ i = node.code[n]
          /\ at = AlongBlock(graph, v, where)[n - 1] /\ to = AlongBlock(graph, v, where)[n]
          /\ after = ArmStep(core, i.class, at.addr, i.len, next, where)
          /\ taken = Redirects(i.class, at.addr, i.len, next)
    OBVIOUS
  <2>2. node.type = "BasicBlock"
    BY <1>4, <1>9 DEF InBlock
  <2>3. /\ IsArmBlock(node) /\ node.code \in Seq([len : Int, class : STRING]) /\ n \in Nat /\ n > 0
        /\ EnteredByStepOnly(graph, v) \in BOOLEAN
    BY <1>1, <1>3, <1>4, <2>2, BlockIsCounted
  <2>4. k \in Nat /\ k < n /\ k + 1 = n
    BY <2>1, <2>3, Positions
  <2>5. executed = k
    <3>1. executed \in Nat
      BY <1>1, <1>9 DEF CoresArePaid
    <3>2. executed + 1 = n
      BY <1>2, <1>3, <1>4, <1>9
    <3> QED BY <2>1, <2>3, <3>1, <3>2
  <2>6. /\ pc = at.addr /\ Fits(at.addr, at.left, core.word)
        /\ Covers(Memory, where) => core.cycles + Fetch(where) * Ahead(at.addr, at.left) <= paid + at.step
    <3>1. BlockIsPaid(where)
      BY <1>1, <1>9 DEF CoresArePaid
    <3>2. at = AlongBlock(graph, walk.node, where)[executed]
      BY <1>4, <2>1, <2>5
    <3> QED BY <1>3, <1>6, <3>1, <3>2 DEF BlockIsPaid, Time
  <2>7. cores'[where] = after
    <3>1. Instruction = i
      BY <1>4, <2>1, <2>4, <2>5 DEF Instruction
    <3> QED BY <1>2, <1>3, <1>9, <2>1, <2>6, <3>1 DEF CoresStep
  <2>8. IsPaidFor(core, i, at, to, next, where, paid)
    <3>1. PICK step : step = EnteredByStepOnly(graph, v)
      OBVIOUS
    <3>2. IsPaidFor(core, node.code[k + 1], ArmAlong(node.start, node.code, step, where)[k],
                    ArmAlong(node.start, node.code, step, where)[k + 1], next, where, paid)
      BY <1>3, <1>5, <1>7, <2>3, <2>4, <3>1, InstructionIsPaid
    <3>3. /\ at = ArmAlong(node.start, node.code, step, where)[k]
          /\ to = ArmAlong(node.start, node.code, step, where)[k + 1] /\ i = node.code[k + 1]
      BY <1>3, <2>1, <2>4, <3>1 DEF AlongBlock
    <3> QED BY <3>2, <3>3
  <2>9. /\ after \in [word : Int, cycles : Nat]
        /\ ~taken => after.word = (to.addr - 1) \div 4
        /\ Covers(Memory, where) =>
             after.cycles + Fetch(where) * Ahead(to.addr, to.left) <= paid + (IF taken THEN to.jump ELSE to.step)
    BY <2>1, <2>6, <2>8 DEF IsPaidFor
  <2>14. IsExit(graph, Memory, e, where)
    BY <1>1, <1>3, <2>2, ExitIsTaken
  <2>10. Covers(Memory, where) => charge = (IF taken THEN to.jump ELSE to.step)
    BY <1>3, <1>6, <2>1, <2>14 DEF IsExit
  <2>11. type = "ForwardStep" => ~taken /\ next = to.addr
    BY <1>3, <2>1, <2>14 DEF IsExit
  <2>12. Covers(Memory, where) => after.cycles <= paid + charge
    <3> SUFFICES ASSUME Covers(Memory, where) PROVE after.cycles <= paid + charge
      OBVIOUS
    <3>1. PICK c, x : c = after.cycles /\ x = Fetch(where) * Ahead(to.addr, to.left)
      OBVIOUS
    <3>2. c \in Nat /\ c + x <= paid + charge
      BY <2>9, <2>10, <3>1
    <3>3. x \in Nat
      <4>1. Fetch(where) \in Nat /\ Ahead(to.addr, to.left) \in 0..1
        BY ArmLatencyAssumption DEF Fetch, Ahead
      <4>2. \A f \in Nat, a \in 0..1 : f * a \in Nat
        OBVIOUS
      <4> QED BY <3>1, <4>1, <4>2
    <3>4. charge \in Int
      <4>1. to.step \in Nat /\ to.jump \in Nat
        <5>1. IsCounted(AlongBlock(graph, v, where), ArmAlong(node.start, node.code, FALSE, "on"), n)
          BY <1>1, <1>3, <1>4, <2>2, BlockIsCounted
        <5>2. n \in 0..n
          BY <2>3
        <5> QED BY <2>1, <5>1, <5>2 DEF IsCounted
      <4> QED BY <2>10, <4>1
    <3> QED BY <1>7, <3>1, <3>2, <3>3, <3>4
  <2>13. type = "ForwardStep" => after.word = (next - 1) \div 4
    BY <2>9, <2>11
  <2> QED BY <1>3, <1>7, <2>7, <2>9, <2>12, <2>13
<1> QED BY <1>8, <1>9

LEMMA LeaveIsPaid ==
  ASSUME TimedNetworks, TimedInv, NEW e \in 1..Len(graph.edges), Leave(e) PROVE TimedInv'
<1>1. /\ Networks /\ PathInv /\ IsProblemGraph(graph) /\ IsTimedGraph(graph, Memory)
      /\ CoresArePaid
  BY DEF TimedNetworks, Networks, TimedInv, PathInv
<1>2. /\ TakeEdge(e) /\ pc' = graph.nodes[graph.edges[e].dst].start /\ executed' = 0
      /\ graph' = graph /\ walk'.node = graph.edges[e].dst
  BY DEF Leave, TakeEdge, Follow
<1>3. PathInv'
  BY <1>1, <1>2, PathStep DEF Next
<1>4. ASSUME NEW where \in Memories
      PROVE  /\ cores'[where] \in [word : Int, cycles : Nat]
             /\ Covers(Memory, where) => cores'[where].cycles <= Paid(where)'
             /\ graph.edges[e].type = "ForwardStep" =>
                  cores'[where].word = (AddressOf(graph.nodes[graph.edges[e].dst]) - 1) \div 4
  BY EdgeIsPaid
<1>5. cores' \in [Memories -> [word : Int, cycles : Nat]]
  <2>1. cores \in [Memories -> [word : Int, cycles : Nat]]
    BY DEF TimedInv
  <2>2. cores' = [where \in Memories |-> cores'[where]]
    BY <2>1 DEF Leave, CoresStep
  <2> QED BY <1>4, <2>2
<1>6. PICK w, node : w = graph.edges[e].dst /\ node = graph.nodes[w]
  OBVIOUS
<1>7. Block' = node /\ w \in 1..Len(graph.nodes) /\ (InBlock' <=> node.type = "BasicBlock")
  BY <1>1, <1>2, <1>6 DEF Block, InBlock, IsProblemGraph
<1>8. CASE node.type # "BasicBlock"
  <2>1. \A where \in Memories : Covers(Memory, where) => Time(where)' <= Paid(where)'
    BY <1>4 DEF Time
  <2> QED BY <1>3, <1>5, <1>7, <1>8, <2>1 DEF TimedInv, CoresArePaid
<1>9. CASE node.type = "BasicBlock"
  <2>1. Len(node.code) > 0
    BY <1>1, <1>6, <1>7, <1>9, BlockIsCounted DEF Memories
  <2>2. ASSUME NEW where \in Memories PROVE BlockIsPaid(where)'
    <3>1. PICK first, core : first = AlongBlock(graph, w, where)[0] /\ core = cores'[where]
      OBVIOUS
    <3>2. core.word \in Int /\ core.cycles \in Nat
      BY <1>4, <3>1
    <3>3. EnteredByStepOnly(graph, w) => core.word = (node.start - 1) \div 4
      <4> SUFFICES ASSUME EnteredByStepOnly(graph, w) PROVE core.word = (node.start - 1) \div 4
        OBVIOUS
      <4>1. graph.edges[e].type = "ForwardStep"
        BY <1>6 DEF EnteredByStepOnly
      <4>2. AddressOf(graph.nodes[graph.edges[e].dst]) = node.start
        BY <1>6, <1>9 DEF AddressOf
      <4> QED BY <1>4, <3>1, <4>1, <4>2
    <3>4. /\ first.addr = node.start /\ first.step = 0
          /\ Ahead(first.addr, first.left) = 0 /\ Fits(first.addr, first.left, core.word)
      <4>1. PICK word : word = core.word /\ word \in Int
        BY <3>2
      <4>2. EnteredByStepOnly(graph, w) => word = (graph.nodes[w].start - 1) \div 4
        BY <1>6, <3>3, <4>1
      <4>3. BeginsAt(AlongBlock(graph, w, where)[0], graph.nodes[w].start, word)
        BY <1>1, <1>6, <1>7, <1>9, <4>1, <4>2, BlockBegins
      <4> QED BY <1>6, <3>1, <4>1, <4>3 DEF BeginsAt
    <3>5. Covers(Memory, where) => core.cycles + Fetch(where) * Ahead(first.addr, first.left) <= Paid(where)' + first.step
      <4> SUFFICES ASSUME Covers(Memory, where)
                   PROVE  core.cycles + Fetch(where) * Ahead(first.addr, first.left) <= Paid(where)' + first.step
        OBVIOUS
      <4>1. Fetch(where) \in Nat
        BY ArmLatencyAssumption DEF Fetch
      <4>2. \A f \in Nat : f * 0 = 0
        OBVIOUS
      <4>3. core.cycles <= Paid(where)'
        BY <1>4, <3>1
      <4>4. Paid(where)' \in Int
        <5>1. Metric = "WCET"
          BY DEF TimedNetworks
        <5>2. Paid(where)' = Paid(where) + Charge(graph, e, where) /\ Charge(graph, e, where) \in Int
          BY <1>1, <1>2, <5>1, PaidStep
        <5> QED BY <1>1, <5>2, PaidIsInt
      <4> QED BY <3>2, <3>4, <4>1, <4>2, <4>3, <4>4
    <3>6. AlongBlock(graph, walk.node, where)'[executed'] = first /\ Time(where)' = core.cycles
      BY <1>2, <1>6, <3>1 DEF AlongBlock, Time
    <3> QED BY <1>2, <1>6, <3>1, <3>4, <3>5, <3>6 DEF BlockIsPaid
  <2>3. executed' \in Nat /\ executed' < Len(Block'.code)
    BY <1>2, <1>7, <2>1
  <2> QED BY <1>3, <1>5, <1>7, <1>9, <2>2, <2>3 DEF TimedInv, CoresArePaid
<1> QED BY <1>8, <1>9

LEMMA TimedStep ==
  ASSUME TimedNetworks, TimedInv, [TimedNext]_timedVars PROVE TimedInv'
<1>1. CASE UNCHANGED timedVars
  <2>1. UNCHANGED <<graph, walk, cost, pc, executed, cores>>
    BY <1>1 DEF timedVars, vars, coreVars
  <2>2. PathInv'
    BY <2>1 DEF TimedInv, PathInv, CostIsObjective
  <2>3. /\ (InBlock' <=> InBlock) /\ Block' = Block
        /\ \A where \in Memories : /\ Paid(where)' = Paid(where) /\ Time(where)' = Time(where)
                                 /\ BlockIsPaid(where)' <=> BlockIsPaid(where)
    BY <2>1 DEF InBlock, Block, Paid, CostWithoutPenalties, Time, BlockIsPaid
  <2>4. CoresArePaid'
    <3>1. CoresArePaid
      BY DEF TimedInv
    <3>2. CASE InBlock
      <4>1. /\ executed' \in Nat /\ executed' < Len(Block'.code)
            /\ \A where \in Memories : BlockIsPaid(where)'
        BY <2>1, <2>3, <3>1, <3>2 DEF CoresArePaid
      <4> QED BY <2>3, <3>2, <4>1 DEF CoresArePaid
    <3>3. CASE ~InBlock
      <4>1. ASSUME NEW where \in Memories, Covers(Memory, where) PROVE Time(where)' <= Paid(where)'
        <5>1. Time(where) <= Paid(where)
          BY <3>1, <3>3, <4>1 DEF CoresArePaid
        <5>2. Paid(where)' = Paid(where) /\ Time(where)' = Time(where)
          BY <2>1 DEF Paid, CostWithoutPenalties, Time
        <5> QED BY <5>1, <5>2
      <4> QED BY <2>3, <3>3, <4>1 DEF CoresArePaid
    <3> QED BY <3>2, <3>3
  <2> QED BY <2>1, <2>2, <2>4 DEF TimedInv
<1>2. CASE ExecuteInside
  BY <1>2, InsideIsPaid
<1>3. ASSUME NEW e \in 1..Len(graph.edges), Leave(e) PROVE TimedInv'
  BY <1>3, LeaveIsPaid
<1> QED BY <1>1, <1>2, <1>3 DEF TimedNext

(* The core takes the paths of the problem: its own steps inside a block do*)
(* not change where the path is.                                           *)
THEOREM TimedPathsArePaths == TimedSpec => Spec
<1>1. TimedInit => Init
  BY DEF TimedInit
<1>2. [TimedNext]_timedVars => [Next]_vars
  BY DEF TimedNext, ExecuteInside, Leave, Next, timedVars, vars
<1> QED BY <1>1, <1>2, PTL DEF TimedSpec, Spec

(* Executing an instruction and leaving a block keep the core paid for, with*)
(* the word it has buffered.                                               *)
THEOREM TimedPathsKeepInv == TimedNetworks => (TimedSpec => []TimedInv)
<1> SUFFICES ASSUME TimedNetworks PROVE TimedSpec => []TimedInv
  OBVIOUS
<1>1. TimedInit => TimedInv
  BY TimedBegins
<1>2. TimedInv /\ [TimedNext]_timedVars => TimedInv'
  BY TimedStep
<1> QED BY <1>1, <1>2, PTL DEF TimedSpec

(* Nowhere on a path has the core needed more than is paid and due.        *)
LEMMA PaidIsEnough ==
  ASSUME TimedNetworks, TimedInv, NEW where \in Memories, Covers(Memory, where)
  PROVE  Time(where) <= Paid(where) + Due(where)
<1>1. /\ Networks /\ PathInv /\ IsProblemGraph(graph) /\ IsTimedGraph(graph, Memory) /\ CoresArePaid
      /\ Paid(where) \in Int /\ Time(where) \in Nat
  <2>1. Networks /\ PathInv /\ IsProblemGraph(graph) /\ IsTimedGraph(graph, Memory) /\ CoresArePaid
    BY DEF TimedNetworks, Networks, TimedInv, PathInv
  <2>2. Time(where) \in Nat
    BY DEF TimedInv, Time
  <2> QED BY <2>1, <2>2, PaidIsInt
<1>2. CASE ~InBlock
  BY <1>1, <1>2 DEF CoresArePaid, Due
<1>3. CASE InBlock
  <2>1. PICK v, n, k, at : /\ v = walk.node /\ n = Len(Block.code) /\ k = executed
                           /\ at = AlongBlock(graph, v, where)[k]
    OBVIOUS
  <2>2. v \in 1..Len(graph.nodes) /\ graph.nodes[v].type = "BasicBlock" /\ n = Len(graph.nodes[v].code)
    BY <1>1, <1>3, <2>1 DEF InBlock, Block, PathInv, IsWalk
  <2>3. k \in Nat /\ k < n /\ BlockIsPaid(where)
    BY <1>1, <1>3, <2>1 DEF CoresArePaid
  <2>4. at.step \in Nat
    <3>1. n \in Nat /\ IsCounted(AlongBlock(graph, v, where),
                                 ArmAlong(graph.nodes[v].start, graph.nodes[v].code, FALSE, "on"), n)
      BY <1>1, <2>2, BlockIsCounted
    <3>2. k \in 0..n
      BY <2>3, <3>1
    <3> QED BY <2>1, <3>1, <3>2 DEF IsCounted
  <2>5. Due(where) = at.step
    BY <1>3, <2>1 DEF Due, AlongBlock, Block
  <2>6. PICK x : x = Fetch(where) * Ahead(at.addr, at.left)
    OBVIOUS
  <2>7. Time(where) + x <= Paid(where) + at.step
    BY <2>1, <2>3, <2>6 DEF BlockIsPaid
  <2>8. x \in Nat
    <3>1. Fetch(where) \in Nat /\ Ahead(at.addr, at.left) \in 0..1
      BY ArmLatencyAssumption DEF Fetch, Ahead
    <3>2. \A f \in Nat, a \in 0..1 : f * a \in Nat
      OBVIOUS
    <3> QED BY <2>6, <3>1, <3>2
  <2> QED BY <1>1, <2>4, <2>5, <2>7, <2>8
<1> QED BY <1>2, <1>3

(* The costs of blocks, calculated alone, cover the time of the ARMv6-M at *)
(* each instruction of each path, by whatever way a block is entered: with *)
(* the code off the chip, and without penalties with the code on it.       *)
THEOREM TimeOfPathsIsPaid == TimedNetworks => (TimedSpec => []TimeIsPaid)
<1> SUFFICES ASSUME TimedNetworks PROVE TimedSpec => []TimeIsPaid
  OBVIOUS
<1>1. TimedSpec => []TimedInv
  BY TimedPathsKeepInv
<1>2. TimedInv => TimeIsPaid
  <2> SUFFICES ASSUME TimedInv PROVE TimeIsPaid
    OBVIOUS
  <2>1. Memory # "dynamic" => Time("off") <= cost + Due("off")
    BY PaidIsEnough DEF Covers, Paid, Memories
  <2>2. Memory # "none" => Time("on") <= CostWithoutPenalties + Due("on")
    BY PaidIsEnough DEF Covers, Paid, Memories
  <2> QED BY <2>1, <2>2 DEF TimeIsPaid
<1> QED BY <1>1, <1>2, PTL

(* The estimate is one of the time of every execution that keeps to the    *)
(* flow facts.                                                             *)
LEMMA EstimateBoundsTime ==
  ASSUME TimedNetworks, TimedInv PROVE EstimateCoversTime
<1> SUFFICES ASSUME Complete, ObeysFacts, Memory # "dynamic", NEW best \in Int, IsEstimate(best)
             PROVE  Time("off") <= best
  BY DEF EstimateCoversTime
<1>1. Networks /\ PathInv /\ IsTimedGraph(graph, Memory)
  BY DEF TimedNetworks, Networks, TimedInv, PathInv
<1>2. cost <= best
  BY <1>1, EstimateBounds DEF EstimateCoversPaths
<1>3. ~InBlock
  BY <1>1 DEF Complete, InBlock, Block, IsTimedGraph
<1>4. Time("off") <= cost + Due("off")
  BY PaidIsEnough DEF Covers, Paid, Memories
<1>5. Due("off") = 0
  BY <1>3 DEF Due
<1>6. cost \in Int /\ Time("off") \in Nat
  <2>1. Paid("off") \in Int
    BY <1>1, PaidIsInt DEF Memories
  <2> QED BY <2>1 DEF Paid, TimedInv, Time, Memories
<1> QED BY <1>2, <1>4, <1>5, <1>6

(* No execution that obeys the flow facts takes an ARMv6-M with its code off*)
(* the chip longer than the estimate.                                      *)
THEOREM EstimateIsSafeForTime == TimedNetworks => (TimedSpec => []EstimateCoversTime)
<1> SUFFICES ASSUME TimedNetworks PROVE TimedSpec => []EstimateCoversTime
  OBVIOUS
<1>1. TimedSpec => []TimedInv
  BY TimedPathsKeepInv
<1>2. TimedInv => EstimateCoversTime
  BY EstimateBoundsTime
<1> QED BY <1>1, <1>2, PTL

=============================================================================
