-------------------------- MODULE ICacheMap_proofs --------------------------
(***************************************************************************)
(* The map based analysis of ICacheDFAMap is exact in one direction on     *)
(* every path without a BackwardJump edge, for every graph and every cache *)
(* size: the content of a FIFO cache is one of the contents kept, so that  *)
(* no fetch classified as a miss hits, and the penalties pay for all       *)
(* misses.  The graphs have to begin with one block, as those of a         *)
(* function do: the maintainer cannot join the blank state.                *)
(***************************************************************************)
EXTENDS ICacheMapExecution, MemoryStateGraph_proofs, FiniteSetTheorems

(* A set of nodes that a graph starts with.                                *)
Opening(g) == CHOOSE H \in SUBSET Node : IsOpening(g, H)

(* The contents of a cache: no line twice, and no more lines than fit.     *)
Contents == {c \in Seq(Line) : Len(c) <= LineNo /\ IsInjective(c)}

-----------------------------------------------------------------------------
(* accessAddress yields a content again, and one that is not empty.        *)
LEMMA AccessType ==
  ASSUME NEW c \in Contents, NEW addr \in Line
  PROVE  AccessAddress(c, addr) \in Contents
<1> USE LineNoAssumption DEF Contents
<1>1. c \in Seq(Line) /\ Len(c) \in Nat /\ Len(c) <= LineNo
  OBVIOUS
<1>2. \A i, j \in 1..Len(c) : c[i] = c[j] => i = j
  BY DEF IsInjective
<1>3. ASSUME NEW r \in Seq(Line), Len(r) + 1 <= LineNo, Len(r) <= Len(c),
             \A i \in 1..Len(r) : r[i] = c[i],
             ~isInState(c, addr)
      PROVE  <<addr>> \o r \in Contents
  <2> DEFINE d == <<addr>> \o r
  <2>1. d \in Seq(Line) /\ Len(d) = Len(r) + 1 /\ d[1] = addr
        /\ \A i \in 2..Len(d) : d[i] = r[i - 1] /\ i - 1 \in 1..Len(r)
    BY <1>3
  <2>2. \A i \in 2..Len(d) : d[i] = c[i - 1] /\ i - 1 \in 1..Len(c)
    BY <1>1, <1>3, <2>1
  <2>3. \A i \in 2..Len(d) : d[i] # addr
    BY <1>3, <2>2 DEF isInState
  <2> HIDE DEF d
  <2>4. ASSUME NEW i \in 1..Len(d), NEW j \in 1..Len(d), d[i] = d[j] PROVE i = j
    <3>1. CASE i = 1 \/ j = 1
      BY <2>1, <2>3, <2>4, <3>1
    <3>2. CASE i # 1 /\ j # 1
      <4>1. i \in 2..Len(d) /\ j \in 2..Len(d)
        BY <2>1, <3>2
      <4>2. i - 1 = j - 1
        BY <1>2, <2>2, <2>4, <4>1
      <4> QED BY <4>2
    <3> QED BY <3>1, <3>2
  <2>5. IsInjective(d)
    BY <2>1, <2>4 DEF IsInjective
  <2>6. Len(d) <= LineNo
    BY <1>3, <2>1
  <2>7. d \in Contents
    BY <2>1, <2>5, <2>6
  <2> QED BY <2>7 DEF d
<1>4. CASE isInState(c, addr)
  BY <1>4 DEF AccessAddress
<1>5. CASE ~isInState(c, addr) /\ Len(c) + 1 > LineNo
  <2>1. /\ Front(c) \in Seq(Line) /\ Len(Front(c)) = Len(c) - 1
        /\ \A i \in 1..Len(Front(c)) : Front(c)[i] = c[i]
    <3>1. Len(c) >= 1 /\ Len(c) - 1 \in Nat
      BY <1>1, <1>5
    <3>2. \A i \in 1..Len(c) - 1 : i \in 1..Len(c)
      BY <1>1
    <3>3. Front(c) = [i \in 1..Len(c) - 1 |-> c[i]]
      BY <1>1, <3>1 DEF Front
    <3>4. \A i \in 1..Len(c) - 1 : c[i] \in Line
      BY <1>1, <3>2
    <3> QED BY <3>1, <3>3, <3>4
  <2>2. Len(Front(c)) + 1 <= LineNo /\ Len(Front(c)) <= Len(c)
    BY <1>1, <2>1
  <2>3. <<addr>> \o Front(c) \in Contents
    BY <1>3, <1>5, <2>1, <2>2
  <2> QED BY <1>5, <2>3 DEF AccessAddress
<1>6. CASE ~isInState(c, addr) /\ ~(Len(c) + 1 > LineNo)
  <2>1. <<addr>> \o c \in Contents
    BY <1>1, <1>3, <1>6
  <2> QED BY <1>6, <2>1 DEF AccessAddress
<1> QED BY <1>4, <1>5, <1>6

(* The empty cache is a content.                                           *)
LEMMA EmptyContent == << >> \in Contents
BY LineNoAssumption DEF Contents, IsInjective

(* updateState yields contents again, and never the blank state.           *)
LEMMA UpdateStateType ==
  ASSUME NEW states \in SUBSET Contents, NEW addr \in Line
  PROVE  /\ UpdateState(states, addr) \in SUBSET Contents
         /\ UpdateState(states, addr) # BlankStates
BY AccessType, EmptyContent DEF UpdateState, BlankStates

(* The recursive function satisfies its defining equation.                 *)
LEMMA UpdateAlongTrace ==
  ASSUME NEW s \in SUBSET Contents, NEW lines \in Seq(Line)
  PROVE  /\ UpdateAlong(s, lines) \in [0..Len(lines) -> SUBSET Contents]
         /\ UpdateAlong(s, lines)[0] = s
         /\ \A k \in 1..Len(lines) :
              UpdateAlong(s, lines)[k] = UpdateState(UpdateAlong(s, lines)[k - 1], lines[k])
<1> DEFINE n == Len(lines)
           S == SUBSET Contents
           step == [p \in (1..n) \X S |-> UpdateState(p[2], lines[p[1]])]
           Eq(f) == f = [i \in 0..n |->
                           IF i = 0 THEN s ELSE UpdateState(f[i - 1], lines[i])]
<1>1. n \in Nat
  OBVIOUS
<1>2. step \in [(1..n) \X S -> S]
  BY UpdateStateType
<1>3. PICK f \in [0..n -> S] : IsTrace(f, s, 0, n, step)
  <2> HIDE DEF step, n
  <2> QED BY <1>1, <1>2, FoldExists
<1> HIDE DEF S
<1>4. \A k \in 1..n : f[k] = UpdateState(f[k - 1], lines[k])
  <2> TAKE k \in 1..n
  <2>1. k - 1 \in 0..n /\ f[k - 1] \in S
    BY <1>1
  <2>2. <<k, f[k - 1]>> \in (1..n) \X S
    BY <2>1
  <2>3. f[k] = step[<<k, f[k - 1]>>]
    <3> HIDE DEF step, n
    <3> QED BY <1>3 DEF IsTrace
  <2> HIDE DEF n
  <2> QED BY <2>2, <2>3
<1>5. Eq(f)
  BY <1>3, <1>4 DEF IsTrace
<1>6. UpdateAlong(s, lines) = CHOOSE g : Eq(g)
  BY DEF UpdateAlong
<1>7. Eq(UpdateAlong(s, lines))
  BY <1>5, <1>6
<1>8. \A k \in 0..n : UpdateAlong(s, lines)[k] = f[k]
  <2> DEFINE g == UpdateAlong(s, lines)
             Same == {k \in Nat : k \in 0..n => g[k] = f[k]}
  <2> HIDE DEF g
  <2>1. 0 \in Same
    BY <1>3, <1>7 DEF g, IsTrace
  <2>2. ASSUME NEW k \in Same PROVE k + 1 \in Same
    <3> SUFFICES ASSUME k + 1 \in 0..n PROVE g[k + 1] = f[k + 1]
      OBVIOUS
    <3>1. g[k] = f[k] /\ k + 1 # 0 /\ (k + 1) - 1 = k /\ k + 1 \in 1..n
      BY <1>1
    <3>2. g[k + 1] = UpdateState(g[k], lines[k + 1])
      BY <1>7, <3>1 DEF g
    <3> QED BY <3>1, <3>2, <1>4
  <2>3. Same \in SUBSET Nat
    OBVIOUS
  <2>4. Same = Nat
    <3> HIDE DEF Same
    <3> QED BY <2>1, <2>2, <2>3, SetInduction
  <2> QED BY <2>4, <1>1 DEF g
<1> DEFINE g == UpdateAlong(s, lines)
<1>9. g = [i \in 0..n |-> IF i = 0 THEN s ELSE UpdateState(g[i - 1], lines[i])]
  BY <1>7
<1>10. f[0] = s /\ \A k \in 0..n : f[k] \in S
  BY <1>3 DEF IsTrace
<1>11. \A k \in 0..n : g[k] = f[k]
  BY <1>8
<1> HIDE DEF g, step, n, Eq
<1>12. g \in [0..n -> S]
  BY <1>9, <1>10, <1>11
<1>13. g[0] = s
  BY <1>1, <1>10, <1>11
<1>14. \A k \in 1..n : g[k] = UpdateState(g[k - 1], lines[k])
  BY <1>1, <1>9
<1> QED BY <1>12, <1>13, <1>14 DEF g, n, S

(* The states after a block are contents; they are blank only if the block *)
(* is empty and the states before it are.                                  *)
LEMMA UpdateStatesType ==
  ASSUME NEW s \in SUBSET Contents, NEW lines \in Seq(Line)
  PROVE  /\ UpdateStates(s, lines) \in SUBSET Contents
         /\ lines = << >> => UpdateStates(s, lines) = s
         /\ lines # << >> => UpdateStates(s, lines) # BlankStates
<1> DEFINE u == UpdateAlong(s, lines)
           n == Len(lines)
<1>1. /\ u \in [0..n -> SUBSET Contents] /\ u[0] = s
      /\ \A k \in 1..n : u[k] = UpdateState(u[k - 1], lines[k])
  BY UpdateAlongTrace
<1>2. n \in Nat /\ (lines = << >> <=> n = 0) /\ UpdateStates(s, lines) = u[n]
  BY DEF UpdateStates
<1> HIDE DEF u
<1>3. lines # << >> => u[n] # BlankStates
  <2> SUFFICES ASSUME lines # << >> PROVE u[n] # BlankStates
    OBVIOUS
  <2>1. n \in 1..n /\ n - 1 \in 0..n /\ lines[n] \in Line
    BY <1>2
  <2>2. u[n] = UpdateState(u[n - 1], lines[n]) /\ u[n - 1] \in SUBSET Contents
    BY <1>1, <2>1
  <2> QED BY <2>1, <2>2, UpdateStateType
<1> QED BY <1>1, <1>2, <1>3

-----------------------------------------------------------------------------
(* The real cache does what accessAddress does to one content.             *)
LEMMA HardwareAccess ==
  ASSUME NEW c \in Contents, NEW addr \in Line
  PROVE  (IF \E i \in 1..Len(c) : c[i] = addr THEN c
          ELSE <<addr>> \o SubSeq(c, 1, Min({Len(c), LineNo - 1})))
           = AccessAddress(c, addr)
<1> DEFINE room == Min({Len(c), LineNo - 1})
<1>1. c \in Seq(Line) /\ Len(c) \in Nat /\ Len(c) <= LineNo /\ LineNo \in Nat \ {0}
  BY LineNoAssumption DEF Contents
<1>2. room = IF Len(c) <= LineNo - 1 THEN Len(c) ELSE LineNo - 1
  BY <1>1 DEF Min
<1>3. CASE Len(c) + 1 > LineNo
  <2>1. room = Len(c) - 1
    BY <1>1, <1>2, <1>3
  <2> HIDE DEF room
  <2>2. <<addr>> \o SubSeq(c, 1, room) = <<addr>> \o Front(c)
    BY <2>1 DEF Front
  <2> QED BY <1>3, <2>2 DEF AccessAddress, isInState, room
<1>4. CASE ~(Len(c) + 1 > LineNo)
  <2>1. room = Len(c)
    BY <1>1, <1>2, <1>4
  <2> HIDE DEF room
  <2>2. SubSeq(c, 1, Len(c)) = c
    BY <1>1
  <2>3. <<addr>> \o SubSeq(c, 1, room) = <<addr>> \o c
    BY <2>1, <2>2
  <2> QED BY <1>4, <2>3 DEF AccessAddress, isInState, room
<1> QED BY <1>3, <1>4

(* A content is among the states, or the cache is as empty as the state    *)
(* that says nothing was fetched.                                          *)
Keeps(states, c) == IF states = BlankStates THEN c = << >> ELSE c \in states

(* The transfer of one line follows the cache.                             *)
LEMMA KeepsAccess ==
  ASSUME NEW states \in SUBSET Contents, NEW c \in Contents, NEW addr \in Line,
         Keeps(states, c)
  PROVE  Keeps(UpdateState(states, addr), AccessAddress(c, addr))
BY UpdateStateType DEF Keeps, UpdateState

-----------------------------------------------------------------------------
(* What is known of the graph, of the forward edges of a node in           *)
(* particular.                                                             *)
LEMMA GraphFacts ==
  ASSUME msg \in MSGs
  PROVE  /\ IsCodeGraph(msg, Line)
         /\ msg \in CodeGraphs(Line)
         /\ \A n \in Node : Predecessors(n) \in Seq(Node)
         /\ \A n \in Node : ForwardEdges(msg.out[n]) \in Seq(Node)
         /\ \A n, m \in Node :
              (\E i \in 1..Len(Predecessors(n)) : Predecessors(n)[i] = m)
                <=> HasForwardEdge(msg.in[n], m)
         /\ \A n, m \in Node :
              (\E i \in 1..Len(ForwardEdges(msg.out[n])) : ForwardEdges(msg.out[n])[i] = m)
                <=> HasForwardEdge(msg.in[m], n)
         /\ Len(Predecessors(Entry)) = 0
         /\ \A n \in Node : ~HasForwardEdge(msg.in[n], n)
         /\ \A n \in Node : ~HasForwardEdge(msg.in[n], Exit)
         /\ \A n \in Node : msg.lines[n] \in Seq(Line)
<1>1. IsCodeGraph(msg, Line)
  BY GraphAssumption
<1> QED BY <1>1, CodeGraphFacts DEF Predecessors

(* Only a node that could be solved comes up for processing ...            *)
PendingHavePredecessor ==
  \A i \in 1..Len(processing) :
    processing[i] = Entry \/ Len(Predecessors(processing[i])) > 0

(* ... and one that can be solved and is not solved will come up.          *)
ReadyIsPending ==
  \A n \in Node \ {Exit} :
    isPredecessorMemStateKnown(n) /\ (n = Entry \/ Len(Predecessors(n)) > 0)
      => memStateVal[n] \/ \E i \in 1..Len(processing) : processing[i] = n

(* The states of the solved nodes: the blank one up to the first block     *)
(* only.                                                                   *)
StatesOK ==
  /\ memStateVal \in [Node -> BOOLEAN]
  /\ DOMAIN state_map = {n \in Node : memStateVal[n]}
  /\ Exit \notin DOMAIN state_map
  /\ \A n \in DOMAIN state_map :
       /\ state_map[n] \in SUBSET Contents
       /\ StartsWithOneBlock(msg) /\ state_map[n] = BlankStates => n \in Opening(msg)

(* What is so at the end.                                                  *)
Finished ==
  phase = "done" =>
    /\ processing = << >>
    /\ Looked \subseteq DOMAIN state_map
    /\ penalty = [n \in Node |-> IF n \in Looked THEN CachePenalty(n) ELSE 0]

Inv ==
  /\ msg \in MSGs
  /\ processing \in Seq(Node)
  /\ phase \in {"analyze", "done", "aborted"}
  /\ penalty \in [Node -> Nat]
  /\ StatesOK
  /\ FlowConsistent
  /\ PendingHavePredecessor
  /\ ReadyIsPending
  /\ Finished

(* The analysis starts with the invariant.                                 *)
LEMMA InitInv == Init => Inv
<1> SUFFICES ASSUME Init PROVE Inv
  OBVIOUS
<1> USE DEF Init
<1>1. msg \in MSGs /\ DOMAIN state_map = {}
  OBVIOUS
<1>2. StatesOK /\ FlowConsistent
  BY <1>1 DEF StatesOK, FlowConsistent
<1>3. processing \in Seq(Node) /\ Len(processing) = 1 /\ processing[1] = Entry
  BY EndsAssumption
<1>4. PendingHavePredecessor
  BY <1>3 DEF PendingHavePredecessor
<1>5. ReadyIsPending
  <2> SUFFICES ASSUME NEW n \in Node \ {Exit}, n # Entry,
                      isPredecessorMemStateKnown(n), Len(Predecessors(n)) > 0
               PROVE  FALSE
    BY <1>3 DEF ReadyIsPending
  <2>1. 1 \in 1..Len(Predecessors(n)) /\ Predecessors(n)[1] \in Node
    BY <1>1, GraphFacts
  <2> QED BY <2>1 DEF isPredecessorMemStateKnown
<1> QED BY <1>1, <1>2, <1>3, <1>4, <1>5 DEF Inv, Finished

(* The states after a solved node; blank only behind a node without lines. *)
LEMMA StatesAfterType ==
  ASSUME msg \in MSGs, StatesOK, NEW n \in DOMAIN state_map
  PROVE  /\ n \in Node
         /\ StatesAfter(n) \in SUBSET Contents
         /\ msg.lines[n] = << >> => StatesAfter(n) = state_map[n]
         /\ msg.lines[n] # << >> => StatesAfter(n) # BlankStates
<1>1. n \in Node /\ state_map[n] \in SUBSET Contents
  BY DEF StatesOK
<1>2. msg.lines[n] \in Seq(Line)
  BY <1>1, GraphFacts
<1> QED BY <1>1, <1>2, UpdateStatesType DEF StatesAfter

(* The predecessors of a node that can be solved are solved.               *)
LEMMA KnownPredecessors ==
  ASSUME msg \in MSGs, StatesOK, NEW n \in Node, isPredecessorMemStateKnown(n)
  PROVE  /\ \A m \in Node : HasForwardEdge(msg.in[n], m) => n # Entry /\ m \in DOMAIN state_map
         /\ n # Entry => \A i \in 1..Len(Predecessors(n)) : Predecessors(n)[i] \in DOMAIN state_map
<1>1. Predecessors(n) \in Seq(Node)
  BY GraphFacts
<1>2. ASSUME n # Entry, NEW i \in 1..Len(Predecessors(n))
      PROVE  Predecessors(n)[i] \in DOMAIN state_map
  BY <1>1, <1>2 DEF isPredecessorMemStateKnown, StatesOK
<1>3. ASSUME NEW m \in Node, HasForwardEdge(msg.in[n], m)
      PROVE  n # Entry /\ m \in DOMAIN state_map
  <2>1. PICK i \in 1..Len(Predecessors(n)) : Predecessors(n)[i] = m
    BY <1>3, GraphFacts
  <2>2. n # Entry
    BY <2>1, GraphFacts
  <2> QED BY <1>2, <2>1, <2>2
<1> QED BY <1>2, <1>3

(* The solution of the flow equation of a node: all contents after its     *)
(* predecessors, and blank only if the node is one of the opening.         *)
LEMMA InitialStatesType ==
  ASSUME msg \in MSGs, StatesOK, NEW n \in Node, isPredecessorMemStateKnown(n),
         n = Entry \/ Len(Predecessors(n)) > 0
  PROVE  /\ InitialStates(n) \in SUBSET Contents
         /\ StartsWithOneBlock(msg) /\ InitialStates(n) = BlankStates => n \in Opening(msg)
<1>1. CASE n = Entry
  <2>1. InitialStates(n) = {}
    BY <1>1 DEF InitialStates, BlankStates
  <2>2. StartsWithOneBlock(msg) => IsOpening(msg, Opening(msg))
    BY DEF StartsWithOneBlock, Opening
  <2> QED BY <1>1, <2>1, <2>2 DEF IsOpening
<1>2. CASE n # Entry
  <2>1. Predecessors(n) \in Seq(Node)
    BY GraphFacts
  <2>2. \A i \in 1..Len(Predecessors(n)) : Predecessors(n)[i] \in DOMAIN state_map
    BY <1>2, KnownPredecessors
  <2>3. \A i \in 1..Len(Predecessors(n)) : StatesAfter(Predecessors(n)[i]) \in SUBSET Contents
    BY <2>2, StatesAfterType
  <2>4. InitialStates(n) = UNION {StatesAfter(Predecessors(n)[i]) : i \in 1..Len(Predecessors(n))}
    BY <1>2 DEF InitialStates
  <2>5. InitialStates(n) \in SUBSET Contents
    BY <2>3, <2>4
  <2>6. ASSUME StartsWithOneBlock(msg), InitialStates(n) = BlankStates
        PROVE  n \in Opening(msg)
    <3> DEFINE m == Predecessors(n)[1]
    <3>1. 1 \in 1..Len(Predecessors(n)) /\ m \in Node /\ m \in DOMAIN state_map
      BY <1>2, <2>1, <2>2
    <3>2. StatesAfter(m) = BlankStates
      BY <2>4, <2>6, <3>1 DEF BlankStates
    <3>3. msg.lines[m] = << >> /\ state_map[m] = BlankStates
      BY <3>1, <3>2, StatesAfterType
    <3>4. m \in Opening(msg)
      BY <2>6, <3>1, <3>3 DEF StatesOK
    <3>5. HasForwardEdge(msg.in[n], m)
      BY <3>1, GraphFacts
    <3>6. IsOpening(msg, Opening(msg))
      BY <2>6 DEF StartsWithOneBlock, Opening
    <3> HIDE DEF m
    <3> QED BY <3>1, <3>3, <3>4, <3>5, <3>6 DEF IsOpening
  <2> QED BY <2>5, <2>6
<1> QED BY <1>1, <1>2

-----------------------------------------------------------------------------
(* The popped node is one the analysis can process, and what remains of    *)
(* the worklist is what was below it.                                      *)
LEMMA ActualFacts ==
  ASSUME Inv, processing # << >>
  PROVE  /\ Actual \in Node
         /\ Actual = Entry \/ Len(Predecessors(Actual)) > 0
         /\ Actual = processing[Len(processing)]
         /\ Front(processing) \in Seq(Node)
         /\ Len(Front(processing)) = Len(processing) - 1
         /\ \A i \in 1..Len(Front(processing)) : Front(processing)[i] = processing[i]
<1>1. processing \in Seq(Node) /\ Len(processing) \in Nat
  BY DEF Inv
<1>2. Len(processing) \in 1..Len(processing) /\ Len(processing) - 1 \in Nat
  BY <1>1
<1>3. Actual \in Node /\ Actual = processing[Len(processing)]
  BY <1>1, <1>2 DEF Actual, Last
<1>4. Actual = Entry \/ Len(Predecessors(Actual)) > 0
  BY <1>2, <1>3 DEF Inv, PendingHavePredecessor
<1>5. Front(processing) = [i \in 1..Len(processing) - 1 |-> processing[i]]
  BY <1>1, <1>2 DEF Front
<1>6. \A i \in 1..Len(processing) - 1 : processing[i] \in Node
  BY <1>1
<1> QED BY <1>2, <1>3, <1>4, <1>5, <1>6

(* A node that is marked valid stays solved by the same states.            *)
LEMMA FlowKept ==
  ASSUME msg \in MSGs, StatesOK, FlowConsistent, msg' = msg,
         \A n \in DOMAIN state_map : memStateVal'[n] /\ state_map'[n] = state_map[n],
         NEW n \in Node, isPredecessorMemStateKnown(n)
  PROVE  isPredecessorMemStateKnown(n)' /\ InitialStates(n)' = InitialStates(n)
<1>1. CASE n = Entry
  BY <1>1 DEF isPredecessorMemStateKnown, InitialStates
<1>2. CASE n # Entry
  <2>1. Predecessors(n)' = Predecessors(n)
    BY DEF Predecessors
  <2>2. \A i \in 1..Len(Predecessors(n)) : Predecessors(n)[i] \in DOMAIN state_map
    BY <1>2, KnownPredecessors
  <2>3. ASSUME NEW i \in 1..Len(Predecessors(n))
        PROVE  memStateVal'[Predecessors(n)[i]]
               /\ StatesAfter(Predecessors(n)[i])' = StatesAfter(Predecessors(n)[i])
    <3>1. memStateVal'[Predecessors(n)[i]]
          /\ state_map'[Predecessors(n)[i]] = state_map[Predecessors(n)[i]]
      BY <2>2
    <3> QED BY <2>1, <3>1 DEF StatesAfter
  <2>4. isPredecessorMemStateKnown(n)'
    BY <2>1, <2>3 DEF isPredecessorMemStateKnown
  <2>5. InitialStates(n)' = InitialStates(n)
    BY <1>2, <2>1, <2>3 DEF InitialStates
  <2> QED BY <2>4, <2>5
<1> QED BY <1>1, <1>2

(* Dropping a node keeps the invariant: a node that is ready is not        *)
(* dropped.                                                                *)
LEMMA DropInv ==
  ASSUME Inv, DropNode
  PROVE  Inv'
<1> DEFINE rest == Front(processing)
<1>1. /\ processing # << >> /\ msg \in MSGs /\ StatesOK /\ FlowConsistent
      /\ PendingHavePredecessor /\ ReadyIsPending /\ processing \in Seq(Node)
      /\ ~isPredecessorMemStateKnown(Actual) \/ Actual = Exit
      /\ processing' = rest /\ phase = "analyze"
      /\ UNCHANGED <<msg, memStateVal, state_map, penalty, phase>>
  BY DEF DropNode, Inv
<1>2. /\ rest \in Seq(Node) /\ Len(rest) = Len(processing) - 1
      /\ \A i \in 1..Len(rest) : rest[i] = processing[i]
      /\ Actual = processing[Len(processing)]
  BY <1>1, ActualFacts
<1> HIDE DEF rest
<1>3. StatesOK'
  BY <1>1 DEF StatesOK
<1>4. FlowConsistent'
  BY <1>1 DEF FlowConsistent, InitialStates, StatesAfter, Predecessors, isPredecessorMemStateKnown
<1>5. PendingHavePredecessor'
  <2> SUFFICES ASSUME NEW i \in 1..Len(rest)
               PROVE  rest[i] = Entry \/ Len(ForwardEdges(msg.in[rest[i]])) > 0
    BY <1>1 DEF PendingHavePredecessor, Predecessors
  <2>1. i \in 1..Len(processing) /\ rest[i] = processing[i]
    BY <1>1, <1>2
  <2> QED BY <1>1, <2>1 DEF PendingHavePredecessor, Predecessors
<1>6. ReadyIsPending'
  <2> SUFFICES ASSUME NEW n \in Node \ {Exit}, isPredecessorMemStateKnown(n),
                      n = Entry \/ Len(Predecessors(n)) > 0, ~memStateVal[n]
               PROVE  \E i \in 1..Len(rest) : rest[i] = n
    BY <1>1 DEF ReadyIsPending, Predecessors, isPredecessorMemStateKnown
  <2>1. PICK i \in 1..Len(processing) : processing[i] = n
    BY <1>1 DEF ReadyIsPending
  <2>2. i # Len(processing)
    BY <1>1, <1>2, <2>1
  <2>3. i \in 1..Len(rest)
    BY <1>1, <1>2, <2>1, <2>2
  <2> QED BY <1>2, <2>1, <2>3
<1>7. Finished'
  BY <1>1 DEF Finished
<1> QED BY <1>1, <1>2, <1>3, <1>4, <1>5, <1>6, <1>7 DEF Inv

(* What the processing of a node does to the states.                       *)
LEMMA ProcessEffect ==
  ASSUME Inv, ProcessNode
  PROVE  /\ Actual \in Node /\ Actual \notin DOMAIN state_map
         /\ memStateVal' \in [Node -> BOOLEAN]
         /\ memStateVal'[Actual]
         /\ \A n \in Node \ {Actual} : memStateVal'[n] = memStateVal[n]
         /\ DOMAIN state_map' = DOMAIN state_map \cup {Actual}
         /\ state_map'[Actual] = InitialStates(Actual)
         /\ \A n \in DOMAIN state_map : state_map'[n] = state_map[n] /\ memStateVal'[n]
<1>1. processing # << >> /\ StatesOK
  BY DEF ProcessNode, Inv
<1>2. Actual \in Node
  BY <1>1, ActualFacts
<1>3. memStateVal \in [Node -> BOOLEAN] /\ DOMAIN state_map = {n \in Node : memStateVal[n]}
  BY <1>1 DEF StatesOK
<1>4. /\ memStateVal' = [memStateVal EXCEPT ![Actual] = TRUE]
      /\ state_map' = [n \in DOMAIN state_map \cup {Actual} |->
                         IF n = Actual THEN InitialStates(n) ELSE state_map[n]]
      /\ Actual \notin DOMAIN state_map
  BY DEF ProcessNode
<1>5. /\ memStateVal' \in [Node -> BOOLEAN] /\ memStateVal'[Actual]
      /\ \A n \in Node \ {Actual} : memStateVal'[n] = memStateVal[n]
  BY <1>2, <1>3, <1>4
<1>6. /\ DOMAIN state_map' = DOMAIN state_map \cup {Actual}
      /\ state_map'[Actual] = InitialStates(Actual)
      /\ \A n \in DOMAIN state_map : state_map'[n] = state_map[n]
  BY <1>4
<1>7. \A n \in DOMAIN state_map : memStateVal'[n]
  BY <1>3, <1>4, <1>5
<1> QED BY <1>2, <1>4, <1>5, <1>6, <1>7

(* After a node is processed, the worklist holds the rest and its forward  *)
(* successors.                                                             *)
LEMMA ProcessPushes ==
  ASSUME Inv, ProcessNode
  PROVE  /\ processing' \in Seq(Node)
         /\ \A n \in Node :
              (\E i \in 1..Len(processing') : processing'[i] = n)
                <=> \/ \E i \in 1..Len(Front(processing)) : Front(processing)[i] = n
                    \/ HasForwardEdge(msg.in[n], Actual)
<1> DEFINE rest == Front(processing)
           pushed == ForwardEdges(msg.out[Actual])
<1>1. processing # << >> /\ msg \in MSGs
  BY DEF ProcessNode, Inv
<1>2. rest \in Seq(Node) /\ Actual \in Node
  BY <1>1, ActualFacts
<1>3. pushed \in Seq(Node)
  BY <1>1, <1>2, GraphFacts
<1>4. processing' = rest \o pushed
  BY DEF ProcessNode
<1>5. \A n \in Node :
        (\E i \in 1..Len(pushed) : pushed[i] = n) <=> HasForwardEdge(msg.in[n], Actual)
  BY <1>1, <1>2, GraphFacts
<1> HIDE DEF rest, pushed
<1>6. \A n \in Node :
        (\E i \in 1..Len(rest \o pushed) : (rest \o pushed)[i] = n)
          <=> (\E i \in 1..Len(rest) : rest[i] = n) \/ (\E i \in 1..Len(pushed) : pushed[i] = n)
  <2> TAKE n \in Node
  <2> QED BY <1>2, <1>3, ConcatMembers
<1>7. rest \o pushed \in Seq(Node)
  BY <1>2, <1>3
<1>8. /\ processing' \in Seq(Node)
      /\ \A n \in Node :
           (\E i \in 1..Len(processing') : processing'[i] = n)
             <=> \/ \E i \in 1..Len(rest) : rest[i] = n
                 \/ HasForwardEdge(msg.in[n], Actual)
  BY <1>4, <1>5, <1>6, <1>7
<1> QED BY <1>8 DEF rest

(* Processing a node keeps the invariant: the nodes it makes ready are     *)
(* among the successors it pushes.                                         *)
LEMMA ProcessInv ==
  ASSUME Inv, ProcessNode
  PROVE  Inv'
<1> DEFINE p == Actual
           rest == Front(processing)
<1>1. /\ processing # << >> /\ msg \in MSGs /\ StatesOK /\ FlowConsistent
      /\ PendingHavePredecessor /\ ReadyIsPending /\ processing \in Seq(Node)
      /\ phase = "analyze" /\ isPredecessorMemStateKnown(p) /\ p # Exit
      /\ msg' = msg /\ phase' = phase /\ penalty' = penalty /\ penalty \in [Node -> Nat]
  BY DEF ProcessNode, Inv
<1>2. /\ p \in Node /\ p \notin DOMAIN state_map
      /\ memStateVal' \in [Node -> BOOLEAN]
      /\ memStateVal'[p]
      /\ \A n \in Node \ {p} : memStateVal'[n] = memStateVal[n]
      /\ DOMAIN state_map' = DOMAIN state_map \cup {p}
      /\ state_map'[p] = InitialStates(p)
      /\ \A n \in DOMAIN state_map : state_map'[n] = state_map[n] /\ memStateVal'[n]
  BY ProcessEffect
<1>3. p = Entry \/ Len(Predecessors(p)) > 0
  BY <1>1, ActualFacts
<1>4. /\ rest \in Seq(Node) /\ Len(rest) = Len(processing) - 1
      /\ \A i \in 1..Len(rest) : rest[i] = processing[i]
      /\ p = processing[Len(processing)]
  BY <1>1, ActualFacts
<1>5. /\ processing' \in Seq(Node)
      /\ \A n \in Node :
           (\E i \in 1..Len(processing') : processing'[i] = n)
             <=> (\E i \in 1..Len(rest) : rest[i] = n) \/ HasForwardEdge(msg.in[n], p)
  BY ProcessPushes
<1> HIDE DEF p, rest
<1>6. \A n \in Node : Predecessors(n)' = Predecessors(n) /\ Predecessors(n) \in Seq(Node)
  BY <1>1, GraphFacts DEF Predecessors
<1>7. StatesOK'
  <2>1. /\ InitialStates(p) \in SUBSET Contents
        /\ StartsWithOneBlock(msg) /\ InitialStates(p) = BlankStates => p \in Opening(msg)
    BY <1>1, <1>2, <1>3, InitialStatesType
  <2>2. DOMAIN state_map' = {n \in Node : memStateVal'[n]}
    <3>1. DOMAIN state_map = {n \in Node : memStateVal[n]}
      BY <1>1 DEF StatesOK
    <3> QED BY <1>2, <3>1
  <2>3. ASSUME NEW n \in DOMAIN state_map'
        PROVE  /\ state_map'[n] \in SUBSET Contents
               /\ StartsWithOneBlock(msg) /\ state_map'[n] = BlankStates => n \in Opening(msg)
    <3>1. CASE n = p
      BY <1>2, <2>1, <3>1
    <3>2. CASE n # p
      <4>1. n \in DOMAIN state_map /\ state_map'[n] = state_map[n]
        BY <1>2, <3>2
      <4> QED BY <1>1, <4>1 DEF StatesOK
    <3> QED BY <3>1, <3>2
  <2>4. Exit \notin DOMAIN state_map'
    BY <1>1, <1>2 DEF StatesOK
  <2> QED BY <1>1, <1>2, <2>2, <2>3, <2>4 DEF StatesOK
<1>8. FlowConsistent'
  <2> SUFFICES ASSUME NEW n \in DOMAIN state_map'
               PROVE  isPredecessorMemStateKnown(n)' /\ state_map'[n] = InitialStates(n)'
    BY DEF FlowConsistent
  <2>1. n \in Node /\ isPredecessorMemStateKnown(n) /\ state_map'[n] = InitialStates(n)
    <3>1. CASE n = p
      BY <1>1, <1>2, <3>1
    <3>2. CASE n # p
      BY <1>1, <1>2, <3>2 DEF FlowConsistent, StatesOK
    <3> QED BY <3>1, <3>2
  <2> QED BY <1>1, <1>2, <2>1, FlowKept
<1>9. PendingHavePredecessor'
  <2> SUFFICES ASSUME NEW j \in 1..Len(processing')
               PROVE  \/ processing'[j] = Entry
                      \/ Len(Predecessors(processing'[j])) > 0
    BY <1>1 DEF PendingHavePredecessor, Predecessors
  <2>1. PICK n \in Node : n = processing'[j]
    BY <1>5
  <2>2. CASE \E i \in 1..Len(rest) : rest[i] = n
    <3>1. PICK i \in 1..Len(rest) : rest[i] = n
      BY <2>2
    <3>2. i \in 1..Len(processing) /\ processing[i] = n
      BY <1>1, <1>4, <3>1
    <3> QED BY <1>1, <2>1, <3>2 DEF PendingHavePredecessor
  <2>3. CASE HasForwardEdge(msg.in[n], p)
    <3>1. PICK i \in 1..Len(Predecessors(n)) : Predecessors(n)[i] = p
      BY <1>1, <1>2, <2>3, GraphFacts
    <3>2. Len(Predecessors(n)) > 0
      BY <1>6, <3>1
    <3> QED BY <2>1, <3>2
  <2> QED BY <1>5, <2>1, <2>2, <2>3
<1>10. ReadyIsPending'
  <2> SUFFICES ASSUME NEW n \in Node \ {Exit}, isPredecessorMemStateKnown(n)',
                      n = Entry \/ Len(Predecessors(n)') > 0, ~memStateVal'[n]
               PROVE  \E i \in 1..Len(processing') : processing'[i] = n
    BY DEF ReadyIsPending
  <2>1. n # p /\ ~memStateVal[n]
    BY <1>2
  <2>2. CASE isPredecessorMemStateKnown(n)
    <3>1. PICK i \in 1..Len(processing) : processing[i] = n
      BY <1>1, <1>6, <2>1, <2>2 DEF ReadyIsPending
    <3>2. i # Len(processing)
      BY <1>4, <2>1, <3>1
    <3>3. i \in 1..Len(rest) /\ rest[i] = n
      BY <1>1, <1>4, <3>1, <3>2
    <3> QED BY <1>5, <3>3
  <2>3. CASE ~isPredecessorMemStateKnown(n)
    <3>1. PICK i \in 1..Len(Predecessors(n)) : ~memStateVal[Predecessors(n)[i]]
      BY <2>3 DEF isPredecessorMemStateKnown
    <3>2. memStateVal'[Predecessors(n)[i]] /\ Predecessors(n)[i] \in Node
      BY <1>6, <2>3, <3>1 DEF isPredecessorMemStateKnown
    <3>3. Predecessors(n)[i] = p
      BY <1>2, <3>1, <3>2
    <3>4. HasForwardEdge(msg.in[n], p)
      BY <1>1, <1>2, <3>1, <3>3, GraphFacts
    <3> QED BY <1>5, <3>4
  <2> QED BY <2>2, <2>3
<1>11. Finished'
  BY <1>1 DEF Finished
<1> QED BY <1>1, <1>5, <1>7, <1>8, <1>9, <1>10, <1>11 DEF Inv

(* The penalties are numbers.                                              *)
LEMMA CachePenaltyType ==
  ASSUME msg \in MSGs, NEW n \in Node
  PROVE  CachePenalty(n) \in Nat
<1> DEFINE dear == {i \in 1..Len(msg.lines[n]) : Category(n, i) # "hit"}
<1>1. Len(msg.lines[n]) \in Nat
  BY GraphFacts
<1>2. IsFiniteSet(1..Len(msg.lines[n]))
  BY <1>1, FS_Interval
<1>3. IsFiniteSet(dear)
  BY <1>2, FS_Subset
<1>4. Cardinality(dear) \in Nat
  BY <1>3, FS_CardinalityType
<1> HIDE DEF dear
<1>5. MissCost * Cardinality(dear) \in Nat
  BY <1>4, MissCostAssumption
<1> QED BY <1>5 DEF CachePenalty, dear

(* A step that leaves graph, states and worklist alone keeps all but what  *)
(* is said of the end.                                                     *)
LEMMA StatesKept ==
  ASSUME Inv, UNCHANGED <<msg, processing, memStateVal, state_map>>
  PROVE  /\ msg' \in MSGs /\ processing' \in Seq(Node)
         /\ StatesOK' /\ FlowConsistent' /\ PendingHavePredecessor' /\ ReadyIsPending'
         /\ Looked' = Looked
         /\ \A n, i : Category(n, i)' = Category(n, i)
<1>1. FlowConsistent'
  BY DEF Inv, FlowConsistent, InitialStates, StatesAfter, Predecessors, isPredecessorMemStateKnown
<1>2. PendingHavePredecessor'
  BY DEF Inv, PendingHavePredecessor, Predecessors
<1>3. ReadyIsPending'
  BY DEF Inv, ReadyIsPending, Predecessors, isPredecessorMemStateKnown
<1>4. StatesOK' /\ Looked' = Looked
  BY DEF Inv, StatesOK, Looked
<1>5. \A n, i : Category(n, i)' = Category(n, i)
  BY DEF Category
<1> QED BY <1>1, <1>2, <1>3, <1>4, <1>5 DEF Inv

(* The calculation of the penalties keeps the invariant.                   *)
LEMMA CalculateInv ==
  ASSUME Inv, CalculateCachePenalty
  PROVE  Inv'
<1>1. /\ processing = << >> /\ Looked \subseteq DOMAIN state_map
      /\ penalty' = [n \in Node |-> IF n \in Looked THEN CachePenalty(n) ELSE 0]
      /\ phase' = "done"
      /\ UNCHANGED <<msg, processing, memStateVal, state_map>>
      /\ msg \in MSGs
  BY DEF CalculateCachePenalty, Inv
<1>2. penalty' \in [Node -> Nat]
  BY <1>1, CachePenaltyType
<1>3. Finished'
  <2>1. \A n \in Node : CachePenalty(n)' = CachePenalty(n)
    BY <1>1, StatesKept DEF CachePenalty
  <2>2. Looked' = Looked
    BY <1>1, StatesKept
  <2>3. penalty' = [n \in Node |-> IF n \in Looked THEN CachePenalty(n) ELSE 0]'
    BY <1>1, <2>1, <2>2
  <2> QED BY <1>1, <2>2, <2>3 DEF Finished
<1> QED BY <1>1, <1>2, <1>3, StatesKept DEF Inv

(* Every step keeps the invariant.                                         *)
LEMMA NextInv == Inv /\ [Next]_vars => Inv'
<1> SUFFICES ASSUME Inv, [Next]_vars PROVE Inv'
  OBVIOUS
<1>1. CASE DropNode
  BY <1>1, DropInv
<1>2. CASE ProcessNode
  BY <1>2, ProcessInv
<1>3. CASE InsertAgain \/ LookupFails
  <2>1. /\ UNCHANGED <<msg, processing, memStateVal, state_map>>
        /\ phase' = "aborted" /\ penalty' = penalty /\ penalty \in [Node -> Nat]
    BY <1>3 DEF InsertAgain, LookupFails, Inv
  <2>2. Finished'
    BY <2>1 DEF Finished
  <2> QED BY <2>1, <2>2, StatesKept DEF Inv
<1>4. CASE CalculateCachePenalty
  BY <1>4, CalculateInv
<1>5. CASE UNCHANGED vars
  <2>1. UNCHANGED <<msg, processing, memStateVal, state_map, penalty, phase>>
    BY <1>5 DEF vars
  <2>2. Finished'
    <3>1. \A n \in Node : CachePenalty(n)' = CachePenalty(n)
      BY <2>1, StatesKept DEF CachePenalty
    <3> QED BY <2>1, <3>1, StatesKept DEF Inv, Finished
  <2> QED BY <2>1, <2>2, StatesKept DEF Inv
<1> QED BY <1>1, <1>2, <1>3, <1>4, <1>5 DEF Next

(* The invariant holds at every step of the analysis.                      *)
THEOREM Invariance == Spec => []Inv
<1> QED BY InitInv, NextInv, PTL DEF Spec

(* Every variable of the analysis keeps its type: no content holds a line  *)
(* twice or more lines than the cache has.                                 *)
THEOREM TypeCorrect == Spec => []TypeOK
<1>1. Inv => TypeOK
  BY DEF Inv, StatesOK, TypeOK, Contents
<1> QED BY <1>1, Invariance, PTL

(* A node keeps the states its predecessors leave, however the worklist    *)
(* was worked off.                                                         *)
THEOREM SolutionIsConsistent == Spec => []FlowConsistent
<1>1. Inv => FlowConsistent
  BY DEF Inv
<1> QED BY <1>1, Invariance, PTL

(* The node that comes first among the unsolved ones would be ready, so    *)
(* there is no unsolved one at the end.                                    *)
LEMMA AllAnalyzed ==
  ASSUME Inv, processing = << >>, ForwardConnected(msg)
  PROVE  Node \ {Exit} \subseteq DOMAIN state_map
<1> SUFFICES ASSUME NEW x \in Node \ {Exit}, ~memStateVal[x]
             PROVE  FALSE
  BY DEF Inv, StatesOK
<1> DEFINE unsolved == {n \in Node \ {Exit} : ~memStateVal[n]}
<1>1. /\ msg \in MSGs /\ IsCodeGraph(msg, Line) /\ processing = << >>
      /\ unsolved \in (SUBSET Node) \ {{}}
  BY GraphAssumption DEF Inv, Finished
<1>2. PICK n \in unsolved : \A m \in unsolved : ~HasForwardEdge(msg.in[n], m)
  BY <1>1 DEF IsCodeGraph, IsFlowGraph, ForwardAcyclic
<1>3. n \in Node \ {Exit} /\ ~memStateVal[n]
  BY <1>2
<1>4. ASSUME NEW m \in Node, HasForwardEdge(msg.in[n], m) PROVE memStateVal[m]
  <2>1. m # Exit
    BY <1>1, <1>3, <1>4, GraphFacts
  <2> QED BY <1>2, <1>4, <2>1
<1>5. isPredecessorMemStateKnown(n)
  <2>1. ASSUME NEW i \in 1..Len(Predecessors(n)) PROVE memStateVal[Predecessors(n)[i]]
    <3>1. Predecessors(n)[i] \in Node
      BY <1>1, <1>3, GraphFacts
    <3>2. HasForwardEdge(msg.in[n], Predecessors(n)[i])
      BY <1>1, <1>3, <3>1, GraphFacts
    <3> QED BY <1>4, <3>1, <3>2
  <2> QED BY <2>1 DEF isPredecessorMemStateKnown
<1>6. n = Entry \/ Len(Predecessors(n)) > 0
  <2> SUFFICES ASSUME n # Entry PROVE Len(Predecessors(n)) > 0
    OBVIOUS
  <2>1. PICK m \in Node : HasForwardEdge(msg.in[n], m)
    BY <1>3 DEF ForwardConnected
  <2>2. \E i \in 1..Len(Predecessors(n)) : Predecessors(n)[i] = m
    BY <1>1, <1>3, <2>1, GraphFacts
  <2>3. Predecessors(n) \in Seq(Node)
    BY <1>1, <1>3, GraphFacts
  <2> QED BY <2>2, <2>3
<1>7. \E i \in 1..Len(processing) : processing[i] = n
  BY <1>3, <1>5, <1>6 DEF Inv, ReadyIsPending
<1> QED BY <1>1, <1>7

-----------------------------------------------------------------------------
(***************************************************************************)
(* The worklist implements the abstract analysis.                          *)
(***************************************************************************)

(* A node is solved once it is in the state map; a failed assertion ends   *)
(* nothing, the abstract analysis just goes on no further.                 *)
preds == [n \in Node |-> {m \in Node : HasForwardEdge(msg.in[n], m)}]

FA == INSTANCE ForwardAnalysis WITH
        solved <- DOMAIN state_map, ended <- (phase = "done")

(* The conditions of the code in terms of the abstract analysis.           *)
LEMMA KnownIsSolved ==
  ASSUME msg \in MSGs, DOMAIN state_map = {n \in Node : memStateVal[n]}, NEW n \in Node
  PROVE  /\ isPredecessorMemStateKnown(n) <=> preds[n] \subseteq DOMAIN state_map
         /\ Len(Predecessors(n)) > 0 <=> preds[n] # {}
<1>1. Predecessors(n) \in Seq(Node) /\ Len(Predecessors(n)) \in Nat
  BY GraphFacts
<1>2. \A m \in Node : m \in preds[n] <=> \E i \in 1..Len(Predecessors(n)) : Predecessors(n)[i] = m
  BY GraphFacts DEF preds
<1>3. \A i \in 1..Len(Predecessors(n)) : Predecessors(n)[i] \in preds[n] /\ Predecessors(n)[i] \in Node
  BY <1>1, <1>2
<1>4. preds[n] \subseteq Node
  BY DEF preds
<1>5. Len(Predecessors(n)) > 0 <=> preds[n] # {}
  <2>1. Len(Predecessors(n)) > 0 => Predecessors(n)[1] \in preds[n]
    BY <1>1, <1>3
  <2>2. preds[n] # {} => Len(Predecessors(n)) > 0
    BY <1>1, <1>2, <1>4
  <2> QED BY <2>1, <2>2
<1>6. n = Entry => preds[n] = {}
  BY <1>5, GraphFacts
<1>7. (\A i \in 1..Len(Predecessors(n)) : memStateVal[Predecessors(n)[i]])
        <=> preds[n] \subseteq DOMAIN state_map
  BY <1>1, <1>2, <1>3, <1>4
<1> QED BY <1>5, <1>6, <1>7 DEF isPredecessorMemStateKnown

(* The analysis starts where the abstract one does.                        *)
LEMMA InitRefines == Init => FA!Init
<1> SUFFICES ASSUME Init PROVE FA!Init
  OBVIOUS
<1>1. preds \in [Node -> SUBSET Node]
  BY DEF preds
<1>2. DOMAIN state_map = {} /\ (phase = "done") = FALSE
  BY DEF Init
<1> QED BY <1>1, <1>2 DEF FA!Init

(* Processing solves a node that can be solved.                            *)
LEMMA ProcessSolves ==
  ASSUME Inv, ProcessNode
  PROVE  FA!Solve(Actual) /\ Actual \in Node
<1>1. /\ msg \in MSGs /\ msg' = msg /\ phase' = phase /\ phase = "analyze"
      /\ Actual # Exit /\ isPredecessorMemStateKnown(Actual) /\ processing # << >>
      /\ DOMAIN state_map = {n \in Node : memStateVal[n]}
  BY DEF ProcessNode, Inv, StatesOK
<1>2. /\ Actual \in Node /\ Actual \notin DOMAIN state_map
      /\ DOMAIN state_map' = DOMAIN state_map \cup {Actual}
  BY ProcessEffect
<1>3. Actual = Entry \/ Len(Predecessors(Actual)) > 0
  BY <1>1, ActualFacts
<1>4. preds[Actual] \subseteq DOMAIN state_map /\ (Actual = Entry \/ preds[Actual] # {})
  BY <1>1, <1>2, <1>3, KnownIsSolved
<1>5. FA!Solvable(Actual)
  BY <1>1, <1>2, <1>4 DEF FA!Solvable
<1>6. preds' = preds /\ (phase = "done")' = (phase = "done") /\ phase # "done"
  BY <1>1 DEF preds
<1> QED BY <1>2, <1>5, <1>6 DEF FA!Solve

(* Nothing is left to solve when the penalties are calculated.             *)
LEMMA CalculationEnds ==
  ASSUME Inv, CalculateCachePenalty
  PROVE  FA!End
<1>1. /\ msg \in MSGs /\ msg' = msg /\ state_map' = state_map /\ processing = << >>
      /\ phase = "analyze" /\ phase' = "done"
      /\ DOMAIN state_map = {n \in Node : memStateVal[n]}
  BY DEF CalculateCachePenalty, Inv, StatesOK
<1>2. ASSUME NEW n \in Node, FA!Solvable(n) PROVE FALSE
  <2>1. /\ n # Exit /\ n \notin DOMAIN state_map
        /\ n = Entry \/ preds[n] # {}
        /\ preds[n] \subseteq DOMAIN state_map
    BY <1>2 DEF FA!Solvable
  <2>2. isPredecessorMemStateKnown(n) /\ (n = Entry \/ Len(Predecessors(n)) > 0) /\ ~memStateVal[n]
    BY <1>1, <2>1, KnownIsSolved
  <2>3. \E i \in 1..Len(processing) : processing[i] = n
    BY <2>1, <2>2 DEF Inv, ReadyIsPending
  <2> QED BY <1>1, <2>3
<1>3. preds' = preds
  BY <1>1 DEF preds
<1> QED BY <1>1, <1>2, <1>3 DEF FA!End

(* Every step solves a node that can be solved, ends the abstract analysis *)
(* when nothing is left to solve, or stutters.                             *)
LEMMA NextRefines == Inv /\ [Next]_vars => [FA!Next]_FA!absVars
<1> SUFFICES ASSUME Inv, [Next]_vars PROVE [FA!Next]_FA!absVars
  OBVIOUS
<1> DEFINE Same == /\ preds' = preds /\ DOMAIN state_map' = DOMAIN state_map
                   /\ (phase = "done")' = (phase = "done")
<1>1. Same => UNCHANGED FA!absVars
  BY DEF FA!absVars
<1>2. CASE DropNode \/ InsertAgain \/ LookupFails
  <2>1. Same
    BY <1>2 DEF DropNode, InsertAgain, LookupFails, preds
  <2> QED BY <1>1, <2>1
<1>3. CASE ProcessNode
  BY <1>3, ProcessSolves DEF FA!Next
<1>4. CASE CalculateCachePenalty
  BY <1>4, CalculationEnds DEF FA!Next
<1>5. CASE UNCHANGED vars
  <2>1. Same
    BY <1>5 DEF vars, preds
  <2> QED BY <1>1, <2>1
<1> QED BY <1>2, <1>3, <1>4, <1>5 DEF Next

(* Every run of the map based analysis is a run of the abstract analysis:  *)
(* a node is solved once, behind its predecessors, and results are put on  *)
(* the graph only if no node is left out.                                  *)
THEOREM Refinement == Spec => FA!Spec
<1> QED BY InitRefines, NextRefines, Invariance, PTL DEF Spec, FA!Spec

-----------------------------------------------------------------------------
(***************************************************************************)
(* If steps come before jumps, nothing is inserted into the map twice.     *)
(***************************************************************************)

(* A node on the worklist is not reached from what lies above it, and has  *)
(* no states yet.                                                          *)
Separated ==
  /\ \A i, j \in 1..Len(processing) :
       i < j => NeverReaches(msg, processing[j], processing[i])
  /\ \A i \in 1..Len(processing) : ~memStateVal[processing[i]]

OrderInv ==
  /\ Inv
  /\ (StepsBeforeJumps(msg) /\ phase # "aborted") => Separated
  /\ OrderedGraphsPass

(* What is pushed is reached from the popped node, so it reaches nothing   *)
(* the popped node does not.                                               *)
LEMMA NeverReachesOn ==
  ASSUME NEW g, NEW n \in Node, NEW m, NEW k \in Node, HasForwardEdge(g.out[n], k),
         NeverReaches(g, n, m)
  PROVE  NeverReaches(g, k, m)
BY DEF NeverReaches

(* A popped node is on top; the others stay separated.                     *)
LEMMA DropSeparated ==
  ASSUME Inv, Separated, DropNode
  PROVE  Separated'
<1>1. /\ processing # << >> /\ msg \in MSGs /\ processing \in Seq(Node)
      /\ processing' = Front(processing) /\ msg' = msg /\ memStateVal' = memStateVal
  BY DEF DropNode, Inv
<1>2. /\ Len(processing') = Len(processing) - 1
      /\ \A i \in 1..Len(processing') : processing'[i] = processing[i] /\ i \in 1..Len(processing)
  BY <1>1, ActualFacts
<1> QED BY <1>1, <1>2 DEF Separated

(* The successors of a node take its place on top.                         *)
LEMMA ProcessSeparated ==
  ASSUME Inv, Separated, StepsBeforeJumps(msg), ProcessNode
  PROVE  Separated'
<1> DEFINE p == Actual
           rest == Front(processing)
           pushed == ForwardEdges(msg.out[p])
           n == Len(processing)
<1>1. /\ processing # << >> /\ msg \in MSGs /\ processing \in Seq(Node)
      /\ msg' = msg /\ FlowConsistent /\ StatesOK
      /\ processing' = rest \o pushed
  BY DEF ProcessNode, Inv
<1>2. /\ p \in Node /\ n \in Nat \ {0} /\ p = processing[n]
      /\ rest \in Seq(Node) /\ Len(rest) = n - 1
      /\ \A i \in 1..Len(rest) : rest[i] = processing[i] /\ i \in 1..n
  BY <1>1, ActualFacts
<1>3. /\ \A m \in Node \ {p} : memStateVal'[m] = memStateVal[m]
      /\ p \notin DOMAIN state_map
  BY ProcessEffect
<1>4. /\ pushed \in Seq(Node)
      /\ \A i \in 1..Len(pushed) :
           /\ pushed[i] \in Node
           /\ HasForwardEdge(msg.in[pushed[i]], p)
           /\ HasForwardEdge(msg.out[p], pushed[i])
  <2>1. pushed \in Seq(Node)
    BY <1>1, <1>2, GraphFacts
  <2>2. \A i \in 1..Len(pushed) : pushed[i] \in Node /\ HasForwardEdge(msg.in[pushed[i]], p)
    <3> TAKE i \in 1..Len(pushed)
    <3>1. pushed[i] \in Node
      BY <2>1
    <3>2. \A k \in Node : (\E j \in 1..Len(pushed) : pushed[j] = k) => HasForwardEdge(msg.in[k], p)
      BY <1>1, <1>2, GraphFacts
    <3> QED BY <3>1, <3>2
  <2>3. \A k \in Node : HasForwardEdge(msg.in[k], p) => HasForwardEdge(msg.out[p], k)
    BY <1>1, <1>2, GraphFacts DEF IsCodeGraph, IsFlowGraph
  <2> QED BY <2>1, <2>2, <2>3
<1>5. \A i, j \in 1..Len(pushed) :
        i < j => NeverReaches(msg, pushed[j], pushed[i])
  BY <1>2 DEF StepsBeforeJumps
<1>6. \A i \in 1..Len(rest) :
        /\ NeverReaches(msg, p, rest[i])
        /\ \A j \in 1..Len(pushed) : NeverReaches(msg, pushed[j], rest[i])
        /\ \A j \in 1..Len(rest) : i < j => NeverReaches(msg, rest[j], rest[i])
        /\ ~memStateVal[rest[i]]
        /\ rest[i] \in Node
  <2> TAKE i \in 1..Len(rest)
  <2>1. NeverReaches(msg, p, rest[i])
    <3>1. i \in 1..n /\ n \in 1..n /\ i < n
      BY <1>2
    <3> QED BY <1>2, <3>1 DEF Separated
  <2>2. \A j \in 1..Len(pushed) : NeverReaches(msg, pushed[j], rest[i])
    BY <1>2, <1>4, <2>1, NeverReachesOn
  <2>3. \A j \in 1..Len(rest) : i < j => NeverReaches(msg, rest[j], rest[i])
    BY <1>2 DEF Separated
  <2>4. ~memStateVal[rest[i]] /\ rest[i] \in Node
    BY <1>2 DEF Separated
  <2> QED BY <2>1, <2>2, <2>3, <2>4
<1>7. \A i \in 1..Len(rest) : rest[i] # p
  BY <1>6 DEF NeverReaches
<1>8. ASSUME NEW i \in 1..Len(pushed) PROVE ~memStateVal[pushed[i]] /\ pushed[i] # p
  <2>1. pushed[i] # p
    BY <1>1, <1>2, <1>4, GraphFacts
  <2>2. ASSUME memStateVal[pushed[i]] PROVE FALSE
    <3>1. pushed[i] \in DOMAIN state_map
      BY <1>1, <1>4, <2>2 DEF StatesOK
    <3>2. isPredecessorMemStateKnown(pushed[i])
      BY <1>1, <3>1 DEF FlowConsistent
    <3>3. pushed[i] # Entry /\ \E k \in 1..Len(Predecessors(pushed[i])) : Predecessors(pushed[i])[k] = p
      <4>0. pushed[i] \in Node /\ HasForwardEdge(msg.in[pushed[i]], p)
        BY <1>4
      <4>1. \E k \in 1..Len(Predecessors(pushed[i])) : Predecessors(pushed[i])[k] = p
        <5>1. \A m \in Node : HasForwardEdge(msg.in[m], p) =>
                \E k \in 1..Len(Predecessors(m)) : Predecessors(m)[k] = p
          <6> TAKE m \in Node
          <6> HIDE DEF p, rest, pushed, n
          <6>0. msg \in MSGs /\ p \in Node
            BY <1>1, <1>2
          <6>1. (\E k \in 1..Len(Predecessors(m)) : Predecessors(m)[k] = p)
                  <=> HasForwardEdge(msg.in[m], p)
            BY <6>0, GraphFacts
          <6> QED BY <6>1
        <5> HIDE DEF pushed, p
        <5> QED BY <4>0, <5>1
      <4>2. Len(Predecessors(Entry)) = 0
        BY <1>1, GraphFacts
      <4> QED BY <4>1, <4>2
    <3>4. memStateVal[p]
      BY <3>2, <3>3 DEF isPredecessorMemStateKnown
    <3> QED BY <1>1, <1>2, <1>3, <3>4 DEF StatesOK
  <2> QED BY <2>1, <2>2
<1> HIDE DEF p, rest, pushed, n
<1>9. /\ Len(rest) \in Nat /\ Len(pushed) \in Nat
      /\ Len(processing') = Len(rest) + Len(pushed)
      /\ \A i \in 1..Len(processing') :
           /\ i <= Len(rest) => i \in 1..Len(rest) /\ processing'[i] = rest[i]
           /\ i > Len(rest) => /\ i - Len(rest) \in 1..Len(pushed)
                              /\ processing'[i] = pushed[i - Len(rest)]
  BY <1>1, <1>2, <1>4
<1>10. ASSUME NEW i \in 1..Len(processing'), NEW j \in 1..Len(processing'), i < j
       PROVE  NeverReaches(msg, processing'[j], processing'[i])
  <2>1. CASE j <= Len(rest)
    BY <1>6, <1>9, <1>10, <2>1
  <2>2. CASE i <= Len(rest) /\ j > Len(rest)
    BY <1>6, <1>9, <2>2
  <2>3. CASE i > Len(rest)
    <3>1. /\ i - Len(rest) \in 1..Len(pushed) /\ j - Len(rest) \in 1..Len(pushed)
          /\ i - Len(rest) < j - Len(rest)
          /\ processing'[i] = pushed[i - Len(rest)] /\ processing'[j] = pushed[j - Len(rest)]
      BY <1>9, <1>10, <2>3
    <3> QED BY <1>5, <3>1
  <2> QED BY <1>9, <2>1, <2>2, <2>3
<1>11. ASSUME NEW i \in 1..Len(processing') PROVE ~memStateVal'[processing'[i]]
  <2>1. CASE i <= Len(rest)
    BY <1>3, <1>6, <1>7, <1>9, <2>1
  <2>2. CASE i > Len(rest)
    <3>1. PICK k \in 1..Len(pushed) : processing'[i] = pushed[k]
      BY <1>9, <2>2
    <3>2. pushed[k] \in Node \ {p} /\ ~memStateVal[pushed[k]]
      BY <1>4, <1>8
    <3> QED BY <1>3, <3>1, <3>2
  <2> QED BY <1>9, <2>1, <2>2
<1> QED BY <1>1, <1>10, <1>11 DEF Separated

(* Every step keeps it; and neither assertion can fail then.               *)
LEMMA OrderNext == OrderInv /\ [Next]_vars => OrderInv'
<1> SUFFICES ASSUME OrderInv, [Next]_vars PROVE OrderInv'
  OBVIOUS
<1>1. Inv /\ Inv'
  BY NextInv DEF OrderInv
<1>2. msg' = msg
  BY DEF Next, vars, DropNode, ProcessNode, InsertAgain, CalculateCachePenalty, LookupFails
<1> SUFFICES ASSUME StepsBeforeJumps(msg)
             PROVE  /\ phase' # "aborted" => Separated'
                    /\ phase' = "aborted" => ~ForwardConnected(msg)
  BY <1>1, <1>2 DEF OrderInv, OrderedGraphsPass
<1>3. /\ phase # "aborted" => Separated
      /\ phase = "aborted" => ~ForwardConnected(msg)
  BY DEF OrderInv, OrderedGraphsPass
<1>4. CASE DropNode
  BY <1>1, <1>3, <1>4, DropSeparated DEF DropNode
<1>5. CASE ProcessNode
  BY <1>1, <1>3, <1>5, ProcessSeparated DEF ProcessNode
<1>6. CASE InsertAgain
  <2>1. /\ processing # << >> /\ phase = "analyze" /\ Actual \in DOMAIN state_map
        /\ msg \in MSGs /\ processing \in Seq(Node)
    BY <1>1, <1>6 DEF InsertAgain, Inv
  <2>2. Len(processing) \in 1..Len(processing) /\ Actual = processing[Len(processing)]
    BY <1>1, <2>1, ActualFacts
  <2>3. memStateVal[Actual]
    BY <1>1, <2>1 DEF Inv, StatesOK
  <2> QED BY <1>3, <2>1, <2>2, <2>3 DEF Separated
<1>7. CASE CalculateCachePenalty
  BY <1>3, <1>7 DEF CalculateCachePenalty, Separated
<1>8. CASE LookupFails
  <2>1. processing = << >> /\ ~(Looked \subseteq DOMAIN state_map) /\ phase' = "aborted"
    BY <1>8 DEF LookupFails
  <2>2. Exit \notin Looked
    BY <1>1, GraphAssumption DEF Inv, IsCodeGraph, Looked
  <2>3. ForwardConnected(msg) => Looked \subseteq DOMAIN state_map
    BY <1>1, <2>1, <2>2, AllAnalyzed DEF Looked
  <2> QED BY <2>1, <2>3
<1>9. CASE UNCHANGED vars
  BY <1>3, <1>9 DEF vars, Separated
<1> QED BY <1>4, <1>5, <1>6, <1>7, <1>8, <1>9 DEF Next

(* If no later successor of a node leads back to an earlier one, and every *)
(* node is entered by a forward edge, the assertions about the map never   *)
(* fail: each node comes up for processing exactly once.                   *)
THEOREM OrderedGraphsNeverAbort == Spec => []OrderedGraphsPass
<1>1. Init => OrderInv
  <2> SUFFICES ASSUME Init PROVE OrderInv
    OBVIOUS
  <2>1. Inv
    BY InitInv
  <2>2. /\ processing = <<Entry>> /\ memStateVal = [n \in Node |-> FALSE]
        /\ phase = "analyze"
    BY DEF Init
  <2>3. Separated
    <3>1. Len(processing) = 1 /\ processing[1] = Entry
      BY <2>2
    <3> QED BY <2>2, <3>1, EndsAssumption DEF Separated
  <2> QED BY <2>1, <2>2, <2>3 DEF OrderInv, OrderedGraphsPass
<1>2. OrderInv /\ [Next]_vars => OrderInv'
  BY OrderNext
<1>3. OrderInv => OrderedGraphsPass
  BY DEF OrderInv
<1> QED BY <1>1, <1>2, <1>3, PTL DEF Spec

-----------------------------------------------------------------------------
(* What is assumed of the graphs: every node is entered by a forward edge, *)
(* and nothing is joined with the blank state.                             *)
Regular == \A g \in MSGs : ForwardConnected(g) /\ StartsWithOneBlock(g)

(* The states the analysis has for the point the execution has reached.    *)
StatesHere == UpdateAlong(state_map[at], msg.lines[at])[fetched]

(* The fetches of the node so far that the penalty pays for.               *)
Paid == {i \in 1..fetched : Category(at, i) # "hit"}

MachineOK ==
  /\ at \in Node
  /\ fetched \in 0..Len(msg.lines[at])
  /\ missed \in 0..fetched
  /\ cache \in Contents
  /\ looped \in BOOLEAN

(* The execution begins when the analysis is done.                         *)
NotStarted ==
  phase # "done" =>
    at = Entry /\ fetched = 0 /\ cache = << >> /\ missed = 0 /\ looped = FALSE

(* As long as no back edge was taken, the cache is one of the contents and *)
(* every miss is paid for.                                                 *)
Follows ==
  phase = "done" /\ ~looped =>
    /\ at # Exit => Keeps(StatesHere, cache)
    /\ missed <= Cardinality(Paid)

XInv == Inv /\ MachineOK /\ NotStarted /\ (Regular => Follows)

(* The states for the points of a node that was analysed.                  *)
LEMMA StatesAlong ==
  ASSUME Inv, NEW n \in DOMAIN state_map
  PROVE  /\ n \in Node /\ msg.lines[n] \in Seq(Line)
         /\ \A k \in 0..Len(msg.lines[n]) :
              UpdateAlong(state_map[n], msg.lines[n])[k] \in SUBSET Contents
         /\ UpdateAlong(state_map[n], msg.lines[n])[0] = state_map[n]
         /\ \A k \in 1..Len(msg.lines[n]) :
              UpdateAlong(state_map[n], msg.lines[n])[k]
                = UpdateState(UpdateAlong(state_map[n], msg.lines[n])[k - 1], msg.lines[n][k])
         /\ UpdateAlong(state_map[n], msg.lines[n])[Len(msg.lines[n])] = StatesAfter(n)
<1>1. n \in Node /\ state_map[n] \in SUBSET Contents /\ msg \in MSGs
  BY DEF Inv, StatesOK
<1>2. msg.lines[n] \in Seq(Line)
  BY <1>1, GraphFacts
<1>3. /\ UpdateAlong(state_map[n], msg.lines[n])
           \in [0..Len(msg.lines[n]) -> SUBSET Contents]
      /\ UpdateAlong(state_map[n], msg.lines[n])[0] = state_map[n]
      /\ \A k \in 1..Len(msg.lines[n]) :
           UpdateAlong(state_map[n], msg.lines[n])[k]
             = UpdateState(UpdateAlong(state_map[n], msg.lines[n])[k - 1], msg.lines[n][k])
  BY <1>1, <1>2, UpdateAlongTrace
<1>4. UpdateAlong(state_map[n], msg.lines[n])[Len(msg.lines[n])] = StatesAfter(n)
  BY DEF StatesAfter, UpdateStates
<1> QED BY <1>1, <1>2, <1>3, <1>4

(* A node that is executed was analysed, or it is the exit without code.   *)
LEMMA ExecutedIsAnalyzed ==
  ASSUME XInv, Regular, phase = "done"
  PROVE  /\ at # Exit => at \in DOMAIN state_map
         /\ fetched < Len(msg.lines[at]) => at \in DOMAIN state_map /\ at # Exit
<1>1. msg \in MSGs /\ at \in Node /\ Inv
  BY DEF XInv, MachineOK, Inv
<1>2. Node \ {Exit} \subseteq DOMAIN state_map
  BY <1>1, AllAnalyzed DEF Regular, Inv, Finished
<1>3. fetched < Len(msg.lines[at]) => msg.lines[at] # << >>
  <2>1. fetched \in 0..Len(msg.lines[at]) /\ msg.lines[at] \in Seq(Line)
    BY <1>1, GraphFacts DEF XInv, MachineOK
  <2> QED BY <2>1
<1>4. msg.lines[at] # << >> => at \in DOMAIN state_map
  BY <1>1 DEF Inv, Finished, Looked
<1>5. Exit \notin DOMAIN state_map
  BY <1>1 DEF Inv, StatesOK
<1> QED BY <1>1, <1>2, <1>3, <1>4, <1>5

(* The execution starts with an empty cache.                               *)
LEMMA ExecInitInv == ExecInit => XInv
<1> SUFFICES ASSUME ExecInit PROVE XInv
  OBVIOUS
<1>1. Inv /\ phase = "analyze"
  BY InitInv DEF ExecInit, Init
<1>2. MachineOK
  <2>1. Entry \in Node /\ msg.lines[Entry] \in Seq(Line)
    BY <1>1, GraphFacts, EndsAssumption DEF Inv
  <2>2. 0 \in 0..Len(msg.lines[Entry]) /\ 0 \in 0..0
    BY <2>1
  <2> QED BY <2>1, <2>2, EmptyContent DEF ExecInit, MachineOK
<1>3. NotStarted /\ Follows
  BY <1>1 DEF ExecInit, NotStarted, Follows
<1> QED BY <1>1, <1>2, <1>3 DEF XInv

(* At the end of the analysis the entry has the blank state and nothing    *)
(* was fetched.                                                            *)
LEMMA AnalyseInv ==
  ASSUME XInv, Analyse
  PROVE  XInv'
<1>1. Inv' /\ UNCHANGED <<at, fetched, cache, missed, looped>>
  BY NextInv DEF Analyse, XInv, execVars
<1>2. phase = "analyze" /\ msg' = msg
  BY DEF Analyse, Next, DropNode, ProcessNode, InsertAgain, CalculateCachePenalty, LookupFails
<1>3. MachineOK' /\ NotStarted'
  BY <1>1, <1>2 DEF XInv, MachineOK, NotStarted
<1>4. ASSUME Regular, phase' = "done" PROVE Follows'
  <2>1. /\ at = Entry /\ fetched = 0 /\ cache = << >> /\ missed = 0
    BY <1>2 DEF XInv, NotStarted
  <2>2. CalculateCachePenalty
    BY <1>2, <1>4
       DEF Analyse, Next, DropNode, ProcessNode, InsertAgain, CalculateCachePenalty, LookupFails
  <2>3. state_map' = state_map /\ processing = << >>
    BY <2>2 DEF CalculateCachePenalty
  <2>4. Entry \in DOMAIN state_map
    <3>1. isPredecessorMemStateKnown(Entry)
      BY DEF isPredecessorMemStateKnown
    <3>2. \A i \in 1..Len(processing) : FALSE
      BY <2>3
    <3> QED BY <3>1, <3>2, EndsAssumption DEF XInv, Inv, ReadyIsPending, StatesOK
  <2>5. state_map[Entry] = BlankStates
    BY <2>4 DEF XInv, Inv, FlowConsistent, InitialStates
  <2>6. StatesHere' = BlankStates
    <3>1. UpdateAlong(state_map[Entry], msg.lines[Entry])[0] = state_map[Entry]
      BY <2>4, StatesAlong DEF XInv
    <3> QED BY <1>1, <1>2, <2>1, <2>3, <2>5, <3>1 DEF StatesHere
  <2>7. Paid' = {}
    BY <1>1, <2>1 DEF Paid
  <2>8. Keeps(StatesHere', cache')
    BY <1>1, <2>1, <2>6 DEF Keeps
  <2>9. missed' <= Cardinality(Paid')
    BY <1>1, <2>1, <2>7, FS_EmptySet
  <2> QED BY <2>8, <2>9 DEF Follows
<1>5. phase' # "done" => Follows'
  BY DEF Follows
<1> QED BY <1>1, <1>3, <1>4, <1>5 DEF XInv

(* The class of the next fetch is the truth about the cache.               *)
LEMMA ClassIsTrue ==
  ASSUME XInv, Regular, ~looped, phase = "done", fetched < Len(msg.lines[at])
  PROVE  /\ at \in DOMAIN state_map
         /\ StatesHere \in SUBSET Contents
         /\ msg.lines[at][fetched + 1] \in Line
         /\ Keeps(StatesHere, cache)
         /\ Category(at, fetched + 1) = "hit" => Cached(msg.lines[at][fetched + 1])
         /\ Category(at, fetched + 1) = "miss" => ~Cached(msg.lines[at][fetched + 1])
<1> DEFINE addr == msg.lines[at][fetched + 1]
<1>1. at \in DOMAIN state_map /\ at # Exit
  BY ExecutedIsAnalyzed
<1>2. /\ msg.lines[at] \in Seq(Line) /\ fetched \in 0..Len(msg.lines[at])
      /\ StatesHere \in SUBSET Contents
  BY <1>1, StatesAlong DEF XInv, MachineOK, StatesHere
<1>3. fetched + 1 \in 1..Len(msg.lines[at]) /\ (fetched + 1) - 1 = fetched
  BY <1>2
<1>4. addr \in Line
  BY <1>2, <1>3
<1>5. Keeps(StatesHere, cache)
  BY <1>1 DEF XInv, Follows
<1>6. Category(at, fetched + 1) = IF isInAllSets(StatesHere, addr) THEN "hit"
                                  ELSE IF isInAnySet(StatesHere, addr) THEN "nc"
                                  ELSE "miss"
  BY <1>3 DEF Category, StatesHere
<1> HIDE DEF addr
<1>7. Category(at, fetched + 1) = "hit" => Cached(addr)
  <2> SUFFICES ASSUME isInAllSets(StatesHere, addr) PROVE Cached(addr)
    BY <1>6
  <2>1. isInState(cache, addr)
    BY <1>5 DEF isInAllSets, Keeps
  <2> QED BY <2>1 DEF isInState, Cached
<1>8. Category(at, fetched + 1) = "miss" => ~Cached(addr)
  <2> SUFFICES ASSUME ~isInAnySet(StatesHere, addr) PROVE ~Cached(addr)
    BY <1>6
  <2>1. ~isInState(cache, addr)
    BY <1>5 DEF isInAnySet, Keeps, isInState
  <2> QED BY <2>1 DEF isInState, Cached
<1> QED BY <1>1, <1>2, <1>4, <1>5, <1>7, <1>8 DEF addr

(* The next line is fetched: the contents follow the cache, and a miss is  *)
(* one the penalty pays for.                                               *)
LEMMA FetchInv ==
  ASSUME XInv, Fetch
  PROVE  XInv'
<1> DEFINE addr == msg.lines[at][fetched + 1]
<1>1. /\ phase = "done" /\ fetched < Len(msg.lines[at]) /\ fetched' = fetched + 1
      /\ UNCHANGED vars /\ at' = at /\ looped' = looped
      /\ cache' = IF Cached(addr) THEN cache
                  ELSE <<addr>> \o SubSeq(cache, 1, Min({Len(cache), LineNo - 1}))
      /\ missed' = IF Cached(addr) THEN missed ELSE missed + 1
  BY DEF Fetch
<1>2. /\ msg' = msg /\ state_map' = state_map /\ phase' = phase /\ processing' = processing
      /\ memStateVal' = memStateVal /\ penalty' = penalty
  BY <1>1 DEF vars
<1>3. Inv' /\ \A n, i : Category(n, i)' = Category(n, i)
  BY <1>1, <1>2, NextInv, StatesKept DEF XInv
<1>4. /\ at \in Node /\ msg.lines[at] \in Seq(Line) /\ fetched \in 0..Len(msg.lines[at])
      /\ missed \in 0..fetched /\ cache \in Contents /\ looped \in BOOLEAN
  BY GraphFacts DEF XInv, MachineOK, Inv
<1>5. addr \in Line /\ fetched + 1 \in 1..Len(msg.lines[at]) /\ (fetched + 1) - 1 = fetched
  BY <1>1, <1>4
<1> HIDE DEF addr
<1>6. cache' = AccessAddress(cache, addr) /\ cache' \in Contents
  BY <1>1, <1>4, <1>5, HardwareAccess, AccessType DEF Cached
<1>7. MachineOK' /\ NotStarted'
  <2>1. fetched' \in 0..Len(msg.lines[at]) /\ missed' \in 0..fetched'
    BY <1>1, <1>4
  <2> QED BY <1>1, <1>2, <1>4, <1>6, <2>1 DEF MachineOK, NotStarted
<1>8. ASSUME Regular, ~looped PROVE Follows'
  <2>1. /\ at \in DOMAIN state_map /\ StatesHere \in SUBSET Contents
        /\ Keeps(StatesHere, cache)
        /\ Category(at, fetched + 1) = "hit" => Cached(addr)
    BY <1>1, <1>8, ClassIsTrue DEF addr
  <2>2. StatesHere' = UpdateState(StatesHere, addr)
    BY <1>1, <1>2, <1>5, <2>1, StatesAlong DEF StatesHere, XInv, addr
  <2>3. Keeps(StatesHere', cache')
    <3>1. Keeps(UpdateState(StatesHere, addr), AccessAddress(cache, addr))
      BY <1>4, <1>5, <2>1, KeepsAccess
    <3> QED BY <1>6, <2>2, <3>1
  <2>4. missed <= Cardinality(Paid) /\ missed \in Nat
    BY <1>1, <1>4, <1>8 DEF XInv, Follows
  <2>5. Paid' = {i \in 1..fetched + 1 : Category(at, i) # "hit"}
    BY <1>1, <1>3 DEF Paid
  <2>6. \A i : i \in 1..fetched + 1 <=> i \in 1..fetched \/ i = fetched + 1
    BY <1>4
  <2>7. IsFiniteSet(Paid) /\ Cardinality(Paid) \in Nat /\ fetched + 1 \notin Paid
    <3>1. IsFiniteSet(1..fetched)
      BY <1>4, FS_Interval
    <3>2. IsFiniteSet(Paid)
      BY <3>1, FS_Subset DEF Paid
    <3>3. fetched + 1 \notin 1..fetched
      BY <1>4
    <3> QED BY <3>2, <3>3, FS_CardinalityType DEF Paid
  <2>8. missed' <= Cardinality(Paid')
    <3>1. CASE Category(at, fetched + 1) = "hit"
      <4>1. Paid' = Paid
        BY <2>5, <2>6, <3>1 DEF Paid
      <4> QED BY <1>1, <2>1, <2>4, <3>1, <4>1
    <3>2. CASE Category(at, fetched + 1) # "hit"
      <4>1. Paid' = Paid \cup {fetched + 1}
        BY <2>5, <2>6, <3>2 DEF Paid
      <4>2. Cardinality(Paid') = Cardinality(Paid) + 1
        BY <2>7, <4>1, FS_AddElement
      <4>3. missed' <= missed + 1 /\ missed' \in Nat
        BY <1>1, <2>4
      <4> QED BY <2>4, <2>7, <4>2, <4>3
    <3> QED BY <3>1, <3>2
  <2> QED BY <2>3, <2>8 DEF Follows
<1>9. looped => Follows'
  BY <1>1 DEF Follows
<1> QED BY <1>3, <1>7, <1>8, <1>9 DEF XInv

(* Control flows along an edge: the states of the node entered include     *)
(* those after the node left, and are blank only if these are.             *)
LEMMA TakeEdgeInv ==
  ASSUME XInv, TakeEdge
  PROVE  XInv'
<1>1. PICK i \in 1..Len(msg.out[at]) :
        /\ at' = msg.out[at][i].node
        /\ looped' = (looped \/ msg.out[at][i].type = "BackwardJump")
  BY DEF TakeEdge
<1>2. /\ phase = "done" /\ fetched = Len(msg.lines[at])
      /\ fetched' = 0 /\ missed' = 0 /\ UNCHANGED vars /\ cache' = cache
  BY DEF TakeEdge
<1>3. /\ msg' = msg /\ state_map' = state_map /\ phase' = phase
  BY <1>2 DEF vars
<1>4. Inv'
  BY <1>2, NextInv DEF XInv
<1>5. /\ at \in Node /\ cache \in Contents /\ looped \in BOOLEAN
      /\ msg \in MSGs /\ IsCodeGraph(msg, Line) /\ msg \in CodeGraphs(Line)
  BY GraphFacts DEF XInv, MachineOK, Inv
<1>6. msg.out[at][i] \in Edges /\ at' \in Node
  <2>1. msg.out[at] \in Seq(Edges)
    BY <1>5 DEF CodeGraphs
  <2>2. msg.out[at][i] \in Edges
    BY <1>1, <2>1
  <2> QED BY <1>1, <2>2 DEF Edges
<1>7. at # Exit
  <2>1. msg.out[Exit] = << >>
    BY <1>5 DEF IsCodeGraph, IsFlowGraph, ForwardAcyclic
  <2> QED BY <1>1, <2>1
<1>8. MachineOK' /\ NotStarted'
  <2>1. 0 \in 0..Len(msg.lines[at']) /\ 0 \in 0..0
    <3>1. msg.lines[at'] \in Seq(Line)
      BY <1>5, <1>6, GraphFacts
    <3> QED BY <3>1
  <2>2. looped' \in BOOLEAN
    BY <1>1, Zenon
  <2> QED BY <1>2, <1>3, <1>5, <1>6, <2>1, <2>2 DEF MachineOK, NotStarted
<1>9. ASSUME Regular, ~looped' PROVE Follows'
  <2>1. ~looped /\ HasForwardEdge(msg.in[at'], at)
    <3>1. ~looped /\ msg.out[at][i].type # "BackwardJump"
      BY <1>1, <1>9
    <3>2. HasForwardEdge(msg.out[at], at')
      BY <1>1, <3>1 DEF HasForwardEdge
    <3> QED BY <1>5, <1>6, <3>1, <3>2 DEF IsCodeGraph, IsFlowGraph, ForwardAcyclic
  <2>2. at \in DOMAIN state_map /\ StatesHere = StatesAfter(at) /\ Keeps(StatesAfter(at), cache)
    <3>1. at \in DOMAIN state_map
      BY <1>2, <1>7, <1>9, ExecutedIsAnalyzed
    <3>2. StatesHere = StatesAfter(at)
      BY <1>2, <3>1, StatesAlong DEF StatesHere, XInv
    <3>3. Keeps(StatesHere, cache)
      BY <1>2, <1>7, <1>9, <2>1 DEF XInv, Follows
    <3> QED BY <3>1, <3>2, <3>3
  <2>3. ASSUME at' # Exit PROVE Keeps(state_map[at'], cache)
    <3>1. at' \in DOMAIN state_map
      <4>1. Node \ {Exit} \subseteq DOMAIN state_map
        BY <1>2, <1>5, <1>9, AllAnalyzed DEF XInv, Regular, Inv, Finished
      <4> QED BY <1>6, <2>3, <4>1
    <3>2. isPredecessorMemStateKnown(at') /\ state_map[at'] = InitialStates(at')
      BY <3>1 DEF XInv, Inv, FlowConsistent
    <3>3. PICK j \in 1..Len(Predecessors(at')) : Predecessors(at')[j] = at
      BY <1>5, <1>6, <2>1, GraphFacts
    <3>4. at' # Entry
      BY <1>5, <3>3, GraphFacts
    <3>5. state_map[at'] = UNION {StatesAfter(Predecessors(at')[k]) : k \in 1..Len(Predecessors(at'))}
      BY <3>2, <3>4 DEF InitialStates
    <3>6. CASE StatesAfter(at) # BlankStates
      BY <2>2, <3>3, <3>5, <3>6 DEF Keeps, BlankStates
    <3>7. CASE StatesAfter(at) = BlankStates
      <4>1. msg.lines[at] = << >> /\ state_map[at] = BlankStates
        BY <1>5, <2>2, <3>7, StatesAfterType DEF XInv, Inv
      <4>2. StartsWithOneBlock(msg)
        BY <1>5, <1>9 DEF Regular
      <4>3. at \in Opening(msg) /\ IsOpening(msg, Opening(msg))
        BY <2>2, <4>1, <4>2 DEF XInv, Inv, StatesOK, StartsWithOneBlock, Opening
      <4>4. \A k \in Node : HasForwardEdge(msg.in[at'], k) => k = at
        BY <1>5, <1>6, <2>1, <4>1, <4>3 DEF IsOpening
      <4>5. Predecessors(at') \in Seq(Node)
        BY <1>5, <1>6, GraphFacts
      <4>6. \A k \in 1..Len(Predecessors(at')) : Predecessors(at')[k] = at
        BY <1>5, <1>6, <4>4, <4>5, GraphFacts
      <4>7. state_map[at'] = BlankStates
        BY <3>5, <3>7, <4>6 DEF BlankStates
      <4> QED BY <2>2, <3>7, <4>7 DEF Keeps
    <3> QED BY <3>6, <3>7
  <2>4. at' # Exit => Keeps(StatesHere', cache')
    <3> SUFFICES ASSUME at' # Exit PROVE Keeps(StatesHere', cache')
      OBVIOUS
    <3>1. at' \in DOMAIN state_map
      <4>1. Node \ {Exit} \subseteq DOMAIN state_map
        BY <1>2, <1>5, <1>9, AllAnalyzed DEF XInv, Regular, Inv, Finished
      <4> QED BY <1>6, <4>1
    <3>2. UpdateAlong(state_map[at'], msg.lines[at'])[0] = state_map[at']
      BY <3>1, StatesAlong DEF XInv
    <3>3. StatesHere' = state_map[at']
      BY <1>2, <1>3, <3>2 DEF StatesHere
    <3> QED BY <1>2, <2>3, <3>3
  <2>5. missed' <= Cardinality(Paid')
    <3>1. Paid' = {}
      BY <1>2 DEF Paid
    <3> QED BY <1>2, <3>1, FS_EmptySet
  <2> QED BY <2>4, <2>5 DEF Follows
<1>10. looped' => Follows'
  BY DEF Follows
<1> QED BY <1>4, <1>8, <1>9, <1>10 DEF XInv

(* Every step of the analysis and of the program keeps the invariant.      *)
LEMMA ExecNextInv == XInv /\ [ExecNext]_allVars => XInv'
<1> SUFFICES ASSUME XInv, [ExecNext]_allVars PROVE XInv'
  OBVIOUS
<1>1. CASE Analyse
  BY <1>1, AnalyseInv
<1>2. CASE Fetch
  BY <1>2, FetchInv
<1>3. CASE TakeEdge
  BY <1>3, TakeEdgeInv
<1>4. CASE UNCHANGED allVars
  <2>1. /\ UNCHANGED vars
        /\ UNCHANGED <<msg, processing, memStateVal, state_map, phase>>
        /\ UNCHANGED <<at, fetched, cache, missed, looped>>
    BY <1>4 DEF allVars, vars
  <2>2. Inv' /\ \A n, i : Category(n, i)' = Category(n, i)
    BY <2>1, NextInv, StatesKept DEF XInv
  <2>3. MachineOK' /\ NotStarted'
    BY <2>1 DEF XInv, MachineOK, NotStarted
  <2>4. Regular => Follows'
    BY <2>1, <2>2 DEF XInv, Follows, Keeps, StatesHere, Paid
  <2> QED BY <2>2, <2>3, <2>4 DEF XInv
<1> QED BY <1>1, <1>2, <1>3, <1>4 DEF ExecNext

(* The invariant holds at every step of every execution.                   *)
THEOREM ExecInvariance == ExecSpec => []XInv
<1> QED BY ExecInitInv, ExecNextInv, PTL DEF ExecSpec

-----------------------------------------------------------------------------
(* The content of the cache is one of the contents that icache_dfa_map.cpp *)
(* keeps, at every point of every path without a BackwardJump edge.        *)
THEOREM ContentSoundness == ASSUME Regular PROVE ExecSpec => []ContentIsKept
<1>1. XInv => ContentIsKept
  BY DEF XInv, Follows, Keeps, StatesHere, ContentIsKept
<1> QED BY <1>1, ExecInvariance, PTL

(* A fetch classified as a hit hits and one classified as a miss misses on *)
(* every path without a BackwardJump edge.                                 *)
THEOREM HitsHit == ASSUME Regular PROVE ExecSpec => [](~looped => MustHits)
<1>1. XInv => (~looped => MustHits)
  BY ClassIsTrue DEF MustHits, NextFetch
<1> QED BY <1>1, ExecInvariance, PTL

(* The other half: an always miss never hits there.                        *)
THEOREM MissesAreMisses == ASSUME Regular PROVE ExecSpec => [](~looped => MissesMiss)
<1>1. XInv => (~looped => MissesMiss)
  BY ClassIsTrue DEF MissesMiss, NextFetch
<1> QED BY <1>1, ExecInvariance, PTL

(* The penalty calculateCachePenalty puts on the out edges of a node pays  *)
(* for all misses of the node on every path without a BackwardJump edge.   *)
THEOREM PenaltySoundness == ASSUME Regular PROVE ExecSpec => [](~looped => PenaltyCoversMisses)
<1>1. XInv => (~looped => PenaltyCoversMisses)
  <2> SUFFICES ASSUME XInv, ~looped, phase = "done"
               PROVE  MissCost * missed <= penalty[at]
    BY DEF PenaltyCoversMisses
  <2> DEFINE dear == {i \in 1..Len(msg.lines[at]) : Category(at, i) # "hit"}
  <2>1. /\ at \in Node /\ missed \in 0..fetched /\ fetched \in 0..Len(msg.lines[at])
        /\ missed <= Cardinality(Paid)
        /\ penalty = [n \in Node |-> IF n \in Looked THEN CachePenalty(n) ELSE 0]
    BY DEF XInv, MachineOK, Follows, Inv, Finished
  <2>2. msg.lines[at] \in Seq(Line)
    BY <2>1, GraphFacts DEF XInv, Inv
  <2>3. CASE at \notin Looked
    <3>1. msg.lines[at] = << >> /\ penalty[at] = 0
      BY <2>1, <2>3 DEF Looked
    <3>2. missed = 0
      BY <2>1, <3>1
    <3> QED BY <3>1, <3>2, MissCostAssumption
  <2>4. CASE at \in Looked
    <3>1. IsFiniteSet(dear) /\ Paid \subseteq dear
      <4>1. IsFiniteSet(1..Len(msg.lines[at]))
        BY <2>2, FS_Interval
      <4>2. IsFiniteSet(dear)
        BY <4>1, FS_Subset
      <4>3. \A i \in 1..fetched : i \in 1..Len(msg.lines[at])
        BY <2>1, <2>2
      <4> QED BY <4>2, <4>3 DEF Paid
    <3> HIDE DEF dear
    <3>2. /\ Cardinality(dear) \in Nat /\ Cardinality(Paid) \in Nat
          /\ Cardinality(Paid) <= Cardinality(dear)
      BY <3>1, FS_Subset, FS_CardinalityType
    <3>3. missed \in Nat /\ missed <= Cardinality(dear)
      BY <2>1, <2>2, <3>2
    <3>4. \A k \in Nat, a, b \in Nat : a <= b => k * a <= k * b
      OBVIOUS
    <3>5. MissCost * missed <= MissCost * Cardinality(dear)
      BY <3>2, <3>3, <3>4, MissCostAssumption
    <3>6. penalty[at] = MissCost * Cardinality(dear)
      BY <2>1, <2>4 DEF CachePenalty, dear
    <3> QED BY <3>5, <3>6
  <2> QED BY <2>3, <2>4
<1> QED BY <1>1, ExecInvariance, PTL

=============================================================================
