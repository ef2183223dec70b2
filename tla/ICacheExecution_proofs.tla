----------------------- MODULE ICacheExecution_proofs -----------------------
(***************************************************************************)
(* Proofs about ICacheDFA and ICacheExecution for every set of memory state*)
(* graphs, every cache size and both replacement policies: type            *)
(* correctness, the worklist invariants, that the analysis implements      *)
(* ForwardAnalysis, and that it is sound on every path without a           *)
(* BackwardJump edge, and on every path of a graph whose loops are peeled  *)
(* and have straight bodies: the must set bounds the cache from below, the *)
(* may set from above, and the penalty of a node pays for its misses.      *)
(***************************************************************************)
EXTENDS ICacheExecution, MemoryStateGraph_proofs, FiniteSetTheorems

(* The abstract sets and states as TLA+ sets.                              *)
MemSets == UNION {[D -> Nat] : D \in SUBSET Line}

AbsStates == [must : MemSets, may : MemSets]

(* The sets of the code are exactly the functions into Nat from lines.     *)
LEMMA MemSetType ==
  ASSUME NEW m
  PROVE  IsMemSet(m) <=> m \in MemSets
BY DEF IsMemSet, MemSets

(* Likewise the states.                                                    *)
LEMMA AbsStateType ==
  ASSUME NEW s
  PROVE  IsAbsMemSet(s) <=> s \in AbsStates
BY MemSetType DEF IsAbsMemSet, AbsStates

(* The state that setBlankMemState leaves is a state.                      *)
LEMMA BlankType == BlankMemState \in AbsStates
<1>1. [a \in {} |-> 0] \in MemSets
  BY MemSetType DEF IsMemSet
<1> QED BY <1>1 DEF BlankMemState, AbsStates

-----------------------------------------------------------------------------
(* Updates and joins of states are states, for both policies.              *)
LEMMA LRUUpdateSetType ==
  ASSUME NEW m \in MemSets, NEW addr \in Line, NEW analysis
  PROVE  LRUUpdateSet(m, addr, analysis) \in MemSets
<1> USE LineNoAssumption
<1>1. DOMAIN m \subseteq Line /\ \A a \in DOMAIN m : m[a] \in Nat
  BY MemSetType DEF IsMemSet
<1>2. IsMemSet(LRUAddAddr(m, addr))
  BY <1>1 DEF IsMemSet, LRUAddAddr
<1>3. ASSUME addr \in DOMAIN m PROVE IsMemSet(LRUMoveToFront(m, addr, analysis))
  BY <1>1, <1>3 DEF IsMemSet, LRUMoveToFront
<1> QED BY <1>2, <1>3, MemSetType DEF LRUUpdateSet, isInSet

(* The replacement of a direct mapped cache yields a set.                  *)
LEMMA DMReplaceType ==
  ASSUME NEW m \in MemSets, NEW addr \in Line
  PROVE  DMReplace(m, addr) \in MemSets
<1>1. DMIndex(addr) \in Nat
  BY LineNoAssumption, BlockAddrAssumption DEF DMIndex
<1>2. DOMAIN m \subseteq Line /\ \A a \in DOMAIN m : m[a] \in Nat
  BY MemSetType DEF IsMemSet
<1>3. IsMemSet(DMReplace(m, addr))
  BY <1>1, <1>2 DEF IsMemSet, DMReplace
<1> QED BY <1>3, MemSetType

(* update() yields a state.                                                *)
LEMMA UpdateType ==
  ASSUME NEW s \in AbsStates, NEW addr \in Line
  PROVE  Update(s, addr) \in AbsStates
BY LRUUpdateSetType, DMReplaceType DEF Update, LRUUpdate, DMUpdate, AbsStates

(* join() yields a state.                                                  *)
LEMMA JoinType ==
  ASSUME NEW s \in AbsStates, NEW t \in AbsStates
  PROVE  Join(s, t) \in AbsStates
<1>1. \A a \in Line : DMIndex(a) \in Nat
  BY LineNoAssumption, BlockAddrAssumption DEF DMIndex
<1>2. ASSUME NEW m \in MemSets, NEW k \in MemSets
      PROVE  /\ LRUJoinMust(m, k) \in MemSets
             /\ LRUJoinMay(m, k) \in MemSets
             /\ DMJoinMust(m, k) \in MemSets
             /\ DMJoinMay(m, k) \in MemSets
  <2>1. /\ DOMAIN m \subseteq Line /\ \A a \in DOMAIN m : m[a] \in Nat
        /\ DOMAIN k \subseteq Line /\ \A a \in DOMAIN k : k[a] \in Nat
    BY MemSetType DEF IsMemSet
  <2>2. IsMemSet(LRUJoinMust(m, k))
    BY <2>1 DEF IsMemSet, LRUJoinMust, UniqueMemAddrs, isInSet
  <2>3. IsMemSet(LRUJoinMay(m, k))
    BY <2>1 DEF IsMemSet, LRUJoinMay, UniqueMemAddrs, isInSet
  <2>4. IsMemSet(DMJoinMust(m, k))
    BY <1>1, <2>1 DEF IsMemSet, DMJoinMust, UniqueMemAddrs, isInSet
  <2>5. IsMemSet(DMJoinMay(m, k))
    BY <1>1, <2>1 DEF IsMemSet, DMJoinMay, UniqueMemAddrs, isInSet
  <2> QED BY <2>2, <2>3, <2>4, <2>5, MemSetType
<1> QED BY <1>2 DEF Join, LRUJoin, DMJoin, AbsStates

-----------------------------------------------------------------------------
(* The recursive functions satisfy their defining equations.               *)
LEMMA UpdateAlongTrace ==
  ASSUME NEW s \in AbsStates, NEW lines \in Seq(Line)
  PROVE  /\ UpdateAlong(s, lines) \in [0..Len(lines) -> AbsStates]
         /\ UpdateAlong(s, lines)[0] = s
         /\ \A k \in 1..Len(lines) :
              UpdateAlong(s, lines)[k] = Update(UpdateAlong(s, lines)[k - 1], lines[k])
<1> DEFINE n == Len(lines)
           step == [p \in (1..n) \X AbsStates |-> Update(p[2], lines[p[1]])]
           Eq(f) == f = [i \in 0..n |->
                           IF i = 0 THEN s ELSE Update(f[i - 1], lines[i])]
<1>1. n \in Nat
  OBVIOUS
<1>2. step \in [(1..n) \X AbsStates -> AbsStates]
  BY UpdateType
<1>3. PICK f \in [0..n -> AbsStates] : IsTrace(f, s, 0, n, step)
  <2> HIDE DEF step, n
  <2> QED BY <1>1, <1>2, FoldExists
<1>4. \A k \in 1..n : f[k] = Update(f[k - 1], lines[k])
  <2> TAKE k \in 1..n
  <2>1. k - 1 \in 0..n /\ f[k - 1] \in AbsStates
    BY <1>1
  <2>2. <<k, f[k - 1]>> \in (1..n) \X AbsStates
    BY <2>1
  <2>3. f[k] = step[<<k, f[k - 1]>>]
    <3> HIDE DEF step, n
    <3> QED BY <1>3 DEF IsTrace
  <2> HIDE DEF n
  <2> QED BY <2>2, <2>3
<1>5. Eq(f)
  BY <1>3, <1>4 DEF IsTrace
<1>6. UpdateAlong(s, lines) = CHOOSE g : Eq(g)
  BY DEF UpdateAlong
<1>7. Eq(UpdateAlong(s, lines))
  BY <1>5, <1>6
<1>8. \A k \in 0..n : UpdateAlong(s, lines)[k] = f[k]
  <2> DEFINE g == UpdateAlong(s, lines)
             Same == {k \in Nat : k \in 0..n => g[k] = f[k]}
  <2> HIDE DEF g
  <2>1. 0 \in Same
    BY <1>3, <1>7 DEF g, IsTrace
  <2>2. ASSUME NEW k \in Same PROVE k + 1 \in Same
    <3> SUFFICES ASSUME k + 1 \in 0..n PROVE g[k + 1] = f[k + 1]
      OBVIOUS
    <3>1. g[k] = f[k] /\ k + 1 # 0 /\ (k + 1) - 1 = k /\ k + 1 \in 1..n
      BY <1>1
    <3>2. g[k + 1] = Update(g[k], lines[k + 1])
      BY <1>7, <3>1 DEF g
    <3> QED BY <3>1, <3>2, <1>4
  <2>3. Same \in SUBSET Nat
    OBVIOUS
  <2>4. Same = Nat
    <3> HIDE DEF Same
    <3> QED BY <2>1, <2>2, <2>3, SetInduction
  <2> QED BY <2>4, <1>1 DEF g
<1> QED BY <1>3, <1>4, <1>7, <1>8

(* The join of a vector is the last state of a trace of joins.             *)
LEMMA JoinStatesTrace ==
  ASSUME NEW states \in Seq(AbsStates), Len(states) > 0
  PROVE  \E f \in [1..Len(states) -> AbsStates] :
           /\ f[1] = states[1]
           /\ \A k \in 2..Len(states) : f[k] = Join(f[k - 1], states[k])
           /\ JoinStates(states) = f[Len(states)]
<1> DEFINE n == Len(states)
           step == [p \in (2..n) \X AbsStates |-> Join(p[2], states[p[1]])]
           Eq(f) == f = [i \in 1..n |->
                           IF i = 1 THEN states[1] ELSE Join(f[i - 1], states[i])]
           g == CHOOSE g : Eq(g)
<1>1. n \in Nat /\ 1 <= n /\ states[1] \in AbsStates
  OBVIOUS
<1>2. step \in [(2..n) \X AbsStates -> AbsStates]
  BY JoinType
<1>3. PICK f \in [1..n -> AbsStates] : IsTrace(f, states[1], 1, n, step)
  <2> HIDE DEF step, n
  <2> QED BY <1>1, <1>2, FoldExistsFrom1
<1>4. \A k \in 2..n : f[k] = Join(f[k - 1], states[k])
  <2> TAKE k \in 2..n
  <2>1. k - 1 \in 1..n /\ f[k - 1] \in AbsStates
    BY <1>1
  <2>2. <<k, f[k - 1]>> \in (2..n) \X AbsStates
    BY <2>1
  <2>3. f[k] = step[<<k, f[k - 1]>>]
    <3> HIDE DEF step, n
    <3> QED BY <1>3 DEF IsTrace
  <2> HIDE DEF n
  <2> QED BY <2>2, <2>3
<1>5. Eq(f)
  BY <1>3, <1>4 DEF IsTrace
<1>6. Eq(g)
  BY <1>5
<1>7. \A k \in 1..n : g[k] = f[k]
  <2> DEFINE Same == {k \in Nat : k + 1 \in 1..n => g[k + 1] = f[k + 1]}
  <2> HIDE DEF g
  <2>1. 0 \in Same
    BY <1>1, <1>3, <1>6 DEF IsTrace
  <2>2. ASSUME NEW k \in Same PROVE k + 1 \in Same
    <3> SUFFICES ASSUME (k + 1) + 1 \in 1..n PROVE g[(k + 1) + 1] = f[(k + 1) + 1]
      OBVIOUS
    <3>1. /\ g[k + 1] = f[k + 1] /\ (k + 1) + 1 # 1
          /\ ((k + 1) + 1) - 1 = k + 1 /\ (k + 1) + 1 \in 2..n
      BY <1>1
    <3>2. g[(k + 1) + 1] = Join(g[k + 1], states[(k + 1) + 1])
      BY <1>6, <3>1
    <3> QED BY <3>1, <3>2, <1>4
  <2>3. Same \in SUBSET Nat
    OBVIOUS
  <2>4. Same = Nat
    <3> HIDE DEF Same
    <3> QED BY <2>1, <2>2, <2>3, SetInduction
  <2>5. ASSUME NEW k \in 1..n PROVE g[k] = f[k]
    <3>1. k - 1 \in Nat /\ (k - 1) + 1 = k
      OBVIOUS
    <3> QED BY <2>4, <3>1
  <2> QED BY <2>5
<1>8. JoinStates(states) = g[n]
  BY DEF JoinStates
<1>9. f[1] = states[1]
  BY <1>3 DEF IsTrace
<1> HIDE DEF g
<1> QED BY <1>1, <1>3, <1>4, <1>7, <1>8, <1>9

(* The transfer of a block yields a state.                                 *)
LEMMA UpdateLinesType ==
  ASSUME NEW s \in AbsStates, NEW lines \in Seq(Line)
  PROVE  UpdateLines(s, lines) \in AbsStates
<1>1. Len(lines) \in 0..Len(lines)
  OBVIOUS
<1> QED BY <1>1, UpdateAlongTrace DEF UpdateLines

(* The join of a vector yields a state, for one state that state.          *)
LEMMA JoinStatesType ==
  ASSUME NEW states \in Seq(AbsStates), Len(states) > 0
  PROVE  /\ JoinStates(states) \in AbsStates
         /\ Len(states) = 1 => JoinStates(states) = states[1]
<1>1. PICK f \in [1..Len(states) -> AbsStates] :
        f[1] = states[1] /\ JoinStates(states) = f[Len(states)]
  BY JoinStatesTrace
<1>2. Len(states) \in 1..Len(states)
  OBVIOUS
<1> QED BY <1>1, <1>2

-----------------------------------------------------------------------------
(* The inductive invariant.  The worklist is empty once the penalties are  *)
(* set, and the graph is one of those to be analysed.                      *)
Inv ==
  /\ msg \in MSGs
  /\ TypeOK
  /\ FlowConsistent
  /\ PendingHavePredecessor
  /\ ReadyIsPending
  /\ phase = "done" => processing = << >>

(* What the graph assumption says of the forward edges of a node.          *)
LEMMA GraphFacts ==
  ASSUME msg \in MSGs
  PROVE  /\ msg \in CodeGraphs(Line)
         /\ \A n \in Node : Predecessors(n) \in Seq(Node)
         /\ \A n \in Node : ForwardEdges(msg.out[n]) \in Seq(Node)
         /\ \A n, m \in Node :
              (\E i \in 1..Len(Predecessors(n)) : Predecessors(n)[i] = m)
                <=> HasForwardEdge(msg.in[n], m)
         /\ \A n, m \in Node :
              (\E i \in 1..Len(ForwardEdges(msg.out[n])) : ForwardEdges(msg.out[n])[i] = m)
                <=> HasForwardEdge(msg.in[m], n)
         /\ Len(Predecessors(Entry)) = 0
         /\ \A n \in Node : ~HasForwardEdge(msg.in[n], n)
         /\ \A n \in Node : ~HasForwardEdge(msg.in[n], Exit)
         /\ \A n \in Node : msg.lines[n] \in Seq(Line)
<1>1. IsCodeGraph(msg, Line)
  BY GraphAssumption
<1> QED BY <1>1, CodeGraphFacts DEF Predecessors

(* The analysis starts with the invariant.                                 *)
LEMMA InitInv == Init => Inv
<1> SUFFICES ASSUME Init PROVE Inv
  OBVIOUS
<1> USE DEF Init
<1>1. msg \in MSGs /\ msg \in CodeGraphs(Line)
  BY GraphFacts
<1>2. TypeOK
  <2>1. \A n \in Node : IsAbsMemSet(memState[n])
    BY BlankType, AbsStateType
  <2>2. processing \in Seq(Node)
    BY GraphAssumption, EndsAssumption
  <2> QED BY <1>1, <2>1, <2>2 DEF TypeOK
<1>3. FlowConsistent
  BY DEF FlowConsistent
<1>4. PendingHavePredecessor
  BY DEF PendingHavePredecessor
<1>5. ReadyIsPending
  <2> SUFFICES ASSUME NEW n \in Node \ {Exit}, n # Entry,
                      isPredecessorMemStateKnown(n), Len(Predecessors(n)) > 0
               PROVE  FALSE
    <3>1. Entry = processing[1] /\ Len(processing) = 1
      OBVIOUS
    <3> QED BY <3>1 DEF ReadyIsPending
  <2>1. 1 \in 1..Len(Predecessors(n)) /\ Predecessors(n)[1] \in Node
    BY <1>1, GraphFacts
  <2> QED BY <2>1 DEF isPredecessorMemStateKnown
<1> QED BY <1>1, <1>2, <1>3, <1>4, <1>5 DEF Inv

(* The states after the nodes and the values of the flow equations.        *)
LEMMA StateAfterType ==
  ASSUME msg \in MSGs, TypeOK, NEW n \in Node
  PROVE  memState[n] \in AbsStates /\ StateAfter(n) \in AbsStates
<1>1. memState[n] \in AbsStates
  BY AbsStateType DEF TypeOK
<1> QED BY <1>1, GraphFacts, UpdateLinesType DEF StateAfter

(* The flow equation of a node that can be solved has a value, the state   *)
(* after the predecessor if there is one only.                             *)
LEMMA FlowValueType ==
  ASSUME msg \in MSGs, TypeOK, NEW n \in Node, n = Entry \/ Len(Predecessors(n)) > 0
  PROVE  /\ FlowValue(n) \in AbsStates
         /\ n # Entry /\ Len(Predecessors(n)) = 1
              => FlowValue(n) = StateAfter(Predecessors(n)[1])
<1>1. CASE n = Entry
  BY <1>1, BlankType DEF FlowValue
<1>2. CASE n # Entry
  <2> DEFINE states == [i \in 1..Len(Predecessors(n)) |-> StateAfter(Predecessors(n)[i])]
  <2>1. Predecessors(n) \in Seq(Node)
    BY GraphFacts
  <2>2. \A i \in 1..Len(Predecessors(n)) : StateAfter(Predecessors(n)[i]) \in AbsStates
    BY <2>1, StateAfterType
  <2>3. states \in Seq(AbsStates) /\ Len(states) = Len(Predecessors(n))
    BY <2>1, <2>2
  <2>4. FlowValue(n) = JoinStates(states)
    BY <1>2 DEF FlowValue
  <2>5. Len(states) = 1 => states[1] = StateAfter(Predecessors(n)[1])
    BY <2>1
  <2> HIDE DEF states
  <2> QED BY <1>2, <2>3, <2>4, <2>5, JoinStatesType
<1> QED BY <1>1, <1>2

(* The value of a flow equation depends on the predecessors only.          *)
LEMMA FlowValueStable ==
  ASSUME msg \in MSGs, UNCHANGED msg, NEW n \in Node,
         \A m \in Node : HasForwardEdge(msg.in[n], m) => memState'[m] = memState[m]
  PROVE  FlowValue(n)' = FlowValue(n)
<1>1. Predecessors(n) \in Seq(Node) /\ Predecessors(n)' = Predecessors(n)
  BY GraphFacts DEF Predecessors
<1>2. ASSUME NEW i \in 1..Len(Predecessors(n))
      PROVE  StateAfter(Predecessors(n)[i])' = StateAfter(Predecessors(n)[i])
  <2> DEFINE m == Predecessors(n)[i]
  <2>1. m \in Node /\ HasForwardEdge(msg.in[n], m)
    BY <1>1, GraphFacts
  <2> QED BY <1>1, <2>1 DEF StateAfter
<1> QED BY <1>1, <1>2 DEF FlowValue

(* Both handlers store the value of the flow equation.                     *)
Process ==
  /\ phase = "analyze"
  /\ processing # << >>
  /\ isPredecessorMemStateKnown(Actual)
  /\ Actual # Exit
  /\ SetState(Actual, FlowValue(Actual))
  /\ PushSuccessors(Actual)
  /\ UNCHANGED <<msg, penalty, phase>>

(* The popped node is one the analysis can process, and what remains of    *)
(* the worklist is what was below it.                                      *)
LEMMA ActualFacts ==
  ASSUME Inv, processing # << >>
  PROVE  /\ Actual \in Node
         /\ Actual = Entry \/ Len(Predecessors(Actual)) > 0
         /\ Rest \in Seq(Node)
         /\ Len(Rest) = Len(processing) - 1
         /\ \A i \in 1..Len(Rest) : Rest[i] = processing[i]
<1>1. processing \in Seq(Node)
  BY DEF Inv, TypeOK
<1>2. Len(processing) \in 1..Len(processing)
  BY <1>1
<1>3. Actual \in Node
  BY <1>1, <1>2 DEF Actual
<1>4. Actual = Entry \/ Len(Predecessors(Actual)) > 0
  BY <1>2 DEF Actual, Inv, PendingHavePredecessor
<1>5. /\ Rest \in Seq(Node)
      /\ Len(Rest) = Len(processing) - 1
      /\ \A i \in 1..Len(Rest) : Rest[i] = processing[i]
  BY <1>1, <1>2 DEF Rest
<1> QED BY <1>3, <1>4, <1>5

(* Join and inheritance are both the solution of the flow equation.        *)
LEMMA ProcessStep ==
  ASSUME Inv, JoinAndSetInitialMemState \/ SetInitialMemState
  PROVE  Process
<1>1. processing # << >> /\ msg \in MSGs /\ TypeOK
  BY DEF JoinAndSetInitialMemState, SetInitialMemState, Inv
<1>2. Actual \in Node /\ (Actual = Entry \/ Len(Predecessors(Actual)) > 0)
  BY <1>1, ActualFacts
<1>3. Predecessors(Actual) \in Seq(Node)
  BY <1>1, <1>2, GraphFacts
<1>4. CASE JoinAndSetInitialMemState
  <2>1. Actual # Entry
    BY <1>1, <1>4, GraphFacts DEF JoinAndSetInitialMemState
  <2> QED BY <1>4, <2>1 DEF JoinAndSetInitialMemState, Process, FlowValue
<1>5. CASE SetInitialMemState
  <2>1. Actual # Entry => Len(Predecessors(Actual)) = 1
    <3>1. Len(Predecessors(Actual)) <= 1
      BY <1>5 DEF SetInitialMemState
    <3>2. Len(Predecessors(Actual)) \in Nat
      BY <1>3
    <3> QED BY <1>2, <3>1, <3>2
  <2>2. FlowValue(Actual) = IF Actual = Entry THEN BlankMemState
                            ELSE StateAfter(Predecessors(Actual)[1])
    BY <1>1, <1>2, <2>1, FlowValueType DEF FlowValue
  <2> QED BY <1>5, <2>2 DEF SetInitialMemState, Process
<1> QED BY <1>4, <1>5

(* Processing a node changes nothing but its own state, and nothing at all *)
(* when it had one: the value of the flow equation is the one it holds.    *)
LEMMA ProcessEffect ==
  ASSUME Inv, Process
  PROVE  /\ Actual \in Node
         /\ FlowValue(Actual) \in AbsStates
         /\ memState' \in [Node -> AbsStates]
         /\ memStateVal' \in [Node -> BOOLEAN]
         /\ memState'[Actual] = FlowValue(Actual)
         /\ memStateVal'[Actual]
         /\ \A n \in Node \ {Actual} : /\ memState'[n] = memState[n]
                                      /\ memStateVal'[n] = memStateVal[n]
         /\ memStateVal[Actual] => memState'[Actual] = memState[Actual]
<1>1. processing # << >> /\ msg \in MSGs /\ TypeOK /\ FlowConsistent
  BY DEF Process, Inv
<1>2. Actual \in Node /\ FlowValue(Actual) \in AbsStates
  BY <1>1, ActualFacts, FlowValueType
<1>3. memState \in [Node -> AbsStates] /\ memStateVal \in [Node -> BOOLEAN]
  BY <1>1, AbsStateType DEF TypeOK
<1>4. /\ memState' = [memState EXCEPT ![Actual] = FlowValue(Actual)]
      /\ memStateVal' = [memStateVal EXCEPT ![Actual] = TRUE]
  BY DEF Process, SetState
<1>5. memStateVal[Actual] => memState[Actual] = FlowValue(Actual)
  BY <1>1, <1>2 DEF FlowConsistent
<1> QED BY <1>2, <1>3, <1>4, <1>5

(* After a node is processed, the worklist holds the rest and its forward  *)
(* successors.                                                             *)
LEMMA ProcessPushes ==
  ASSUME Inv, Process
  PROVE  /\ processing' \in Seq(Node)
         /\ \A n \in Node :
              (\E i \in 1..Len(processing') : processing'[i] = n)
                <=> \/ \E i \in 1..Len(Rest) : Rest[i] = n
                    \/ HasForwardEdge(msg.in[n], Actual)
<1> DEFINE pushed == ForwardEdges(msg.out[Actual])
<1>1. processing # << >> /\ msg \in MSGs
  BY DEF Process, Inv
<1>2. Rest \in Seq(Node) /\ Actual \in Node
  BY <1>1, ActualFacts
<1>3. pushed \in Seq(Node)
  BY <1>1, <1>2, GraphFacts
<1>4. processing' = Rest \o pushed
  BY DEF Process, PushSuccessors
<1>5. \A n \in Node :
        (\E i \in 1..Len(pushed) : pushed[i] = n) <=> HasForwardEdge(msg.in[n], Actual)
  BY <1>1, <1>2, GraphFacts
<1>6. \A n \in Node :
        (\E i \in 1..Len(Rest \o pushed) : (Rest \o pushed)[i] = n)
          <=> (\E i \in 1..Len(Rest) : Rest[i] = n) \/ (\E i \in 1..Len(pushed) : pushed[i] = n)
  <2> HIDE DEF pushed
  <2> TAKE n \in Node
  <2> QED BY <1>2, <1>3, ConcatMembers
<1>7. Rest \o pushed \in Seq(Node)
  BY <1>2, <1>3
<1> HIDE DEF pushed
<1> QED BY <1>4, <1>5, <1>6, <1>7

(* Processing a node keeps the invariant: the nodes it makes ready are     *)
(* among the successors it pushes.                                         *)
LEMMA ProcessInv ==
  ASSUME Inv, Process
  PROVE  Inv'
<1> DEFINE p == Actual
<1>1. /\ processing # << >> /\ msg \in MSGs /\ TypeOK /\ FlowConsistent
      /\ PendingHavePredecessor /\ ReadyIsPending
      /\ phase = "analyze" /\ isPredecessorMemStateKnown(p) /\ p # Exit
      /\ msg' = msg /\ phase' = phase /\ penalty' = penalty
  BY DEF Process, Inv
<1>2. /\ p \in Node
      /\ memState' \in [Node -> AbsStates] /\ memStateVal' \in [Node -> BOOLEAN]
      /\ memState'[p] = FlowValue(p)
      /\ memStateVal'[p]
      /\ \A n \in Node \ {p} : memState'[n] = memState[n] /\ memStateVal'[n] = memStateVal[n]
      /\ memStateVal[p] => memState'[p] = memState[p]
  BY ProcessEffect
<1> HIDE DEF p
<1>3. \A n \in Node : Predecessors(n)' = Predecessors(n) /\ Predecessors(n) \in Seq(Node)
  BY <1>1, GraphFacts DEF Predecessors
<1>4. ASSUME NEW n \in Node, isPredecessorMemStateKnown(n)
      PROVE  isPredecessorMemStateKnown(n)'
  <2>1. CASE n = Entry
    BY <2>1 DEF isPredecessorMemStateKnown
  <2>2. CASE n # Entry
    <3>1. ASSUME NEW i \in 1..Len(Predecessors(n))
          PROVE  memStateVal'[Predecessors(n)[i]]
      <4>1. Predecessors(n)[i] \in Node /\ memStateVal[Predecessors(n)[i]]
        BY <1>3, <1>4, <2>2 DEF isPredecessorMemStateKnown
      <4> QED BY <1>2, <4>1
    <3> QED BY <1>3, <3>1 DEF isPredecessorMemStateKnown
  <2> QED BY <2>1, <2>2
<1>5. TypeOK'
  <2>1. memState' = [n \in Node |-> memState'[n]]
    BY <1>2
  <2>2. \A n \in Node : IsAbsMemSet(memState'[n])
    BY <1>2, AbsStateType
  <2> QED BY <1>1, <1>2, <2>1, <2>2, ProcessPushes DEF TypeOK
<1>6. FlowConsistent'
  <2> SUFFICES ASSUME NEW n \in Node, memStateVal'[n]
               PROVE  /\ n # Exit /\ isPredecessorMemStateKnown(n)'
                      /\ memState'[n] = FlowValue(n)'
    BY DEF FlowConsistent
  <2>1. n # Exit /\ isPredecessorMemStateKnown(n) /\ memState'[n] = FlowValue(n)
    BY <1>1, <1>2 DEF FlowConsistent
  <2>2. ASSUME NEW m \in Node, HasForwardEdge(msg.in[n], m)
        PROVE  memState'[m] = memState[m]
    <3>1. n # Entry
      <4>1. \E i \in 1..Len(Predecessors(n)) : Predecessors(n)[i] = m
        BY <1>1, <2>2, GraphFacts
      <4> QED BY <4>1, <1>1, GraphFacts
    <3>2. PICK i \in 1..Len(Predecessors(n)) : Predecessors(n)[i] = m
      BY <1>1, <2>2, GraphFacts
    <3>3. memStateVal[m]
      BY <2>1, <3>1, <3>2 DEF isPredecessorMemStateKnown
    <3> QED BY <1>2, <3>3
  <2>3. FlowValue(n)' = FlowValue(n)
    BY <1>1, <2>2, FlowValueStable
  <2> QED BY <1>4, <2>1, <2>3
<1>7. PendingHavePredecessor'
  <2> SUFFICES ASSUME NEW j \in 1..Len(processing')
               PROVE  \/ processing'[j] = Entry
                      \/ Len(ForwardEdges(msg'.in[processing'[j]])) > 0
    BY DEF PendingHavePredecessor, Predecessors
  <2> DEFINE n == processing'[j]
  <2>1. n \in Node /\ processing' \in Seq(Node)
    BY ProcessPushes
  <2>2. n = Entry \/ Len(Predecessors(n)) > 0
          => n = Entry \/ Len(ForwardEdges(msg'.in[n])) > 0
    BY <1>1 DEF Predecessors
  <2>3. CASE \E i \in 1..Len(Rest) : Rest[i] = n
    <3>1. PICK i \in 1..Len(Rest) : Rest[i] = n
      BY <2>3
    <3>2. i \in 1..Len(processing) /\ processing[i] = n
      <4>1. /\ Len(Rest) = Len(processing) - 1 /\ processing[i] = Rest[i]
            /\ processing \in Seq(Node)
        BY <1>1, <3>1, ActualFacts DEF TypeOK
      <4> QED BY <3>1, <4>1
    <3>3. n = Entry \/ Len(Predecessors(n)) > 0
      BY <1>1, <3>2 DEF PendingHavePredecessor
    <3> QED BY <2>2, <3>3
  <2>4. CASE HasForwardEdge(msg.in[n], Actual)
    <3>1. Actual \in Node
      BY <1>2 DEF p
    <3> HIDE DEF n
    <3>2. PICK i \in 1..Len(Predecessors(n)) : Predecessors(n)[i] = Actual
      BY <1>1, <2>1, <2>4, <3>1, GraphFacts
    <3>3. Len(Predecessors(n)) > 0
      BY <3>2, <1>3, <2>1
    <3> QED BY <2>2, <3>3 DEF n
  <2>5. \E i \in 1..Len(processing') : processing'[i] = n
    OBVIOUS
  <2> HIDE DEF n
  <2> QED BY <2>1, <2>3, <2>4, <2>5, ProcessPushes DEF n
<1>8. ReadyIsPending'
  <2> SUFFICES ASSUME NEW n \in Node \ {Exit}, isPredecessorMemStateKnown(n)',
                      n = Entry \/ Len(Predecessors(n)') > 0, ~memStateVal'[n]
               PROVE  \E i \in 1..Len(processing') : processing'[i] = n
    BY DEF ReadyIsPending
  <2>1. n # p /\ ~memStateVal[n]
    BY <1>2
  <2>2. CASE isPredecessorMemStateKnown(n)
    <3>1. PICK i \in 1..Len(processing) : processing[i] = n
      BY <1>1, <1>3, <2>1, <2>2 DEF ReadyIsPending
    <3>2. i # Len(processing)
      BY <2>1, <3>1 DEF p, Actual
    <3>3. i \in 1..Len(Rest) /\ Rest[i] = n
      <4>1. /\ Len(Rest) = Len(processing) - 1 /\ processing \in Seq(Node)
            /\ \A k \in 1..Len(Rest) : Rest[k] = processing[k]
        BY <1>1, ActualFacts DEF TypeOK
      <4>2. i \in 1..Len(Rest)
        BY <3>1, <3>2, <4>1
      <4> QED BY <3>1, <4>1, <4>2
    <3> QED BY <3>3, ProcessPushes
  <2>3. CASE ~isPredecessorMemStateKnown(n)
    <3>1. PICK i \in 1..Len(Predecessors(n)) : ~memStateVal[Predecessors(n)[i]]
      BY <2>3 DEF isPredecessorMemStateKnown
    <3>2. memStateVal'[Predecessors(n)[i]]
      BY <1>3, <2>3, <3>1 DEF isPredecessorMemStateKnown
    <3>3. Predecessors(n)[i] = p
      BY <1>2, <1>3, <3>1, <3>2
    <3>4. HasForwardEdge(msg.in[n], Actual)
      BY <1>1, <1>2, <3>1, <3>3, GraphFacts DEF p
    <3> QED BY <3>4, ProcessPushes
  <2> QED BY <2>2, <2>3
<1> QED BY <1>1, <1>5, <1>6, <1>7, <1>8 DEF Inv

(* Dropping a node keeps the invariant: a node that is ready is not        *)
(* dropped.                                                                *)
LEMMA DropInv ==
  ASSUME Inv, DropNode
  PROVE  Inv'
<1>1. /\ processing # << >> /\ msg \in MSGs /\ TypeOK /\ FlowConsistent
      /\ PendingHavePredecessor /\ ReadyIsPending
      /\ ~isPredecessorMemStateKnown(Actual) \/ Actual = Exit
      /\ processing' = Rest /\ phase = "analyze"
      /\ UNCHANGED <<msg, memState, memStateVal, penalty, phase>>
  BY DEF DropNode, Inv
<1>2. /\ Rest \in Seq(Node) /\ Len(Rest) = Len(processing) - 1
      /\ \A i \in 1..Len(Rest) : Rest[i] = processing[i]
      /\ processing \in Seq(Node)
  BY <1>1, ActualFacts DEF TypeOK
<1>3. TypeOK'
  BY <1>1, <1>2 DEF TypeOK
<1>4. FlowConsistent'
  BY <1>1 DEF FlowConsistent, FlowValue, StateAfter, Predecessors, isPredecessorMemStateKnown
<1>5. PendingHavePredecessor'
  <2> SUFFICES ASSUME NEW i \in 1..Len(Rest)
               PROVE  Rest[i] = Entry \/ Len(ForwardEdges(msg.in[Rest[i]])) > 0
    BY <1>1 DEF PendingHavePredecessor, Predecessors
  <2>1. i \in 1..Len(processing) /\ Rest[i] = processing[i]
    BY <1>2
  <2> QED BY <1>1, <2>1 DEF PendingHavePredecessor, Predecessors
<1>6. ReadyIsPending'
  <2> SUFFICES ASSUME NEW n \in Node \ {Exit}, isPredecessorMemStateKnown(n),
                      n = Entry \/ Len(Predecessors(n)) > 0, ~memStateVal[n]
               PROVE  \E i \in 1..Len(Rest) : Rest[i] = n
    BY <1>1 DEF ReadyIsPending, Predecessors, isPredecessorMemStateKnown
  <2>1. PICK i \in 1..Len(processing) : processing[i] = n
    BY <1>1 DEF ReadyIsPending
  <2>2. i # Len(processing)
    BY <1>1, <2>1 DEF Actual
  <2>3. i \in 1..Len(Rest)
    BY <1>2, <2>1, <2>2
  <2> QED BY <1>2, <2>1, <2>3
<1> QED BY <1>1, <1>3, <1>4, <1>5, <1>6 DEF Inv

(* The penalties are numbers.                                              *)
LEMMA CachePenaltyType ==
  ASSUME msg \in MSGs, NEW n \in Node
  PROVE  CachePenalty(n) \in Nat
<1> DEFINE dear == {i \in 1..Len(msg.lines[n]) : Category(n, i) # "hit"}
<1>1. Len(msg.lines[n]) \in Nat
  BY GraphFacts
<1>2. IsFiniteSet(1..Len(msg.lines[n]))
  BY <1>1, FS_Interval
<1>3. IsFiniteSet(dear)
  BY <1>2, FS_Subset
<1>4. Cardinality(dear) \in Nat
  BY <1>3, FS_CardinalityType
<1> HIDE DEF dear
<1>5. MissCost * Cardinality(dear) \in Nat
  BY <1>4, MissCostAssumption
<1> QED BY <1>5 DEF CachePenalty, dear

(* The calculation of the penalties keeps the invariant.                   *)
LEMMA CalculateInv ==
  ASSUME Inv, CalculateCachePenalty
  PROVE  Inv'
<1>1. /\ msg \in MSGs /\ TypeOK /\ FlowConsistent
      /\ PendingHavePredecessor /\ ReadyIsPending
      /\ processing = << >> /\ phase' = "done"
      /\ penalty' = [n \in Node |-> CachePenalty(n)]
      /\ UNCHANGED <<msg, processing, memState, memStateVal>>
  BY DEF CalculateCachePenalty, Inv
<1>2. penalty' \in [Node -> Nat]
  BY <1>1, CachePenaltyType
<1>3. TypeOK'
  BY <1>1, <1>2 DEF TypeOK
<1>4. FlowConsistent'
  BY <1>1 DEF FlowConsistent, FlowValue, StateAfter, Predecessors, isPredecessorMemStateKnown
<1>5. PendingHavePredecessor'
  BY <1>1 DEF PendingHavePredecessor, Predecessors
<1>6. ReadyIsPending'
  BY <1>1 DEF ReadyIsPending, Predecessors, isPredecessorMemStateKnown
<1> QED BY <1>1, <1>3, <1>4, <1>5, <1>6 DEF Inv

(* Every step keeps the invariant.                                         *)
LEMMA NextInv == Inv /\ [Next]_vars => Inv'
<1> SUFFICES ASSUME Inv, [Next]_vars PROVE Inv'
  OBVIOUS
<1>1. CASE DropNode
  BY <1>1, DropInv
<1>2. CASE JoinAndSetInitialMemState
  BY <1>2, ProcessStep, ProcessInv
<1>3. CASE SetInitialMemState
  BY <1>3, ProcessStep, ProcessInv
<1>4. CASE CalculateCachePenalty
  BY <1>4, CalculateInv
<1>5. CASE UNCHANGED vars
  <2> USE <1>5 DEF vars
  <2>1. TypeOK' /\ PendingHavePredecessor'
    BY DEF Inv, TypeOK, PendingHavePredecessor, Predecessors
  <2>2. FlowConsistent'
    BY DEF Inv, FlowConsistent, FlowValue, StateAfter, Predecessors, isPredecessorMemStateKnown
  <2>3. ReadyIsPending'
    BY DEF Inv, ReadyIsPending, Predecessors, isPredecessorMemStateKnown
  <2> QED BY <2>1, <2>2, <2>3 DEF Inv
<1> QED BY <1>1, <1>2, <1>3, <1>4, <1>5 DEF Next

(* The invariant holds at every step of the analysis.                      *)
THEOREM Invariance == Spec => []Inv
<1> QED BY InitInv, NextInv, PTL DEF Spec

-----------------------------------------------------------------------------
(* Every variable of the analysis keeps its type: in particular the        *)
(* updates and joins of both maintainers yield abstract states again.      *)
THEOREM TypeCorrect == Spec => []TypeOK
<1>1. Inv => TypeOK
  BY DEF Inv
<1> QED BY <1>1, Invariance, PTL

(* Whatever order the stack of analyzeCache yields, a node marked valid    *)
(* holds the solution of its flow equation.                                *)
THEOREM SolutionIsConsistent == Spec => []FlowConsistent
<1>1. Inv => FlowConsistent
  BY DEF Inv
<1> QED BY <1>1, Invariance, PTL

(* The assertions on the in edges of a popped node never fail.             *)
THEOREM PendingCanBeSolved == Spec => []PendingHavePredecessor
<1>1. Inv => PendingHavePredecessor
  BY DEF Inv
<1> QED BY <1>1, Invariance, PTL

(* No node is lost by dropping it while a predecessor is unknown.          *)
THEOREM NothingIsLost == Spec => []ReadyIsPending
<1>1. Inv => ReadyIsPending
  BY DEF Inv
<1> QED BY <1>1, Invariance, PTL

(* Once the worklist is empty there is no node left to solve.              *)
LEMMA NothingReadyAtEnd ==
  ASSUME Inv, processing = << >>, NEW n \in Node \ {Exit},
         isPredecessorMemStateKnown(n), n = Entry \/ Len(Predecessors(n)) > 0
  PROVE  memStateVal[n]
<1> SUFFICES ASSUME ~memStateVal[n] PROVE FALSE
  OBVIOUS
<1>1. \E i \in 1..Len(processing) : processing[i] = n
  BY DEF Inv, ReadyIsPending
<1> QED BY <1>1

(* The node that comes first among the unsolved ones would be ready, so    *)
(* there is no unsolved one at the end.                                    *)
LEMMA InvAnalyzed == Inv => AllNodesAnalyzed
<1> SUFFICES ASSUME Inv, phase = "done", ForwardConnected(msg),
                    NEW x \in Node \ {Exit}, ~memStateVal[x]
             PROVE  FALSE
  BY DEF AllNodesAnalyzed
<1> DEFINE unsolved == {n \in Node \ {Exit} : ~memStateVal[n]}
<1>1. msg \in MSGs /\ IsCodeGraph(msg, Line) /\ processing = << >> /\ unsolved \in (SUBSET Node) \ {{}}
  BY GraphAssumption, EndsAssumption DEF Inv
<1>2. PICK n \in unsolved : \A m \in unsolved : ~HasForwardEdge(msg.in[n], m)
  BY <1>1 DEF IsCodeGraph, IsFlowGraph, ForwardAcyclic
<1>3. n \in Node \ {Exit} /\ ~memStateVal[n]
  BY <1>2
<1>4. ASSUME NEW m \in Node, HasForwardEdge(msg.in[n], m) PROVE memStateVal[m]
  <2>1. m # Exit
    BY <1>1, <1>3, <1>4, GraphFacts
  <2> QED BY <1>2, <1>4, <2>1
<1>5. isPredecessorMemStateKnown(n)
  <2>1. ASSUME NEW i \in 1..Len(Predecessors(n)) PROVE memStateVal[Predecessors(n)[i]]
    <3>1. Predecessors(n)[i] \in Node
      BY <1>1, <1>3, GraphFacts
    <3>2. HasForwardEdge(msg.in[n], Predecessors(n)[i])
      BY <1>1, <1>3, <3>1, GraphFacts
    <3> QED BY <1>4, <3>1, <3>2
  <2> QED BY <2>1 DEF isPredecessorMemStateKnown
<1>6. n = Entry \/ Len(Predecessors(n)) > 0
  <2> SUFFICES ASSUME n # Entry PROVE Len(Predecessors(n)) > 0
    OBVIOUS
  <2>1. PICK m \in Node : HasForwardEdge(msg.in[n], m)
    BY <1>3 DEF ForwardConnected
  <2>2. \E i \in 1..Len(Predecessors(n)) : Predecessors(n)[i] = m
    BY <1>1, <1>3, <2>1, GraphFacts
  <2>3. Predecessors(n) \in Seq(Node)
    BY <1>1, <1>3, GraphFacts
  <2> QED BY <2>2, <2>3
<1> HIDE DEF unsolved
<1> QED BY <1>1, <1>3, <1>5, <1>6, NothingReadyAtEnd

(* The penalties are calculated from computed states only.                 *)
THEOREM EveryNodeIsAnalyzed == Spec => []AllNodesAnalyzed
<1> QED BY InvAnalyzed, Invariance, PTL

(* Processing a node once more changes nothing: what a penalty was or will *)
(* be calculated from does not depend on how often the node came up.       *)
THEOREM SolutionIsStable == Spec => StatesStable
<1> DEFINE Keep == \A n \in Node : memStateVal[n] =>
                     memStateVal'[n] /\ memState'[n] = memState[n]
<1>1. Inv /\ [Next]_vars => [Keep]_vars
  <2> SUFFICES ASSUME Inv, Next PROVE Keep
    OBVIOUS
  <2>1. CASE DropNode
    BY <2>1 DEF DropNode
  <2>2. CASE JoinAndSetInitialMemState \/ SetInitialMemState
    BY <2>2, ProcessStep, ProcessEffect
  <2>3. CASE CalculateCachePenalty
    BY <2>3 DEF CalculateCachePenalty
  <2> QED BY <2>1, <2>2, <2>3 DEF Next
<1> HIDE DEF Keep
<1>2. Spec => [][Keep]_vars
  BY <1>1, Invariance, PTL DEF Spec
<1> QED BY <1>2 DEF Keep, StatesStable

-----------------------------------------------------------------------------
(* The mapping of the abstract analysis, spelled out.                      *)
preds == [n \in Node |-> {m \in Node : HasForwardEdge(msg.in[n], m)}]

(* The conditions of the code in terms of the abstract analysis.           *)
LEMMA KnownIsSolved ==
  ASSUME msg \in MSGs, NEW n \in Node
  PROVE  /\ isPredecessorMemStateKnown(n)
              <=> preds[n] \subseteq {m \in Node : memStateVal[m]}
         /\ Len(Predecessors(n)) > 0 <=> preds[n] # {}
<1>1. Predecessors(n) \in Seq(Node) /\ Len(Predecessors(n)) \in Nat
  BY GraphFacts
<1>2. \A m \in Node : m \in preds[n] <=> \E i \in 1..Len(Predecessors(n)) : Predecessors(n)[i] = m
  BY GraphFacts DEF preds
<1>3. \A i \in 1..Len(Predecessors(n)) : Predecessors(n)[i] \in preds[n]
  BY <1>1, <1>2
<1>4. preds[n] \subseteq Node
  BY DEF preds
<1>5. Len(Predecessors(n)) > 0 <=> preds[n] # {}
  <2>1. Len(Predecessors(n)) > 0 => Predecessors(n)[1] \in preds[n]
    BY <1>1, <1>3
  <2>2. preds[n] # {} => Len(Predecessors(n)) > 0
    BY <1>1, <1>2, <1>4
  <2> QED BY <2>1, <2>2
<1>6. n = Entry => preds[n] = {}
  BY <1>5, GraphFacts
<1>7. (\A i \in 1..Len(Predecessors(n)) : memStateVal[Predecessors(n)[i]])
        <=> preds[n] \subseteq {m \in Node : memStateVal[m]}
  BY <1>1, <1>2, <1>3, <1>4
<1> QED BY <1>5, <1>6, <1>7 DEF isPredecessorMemStateKnown

(* The analysis starts where the abstract one does.                        *)
LEMMA InitRefines == Init => FA!Init
<1> SUFFICES ASSUME Init PROVE FA!Init
  OBVIOUS
<1>1. preds \in [Node -> SUBSET Node]
  BY DEF preds
<1>2. {n \in Node : memStateVal[n]} = {} /\ (phase = "done") = FALSE
  BY DEF Init
<1> QED BY <1>1, <1>2 DEF FA!Init, preds

(* Every step of the worklist solves one node that can be solved, ends the *)
(* abstract analysis when nothing is left to solve, or stutters.           *)
LEMMA NextRefines == Inv /\ [Next]_vars => [FA!Next]_FA!absVars
<1> SUFFICES ASSUME Inv, [Next]_vars PROVE [FA!Next]_FA!absVars
  OBVIOUS
<1> DEFINE solved == {n \in Node : memStateVal[n]}
           ended == phase = "done"
           Same == preds' = preds /\ solved' = solved /\ ended' = ended
<1>1. Same => UNCHANGED FA!absVars
  BY DEF FA!absVars, preds
<1>2. CASE DropNode
  BY <1>1, <1>2 DEF DropNode, preds
<1>3. CASE UNCHANGED vars
  BY <1>1, <1>3 DEF vars, preds
<1>4. CASE JoinAndSetInitialMemState \/ SetInitialMemState
  <2>1. Process
    BY <1>4, ProcessStep
  <2>2. /\ msg \in MSGs /\ msg' = msg /\ phase' = phase /\ phase = "analyze"
        /\ Actual # Exit /\ isPredecessorMemStateKnown(Actual) /\ processing # << >>
    BY <2>1 DEF Process, Inv
  <2>3. /\ Actual \in Node /\ memStateVal'[Actual]
        /\ \A n \in Node \ {Actual} : memStateVal'[n] = memStateVal[n]
        /\ Actual = Entry \/ Len(Predecessors(Actual)) > 0
    BY <2>1, <2>2, ProcessEffect, ActualFacts
  <2>4. preds' = preds /\ ended' = ended /\ ~ended
    BY <2>2 DEF preds
  <2>5. solved' = solved \cup {Actual}
    BY <2>3
  <2>6. CASE memStateVal[Actual]
    <3>1. solved' = solved
      BY <2>3, <2>5, <2>6
    <3> QED BY <1>1, <2>4, <3>1
  <2>7. CASE ~memStateVal[Actual]
    <3>1. PICK n \in Node : n = Actual
      BY <2>3
    <3>2. preds[n] \subseteq solved /\ (n = Entry \/ preds[n] # {})
      BY <2>2, <2>3, <3>1, KnownIsSolved
    <3>3. FA!Solvable(n)
      BY <2>2, <2>7, <3>1, <3>2 DEF FA!Solvable, preds
    <3>4. FA!Solve(n)
      BY <2>4, <2>5, <3>1, <3>3 DEF FA!Solve, preds
    <3> QED BY <3>4 DEF FA!Next
  <2> QED BY <2>6, <2>7
<1>5. CASE CalculateCachePenalty
  <2>1. /\ msg \in MSGs /\ msg' = msg /\ memStateVal' = memStateVal /\ processing = << >>
        /\ phase = "analyze" /\ phase' = "done"
    BY <1>5 DEF CalculateCachePenalty, Inv
  <2>2. ASSUME NEW n \in Node PROVE ~FA!Solvable(n)
    <3> SUFFICES ASSUME FA!Solvable(n) PROVE FALSE
      OBVIOUS
    <3>1. /\ n # Exit /\ n \notin solved
          /\ n = Entry \/ preds[n] # {}
          /\ preds[n] \subseteq solved
      BY DEF FA!Solvable, preds
    <3>2. isPredecessorMemStateKnown(n) /\ (n = Entry \/ Len(Predecessors(n)) > 0)
      BY <2>1, <3>1, KnownIsSolved
    <3>3. memStateVal[n]
      BY <2>1, <3>1, <3>2, NothingReadyAtEnd
    <3> QED BY <3>1, <3>3
  <2>3. preds' = preds /\ solved' = solved /\ ended' = TRUE /\ ~ended
    BY <2>1 DEF preds
  <2>4. FA!End
    BY <2>2, <2>3 DEF FA!End, preds
  <2> QED BY <2>4 DEF FA!Next
<1> QED BY <1>2, <1>3, <1>4, <1>5 DEF Next

(* Every run of the worklist is a run of the abstract analysis.            *)
THEOREM Refinement == Spec => FA!Spec
<1> QED BY InitRefines, NextRefines, Invariance, PTL DEF Spec, FA!Spec

-----------------------------------------------------------------------------
(***************************************************************************)
(* The soundness of the analysis for an execution.                         *)
(***************************************************************************)

(* A direct mapped cache, real or abstract, keeps a line at its index.     *)
Indexed(c) == rpol # "LRU" => \A a \in DOMAIN c : c[a] = DMIndex(a)

CacheOK(c) == IsCache(c) /\ Indexed(c)

StateOK(s) == s \in AbsStates /\ Indexed(s.must) /\ Indexed(s.may)

(* The blank state is well formed.                                         *)
LEMMA BlankOK == StateOK(BlankMemState)
BY BlankType DEF StateOK, Indexed, BlankMemState

(* An index is one of a line of the cache.                                 *)
LEMMA DMIndexType ==
  ASSUME NEW a \in Line
  PROVE  DMIndex(a) \in 0..LineNo - 1
BY LineNoAssumption, BlockAddrAssumption DEF DMIndex

-----------------------------------------------------------------------------
(* One access of the real cache.                                           *)
LEMMA AccessOK ==
  ASSUME NEW c, CacheOK(c), NEW addr \in Line
  PROVE  CacheOK(Access(c, addr))
<1>1. /\ DOMAIN c \subseteq Line
      /\ \A a \in DOMAIN c : c[a] \in 0..LineNo - 1
      /\ \A a, b \in DOMAIN c : c[a] = c[b] => a = b
  BY DEF CacheOK, IsCache
<1>2. LineNo \in Nat \ {0}
  BY LineNoAssumption
<1>3. CASE rpol = "LRU"
  <2> DEFINE d == LRUAccess(c, addr)
  <2>1. CASE addr \in DOMAIN c
    <3>1. d = [a \in DOMAIN c |-> IF a = addr THEN 0
                                 ELSE IF c[a] < c[addr] THEN c[a] + 1 ELSE c[a]]
      BY <2>1 DEF LRUAccess
    <3>2. \A a \in DOMAIN d : d[a] \in 0..LineNo - 1
      BY <1>1, <1>2, <2>1, <3>1
    <3>3. \A a, b \in DOMAIN d : d[a] = d[b] => a = b
      BY <1>1, <1>2, <2>1, <3>1
    <3>4. d = [a \in DOMAIN d |-> d[a]] /\ DOMAIN d \subseteq Line
      BY <1>1, <3>1
    <3> HIDE DEF d
    <3>5. IsCache(d)
      BY <3>2, <3>3, <3>4 DEF IsCache
    <3> QED BY <1>3, <3>5 DEF CacheOK, Indexed, Access, d
  <2>2. CASE addr \notin DOMAIN c
    <3> DEFINE kept == {a \in DOMAIN c : c[a] + 1 < LineNo}
    <3>1. d = [a \in kept \cup {addr} |-> IF a = addr THEN 0 ELSE c[a] + 1]
      BY <2>2 DEF LRUAccess
    <3>2. \A a \in DOMAIN d : d[a] \in 0..LineNo - 1
      BY <1>1, <1>2, <2>2, <3>1
    <3>3. \A a, b \in DOMAIN d : d[a] = d[b] => a = b
      BY <1>1, <1>2, <2>2, <3>1
    <3>4. d = [a \in DOMAIN d |-> d[a]] /\ DOMAIN d \subseteq Line
      BY <1>1, <3>1
    <3> HIDE DEF d
    <3>5. IsCache(d)
      BY <3>2, <3>3, <3>4 DEF IsCache
    <3> QED BY <1>3, <3>5 DEF CacheOK, Indexed, Access, d
  <2> QED BY <2>1, <2>2
<1>4. CASE rpol # "LRU"
  <2> DEFINE d == DMAccess(c, addr)
  <2>1. d = [a \in {x \in DOMAIN c : c[x] # DMIndex(addr)} \cup {addr} |->
               IF a = addr THEN DMIndex(addr) ELSE c[a]]
    BY DEF DMAccess, DMIndex
  <2>2. \A a \in DOMAIN d : d[a] \in 0..LineNo - 1
    BY <1>1, <2>1, DMIndexType
  <2>3. \A a, b \in DOMAIN d : d[a] = d[b] => a = b
    BY <1>1, <2>1
  <2>4. d = [a \in DOMAIN d |-> d[a]] /\ DOMAIN d \subseteq Line
    BY <1>1, <2>1
  <2>5. Indexed(d)
    BY <2>1, <1>4 DEF CacheOK, Indexed
  <2> HIDE DEF d
  <2>6. IsCache(d)
    BY <2>2, <2>3, <2>4 DEF IsCache
  <2> QED BY <1>4, <2>5, <2>6 DEF CacheOK, Access, d
<1> QED BY <1>3, <1>4

(* One access of the abstract cache.                                       *)
LEMMA UpdateOK ==
  ASSUME NEW s, StateOK(s), NEW addr \in Line
  PROVE  StateOK(Update(s, addr))
<1>1. Update(s, addr) \in AbsStates
  BY UpdateType DEF StateOK
<1>2. ASSUME rpol # "LRU", NEW m, Indexed(m)
      PROVE  Indexed(DMReplace(m, addr))
  BY <1>2 DEF Indexed, DMReplace
<1>3. Indexed(Update(s, addr).must) /\ Indexed(Update(s, addr).may)
  <2>1. CASE rpol = "LRU"
    BY <2>1 DEF Indexed
  <2>2. CASE rpol # "LRU"
    BY <1>2, <2>2 DEF StateOK, Update, DMUpdate
  <2> QED BY <2>1, <2>2
<1> QED BY <1>1, <1>3 DEF StateOK

(* The join of two abstract caches.                                        *)
LEMMA JoinOK ==
  ASSUME NEW s, NEW t, StateOK(s), StateOK(t)
  PROVE  StateOK(Join(s, t))
<1>1. Join(s, t) \in AbsStates
  BY JoinType DEF StateOK
<1>2. Indexed(Join(s, t).must) /\ Indexed(Join(s, t).may)
  <2>1. CASE rpol = "LRU"
    BY <2>1 DEF Indexed
  <2>2. CASE rpol # "LRU"
    BY <2>2 DEF Indexed, Join, DMJoin, DMJoinMust, DMJoinMay
  <2> QED BY <2>1, <2>2
<1> QED BY <1>1, <1>2 DEF StateOK

-----------------------------------------------------------------------------
(* The transfer of one line is sound: update() for the must set ...        *)
LEMMA UpdateMust ==
  ASSUME NEW s, StateOK(s), NEW c, CacheOK(c), NEW addr \in Line,
         MustBounds(s.must, c)
  PROVE  MustBounds(Update(s, addr).must, Access(c, addr))
<1> DEFINE m == s.must
<1>1. /\ DOMAIN c \subseteq Line
      /\ \A a \in DOMAIN c : c[a] \in 0..LineNo - 1
  BY DEF CacheOK, IsCache
<1>2. \A a \in DOMAIN m : m[a] \in Nat
  <2>1. m \in MemSets
    BY DEF StateOK, AbsStates
  <2> QED BY <2>1, MemSetType DEF IsMemSet
<1>3. LineNo \in Nat \ {0}
  BY LineNoAssumption
<1>4. \A a \in DOMAIN m : a \in DOMAIN c /\ c[a] <= m[a]
  BY DEF MustBounds
<1>5. CASE rpol = "LRU"
  <2> DEFINE d == LRUAccess(c, addr)
  <2>1. Access(c, addr) = d /\ Update(s, addr).must = LRUUpdateSet(m, addr, "MUST")
    BY <1>5 DEF Access, Update, LRUUpdate
  <2>2. CASE addr \in DOMAIN m
    <3>1. d = [a \in DOMAIN c |-> IF a = addr THEN 0
                                 ELSE IF c[a] < c[addr] THEN c[a] + 1 ELSE c[a]]
      BY <1>4, <2>2 DEF LRUAccess
    <3>2. LRUUpdateSet(m, addr, "MUST") =
            [a \in DOMAIN m |-> IF a = addr THEN 0
                                ELSE IF m[a] < m[addr] THEN m[a] + 1 ELSE m[a]]
      BY <2>2 DEF LRUUpdateSet, LRUMoveToFront, isInSet
    <3> HIDE DEF d, m
    <3> QED BY <1>1, <1>2, <1>4, <2>1, <2>2, <3>1, <3>2 DEF MustBounds
  <2>3. CASE addr \notin DOMAIN m
    <3>1. LRUUpdateSet(m, addr, "MUST") =
            [a \in {x \in DOMAIN m : m[x] + 1 < LineNo} \cup {addr} |->
               IF a = addr THEN 0 ELSE m[a] + 1]
      BY <2>3 DEF LRUUpdateSet, LRUAddAddr, isInSet
    <3>2. CASE addr \in DOMAIN c
      <4>1. d = [a \in DOMAIN c |-> IF a = addr THEN 0
                                   ELSE IF c[a] < c[addr] THEN c[a] + 1 ELSE c[a]]
        BY <3>2 DEF LRUAccess
      <4> HIDE DEF d, m
      <4> QED BY <1>1, <1>2, <1>4, <2>1, <3>1, <3>2, <4>1 DEF MustBounds
    <3>3. CASE addr \notin DOMAIN c
      <4>1. d = [a \in {x \in DOMAIN c : c[x] + 1 < LineNo} \cup {addr} |->
                   IF a = addr THEN 0 ELSE c[a] + 1]
        BY <3>3 DEF LRUAccess
      <4> HIDE DEF d, m
      <4> QED BY <1>1, <1>2, <1>3, <1>4, <2>1, <3>1, <3>3, <4>1 DEF MustBounds
    <3> QED BY <3>2, <3>3
  <2> QED BY <2>2, <2>3
<1>6. CASE rpol # "LRU"
  <2> DEFINE d == DMAccess(c, addr)
  <2>1. Access(c, addr) = d /\ Update(s, addr).must = DMReplace(m, addr)
    BY <1>6 DEF Access, Update, DMUpdate
  <2>2. d = [a \in {x \in DOMAIN c : c[x] # DMIndex(addr)} \cup {addr} |->
               IF a = addr THEN DMIndex(addr) ELSE c[a]]
    BY DEF DMAccess, DMIndex
  <2>3. (\A a \in DOMAIN m : m[a] = DMIndex(a)) /\ (\A a \in DOMAIN c : c[a] = DMIndex(a))
    BY <1>6 DEF StateOK, CacheOK, Indexed
  <2>4. DMIndex(addr) <= DMIndex(addr)
    BY DMIndexType
  <2> HIDE DEF d, m
  <2> QED BY <1>4, <2>1, <2>2, <2>3, <2>4 DEF MustBounds, DMReplace
<1> QED BY <1>5, <1>6

(* ... and for the may set.  No two lines of the real cache have one age,  *)
(* so a line not younger than the fetched one is older: a may age that     *)
(* grows to one above that of the fetched line is still a lower bound.     *)
LEMMA UpdateMay ==
  ASSUME NEW s, StateOK(s), NEW c, CacheOK(c), NEW addr \in Line,
         MayBounds(s.may, c)
  PROVE  MayBounds(Update(s, addr).may, Access(c, addr))
<1> DEFINE m == s.may
<1>1. /\ DOMAIN c \subseteq Line
      /\ \A a \in DOMAIN c : c[a] \in 0..LineNo - 1
      /\ \A a, b \in DOMAIN c : c[a] = c[b] => a = b
  BY DEF CacheOK, IsCache
<1>2. \A a \in DOMAIN m : m[a] \in Nat
  <2>1. m \in MemSets
    BY DEF StateOK, AbsStates
  <2> QED BY <2>1, MemSetType DEF IsMemSet
<1>3. LineNo \in Nat \ {0}
  BY LineNoAssumption
<1>4. \A a \in DOMAIN c : a \in DOMAIN m /\ m[a] <= c[a]
  BY DEF MayBounds
<1>5. CASE rpol = "LRU"
  <2> DEFINE d == LRUAccess(c, addr)
  <2>1. Access(c, addr) = d /\ Update(s, addr).may = LRUUpdateSet(m, addr, "MAY")
    BY <1>5 DEF Access, Update, LRUUpdate
  <2>2. CASE addr \in DOMAIN m
    <3>1. LRUUpdateSet(m, addr, "MAY") =
            [a \in DOMAIN m |-> IF a = addr THEN 0
                                ELSE IF m[a] <= m[addr] THEN m[a] + 1 ELSE m[a]]
      BY <2>2 DEF LRUUpdateSet, LRUMoveToFront, isInSet
    <3>2. CASE addr \in DOMAIN c
      <4>1. d = [a \in DOMAIN c |-> IF a = addr THEN 0
                                   ELSE IF c[a] < c[addr] THEN c[a] + 1 ELSE c[a]]
        BY <3>2 DEF LRUAccess
      <4>2. \A a \in DOMAIN c : a # addr => c[a] < c[addr] \/ c[a] > c[addr]
        BY <1>1, <3>2
      <4> HIDE DEF d, m
      <4> QED BY <1>1, <1>2, <1>4, <2>1, <2>2, <3>1, <3>2, <4>1, <4>2 DEF MayBounds
    <3>3. CASE addr \notin DOMAIN c
      <4>1. d = [a \in {x \in DOMAIN c : c[x] + 1 < LineNo} \cup {addr} |->
                   IF a = addr THEN 0 ELSE c[a] + 1]
        BY <3>3 DEF LRUAccess
      <4> HIDE DEF d, m
      <4> QED BY <1>1, <1>2, <1>3, <1>4, <2>1, <2>2, <3>1, <3>3, <4>1 DEF MayBounds
    <3> QED BY <3>2, <3>3
  <2>3. CASE addr \notin DOMAIN m
    <3>1. LRUUpdateSet(m, addr, "MAY") =
            [a \in {x \in DOMAIN m : m[x] + 1 < LineNo} \cup {addr} |->
               IF a = addr THEN 0 ELSE m[a] + 1]
      BY <2>3 DEF LRUUpdateSet, LRUAddAddr, isInSet
    <3>2. d = [a \in {x \in DOMAIN c : c[x] + 1 < LineNo} \cup {addr} |->
                 IF a = addr THEN 0 ELSE c[a] + 1]
      BY <1>4, <2>3 DEF LRUAccess
    <3> HIDE DEF d, m
    <3> QED BY <1>1, <1>2, <1>3, <1>4, <2>1, <2>3, <3>1, <3>2 DEF MayBounds
  <2> QED BY <2>2, <2>3
<1>6. CASE rpol # "LRU"
  <2> DEFINE d == DMAccess(c, addr)
  <2>1. Access(c, addr) = d /\ Update(s, addr).may = DMReplace(m, addr)
    BY <1>6 DEF Access, Update, DMUpdate
  <2>2. d = [a \in {x \in DOMAIN c : c[x] # DMIndex(addr)} \cup {addr} |->
               IF a = addr THEN DMIndex(addr) ELSE c[a]]
    BY DEF DMAccess, DMIndex
  <2>3. (\A a \in DOMAIN m : m[a] = DMIndex(a)) /\ (\A a \in DOMAIN c : c[a] = DMIndex(a))
    BY <1>6 DEF StateOK, CacheOK, Indexed
  <2>4. DMIndex(addr) <= DMIndex(addr)
    BY DMIndexType
  <2> HIDE DEF d, m
  <2> QED BY <1>4, <2>1, <2>2, <2>3, <2>4 DEF MayBounds, DMReplace
<1> QED BY <1>5, <1>6

-----------------------------------------------------------------------------
(* What a state promises for one of the two analyses.                      *)
Bounds(s, c, analysis) ==
  IF analysis = "MUST" THEN MustBounds(s.must, c) ELSE MayBounds(s.may, c)

(* The joins drop the line at address 0, and a node that is entered by a   *)
(* back edge only gets no state: harmless for the must analysis.           *)
Covered(analysis) ==
  \/ analysis = "MUST"
  \/ /\ ZeroLine \notin Line
     /\ \A g \in MSGs : ForwardConnected(g)

(* The transfer of one line keeps the promise.                             *)
LEMMA UpdateBounds ==
  ASSUME NEW s, StateOK(s), NEW c, CacheOK(c), NEW addr \in Line,
         NEW analysis, Bounds(s, c, analysis)
  PROVE  Bounds(Update(s, addr), Access(c, addr), analysis)
BY UpdateMust, UpdateMay DEF Bounds

(* The join of two states promises less than either of them.               *)
LEMMA JoinBounds ==
  ASSUME NEW s, NEW t, StateOK(s), StateOK(t), NEW c, CacheOK(c),
         NEW analysis, Covered(analysis),
         Bounds(s, c, analysis) \/ Bounds(t, c, analysis)
  PROVE  Bounds(Join(s, t), c, analysis)
<1>1. /\ DOMAIN c \subseteq Line
      /\ \A a \in DOMAIN c : c[a] \in 0..LineNo - 1
  BY DEF CacheOK, IsCache
<1>2. /\ \A a \in DOMAIN s.must : s.must[a] \in Nat
      /\ \A a \in DOMAIN t.must : t.must[a] \in Nat
      /\ \A a \in DOMAIN s.may : s.may[a] \in Nat
      /\ \A a \in DOMAIN t.may : t.may[a] \in Nat
  <2>1. s.must \in MemSets /\ t.must \in MemSets /\ s.may \in MemSets /\ t.may \in MemSets
    BY DEF StateOK, AbsStates
  <2> QED BY <2>1, MemSetType DEF IsMemSet
<1>3. LineNo \in Nat \ {0}
  BY LineNoAssumption
<1>4. CASE analysis = "MUST"
  <2>1. MustBounds(s.must, c) \/ MustBounds(t.must, c)
    BY <1>4 DEF Bounds
  <2>2. CASE rpol = "LRU"
    <3>1. Join(s, t).must = LRUJoinMust(s.must, t.must)
      BY <2>2 DEF Join, LRUJoin
    <3>2. MustBounds(LRUJoinMust(s.must, t.must), c)
      BY <1>1, <1>2, <1>3, <2>1 DEF MustBounds, LRUJoinMust, isInSet, UniqueMemAddrs
    <3> QED BY <1>4, <3>1, <3>2 DEF Bounds
  <2>3. CASE rpol # "LRU"
    <3>1. Join(s, t).must = DMJoinMust(s.must, t.must)
      BY <2>3 DEF Join, DMJoin
    <3>2. /\ \A a \in DOMAIN s.must : s.must[a] = DMIndex(a)
          /\ \A a \in DOMAIN t.must : t.must[a] = DMIndex(a)
      BY <2>3 DEF StateOK, Indexed
    <3>3. MustBounds(DMJoinMust(s.must, t.must), c)
      BY <2>1, <3>2 DEF MustBounds, DMJoinMust, isInSet, UniqueMemAddrs
    <3> QED BY <1>4, <3>1, <3>3 DEF Bounds
  <2> QED BY <2>2, <2>3
<1>5. CASE analysis # "MUST"
  <2>1. MayBounds(s.may, c) \/ MayBounds(t.may, c)
    BY <1>5 DEF Bounds
  <2>2. \A a \in DOMAIN c : a # ZeroLine
    BY <1>1, <1>5 DEF Covered
  <2>3. CASE rpol = "LRU"
    <3>1. Join(s, t).may = LRUJoinMay(s.may, t.may)
      BY <2>3 DEF Join, LRUJoin
    <3>2. MayBounds(LRUJoinMay(s.may, t.may), c)
      BY <1>1, <1>2, <1>3, <2>1, <2>2 DEF MayBounds, LRUJoinMay, isInSet, UniqueMemAddrs
    <3> QED BY <1>5, <3>1, <3>2 DEF Bounds
  <2>4. CASE rpol # "LRU"
    <3>1. Join(s, t).may = DMJoinMay(s.may, t.may)
      BY <2>4 DEF Join, DMJoin
    <3>2. /\ \A a \in DOMAIN s.may : s.may[a] = DMIndex(a)
          /\ \A a \in DOMAIN t.may : t.may[a] = DMIndex(a)
      BY <2>4 DEF StateOK, Indexed
    <3>3. MayBounds(DMJoinMay(s.may, t.may), c)
      BY <2>1, <2>2, <3>2 DEF MayBounds, DMJoinMay, isInSet, UniqueMemAddrs
    <3> QED BY <1>5, <3>1, <3>3 DEF Bounds
  <2> QED BY <2>3, <2>4
<1> QED BY <1>4, <1>5

-----------------------------------------------------------------------------
(* Along the lines of a block every state is well formed ...               *)
LEMMA UpdateAlongOK ==
  ASSUME NEW s, StateOK(s), NEW lines \in Seq(Line), NEW k \in 0..Len(lines)
  PROVE  StateOK(UpdateAlong(s, lines)[k])
<1> DEFINE u == UpdateAlong(s, lines)
           Good == {j \in Nat : j \in 0..Len(lines) => StateOK(u[j])}
<1>1. s \in AbsStates /\ Len(lines) \in Nat
  BY DEF StateOK
<1>2. u[0] = s /\ \A j \in 1..Len(lines) : u[j] = Update(u[j - 1], lines[j])
  BY <1>1, UpdateAlongTrace
<1> HIDE DEF u
<1>3. 0 \in Good
  BY <1>2
<1>4. ASSUME NEW j \in Good PROVE j + 1 \in Good
  <2> SUFFICES ASSUME j + 1 \in 0..Len(lines) PROVE StateOK(u[j + 1])
    OBVIOUS
  <2>1. StateOK(u[j]) /\ j + 1 \in 1..Len(lines) /\ (j + 1) - 1 = j
    BY <1>1
  <2>2. u[j + 1] = Update(u[j], lines[j + 1]) /\ lines[j + 1] \in Line
    BY <1>2, <2>1
  <2> QED BY <2>1, <2>2, UpdateOK
<1>5. Good = Nat
  <2>1. Good \in SUBSET Nat
    OBVIOUS
  <2> HIDE DEF Good
  <2> QED BY <1>3, <1>4, <2>1, SetInduction
<1> QED BY <1>1, <1>5 DEF u

(* ... and so is the join of the states of the predecessors, which         *)
(* promises no more than each of them.                                     *)
LEMMA JoinStatesBounds ==
  ASSUME NEW states \in Seq(AbsStates), Len(states) > 0,
         \A i \in 1..Len(states) : StateOK(states[i])
  PROVE  /\ StateOK(JoinStates(states))
         /\ \A i \in 1..Len(states) : \A c, analysis :
              CacheOK(c) /\ Covered(analysis) /\ Bounds(states[i], c, analysis)
                => Bounds(JoinStates(states), c, analysis)
<1>1. PICK f \in [1..Len(states) -> AbsStates] :
        /\ f[1] = states[1]
        /\ \A k \in 2..Len(states) : f[k] = Join(f[k - 1], states[k])
        /\ JoinStates(states) = f[Len(states)]
  BY JoinStatesTrace
<1>2. Len(states) \in Nat /\ Len(states) \in 1..Len(states)
  OBVIOUS
<1> DEFINE Promises(k) ==
             \A i \in 1..k : \A c, analysis :
               CacheOK(c) /\ Covered(analysis) /\ Bounds(states[i], c, analysis)
                 => Bounds(f[k], c, analysis)
           Good == {j \in Nat : j + 1 \in 1..Len(states) =>
                                  StateOK(f[j + 1]) /\ Promises(j + 1)}
<1>3. 0 \in Good
  <2>1. f[1] = states[1] /\ StateOK(states[1])
    BY <1>1, <1>2
  <2>2. Promises(1)
    BY <2>1
  <2> HIDE DEF Promises
  <2> QED BY <2>1, <2>2
<1>4. ASSUME NEW j \in Good PROVE j + 1 \in Good
  <2> SUFFICES ASSUME (j + 1) + 1 \in 1..Len(states)
               PROVE  StateOK(f[(j + 1) + 1]) /\ Promises((j + 1) + 1)
    BY DEF Good
  <2> DEFINE k == (j + 1) + 1
  <2>1. StateOK(f[j + 1]) /\ Promises(j + 1)
    BY <1>2
  <2>2. k \in 2..Len(states) /\ k - 1 = j + 1 /\ StateOK(states[k])
    BY <1>2
  <2>3. f[k] = Join(f[j + 1], states[k])
    BY <1>1, <2>2
  <2>4. ASSUME NEW i \in 1..k, NEW c, NEW analysis,
               CacheOK(c), Covered(analysis), Bounds(states[i], c, analysis)
        PROVE  Bounds(f[k], c, analysis)
    <3>1. CASE i = k
      <4> HIDE DEF k, Good
      <4> QED BY <2>1, <2>2, <2>3, <2>4, <3>1, JoinBounds
    <3>2. CASE i # k
      <4>1. i \in 1..j + 1
        BY <3>2
      <4>2. Bounds(f[j + 1], c, analysis)
        BY <2>1, <2>4, <4>1
      <4> HIDE DEF k, Good, Promises
      <4> QED BY <2>1, <2>2, <2>3, <2>4, <4>2, JoinBounds
    <3> QED BY <3>1, <3>2
  <2>5. StateOK(f[k])
    <3> HIDE DEF k
    <3> QED BY <2>1, <2>2, <2>3, JoinOK
  <2> QED BY <2>4, <2>5
<1>5. Good = Nat
  <2>1. Good \in SUBSET Nat
    OBVIOUS
  <2> HIDE DEF Good
  <2> QED BY <1>3, <1>4, <2>1, SetInduction
<1>6. Len(states) - 1 \in Nat /\ (Len(states) - 1) + 1 = Len(states)
  BY <1>2
<1>7. StateOK(f[Len(states)]) /\ Promises(Len(states))
  <2>1. Len(states) - 1 \in Good
    BY <1>5, <1>6
  <2> HIDE DEF Promises
  <2> QED BY <1>2, <1>6, <2>1
<1> QED BY <1>1, <1>7

-----------------------------------------------------------------------------
(* The flow equation of a node, in terms of its predecessors.              *)
LEMMA FlowValueBounds ==
  ASSUME msg \in MSGs, TypeOK, \A m \in Node : StateOK(memState[m]),
         NEW n \in Node, n = Entry \/ Len(Predecessors(n)) > 0
  PROVE  /\ StateOK(FlowValue(n))
         /\ \A p \in Node : \A c, analysis :
              /\ HasForwardEdge(msg.in[n], p)
              /\ CacheOK(c) /\ Covered(analysis)
              /\ Bounds(StateAfter(p), c, analysis)
              => Bounds(FlowValue(n), c, analysis)
<1>1. CASE n = Entry
  <2>1. FlowValue(n) = BlankMemState
    BY <1>1 DEF FlowValue
  <2>2. \A p \in Node : ~HasForwardEdge(msg.in[n], p)
    <3>1. Predecessors(n) \in Seq(Node) /\ Len(Predecessors(n)) = 0
      BY <1>1, GraphFacts
    <3> QED BY <3>1, GraphFacts
  <2> QED BY <2>1, <2>2, BlankOK
<1>2. CASE n # Entry
  <2> DEFINE states == [i \in 1..Len(Predecessors(n)) |-> StateAfter(Predecessors(n)[i])]
  <2>1. Predecessors(n) \in Seq(Node)
    BY GraphFacts
  <2>2. \A p \in Node : StateOK(StateAfter(p)) /\ StateAfter(p) \in AbsStates
    <3> TAKE p \in Node
    <3>1. msg.lines[p] \in Seq(Line) /\ Len(msg.lines[p]) \in 0..Len(msg.lines[p])
      <4>1. msg.lines[p] \in Seq(Line)
        BY GraphFacts
      <4> QED BY <4>1
    <3>2. StateOK(memState[p])
      OBVIOUS
    <3>3. StateOK(StateAfter(p))
      BY <3>1, <3>2, UpdateAlongOK DEF StateAfter, UpdateLines
    <3> QED BY <3>3 DEF StateOK
  <2>3. /\ states \in Seq(AbsStates) /\ Len(states) = Len(Predecessors(n)) /\ Len(states) > 0
        /\ \A i \in 1..Len(states) : StateOK(states[i])
    BY <1>2, <2>1, <2>2
  <2>4. FlowValue(n) = JoinStates(states)
    BY <1>2 DEF FlowValue
  <2>5. ASSUME NEW p \in Node, HasForwardEdge(msg.in[n], p)
        PROVE  \E i \in 1..Len(states) : states[i] = StateAfter(p)
    <3>1. PICK i \in 1..Len(Predecessors(n)) : Predecessors(n)[i] = p
      BY <2>5, GraphFacts
    <3>2. i \in 1..Len(states) /\ states[i] = StateAfter(p)
      BY <2>3, <3>1
    <3> QED BY <3>2
  <2> HIDE DEF states
  <2>6. /\ StateOK(JoinStates(states))
        /\ \A i \in 1..Len(states) : \A c, analysis :
             CacheOK(c) /\ Covered(analysis) /\ Bounds(states[i], c, analysis)
               => Bounds(JoinStates(states), c, analysis)
    BY <2>3, JoinStatesBounds
  <2> QED BY <2>4, <2>5, <2>6
<1> QED BY <1>1, <1>2

-----------------------------------------------------------------------------
(***************************************************************************)
(* The cache after some lines does not change when they are fetched again. *)
(***************************************************************************)

(* The places the fetched lines determine.                                 *)
Touched(D) ==
  IF rpol = "LRU" THEN D ELSE {a \in Line : \E b \in D : DMIndex(b) = DMIndex(a)}

AgreeOn(c, d, S) ==
  \A a \in S : /\ a \in DOMAIN c <=> a \in DOMAIN d
               /\ a \in DOMAIN c => c[a] = d[a]

(* The lines fetched are younger than all others; an LRU cache does not    *)
(* lose one of them as long as it holds any other line.                    *)
InFront(c, D) ==
  rpol = "LRU" =>
    /\ \A a \in D, b \in DOMAIN c : a \in DOMAIN c /\ b \notin D => c[a] < c[b]
    /\ D \subseteq DOMAIN c \/ DOMAIN c \subseteq D

(* An access puts its line in front.                                       *)
LEMMA FrontStep ==
  ASSUME NEW c, CacheOK(c), NEW D \in SUBSET Line, NEW addr \in Line, InFront(c, D)
  PROVE  InFront(Access(c, addr), D \cup {addr})
<1> SUFFICES ASSUME rpol = "LRU"
             PROVE  InFront(Access(c, addr), D \cup {addr})
  BY DEF InFront
<1>1. /\ \A a \in DOMAIN c : c[a] \in 0..LineNo - 1
      /\ \A a, b \in DOMAIN c : c[a] = c[b] => a = b
      /\ LineNo \in Nat \ {0}
  BY LineNoAssumption DEF CacheOK, IsCache
<1>2. /\ \A a \in D, b \in DOMAIN c : a \in DOMAIN c /\ b \notin D => c[a] < c[b]
      /\ D \subseteq DOMAIN c \/ DOMAIN c \subseteq D
  BY DEF InFront
<1> DEFINE d == Access(c, addr)
           E == D \cup {addr}
<1>3. CASE addr \in DOMAIN c
  <2>1. d = [a \in DOMAIN c |-> IF a = addr THEN 0
                               ELSE IF c[a] < c[addr] THEN c[a] + 1 ELSE c[a]]
    BY <1>3 DEF LRUAccess, Access
  <2> HIDE DEF d
  <2>2. ASSUME NEW a \in E, NEW b \in DOMAIN d, a \in DOMAIN d, b \notin E
        PROVE  d[a] < d[b]
    <3>1. CASE addr \in D
      BY <1>1, <1>2, <1>3, <2>1, <2>2, <3>1
    <3>2. CASE addr \notin D
      BY <1>1, <1>2, <1>3, <2>1, <2>2, <3>2
    <3> QED BY <3>1, <3>2
  <2>3. E \subseteq DOMAIN d \/ DOMAIN d \subseteq E
    BY <1>2, <1>3, <2>1
  <2> QED BY <2>2, <2>3 DEF InFront, d
<1>4. CASE addr \notin DOMAIN c
  <2>1. d = [a \in {x \in DOMAIN c : c[x] + 1 < LineNo} \cup {addr} |->
               IF a = addr THEN 0 ELSE c[a] + 1]
    BY <1>4 DEF LRUAccess, Access
  <2> HIDE DEF d
  <2>2. ASSUME NEW a \in E, NEW b \in DOMAIN d, a \in DOMAIN d, b \notin E
        PROVE  d[a] < d[b]
    BY <1>1, <1>2, <1>4, <2>1, <2>2
  <2>3. E \subseteq DOMAIN d \/ DOMAIN d \subseteq E
    <3>1. CASE DOMAIN c \subseteq D
      BY <2>1, <3>1
    <3>2. CASE D \subseteq DOMAIN c /\ \A a \in D : c[a] + 1 < LineNo
      BY <2>1, <3>2
    <3>3. CASE D \subseteq DOMAIN c /\ \E a \in D : ~(c[a] + 1 < LineNo)
      <4>1. PICK z \in D : z \in DOMAIN c /\ ~(c[z] + 1 < LineNo)
        BY <3>3
      <4>2. ASSUME NEW b \in DOMAIN c, b \notin D PROVE ~(c[b] + 1 < LineNo)
        BY <1>1, <1>2, <4>1, <4>2
      <4> QED BY <2>1, <4>2
    <3> QED BY <1>2, <3>1, <3>2, <3>3
  <2> QED BY <2>2, <2>3 DEF InFront, d
<1> QED BY <1>3, <1>4

(* Two caches that agree on the lines fetched agree on them and one more.  *)
LEMMA SameStep ==
  ASSUME NEW c, CacheOK(c), NEW d, CacheOK(d), NEW D \in SUBSET Line, NEW addr \in Line,
         InFront(c, D), InFront(d, D), AgreeOn(c, d, Touched(D))
  PROVE  AgreeOn(Access(c, addr), Access(d, addr), Touched(D \cup {addr}))
<1>1. /\ \A a \in DOMAIN c : c[a] \in 0..LineNo - 1
      /\ \A a, b \in DOMAIN c : c[a] = c[b] => a = b
      /\ \A a \in DOMAIN d : d[a] \in 0..LineNo - 1
      /\ \A a, b \in DOMAIN d : d[a] = d[b] => a = b
      /\ LineNo \in Nat \ {0}
  BY LineNoAssumption DEF CacheOK, IsCache
<1>2. CASE rpol = "LRU"
  <2>1. /\ \A a \in D, b \in DOMAIN c : a \in DOMAIN c /\ b \notin D => c[a] < c[b]
        /\ \A a \in D, b \in DOMAIN d : a \in DOMAIN d /\ b \notin D => d[a] < d[b]
        /\ \A a \in D : /\ a \in DOMAIN c <=> a \in DOMAIN d
                        /\ a \in DOMAIN c => c[a] = d[a]
    BY <1>2 DEF InFront, AgreeOn, Touched
  <2> DEFINE e == Access(c, addr)
             f == Access(d, addr)
  <2>2. e = LRUAccess(c, addr) /\ f = LRUAccess(d, addr)
    BY <1>2 DEF Access
  <2>3. /\ addr \in DOMAIN e /\ e[addr] = 0 /\ addr \in DOMAIN f /\ f[addr] = 0
    BY <2>2 DEF LRUAccess
  <2>4. ASSUME NEW a \in D, a # addr
        PROVE  /\ a \in DOMAIN e <=> a \in DOMAIN f
               /\ a \in DOMAIN e => e[a] = f[a]
    <3>1. CASE addr \in DOMAIN c /\ addr \in DOMAIN d
      BY <1>1, <2>1, <2>2, <2>4, <3>1 DEF LRUAccess
    <3>2. CASE addr \in DOMAIN c /\ addr \notin DOMAIN d
      BY <1>1, <2>1, <2>2, <2>4, <3>2 DEF LRUAccess
    <3>3. CASE addr \notin DOMAIN c /\ addr \in DOMAIN d
      BY <1>1, <2>1, <2>2, <2>4, <3>3 DEF LRUAccess
    <3>4. CASE addr \notin DOMAIN c /\ addr \notin DOMAIN d
      BY <1>1, <2>1, <2>2, <2>4, <3>4 DEF LRUAccess
    <3> QED BY <3>1, <3>2, <3>3, <3>4
  <2> HIDE DEF e, f
  <2>5. Touched(D \cup {addr}) = D \cup {addr}
    BY <1>2 DEF Touched
  <2> QED BY <2>3, <2>4, <2>5 DEF AgreeOn, e, f
<1>3. CASE rpol # "LRU"
  <2>1. /\ Access(c, addr) = [a \in {x \in DOMAIN c : c[x] # DMIndex(addr)} \cup {addr} |->
                                IF a = addr THEN DMIndex(addr) ELSE c[a]]
        /\ Access(d, addr) = [a \in {x \in DOMAIN d : d[x] # DMIndex(addr)} \cup {addr} |->
                                IF a = addr THEN DMIndex(addr) ELSE d[a]]
    BY <1>3 DEF Access, DMAccess, DMIndex
  <2>2. /\ \A a \in DOMAIN c : c[a] = DMIndex(a)
        /\ \A a \in DOMAIN d : d[a] = DMIndex(a)
    BY <1>3 DEF CacheOK, Indexed
  <2>3. \A a \in Touched(D \cup {addr}) : a \in Touched(D) \/ DMIndex(a) = DMIndex(addr)
    BY <1>3 DEF Touched
  <2> QED BY <2>1, <2>2, <2>3 DEF AgreeOn
<1> QED BY <1>2, <1>3

(* A line that is in front already moves nothing behind the front.         *)
LEMMA RestStep ==
  ASSUME NEW c, CacheOK(c), NEW D \in SUBSET Line, NEW addr \in D, InFront(c, D)
  PROVE  AgreeOn(Access(c, addr), c, Line \ Touched(D))
<1>1. \A a \in DOMAIN c : c[a] \in 0..LineNo - 1
  BY DEF CacheOK, IsCache
<1>2. CASE rpol = "LRU"
  <2>1. /\ \A a \in D, b \in DOMAIN c : a \in DOMAIN c /\ b \notin D => c[a] < c[b]
        /\ D \subseteq DOMAIN c \/ DOMAIN c \subseteq D
        /\ Access(c, addr) = LRUAccess(c, addr) /\ Touched(D) = D
    BY <1>2 DEF InFront, Access, Touched
  <2> QED BY <1>1, <2>1, LineNoAssumption DEF LRUAccess, AgreeOn
<1>3. CASE rpol # "LRU"
  <2>1. Access(c, addr) = [a \in {x \in DOMAIN c : c[x] # DMIndex(addr)} \cup {addr} |->
                                IF a = addr THEN DMIndex(addr) ELSE c[a]]
    BY <1>3 DEF Access, DMAccess, DMIndex
  <2>2. \A a \in DOMAIN c : c[a] = DMIndex(a)
    BY <1>3 DEF CacheOK, Indexed
  <2>3. \A a \in Line \ Touched(D) : DMIndex(a) # DMIndex(addr)
    BY <1>3 DEF Touched
  <2> QED BY <2>1, <2>2, <2>3 DEF AgreeOn
<1> QED BY <1>2, <1>3

(* The caches along the fetch of some lines.                               *)
IsRun(f, lines, n) ==
  CacheOK(f[0]) /\ \A k \in 1..n : f[k] = Access(f[k - 1], lines[k])

LinesUpTo(lines, n) == {lines[k] : k \in 1..n}

(* One line more in a run.                                                 *)
LEMMA UpToNext ==
  ASSUME NEW lines, NEW k \in Nat
  PROVE  LinesUpTo(lines, k + 1) = LinesUpTo(lines, k) \cup {lines[k + 1]}
<1>1. \A i : i \in 1..k + 1 <=> i \in 1..k \/ i = k + 1
  OBVIOUS
<1> QED BY <1>1 DEF LinesUpTo

(* All caches of a run are caches, with what was fetched in front.         *)
LEMMA RunFacts ==
  ASSUME NEW lines \in Seq(Line), NEW n \in 0..Len(lines), NEW f, IsRun(f, lines, n),
         NEW k \in 0..n
  PROVE  /\ CacheOK(f[k])
         /\ InFront(f[k], LinesUpTo(lines, k))
         /\ LinesUpTo(lines, k) \in SUBSET Line
<1> DEFINE Good == {j \in Nat : j <= n => /\ CacheOK(f[j])
                                          /\ InFront(f[j], LinesUpTo(lines, j))
                                          /\ LinesUpTo(lines, j) \in SUBSET Line}
<1>1. 0 \in Good
  <2>1. LinesUpTo(lines, 0) = {}
    BY DEF LinesUpTo
  <2> QED BY <2>1 DEF IsRun, InFront
<1>2. ASSUME NEW j \in Good PROVE j + 1 \in Good
  <2> SUFFICES ASSUME j + 1 <= n
               PROVE  /\ CacheOK(f[j + 1])
                      /\ InFront(f[j + 1], LinesUpTo(lines, j + 1))
                      /\ LinesUpTo(lines, j + 1) \in SUBSET Line
    OBVIOUS
  <2>1. /\ j \in Nat /\ j <= n /\ j + 1 \in 1..n /\ (j + 1) - 1 = j
        /\ lines[j + 1] \in Line
    OBVIOUS
  <2>2. CacheOK(f[j]) /\ InFront(f[j], LinesUpTo(lines, j)) /\ LinesUpTo(lines, j) \in SUBSET Line
    BY <2>1
  <2>3. f[j + 1] = Access(f[j], lines[j + 1])
    BY <2>1 DEF IsRun
  <2> HIDE DEF Good
  <2> QED BY <2>1, <2>2, <2>3, UpToNext, AccessOK, FrontStep
<1>3. Good = Nat
  <2>1. Good \in SUBSET Nat
    OBVIOUS
  <2> HIDE DEF Good
  <2> QED BY <1>1, <1>2, <2>1, SetInduction
<1> QED BY <1>3

(* The second time the lines of a loop are fetched they leave the cache as *)
(* the first time left it.                                                 *)
LEMMA SecondTime ==
  ASSUME NEW lines \in Seq(Line), NEW g, IsRun(g, lines, Len(lines)),
         NEW f, IsRun(f, lines, Len(lines)), f[0] = g[Len(lines)]
  PROVE  f[Len(lines)] = g[Len(lines)]
<1> DEFINE n == Len(lines)
           D == LinesUpTo(lines, n)
           c == g[n]
           Good == {j \in Nat : j <= n =>
                      /\ AgreeOn(f[j], g[j], Touched(LinesUpTo(lines, j)))
                      /\ AgreeOn(f[j], c, Line \ Touched(D))
                      /\ InFront(f[j], D)}
<1>1. n \in Nat /\ n \in 0..n /\ n \in 0..Len(lines)
  OBVIOUS
<1>2. /\ \A k \in 0..n : /\ CacheOK(f[k]) /\ InFront(f[k], LinesUpTo(lines, k))
                         /\ CacheOK(g[k]) /\ InFront(g[k], LinesUpTo(lines, k))
                         /\ LinesUpTo(lines, k) \in SUBSET Line
  BY <1>1, RunFacts
<1>3. CacheOK(c) /\ InFront(c, D) /\ D \in SUBSET Line
  BY <1>1, <1>2
<1>4. 0 \in Good
  <2>1. Touched(LinesUpTo(lines, 0)) = {}
    BY DEF LinesUpTo, Touched
  <2> QED BY <1>3, <2>1 DEF AgreeOn
<1>5. ASSUME NEW j \in Good PROVE j + 1 \in Good
  <2> SUFFICES ASSUME j + 1 <= n
               PROVE  /\ AgreeOn(f[j + 1], g[j + 1], Touched(LinesUpTo(lines, j + 1)))
                      /\ AgreeOn(f[j + 1], c, Line \ Touched(D))
                      /\ InFront(f[j + 1], D)
    OBVIOUS
  <2>1. /\ j \in Nat /\ j <= n /\ j \in 0..n /\ j + 1 \in 1..n /\ (j + 1) - 1 = j
        /\ lines[j + 1] \in Line
    BY <1>1
  <2>2. /\ AgreeOn(f[j], g[j], Touched(LinesUpTo(lines, j)))
        /\ AgreeOn(f[j], c, Line \ Touched(D))
        /\ InFront(f[j], D)
    BY <2>1
  <2>3. /\ f[j + 1] = Access(f[j], lines[j + 1])
        /\ g[j + 1] = Access(g[j], lines[j + 1])
    BY <2>1 DEF IsRun
  <2>4. lines[j + 1] \in D /\ D \cup {lines[j + 1]} = D
    BY <2>1 DEF LinesUpTo
  <2> HIDE DEF D, c, Good, n
  <2>5. AgreeOn(f[j + 1], g[j + 1], Touched(LinesUpTo(lines, j + 1)))
    BY <1>2, <2>1, <2>2, <2>3, UpToNext, SameStep
  <2>6. InFront(f[j + 1], D)
    <3>1. InFront(f[j + 1], D \cup {lines[j + 1]})
      BY <1>2, <1>3, <2>1, <2>2, <2>3, FrontStep
    <3> QED BY <2>4, <3>1
  <2>7. AgreeOn(f[j + 1], f[j], Line \ Touched(D))
    BY <1>2, <1>3, <2>1, <2>2, <2>3, <2>4, RestStep
  <2>8. AgreeOn(f[j + 1], c, Line \ Touched(D))
    BY <2>2, <2>7 DEF AgreeOn
  <2> QED BY <2>5, <2>6, <2>8
<1>6. Good = Nat
  <2>1. Good \in SUBSET Nat
    OBVIOUS
  <2> HIDE DEF Good
  <2> QED BY <1>4, <1>5, <2>1, SetInduction
<1>7. AgreeOn(f[n], c, Touched(D)) /\ AgreeOn(f[n], c, Line \ Touched(D))
  <2>1. n <= n
    BY <1>1
  <2>2. n \in Good
    <3> HIDE DEF Good, n
    <3> QED BY <1>1, <1>6
  <2> HIDE DEF n
  <2> QED BY <2>1, <2>2
<1>8. CacheOK(f[n]) /\ CacheOK(c)
  BY <1>1, <1>2
<1> HIDE DEF D, c, n
<1>9. AgreeOn(f[n], c, Line)
  BY <1>7 DEF AgreeOn
<1>10. /\ DOMAIN c \subseteq Line /\ c = [a \in DOMAIN c |-> c[a]]
       /\ DOMAIN f[n] \subseteq Line /\ f[n] = [a \in DOMAIN f[n] |-> f[n][a]]
  BY <1>8 DEF CacheOK, IsCache
<1>11. DOMAIN f[n] = DOMAIN c /\ \A a \in DOMAIN c : f[n][a] = c[a]
  BY <1>9, <1>10 DEF AgreeOn
<1>12. f[n] = c
  BY <1>10, <1>11
<1> QED BY <1>12 DEF c, n

(* The lines of a chain of nodes, and how many come before its i-th node.  *)
ChainLines(chain) == LinesOf(msg.lines, chain)

Before(chain, i) == LinesBefore(msg.lines, chain, i)

(* The lines of a node stand in those of the chain behind the lines of the *)
(* nodes before.                                                           *)
LEMMA ChainParts ==
  ASSUME msg \in CodeGraphs(Line), NEW chain \in Seq(Node), NEW i \in 1..Len(chain)
  PROVE  /\ ChainLines(chain) \in Seq(Line)
         /\ Before(chain, i) \in Nat /\ Before(chain, 1) = 0
         /\ Len(msg.lines[chain[i]]) \in Nat
         /\ Before(chain, i) + Len(msg.lines[chain[i]]) <= Len(ChainLines(chain))
         /\ i < Len(chain) => Before(chain, i + 1) = Before(chain, i) + Len(msg.lines[chain[i]])
         /\ i = Len(chain) => Len(ChainLines(chain)) = Before(chain, i) + Len(msg.lines[chain[i]])
         /\ \A k \in 1..Len(msg.lines[chain[i]]) :
              ChainLines(chain)[Before(chain, i) + k] = msg.lines[chain[i]][k]
<1>1. msg.lines \in [Node -> Seq(Line)]
  BY DEF CodeGraphs
<1> QED BY <1>1, LinesOfChain DEF ChainLines, Before

-----------------------------------------------------------------------------
(* A run of no line, and one of a line more.                               *)
LEMMA NewRun ==
  ASSUME NEW c, CacheOK(c), NEW lines
  PROVE  \E f : IsRun(f, lines, 0) /\ f[0] = c
<1> WITNESS [k \in {0} |-> c]
<1> QED BY DEF IsRun

LEMMA RunMore ==
  ASSUME NEW lines, NEW n \in Nat, NEW f, IsRun(f, lines, n)
  PROVE  \E h : /\ IsRun(h, lines, n + 1) /\ h[0] = f[0]
               /\ h[n + 1] = Access(f[n], lines[n + 1])
<1> DEFINE c == Access(f[n], lines[n + 1])
           h == [k \in 0..n + 1 |-> IF k = n + 1 THEN c ELSE f[k]]
<1>1. /\ \A k \in 0..n : h[k] = f[k]
      /\ h[n + 1] = c /\ (n + 1) - 1 = n
  OBVIOUS
<1>2. \A k \in 1..n + 1 : k - 1 \in 0..n /\ (k = n + 1 \/ k \in 1..n) /\ (k \in 1..n => k \in 0..n)
  OBVIOUS
<1> HIDE DEF h, c
<1>3. h[0] = f[0]
  BY <1>1
<1>4. IsRun(h, lines, n + 1)
  <2>1. CacheOK(h[0])
    BY <1>3 DEF IsRun
  <2>2. ASSUME NEW k \in 1..n + 1 PROVE h[k] = Access(h[k - 1], lines[k])
    <3>1. h[k - 1] = f[k - 1]
      BY <1>1, <1>2
    <3>2. CASE k = n + 1
      BY <1>1, <3>1, <3>2 DEF c
    <3>3. CASE k \in 1..n
      <4>1. h[k] = f[k]
        BY <1>1, <1>2, <3>3
      <4> QED BY <3>1, <3>3, <4>1 DEF IsRun
    <3> QED BY <1>2, <3>2, <3>3
  <2> QED BY <2>1, <2>2 DEF IsRun
<1> QED BY <1>1, <1>3, <1>4 DEF c

-----------------------------------------------------------------------------
(* The paths on which the states are proved sound: those without a         *)
(* BackwardJump, and all paths of a graph whose loops are peeled.          *)
Followed == ~looped \/ LoopsArePeeled(msg, msg.lines, Seq(Node))

(* How many lines of a chain have been fetched at its i-th node, and that  *)
(* fetching them made the cache what it is.                                *)
Position(chain, i) == Before(chain, i) + fetched

WalkedTo(f, chain, i) ==
  IsRun(f, ChainLines(chain), Position(chain, i)) /\ f[Position(chain, i)] = cache

(* Who is in a chain came from its first node.                             *)
ChainRuns ==
  \A chain \in Seq(Node) : IsChain(msg, chain) =>
    \A i \in 1..Len(chain) : at = chain[i] => \E f : WalkedTo(f, chain, i)

(* The lines of the body have been fetched before the current iteration    *)
(* (by the peeled iteration or the last one), and it began with a cache    *)
(* that the state of the loop's head describes.                            *)
Iterates(body, i, f, g) ==
  /\ WalkedTo(f, body, i)
  /\ IsRun(g, ChainLines(body), Len(ChainLines(body)))
  /\ f[0] = g[Len(ChainLines(body))]
  /\ \A analysis : Covered(analysis) /\ (analysis = "MUST" \/ body[1] # Exit)
       => Bounds(memState[body[1]], f[0], analysis)

LoopRuns ==
  phase = "done" /\ LoopsArePeeled(msg, msg.lines, Seq(Node)) =>
    \A first, body \in Seq(Node) : IsPeeledLoop(msg, msg.lines, first, body) =>
      \A i \in 1..Len(body) : at = body[i] => \E f, g : Iterates(body, i, f, g)

(* At the entry nothing has been walked: no edge leads there.              *)
LEMMA EntryRuns ==
  msg \in CodeGraphs(Line) /\ at = Entry /\ fetched = 0 /\ CacheOK(cache)
    => ChainRuns /\ LoopRuns
<1> SUFFICES ASSUME msg \in CodeGraphs(Line), at = Entry, fetched = 0, CacheOK(cache)
             PROVE  ChainRuns /\ LoopRuns
  OBVIOUS
<1>1. ChainRuns
  <2> SUFFICES ASSUME NEW chain \in Seq(Node), IsChain(msg, chain),
                      NEW i \in 1..Len(chain), Entry = chain[i]
               PROVE  \E f : WalkedTo(f, chain, i)
    BY DEF ChainRuns
  <2>1. i = 1
    <3>1. i = 1 \/ i \in 2..Len(chain)
      OBVIOUS
    <3> QED BY <3>1 DEF IsChain, EnteredFrom
  <2>2. Position(chain, i) = 0
    BY <2>1, ChainParts DEF Position
  <2> QED BY <2>2, NewRun DEF WalkedTo
<1>2. ASSUME NEW first \in Seq(Node), NEW body \in Seq(Node), IsPeeledLoop(msg, msg.lines, first, body),
             NEW i \in 1..Len(body)
      PROVE  body[i] # Entry
  <2>1. i = 1 \/ i \in 2..Len(body)
    OBVIOUS
  <2> QED BY <1>2, <2>1 DEF IsPeeledLoop, IsChain, EnteredFrom
<1>3. LoopRuns
  BY <1>2 DEF LoopRuns
<1> QED BY <1>1, <1>3

-----------------------------------------------------------------------------
(* The inductive invariant of the execution: the solution of the analysis, *)
(* what the states without one are, and the promise at the program point.  *)
StateSound(analysis) ==
  phase = "done" /\ Followed /\ (analysis = "MUST" \/ at # Exit)
    => Bounds(AbstractCache, cache, analysis)

(* The fetches of the node so far that pay for a miss.                     *)
Paid == {i \in 1..fetched : Category(at, i) # "hit"}

StatesOK ==
  \A n \in Node :
    /\ StateOK(memState[n])
    /\ memStateVal[n] \/ memState[n] = BlankMemState

MachineOK ==
  /\ at \in Node
  /\ fetched \in 0..Len(msg.lines[at])
  /\ CacheOK(cache)
  /\ missed \in 0..fetched
  /\ looped \in BOOLEAN

NotStarted ==
  phase = "analyze" => /\ at = Entry
                       /\ fetched = 0
                       /\ cache = FlushedCache
                       /\ missed = 0

XInv ==
  /\ Inv
  /\ AllNodesAnalyzed
  /\ StatesOK
  /\ MachineOK
  /\ NotStarted
  /\ phase = "done" => penalty = [n \in Node |-> CachePenalty(n)]
  /\ \A analysis : Covered(analysis) => StateSound(analysis)
  /\ phase = "done" /\ Followed => missed <= Cardinality(Paid)
  /\ ChainRuns
  /\ LoopRuns

(* A flushed cache is described by the blank state; and the blank must set *)
(* describes every cache.                                                  *)
LEMMA BlankBounds ==
  /\ CacheOK(FlushedCache)
  /\ \A analysis : Bounds(BlankMemState, FlushedCache, analysis)
  /\ \A c : Bounds(BlankMemState, c, "MUST")
<1>1. CacheOK(FlushedCache)
  BY DEF CacheOK, Indexed, IsCache, FlushedCache
<1>2. MustBounds(BlankMemState.must, FlushedCache)
  BY DEF MustBounds, BlankMemState
<1>3. MayBounds(BlankMemState.may, FlushedCache)
  BY DEF MayBounds, FlushedCache
<1>4. \A c : MustBounds(BlankMemState.must, c)
  BY DEF MustBounds, BlankMemState
<1> QED BY <1>1, <1>2, <1>3, <1>4 DEF Bounds

(* The state of the entry is blank, computed or not.                       *)
LEMMA EntryBlank == Inv /\ StatesOK => memState[Entry] = BlankMemState
<1> SUFFICES ASSUME Inv, StatesOK PROVE memState[Entry] = BlankMemState
  OBVIOUS
<1>1. Entry \in Node
  BY GraphAssumption, EndsAssumption
<1>2. memStateVal[Entry] => memState[Entry] = FlowValue(Entry)
  BY <1>1 DEF Inv, FlowConsistent
<1> QED BY <1>1, <1>2 DEF StatesOK, FlowValue

(* The state before the first line of a node is the state of the node, the *)
(* one after the last line is the state after the node.                    *)
LEMMA FirstState ==
  Inv /\ StatesOK =>
    \A n \in Node : UpdateAlong(memState[n], msg.lines[n])[0] = memState[n]
<1> SUFFICES ASSUME Inv, StatesOK, NEW n \in Node
             PROVE  UpdateAlong(memState[n], msg.lines[n])[0] = memState[n]
  OBVIOUS
<1>1. memState[n] \in AbsStates /\ msg.lines[n] \in Seq(Line)
  BY GraphFacts DEF StatesOK, StateOK, Inv
<1> QED BY <1>1, UpdateAlongTrace

(* The state after the last line of a node is the state after the node.    *)
LEMMA LastState ==
  Inv /\ StatesOK =>
    \A n \in Node :
      UpdateAlong(memState[n], msg.lines[n])[Len(msg.lines[n])] = StateAfter(n)
BY DEF StateAfter, UpdateLines

(* The program starts with the invariant.                                  *)
LEMMA ExecInitInv == ExecInit => XInv
<1> SUFFICES ASSUME ExecInit PROVE XInv
  OBVIOUS
<1>1. Inv /\ Init
  BY InitInv DEF ExecInit
<1>2. phase = "analyze" /\ AllNodesAnalyzed
  BY <1>1 DEF Init, AllNodesAnalyzed
<1>3. StatesOK
  BY <1>1, BlankOK DEF Init, StatesOK
<1>4. MachineOK /\ NotStarted
  <2>1. 0 \in 0..Len(msg.lines[Entry])
    <3>1. msg.lines[Entry] \in Seq(Line)
      BY <1>1, GraphFacts, GraphAssumption, EndsAssumption DEF Inv
    <3> QED BY <3>1
  <2>2. /\ at = Entry /\ fetched = 0 /\ cache = FlushedCache
        /\ missed = 0 /\ looped = FALSE
    BY DEF ExecInit
  <2>3. CacheOK(cache)
    BY <2>2, BlankBounds
  <2>4. missed \in 0..fetched /\ looped \in BOOLEAN
    <3>1. missed \in 0..fetched
      BY <2>2
    <3>2. looped \in BOOLEAN
      BY <2>2, Zenon
    <3> QED BY <3>1, <3>2
  <2>5. at \in Node
    BY <2>2, GraphAssumption, EndsAssumption
  <2>6. fetched \in 0..Len(msg.lines[at])
    BY <2>1, <2>2
  <2> QED BY <2>2, <2>3, <2>4, <2>5, <2>6 DEF MachineOK, NotStarted
<1>5. \A analysis : StateSound(analysis)
  BY <1>2 DEF StateSound
<1>6. ChainRuns /\ LoopRuns
  <2>1. msg \in CodeGraphs(Line)
    BY <1>1, GraphAssumption DEF Inv, IsCodeGraph
  <2> QED BY <1>4, <2>1, EntryRuns DEF MachineOK, ExecInit
<1> QED BY <1>1, <1>2, <1>3, <1>4, <1>5, <1>6 DEF XInv

(* An action of the analysis changes no computed state, so it leaves what  *)
(* the execution relies on.                                                *)
LEMMA AnalyseStates ==
  ASSUME Inv, StatesOK, Next
  PROVE  StatesOK'
<1>1. CASE DropNode
  BY <1>1 DEF DropNode, StatesOK
<1>2. CASE CalculateCachePenalty
  BY <1>2 DEF CalculateCachePenalty, StatesOK
<1>3. CASE JoinAndSetInitialMemState \/ SetInitialMemState
  <2>1. Process
    BY <1>3, ProcessStep
  <2>2. /\ Actual \in Node /\ memState'[Actual] = FlowValue(Actual) /\ memStateVal'[Actual]
        /\ \A n \in Node \ {Actual} : /\ memState'[n] = memState[n]
                                     /\ memStateVal'[n] = memStateVal[n]
    BY <2>1, ProcessEffect
  <2>3. msg \in MSGs /\ TypeOK /\ processing # << >>
    BY <2>1 DEF Inv, Process
  <2>4. Actual = Entry \/ Len(Predecessors(Actual)) > 0
    BY <2>3, ActualFacts
  <2>5. StateOK(FlowValue(Actual))
    BY <2>2, <2>3, <2>4, FlowValueBounds DEF StatesOK
  <2> QED BY <2>2, <2>5 DEF StatesOK
<1> QED BY <1>1, <1>2, <1>3 DEF Next

(* While the analysis runs the machine waits at the entry, flushed.        *)
LEMMA AnalyseInv ==
  ASSUME XInv, Analyse
  PROVE  XInv'
<1>1. Inv /\ StatesOK /\ Next /\ UNCHANGED execVars
  BY DEF XInv, Analyse
<1>2. Inv' /\ StatesOK'
  BY <1>1, NextInv, AnalyseStates
<1>3. phase = "analyze" /\ msg' = msg
  BY <1>1 DEF Next, DropNode, JoinAndSetInitialMemState, SetInitialMemState, CalculateCachePenalty
<1>4. AllNodesAnalyzed'
  BY <1>2, InvAnalyzed, PTL
<1>5. MachineOK' /\ (at = Entry /\ fetched = 0 /\ cache = FlushedCache /\ missed = 0)
  BY <1>1, <1>3 DEF XInv, MachineOK, NotStarted, execVars
<1>6. NotStarted'
  BY <1>1, <1>5 DEF NotStarted, execVars
<1>7. phase' = "done" => penalty' = [n \in Node |-> CachePenalty(n)']
  <2>1. CASE CalculateCachePenalty
    BY <2>1 DEF CalculateCachePenalty, CachePenalty, Category
  <2>2. CASE ~CalculateCachePenalty
    BY <1>1, <1>3, <2>2 DEF Next, DropNode, JoinAndSetInitialMemState, SetInitialMemState
  <2> QED BY <2>1, <2>2
<1>8. ASSUME NEW analysis PROVE StateSound(analysis)'
  <2>1. memState'[Entry] = BlankMemState
    <3>1. (memState[Entry] = BlankMemState)'
      BY <1>2, EntryBlank, PTL
    <3> QED BY <3>1
  <2>2. AbstractCache' = memState'[Entry]
    <3>1. (\A n \in Node : UpdateAlong(memState[n], msg.lines[n])[0] = memState[n])'
      BY <1>2, FirstState, PTL
    <3> QED BY <1>1, <1>5, <3>1, GraphAssumption, EndsAssumption DEF AbstractCache, execVars
  <2>3. Bounds(AbstractCache', cache', analysis)
    BY <1>1, <1>5, <2>1, <2>2, BlankBounds DEF execVars
  <2> QED BY <2>3 DEF StateSound, Bounds, MustBounds, MayBounds
<1>9. missed' <= Cardinality(Paid)'
  <2>1. Paid' = {}
    BY <1>1, <1>5 DEF Paid, execVars
  <2> QED BY <1>1, <1>5, <2>1, FS_EmptySet DEF execVars
<1>10. (ChainRuns /\ LoopRuns)'
  <2>1. (msg \in CodeGraphs(Line))'
    BY <1>2, GraphAssumption DEF Inv, IsCodeGraph
  <2>2. (at = Entry /\ fetched = 0 /\ CacheOK(cache))'
    BY <1>1, <1>5 DEF MachineOK, execVars
  <2> QED BY <2>1, <2>2, EntryRuns, PTL
<1> QED BY <1>2, <1>4, <1>5, <1>6, <1>7, <1>8, <1>9, <1>10 DEF XInv

(* What a step of the machine leaves of the analysis.                      *)
LEMMA AnalysisKept ==
  ASSUME XInv, UNCHANGED vars
  PROVE  /\ Inv' /\ AllNodesAnalyzed' /\ StatesOK'
         /\ phase' = "done" => penalty' = [n \in Node |-> CachePenalty(n)]'
         /\ \A n, i : Category(n, i)' = Category(n, i)
<1>1. UNCHANGED <<msg, processing, memState, memStateVal, penalty, phase>>
  BY DEF vars
<1>2. Inv'
  BY NextInv DEF XInv
<1>3. AllNodesAnalyzed'
  BY <1>2, InvAnalyzed, PTL
<1>4. StatesOK'
  BY <1>1 DEF XInv, StatesOK
<1>5. phase' = "done" => penalty' = [n \in Node |-> CachePenalty(n)]'
  BY <1>1 DEF XInv, CachePenalty, Category
<1>6. \A n, i : Category(n, i)' = Category(n, i)
  BY <1>1 DEF Category
<1> QED BY <1>2, <1>3, <1>4, <1>5, <1>6

(* A fetch goes one line further along the chain.                          *)
LEMMA WalkOn ==
  ASSUME msg \in CodeGraphs(Line), MachineOK, Fetch, NEW chain \in Seq(Node),
         NEW i \in 1..Len(chain), at = chain[i], NEW f, WalkedTo(f, chain, i)
  PROVE  \E h : WalkedTo(h, chain, i)' /\ h[0] = f[0]
<1> DEFINE W == ChainLines(chain)
           p == Position(chain, i)
<1>1. /\ cache' = Access(cache, msg.lines[at][fetched + 1])
      /\ fetched' = fetched + 1 /\ fetched < Len(msg.lines[at])
      /\ msg' = msg
  BY DEF Fetch, vars
<1>2. /\ Before(chain, i) \in Nat /\ Len(msg.lines[at]) \in Nat
      /\ \A k \in 1..Len(msg.lines[at]) : W[Before(chain, i) + k] = msg.lines[at][k]
  BY ChainParts
<1>3. /\ fetched \in Nat /\ fetched + 1 \in 1..Len(msg.lines[at])
  BY <1>1, <1>2 DEF MachineOK
<1>4. p \in Nat /\ p + 1 = Before(chain, i) + (fetched + 1)
  <2>1. p = Before(chain, i) + fetched
    BY DEF Position
  <2> HIDE DEF W, p
  <2> QED BY <1>2, <1>3, <2>1
<1>5. W[p + 1] = msg.lines[at][fetched + 1]
  BY <1>2, <1>3, <1>4
<1>6. /\ ChainLines(chain)' = W /\ Before(chain, i)' = Before(chain, i)
  BY <1>1 DEF ChainLines, Before
<1>7. Position(chain, i)' = p + 1
  BY <1>1, <1>4, <1>6 DEF Position
<1>8. IsRun(f, W, p) /\ f[p] = cache
  BY DEF WalkedTo
<1> HIDE DEF W, p
<1>9. cache' = Access(f[p], W[p + 1])
  BY <1>1, <1>5, <1>8
<1>10. PICK h : IsRun(h, W, p + 1) /\ h[p + 1] = cache' /\ h[0] = f[0]
  <2>1. PICK h : /\ IsRun(h, W, p + 1) /\ h[0] = f[0]
                 /\ h[p + 1] = Access(f[p], W[p + 1])
    BY <1>4, <1>8, RunMore
  <2> QED BY <1>9, <2>1
<1>11. WalkedTo(h, chain, i)'
  BY <1>6, <1>7, <1>10 DEF WalkedTo
<1> QED BY <1>10, <1>11

(* Behind a node of a chain the walk goes on with the next one.            *)
LEMMA WalkAcross ==
  ASSUME msg \in CodeGraphs(Line), TakeEdge, NEW chain \in Seq(Node),
         NEW i \in 2..Len(chain), at = chain[i - 1], NEW f, WalkedTo(f, chain, i - 1)
  PROVE  WalkedTo(f, chain, i)'
<1>1. /\ fetched = Len(msg.lines[at]) /\ fetched' = 0 /\ cache' = cache /\ msg' = msg
  BY DEF TakeEdge, vars
<1>2. i - 1 \in 1..Len(chain) /\ i - 1 < Len(chain) /\ (i - 1) + 1 = i /\ i \in 1..Len(chain)
  OBVIOUS
<1>3. /\ Before(chain, i) = Before(chain, i - 1) + fetched
      /\ Before(chain, i) \in Nat
  BY <1>1, <1>2, ChainParts
<1>4. ChainLines(chain)' = ChainLines(chain) /\ Before(chain, i)' = Before(chain, i)
  BY <1>1 DEF ChainLines, Before
<1>5. Position(chain, i)' = Position(chain, i - 1)
  BY <1>1, <1>3, <1>4 DEF Position
<1> QED BY <1>1, <1>4, <1>5 DEF WalkedTo

(* Behind its last node all lines of the chain have been fetched.          *)
LEMMA WalkEnds ==
  ASSUME msg \in CodeGraphs(Line), TakeEdge, NEW chain \in Seq(Node), chain # << >>,
         NEW f, WalkedTo(f, chain, Len(chain)), at = chain[Len(chain)]
  PROVE  IsRun(f, ChainLines(chain), Len(ChainLines(chain)))
         /\ f[Len(ChainLines(chain))] = cache
<1>1. fetched = Len(msg.lines[at]) /\ Len(chain) \in 1..Len(chain)
  BY DEF TakeEdge
<1>2. Position(chain, Len(chain)) = Len(ChainLines(chain))
  BY <1>1, ChainParts DEF Position
<1> QED BY <1>2 DEF WalkedTo

(* The fetch of a line: the abstract cache follows the real one, and only  *)
(* a fetch that the must set does not hold can miss.                       *)
LEMMA FetchInv ==
  ASSUME XInv, Fetch
  PROVE  XInv'
<1> DEFINE lines == msg.lines[at]
           addr == lines[fetched + 1]
           u == UpdateAlong(memState[at], lines)
<1>1. /\ phase = "done" /\ fetched < Len(lines)
      /\ cache' = Access(cache, addr)
      /\ missed' = IF addr \in DOMAIN cache THEN missed ELSE missed + 1
      /\ fetched' = fetched + 1
      /\ UNCHANGED vars /\ at' = at /\ looped' = looped
  BY DEF Fetch
<1>2. /\ Inv' /\ AllNodesAnalyzed' /\ StatesOK'
      /\ phase' = "done" => penalty' = [n \in Node |-> CachePenalty(n)]'
      /\ \A n, i : Category(n, i)' = Category(n, i)
  BY <1>1, AnalysisKept
<1>3. /\ at \in Node /\ fetched \in 0..Len(lines) /\ CacheOK(cache)
      /\ missed \in 0..fetched /\ looped \in BOOLEAN
      /\ msg \in MSGs /\ StateOK(memState[at])
      /\ phase' = phase /\ msg' = msg /\ memState' = memState
  BY <1>1 DEF XInv, MachineOK, Inv, StatesOK, vars
<1>4. lines \in Seq(Line) /\ Len(lines) \in Nat
  <2>1. lines \in Seq(Line)
    BY <1>3, GraphFacts
  <2> QED BY <2>1
<1>5. fetched + 1 \in 1..Len(lines) /\ (fetched + 1) - 1 = fetched /\ addr \in Line
  BY <1>1, <1>3, <1>4
<1>6. CacheOK(cache')
  BY <1>1, <1>3, <1>5, AccessOK
<1>7. u[fetched + 1] = Update(u[fetched], addr) /\ StateOK(u[fetched])
  <2> HIDE DEF lines
  <2>1. memState[at] \in AbsStates
    BY <1>3 DEF StateOK
  <2>2. \A k \in 1..Len(lines) : u[k] = Update(u[k - 1], lines[k])
    BY <1>4, <2>1, UpdateAlongTrace
  <2>3. StateOK(u[fetched])
    BY <1>3, <1>4, UpdateAlongOK
  <2> QED BY <1>5, <2>2, <2>3
<1>8. AbstractCache = u[fetched] /\ AbstractCache' = u[fetched + 1]
  BY <1>1, <1>3 DEF AbstractCache
<1> HIDE DEF u
<1>12. Followed' = Followed
  BY <1>1, <1>3 DEF Followed
<1>9. ASSUME NEW analysis, Covered(analysis)
      PROVE  StateSound(analysis)'
  <2> SUFFICES ASSUME Followed, analysis = "MUST" \/ at # Exit
               PROVE  Bounds(u[fetched + 1], Access(cache, addr), analysis)
    BY <1>1, <1>8, <1>12 DEF StateSound, Bounds, MustBounds, MayBounds
  <2>1. Bounds(u[fetched], cache, analysis)
    BY <1>1, <1>8, <1>9 DEF XInv, StateSound
  <2> HIDE DEF addr
  <2> QED BY <1>3, <1>5, <1>7, <2>1, UpdateBounds
<1>10. MachineOK' /\ NotStarted'
  <2>1. fetched' \in 0..Len(lines) /\ missed' \in 0..fetched'
    <3> HIDE DEF lines, addr
    <3> QED BY <1>1, <1>3, <1>4
  <2>2. phase' # "analyze"
    BY <1>1, <1>3
  <2> QED BY <1>1, <1>3, <1>6, <2>1, <2>2 DEF MachineOK, NotStarted
<1>11. ASSUME Followed
       PROVE  missed' <= Cardinality(Paid')
  <2>1. missed <= Cardinality(Paid)
    BY <1>1, <1>11 DEF XInv
  <2>2. Paid' = {i \in 1..fetched + 1 : Category(at, i) # "hit"}
    BY <1>1, <1>2 DEF Paid
  <2>3. IsFiniteSet(Paid) /\ Cardinality(Paid) \in Nat /\ fetched + 1 \notin Paid
    <3>1. IsFiniteSet(1..fetched)
      BY <1>3, <1>4, FS_Interval
    <3>2. IsFiniteSet(Paid)
      BY <3>1, FS_Subset DEF Paid
    <3>3. fetched + 1 \notin 1..fetched
      BY <1>3, <1>4
    <3> QED BY <3>2, <3>3, FS_CardinalityType DEF Paid
  <2>4. CASE Category(at, fetched + 1) = "hit"
    <3>1. addr \in DOMAIN u[fetched].must
      BY <1>5, <2>4 DEF Category, isInSet, u
    <3>2. Bounds(u[fetched], cache, "MUST")
      BY <1>1, <1>8, <1>11 DEF XInv, StateSound, Covered
    <3>3. addr \in DOMAIN cache
      BY <3>1, <3>2 DEF Bounds, MustBounds
    <3>4. Paid' = Paid
      <4>1. \A i \in 1..fetched + 1 : i \in 1..fetched \/ i = fetched + 1
        BY <1>3, <1>4
      <4>2. \A i \in 1..fetched : i \in 1..fetched + 1
        BY <1>3, <1>4
      <4> QED BY <2>2, <2>4, <4>1, <4>2 DEF Paid
    <3> QED BY <1>1, <2>1, <3>3, <3>4
  <2>5. CASE Category(at, fetched + 1) # "hit"
    <3>1. Paid' = Paid \cup {fetched + 1}
      <4>1. \A i : i \in 1..fetched + 1 <=> i \in 1..fetched \/ i = fetched + 1
        BY <1>3, <1>4
      <4> QED BY <2>2, <2>5, <4>1 DEF Paid
    <3>2. Cardinality(Paid') = Cardinality(Paid) + 1
      BY <2>3, <3>1, FS_AddElement
    <3>3. missed' <= missed + 1 /\ missed \in Nat /\ missed' \in Nat
      BY <1>1, <1>3, <1>4
    <3> QED BY <1>3, <2>1, <2>3, <3>2, <3>3
  <2> QED BY <2>4, <2>5
<1>13. msg \in CodeGraphs(Line) /\ MachineOK
  BY <1>3, GraphAssumption DEF XInv, IsCodeGraph
<1>14. ChainRuns'
  <2> SUFFICES ASSUME NEW chain \in Seq(Node), IsChain(msg, chain),
                      NEW i \in 1..Len(chain), at = chain[i]
               PROVE  \E f : WalkedTo(f, chain, i)'
    BY <1>1, <1>3 DEF ChainRuns
  <2>1. PICK f : WalkedTo(f, chain, i)
    BY DEF XInv, ChainRuns
  <2> QED BY <1>13, <2>1, WalkOn
<1>15. LoopRuns'
  <2> SUFFICES ASSUME LoopsArePeeled(msg, msg.lines, Seq(Node)),
                      NEW first \in Seq(Node), NEW body \in Seq(Node),
                      IsPeeledLoop(msg, msg.lines, first, body), NEW i \in 1..Len(body), at = body[i]
               PROVE  \E f, g : Iterates(body, i, f, g)'
    BY <1>1, <1>3 DEF LoopRuns
  <2>1. PICK f, g : Iterates(body, i, f, g)
    BY <1>1 DEF XInv, LoopRuns
  <2>2. PICK h : WalkedTo(h, body, i)' /\ h[0] = f[0]
    BY <1>13, <2>1, WalkOn DEF Iterates
  <2>3. Iterates(body, i, h, g)'
    BY <1>3, <2>1, <2>2 DEF Iterates, ChainLines, Bounds, MustBounds, MayBounds
  <2> QED BY <2>3
<1> QED BY <1>1, <1>2, <1>9, <1>10, <1>11, <1>12, <1>14, <1>15 DEF XInv

(* Control flows along an edge: over a forward edge the state of the node  *)
(* entered joins that of the node left, over a BackwardJump the cache is   *)
(* the one the iteration began with.                                       *)
LEMMA TakeEdgeInv ==
  ASSUME XInv, TakeEdge
  PROVE  XInv'
<1>1. PICK i \in 1..Len(msg.out[at]) :
        /\ at' = msg.out[at][i].node
        /\ looped' = (looped \/ msg.out[at][i].type = "BackwardJump")
  BY DEF TakeEdge
<1>2. /\ phase = "done" /\ fetched = Len(msg.lines[at])
      /\ fetched' = 0 /\ missed' = 0 /\ UNCHANGED vars /\ cache' = cache
  BY DEF TakeEdge
<1>3. /\ Inv' /\ AllNodesAnalyzed' /\ StatesOK'
      /\ phase' = "done" => penalty' = [n \in Node |-> CachePenalty(n)]'
  BY <1>2, AnalysisKept
<1>4. /\ at \in Node /\ CacheOK(cache) /\ looped \in BOOLEAN
      /\ msg \in MSGs /\ TypeOK /\ FlowConsistent /\ IsCodeGraph(msg, Line)
      /\ \A m \in Node : StateOK(memState[m])
      /\ phase' = phase /\ msg' = msg /\ memState' = memState
  BY <1>2, GraphAssumption, EndsAssumption DEF XInv, MachineOK, Inv, StatesOK, vars
<1>5. msg.out[at] \in Seq(Edges) /\ msg.out[at][i] \in Edges /\ at' \in Node
  <2>1. msg.out[at] \in Seq(Edges)
    BY <1>4 DEF TypeOK, CodeGraphs
  <2>2. msg.out[at][i] \in Edges
    BY <1>1, <2>1
  <2> QED BY <1>1, <2>1, <2>2 DEF Edges
<1>6. at # Exit
  <2>1. msg.out[Exit] = << >>
    BY <1>4 DEF IsCodeGraph, IsFlowGraph, ForwardAcyclic
  <2> QED BY <1>1, <2>1
<1>7. MachineOK' /\ NotStarted'
  <2>1. 0 \in 0..Len(msg.lines[at'])
    <3>1. msg.lines[at'] \in Seq(Line)
      BY <1>4, <1>5, GraphFacts
    <3> QED BY <3>1
  <2>2. looped' \in BOOLEAN
    BY <1>1, Zenon
  <2>3. 0 \in 0..0
    OBVIOUS
  <2> QED BY <1>2, <1>4, <1>5, <2>1, <2>2, <2>3 DEF MachineOK, NotStarted
<1>8. AbstractCache' = memState[at']
  <2>1. UpdateAlong(memState[at'], msg.lines[at'])[0] = memState[at']
    BY <1>5, FirstState DEF XInv
  <2> QED BY <1>2, <1>4, <2>1 DEF AbstractCache
<1>13. msg \in CodeGraphs(Line) /\ TakeEdge /\ CacheOK(cache)
  BY <1>4 DEF IsCodeGraph
<1>9. ASSUME NEW analysis, Covered(analysis)
      PROVE  StateSound(analysis)'
  <2> SUFFICES ASSUME Followed', analysis = "MUST" \/ at' # Exit
               PROVE  Bounds(memState[at'], cache, analysis)
    BY <1>2, <1>8 DEF StateSound, Bounds, MustBounds, MayBounds
  <2>0. CASE msg.out[at][i].type = "BackwardJump"
    <3>1. msg.out[at][i] = [node |-> at', type |-> "BackwardJump"]
      BY <1>1, <1>5, <2>0 DEF Edges
    <3>2. LoopsArePeeled(msg, msg.lines, Seq(Node)) /\ HasBackEdge(msg, at, at')
      BY <1>1, <1>4, <2>0, <3>1 DEF Followed, HasBackEdge
    <3>3. PICK first \in Seq(Node), body \in Seq(Node) :
            IsPeeledLoop(msg, msg.lines, first, body) /\ body[1] = at' /\ body[Len(body)] = at
      BY <1>4, <1>5, <3>2 DEF LoopsArePeeled
    <3>4. body # << >> /\ Len(body) \in 1..Len(body)
      BY <3>3 DEF IsPeeledLoop, IsChain
    <3>5. PICK f, g : Iterates(body, Len(body), f, g)
      BY <1>2, <3>2, <3>3, <3>4 DEF XInv, LoopRuns
    <3>6. IsRun(f, ChainLines(body), Len(ChainLines(body))) /\ f[Len(ChainLines(body))] = cache
      BY <1>13, <3>3, <3>4, <3>5, WalkEnds DEF Iterates
    <3>7. ChainLines(body) \in Seq(Line)
      BY <1>13, <3>4, ChainParts
    <3>8. cache = f[0]
      BY <3>5, <3>6, <3>7, SecondTime DEF Iterates
    <3>9. Bounds(memState[at'], f[0], analysis)
      BY <1>9, <3>3, <3>5 DEF Iterates
    <3> QED BY <3>8, <3>9
  <2> SUFFICES ASSUME msg.out[at][i].type # "BackwardJump"
               PROVE  Bounds(memState[at'], cache, analysis)
    BY <2>0
  <2>1. Followed /\ HasForwardEdge(msg.in[at'], at)
    <3>1. Followed /\ msg.out[at][i].type # "BackwardJump"
      BY <1>1, <1>4 DEF Followed
    <3>2. HasForwardEdge(msg.out[at], at')
      BY <1>1, <3>1 DEF HasForwardEdge
    <3> QED BY <1>4, <1>5, <3>1, <3>2 DEF IsCodeGraph, IsFlowGraph, ForwardAcyclic
  <2>2. Bounds(StateAfter(at), cache, analysis)
    <3>1. Bounds(AbstractCache, cache, analysis)
      BY <1>2, <1>6, <1>9, <2>1 DEF XInv, StateSound
    <3>2. AbstractCache = StateAfter(at)
      BY <1>2, <1>4, LastState DEF XInv, AbstractCache
    <3> QED BY <3>1, <3>2
  <2>3. CASE memStateVal[at']
    <3>1. memState[at'] = FlowValue(at')
      BY <1>4, <1>5, <2>3 DEF FlowConsistent
    <3>2. Len(Predecessors(at')) > 0
      <4>1. \E j \in 1..Len(Predecessors(at')) : Predecessors(at')[j] = at
        BY <1>4, <1>5, <2>1, GraphFacts
      <4>2. Predecessors(at') \in Seq(Node)
        BY <1>4, <1>5, GraphFacts
      <4> QED BY <4>1, <4>2
    <3> QED BY <1>4, <1>5, <1>9, <2>1, <2>2, <3>1, <3>2, FlowValueBounds
  <2>4. CASE ~memStateVal[at']
    <3>1. memState[at'] = BlankMemState
      BY <1>5, <2>4 DEF XInv, StatesOK
    <3>2. analysis = "MUST"
      <4> SUFFICES ASSUME analysis # "MUST" PROVE FALSE
        OBVIOUS
      <4>1. ForwardConnected(msg) /\ at' \in Node \ {Exit}
        BY <1>4, <1>5, <1>9 DEF Covered
      <4> QED BY <1>2, <2>4, <4>1 DEF XInv, AllNodesAnalyzed
    <3> QED BY <3>1, <3>2, BlankBounds
  <2> QED BY <2>3, <2>4
<1>10. missed' <= Cardinality(Paid)'
  <2>1. Paid' = {}
    BY <1>2 DEF Paid
  <2> QED BY <1>2, <2>1, FS_EmptySet
<1>11. HasEdge(msg, at, at')
  BY <1>1 DEF HasEdge
<1>12. ASSUME NEW chain \in Seq(Node), chain # << >>
       PROVE  \E f : WalkedTo(f, chain, 1)' /\ f[0] = cache
  <2>1. Before(chain, 1)' = 0
    <3>1. 1 \in 1..Len(chain)
      BY <1>12
    <3>2. Before(chain, 1) = 0
      BY <1>13, <3>1, ChainParts
    <3> QED BY <1>4, <3>2 DEF Before
  <2>2. Position(chain, 1)' = 0
    BY <1>2, <2>1 DEF Position
  <2>3. PICK f : IsRun(f, ChainLines(chain)', 0) /\ f[0] = cache
    BY <1>13, NewRun
  <2> QED BY <1>2, <2>2, <2>3 DEF WalkedTo
<1>14. ChainRuns'
  <2> SUFFICES ASSUME NEW chain \in Seq(Node), IsChain(msg, chain),
                      NEW j \in 1..Len(chain), at' = chain[j]
               PROVE  \E f : WalkedTo(f, chain, j)'
    BY <1>4 DEF ChainRuns
  <2>1. CASE j = 1
    BY <1>12, <2>1 DEF IsChain
  <2>2. CASE j # 1
    <3>1. j \in 2..Len(chain) /\ j - 1 \in 1..Len(chain)
      BY <2>2
    <3>2. at = chain[j - 1]
      BY <1>4, <1>11, <3>1 DEF IsChain, EnteredFrom
    <3>3. PICK f : WalkedTo(f, chain, j - 1)
      BY <3>1, <3>2 DEF XInv, ChainRuns
    <3> QED BY <1>13, <3>1, <3>2, <3>3, WalkAcross
  <2> QED BY <2>1, <2>2
<1>15. LoopRuns'
  <2> SUFFICES ASSUME LoopsArePeeled(msg, msg.lines, Seq(Node)),
                      NEW first \in Seq(Node), NEW body \in Seq(Node),
                      IsPeeledLoop(msg, msg.lines, first, body), NEW j \in 1..Len(body), at' = body[j]
               PROVE  \E f, g : Iterates(body, j, f, g)'
    BY <1>4 DEF LoopRuns
  <2> DEFINE W == ChainLines(body)
  <2>1. /\ IsChain(msg, body) /\ body # << >> /\ Len(body) \in 1..Len(body)
        /\ IsChain(msg, first) /\ first # << >> /\ Len(first) \in 1..Len(first)
        /\ ChainLines(first) = W
        /\ EnteredFrom(msg, body[1], {first[Len(first)], body[Len(body)]})
    <3>1. /\ IsChain(msg, body) /\ IsChain(msg, first)
          /\ EnteredFrom(msg, body[1], {first[Len(first)], body[Len(body)]})
          /\ LinesAlong(msg.lines, first)[Len(first)] = LinesAlong(msg.lines, body)[Len(body)]
      BY DEF IsPeeledLoop
    <3>2. body # << >> /\ first # << >>
      BY <3>1 DEF IsChain
    <3>3. Len(body) \in 1..Len(body) /\ Len(first) \in 1..Len(first)
      BY <3>2
    <3> QED BY <3>1, <3>2, <3>3 DEF ChainLines, LinesOf
  <2>2. W \in Seq(Line) /\ W' = W
    BY <1>4, <1>13, <2>1, ChainParts DEF ChainLines
  <2> HIDE DEF W
  <2>3. CASE j # 1
    <3>1. j \in 2..Len(body) /\ j - 1 \in 1..Len(body)
      BY <2>3
    <3>2. at = body[j - 1]
      BY <1>4, <1>11, <2>1, <3>1 DEF IsChain, EnteredFrom
    <3>3. PICK f, g : Iterates(body, j - 1, f, g)
      BY <1>2, <3>1, <3>2 DEF XInv, LoopRuns
    <3>4. WalkedTo(f, body, j)'
      BY <1>13, <3>1, <3>2, <3>3, WalkAcross DEF Iterates
    <3>5. Iterates(body, j, f, g)'
      BY <1>4, <2>2, <3>3, <3>4 DEF Iterates, W, Bounds, MustBounds, MayBounds
    <3> QED BY <3>5
  <2>4. CASE j = 1
    <3>1. ASSUME NEW analysis, Covered(analysis), analysis = "MUST" \/ body[1] # Exit
          PROVE  Bounds(memState[body[1]], cache, analysis)
      <4>1. Followed' /\ phase' = "done" /\ (analysis = "MUST" \/ at' # Exit)
        BY <1>2, <1>4, <2>4, <3>1 DEF Followed
      <4>2. Bounds(AbstractCache, cache, analysis)'
        BY <1>9, <3>1, <4>1 DEF StateSound
      <4> QED BY <1>2, <1>8, <2>4, <4>2 DEF Bounds, MustBounds, MayBounds
    <3>2. \E g : IsRun(g, W, Len(W)) /\ g[Len(W)] = cache
      <4>1. CASE at = first[Len(first)]
        <5>1. PICK f : WalkedTo(f, first, Len(first))
          BY <2>1, <4>1 DEF XInv, ChainRuns
        <5> QED BY <1>13, <2>1, <4>1, <5>1, WalkEnds
      <4>2. CASE at = body[Len(body)]
        <5>1. PICK f, g : Iterates(body, Len(body), f, g)
          BY <1>2, <2>1, <4>2 DEF XInv, LoopRuns
        <5>2. IsRun(f, W, Len(W)) /\ f[Len(W)] = cache
          BY <1>13, <2>1, <4>2, <5>1, WalkEnds DEF Iterates, W
        <5> QED BY <5>2
      <4> QED BY <1>4, <1>11, <2>1, <2>4, <4>1, <4>2 DEF EnteredFrom
    <3>3. PICK g : IsRun(g, W, Len(W)) /\ g[Len(W)] = cache
      BY <3>2
    <3>4. PICK f : WalkedTo(f, body, 1)' /\ f[0] = cache
      BY <1>12, <2>1
    <3>5. Iterates(body, 1, f, g)'
      BY <1>4, <2>2, <3>1, <3>3, <3>4 DEF Iterates, W, Bounds, MustBounds, MayBounds
    <3> QED BY <2>4, <3>5
  <2> QED BY <2>3, <2>4
<1> QED BY <1>2, <1>3, <1>7, <1>9, <1>10, <1>14, <1>15 DEF XInv

(* Every step of the analysis and of the program keeps the invariant.      *)
LEMMA ExecNextInv == XInv /\ [ExecNext]_allVars => XInv'
<1> SUFFICES ASSUME XInv, [ExecNext]_allVars PROVE XInv'
  OBVIOUS
<1>1. CASE Analyse
  BY <1>1, AnalyseInv
<1>2. CASE Fetch
  BY <1>2, FetchInv
<1>3. CASE TakeEdge
  BY <1>3, TakeEdgeInv
<1>4. CASE UNCHANGED allVars
  <2>1. UNCHANGED vars /\ UNCHANGED <<msg, memState, memStateVal, phase>>
        /\ UNCHANGED <<at, fetched, cache, missed, looped>>
    BY <1>4 DEF allVars, vars
  <2>2. /\ Inv' /\ AllNodesAnalyzed' /\ StatesOK'
        /\ phase' = "done" => penalty' = [n \in Node |-> CachePenalty(n)]'
        /\ \A n, i : Category(n, i)' = Category(n, i)
    BY <2>1, AnalysisKept
  <2>3. MachineOK' /\ NotStarted'
    BY <2>1 DEF XInv, MachineOK, NotStarted
  <2>4. \A analysis : Covered(analysis) => StateSound(analysis)'
    BY <2>1 DEF XInv, StateSound, Followed, AbstractCache, Bounds, MustBounds, MayBounds
  <2>5. phase' = "done" /\ Followed' => missed' <= Cardinality(Paid)'
    BY <2>1, <2>2 DEF XInv, Paid, Followed
  <2>6. ChainRuns' /\ LoopRuns'
    BY <2>1 DEF XInv, ChainRuns, LoopRuns, Iterates, WalkedTo, Position, Before, ChainLines,
                LinesOf, LinesBefore, Bounds, MustBounds, MayBounds
  <2> QED BY <2>2, <2>3, <2>4, <2>5, <2>6 DEF XInv
<1> QED BY <1>1, <1>2, <1>3, <1>4 DEF ExecNext

(* The invariant holds at every step of every execution.                   *)
THEOREM ExecInvariance == ExecSpec => []XInv
<1> QED BY ExecInitInv, ExecNextInv, PTL DEF ExecSpec

-----------------------------------------------------------------------------
(* The state of the analysis and of the machine keeps its type; the real   *)
(* cache never holds two lines in one place.                               *)
THEOREM ExecTypeCorrect == ExecSpec => []ExecTypeOK
<1>1. XInv => ExecTypeOK
  BY DEF XInv, MachineOK, Inv, ExecTypeOK, CacheOK
<1> QED BY <1>1, ExecInvariance, PTL

(* The must set of icache_dfa.cpp bounds the cache from below at every     *)
(* program point of every path that takes no BackwardJump edge.            *)
THEOREM MustSoundness == ExecSpec => []ForwardMustSound
<1>1. XInv => ForwardMustSound
  <2> SUFFICES ASSUME XInv, phase = "done", ~looped
               PROVE  MustBounds(AbstractCache.must, cache)
    BY DEF ForwardMustSound
  <2>1. StateSound("MUST")
    BY DEF XInv, Covered
  <2> QED BY <2>1 DEF StateSound, Followed, Bounds
<1> QED BY <1>1, ExecInvariance, PTL

(* The may set bounds the cache from above on those paths, provided no     *)
(* line has the address 0 and every node is entered by a forward edge.     *)
THEOREM MaySoundness ==
  ASSUME ZeroLine \notin Line, \A g \in MSGs : ForwardConnected(g)
  PROVE  ExecSpec => []ForwardMaySound
<1>1. XInv => ForwardMaySound
  <2> SUFFICES ASSUME XInv, phase = "done", ~looped, at # Exit
               PROVE  MayBounds(AbstractCache.may, cache)
    BY DEF ForwardMaySound
  <2>1. StateSound("MAY")
    BY DEF XInv, Covered
  <2> QED BY <2>1 DEF StateSound, Followed, Bounds
<1> QED BY <1>1, ExecInvariance, PTL

(* A fetch classified as a hit hits on every path without a BackwardJump,  *)
(* and on every path if the loops are peeled and have straight bodies:     *)
(* there it is enough that analyzeCache never follows the back edge.       *)
THEOREM HitsHit == ExecSpec => [](Followed => MustHits)
<1>1. XInv => (Followed => MustHits)
  <2> SUFFICES ASSUME XInv, Followed, phase = "done", fetched < Len(msg.lines[at]),
                      Category(at, fetched + 1) = "hit"
               PROVE  msg.lines[at][fetched + 1] \in DOMAIN cache
    BY DEF MustHits, NextFetch
  <2>1. (fetched + 1) - 1 = fetched
    <3>1. msg.lines[at] \in Seq(Line) /\ fetched \in 0..Len(msg.lines[at])
      BY GraphFacts DEF XInv, Inv, MachineOK
    <3> QED BY <3>1
  <2>2. msg.lines[at][fetched + 1] \in DOMAIN AbstractCache.must
    BY <2>1 DEF Category, AbstractCache, isInSet
  <2>3. MustBounds(AbstractCache.must, cache)
    BY DEF XInv, StateSound, Bounds, Covered
  <2> QED BY <2>2, <2>3 DEF MustBounds
<1> QED BY <1>1, ExecInvariance, PTL

(* A fetch classified as an always miss misses on the same paths, provided *)
(* no line has the address 0 and every node is entered by a forward edge.  *)
THEOREM MissesAreMisses ==
  ASSUME ZeroLine \notin Line, \A g \in MSGs : ForwardConnected(g)
  PROVE  ExecSpec => [](Followed => MissesMiss)
<1>1. XInv => (Followed => MissesMiss)
  <2> SUFFICES ASSUME XInv, Followed, phase = "done", fetched < Len(msg.lines[at]),
                      Category(at, fetched + 1) = "miss"
               PROVE  msg.lines[at][fetched + 1] \notin DOMAIN cache
    BY DEF MissesMiss, NextFetch
  <2>1. (fetched + 1) - 1 = fetched
    <3>1. msg.lines[at] \in Seq(Line) /\ fetched \in 0..Len(msg.lines[at])
      BY GraphFacts DEF XInv, Inv, MachineOK
    <3> QED BY <3>1
  <2>2. msg.lines[at][fetched + 1] \notin DOMAIN AbstractCache.may
    BY <2>1 DEF Category, AbstractCache, isInSet
  <2>3. at # Exit
    <3>1. msg.lines[Exit] = << >> /\ fetched \in Nat
      BY GraphAssumption, GraphFacts DEF XInv, Inv, MachineOK, IsCodeGraph
    <3> QED BY <3>1
  <2>4. MayBounds(AbstractCache.may, cache)
    BY <2>3 DEF XInv, StateSound, Bounds, Covered
  <2> QED BY <2>2, <2>4 DEF MayBounds
<1> QED BY <1>1, ExecInvariance, PTL

(* The penalty that calculateCachePenalty puts on the out edges of a node  *)
(* pays for all misses of the node on the same paths: there the WCET       *)
(* estimate counts no miss too few.                                        *)
THEOREM PenaltySoundness == ExecSpec => [](Followed => PenaltyCoversMisses)
<1>1. XInv => (Followed => PenaltyCoversMisses)
  <2> SUFFICES ASSUME XInv, Followed, phase = "done"
               PROVE  MissCost * missed <= penalty[at]
    BY DEF PenaltyCoversMisses
  <2> DEFINE dear == {i \in 1..Len(msg.lines[at]) : Category(at, i) # "hit"}
  <2>1. /\ at \in Node /\ missed \in 0..fetched /\ fetched \in 0..Len(msg.lines[at])
        /\ missed <= Cardinality(Paid)
        /\ penalty = [n \in Node |-> CachePenalty(n)]
    BY DEF XInv, MachineOK
  <2>2. Len(msg.lines[at]) \in Nat
    <3>1. msg.lines[at] \in Seq(Line)
      BY <2>1, GraphFacts DEF XInv, Inv
    <3> QED BY <3>1
  <2>3. IsFiniteSet(dear) /\ Paid \subseteq dear
    <3>1. IsFiniteSet(1..Len(msg.lines[at]))
      BY <2>2, FS_Interval
    <3>2. IsFiniteSet(dear)
      BY <3>1, FS_Subset
    <3>3. \A i \in 1..fetched : i \in 1..Len(msg.lines[at])
      BY <2>1, <2>2
    <3> QED BY <3>2, <3>3 DEF Paid
  <2> HIDE DEF dear
  <2>4. /\ Cardinality(dear) \in Nat /\ Cardinality(Paid) \in Nat
        /\ Cardinality(Paid) <= Cardinality(dear)
    BY <2>3, FS_Subset, FS_CardinalityType
  <2>5. missed \in Nat /\ missed <= Cardinality(dear)
    BY <2>1, <2>2, <2>4
  <2>6. \A k \in Nat, a, b \in Nat : a <= b => k * a <= k * b
    OBVIOUS
  <2>7. MissCost * missed <= MissCost * Cardinality(dear)
    BY <2>4, <2>5, <2>6, MissCostAssumption
  <2>8. penalty[at] = MissCost * Cardinality(dear)
    BY <2>1 DEF CachePenalty, dear
  <2> QED BY <2>7, <2>8
<1> QED BY <1>1, ExecInvariance, PTL

(* Where all loops are peeled and have straight bodies what the analysis   *)
(* promises holds at every step of every execution, in every iteration of  *)
(* every loop: leaving out the BackwardJump edges loses nothing there.     *)
THEOREM StraightLoopsAreSafe ==
  ASSUME \A g \in MSGs : LoopsArePeeled(g, g.lines, Seq(Node))
  PROVE  ExecSpec => [](MustHits /\ PenaltyCoversMisses)
<1>1. XInv => Followed
  BY DEF XInv, Inv, Followed
<1> QED BY <1>1, ExecInvariance, HitsHit, PenaltySoundness, PTL

=============================================================================
