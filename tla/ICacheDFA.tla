------------------------------ MODULE ICacheDFA -----------------------------
(***************************************************************************)
(* The instruction cache data flow analysis of memory/icache_dfa.cpp       *)
(* (class ICacheDataFlowAnalyzer).  A worklist, used as a stack, walks the *)
(* memory state graph (MSG) from its entry; a node whose forward           *)
(* predecessors all have a state gets the state of the cache BEFORE it, by *)
(* a transfer of one predecessor or a join of several, and its forward     *)
(* successors are pushed.  BackwardJump edges are never followed.  At the  *)
(* end every fetch is classified and the penalties are put on the edges.   *)
(***************************************************************************)
EXTENDS MemoryStateGraph, CacheStateMaintainer, FiniteSets

CONSTANTS
  rpol,      \* cache_parameters.rpol
  MissCost   \* getCacheMissCost(): the miss latency + 1

(* setCacheParameters knows two policies and asserts on any other.         *)
ASSUME PolicyAssumption == rpol \in {"LRU", "DIRECT_MAPPED"}

ASSUME MissCostAssumption == MissCost \in Nat

(* The graphs to analyse are those the graph creator can build.            *)
ASSUME GraphAssumption == \A g \in MSGs : IsCodeGraph(g, Line)

VARIABLES
  msg,           \* the graph under analysis
  processing,    \* the worklist; its last element is popped next
  memState,      \* memStateNProp: the cache before the node
  memStateVal,   \* memStateValNProp: that state was computed
  penalty,       \* dynamicMemPenaltyEProp of the out edges of a node
  phase          \* "analyze", then "done" once the penalties are set

vars == <<msg, processing, memState, memStateVal, penalty, phase>>

-----------------------------------------------------------------------------
Update(state, addr) ==
  IF rpol = "LRU" THEN LRUUpdate(state, addr) ELSE DMUpdate(state, addr)

Join(state_a, state_b) ==
  IF rpol = "LRU" THEN LRUJoin(state_a, state_b) ELSE DMJoin(state_a, state_b)

(* The states along the fetch of some lines: the one at i is reached after *)
(* the i-th line.                                                          *)
UpdateAlong(state, line_addrs) ==
  LET upd[i \in 0..Len(line_addrs)] ==
        IF i = 0 THEN state ELSE Update(upd[i - 1], line_addrs[i])
  IN  upd

(* update() for the lines of a whole basic block.                          *)
UpdateLines(state, line_addrs) ==
  UpdateAlong(state, line_addrs)[Len(line_addrs)]

(* join() of a vector: the last state joins the join of the ones before.   *)
JoinStates(states) ==
  LET joined[i \in 1..Len(states)] ==
        IF i = 1 THEN states[1] ELSE Join(joined[i - 1], states[i])
  IN  joined[Len(states)]

Predecessors(n) == ForwardEdges(msg.in[n])

(* The state after the execution of a node.                                *)
StateAfter(n) == UpdateLines(memState[n], msg.lines[n])

(* Mutant: one known predecessor is enough.                                *)
isPredecessorMemStateKnown_any(n) ==
  \/ n = Entry
  \/ \E i \in 1..Len(Predecessors(n)) : memStateVal[Predecessors(n)[i]]

isPredecessorMemStateKnown(n) ==
  \/ n = Entry
  \/ \A i \in 1..Len(Predecessors(n)) : memStateVal[Predecessors(n)[i]]

-----------------------------------------------------------------------------
Init ==
  /\ msg \in MSGs
  /\ processing = <<Entry>>
  /\ memState = [n \in Node |-> BlankMemState]
  /\ memStateVal = [n \in Node |-> FALSE]
  /\ penalty = [n \in Node |-> 0]
  /\ phase = "analyze"

Actual == processing[Len(processing)]

Rest == SubSeq(processing, 1, Len(processing) - 1)

PushSuccessors(n) == processing' = Rest \o ForwardEdges(msg.out[n])

(* Mutant: the dropped node goes back to the bottom of the worklist.       *)
DropNode_requeue ==
  /\ phase = "analyze"
  /\ processing # << >>
  /\ ~isPredecessorMemStateKnown(Actual) \/ Actual = Exit
  /\ processing' = <<Actual>> \o Rest
  /\ UNCHANGED <<msg, memState, memStateVal, penalty, phase>>

(* The popped node is the exit or has a predecessor without a state: it is *)
(* dropped, and comes back when that predecessor is processed.             *)
DropNode ==
  /\ phase = "analyze"
  /\ processing # << >>
  /\ ~isPredecessorMemStateKnown(Actual) \/ Actual = Exit
  /\ processing' = Rest
  /\ UNCHANGED <<msg, memState, memStateVal, penalty, phase>>

SetState(n, state) ==
  /\ memState' = [memState EXCEPT ![n] = state]
  /\ memStateVal' = [memStateVal EXCEPT ![n] = TRUE]

(* Several forward in edges: join the states after the predecessors.       *)
JoinAndSetInitialMemState ==
  /\ phase = "analyze"
  /\ processing # << >>
  /\ isPredecessorMemStateKnown(Actual)
  /\ Actual # Exit
  /\ Len(Predecessors(Actual)) > 1
  /\ SetState(Actual, JoinStates([i \in 1..Len(Predecessors(Actual)) |->
                                    StateAfter(Predecessors(Actual)[i])]))
  /\ PushSuccessors(Actual)
  /\ UNCHANGED <<msg, penalty, phase>>

(* The entry starts blank; a node with one forward in edge inherits.       *)
SetInitialMemState ==
  /\ phase = "analyze"
  /\ processing # << >>
  /\ isPredecessorMemStateKnown(Actual)
  /\ Actual # Exit
  /\ Len(Predecessors(Actual)) <= 1
  /\ SetState(Actual, IF Actual = Entry THEN BlankMemState
                      ELSE StateAfter(Predecessors(Actual)[1]))
  /\ PushSuccessors(Actual)
  /\ UNCHANGED <<msg, penalty, phase>>

(* The class of the i-th fetch of a node: the state is updated after each  *)
(* line (FIX_STATE_UPDATE_BUG).                                            *)
Category(n, i) ==
  LET mem == UpdateAlong(memState[n], msg.lines[n])[i - 1]
  IN  IF isInSet(msg.lines[n][i], mem.must) THEN "hit"
      ELSE IF isInSet(msg.lines[n][i], mem.may) THEN "nc"
      ELSE "miss"

(* Mutant: only a certain miss costs a miss.                               *)
CachePenalty_missOnly(n) ==
  MissCost * Cardinality({i \in 1..Len(msg.lines[n]) : Category(n, i) = "miss"})

(* A fetch that is not a certain hit costs a miss.                         *)
CachePenalty(n) ==
  MissCost * Cardinality({i \in 1..Len(msg.lines[n]) : Category(n, i) # "hit"})

CalculateCachePenalty ==
  /\ phase = "analyze"
  /\ processing = << >>
  /\ penalty' = [n \in Node |-> CachePenalty(n)]
  /\ phase' = "done"
  /\ UNCHANGED <<msg, processing, memState, memStateVal>>

Next ==
  \/ DropNode
  \/ JoinAndSetInitialMemState
  \/ SetInitialMemState
  \/ CalculateCachePenalty

Spec == Init /\ [][Next]_vars

(* The analysis is one sequential function: it runs until it returns.      *)
FairSpec == Spec /\ WF_vars(Next)

-----------------------------------------------------------------------------
(* Every variable stays in the range the code's types give it.             *)
TypeOK ==
  /\ msg \in CodeGraphs(Line)
  /\ processing \in Seq(Node)
  /\ memState = [n \in Node |-> memState[n]]
  /\ \A n \in Node : IsAbsMemSet(memState[n])
  /\ memStateVal \in [Node -> BOOLEAN]
  /\ penalty \in [Node -> Nat]
  /\ phase \in {"analyze", "done"}

(* The state analyzeCache computes from the states of the predecessors.    *)
FlowValue(n) ==
  IF n = Entry THEN BlankMemState
  ELSE JoinStates([i \in 1..Len(Predecessors(n)) |->
                     StateAfter(Predecessors(n)[i])])

(* A node marked valid has only valid predecessors and holds the state the *)
(* predecessors hold NOW, however often and in whichever order the stack   *)
(* brought the nodes up (analyzeCache can process a node more than once).  *)
FlowConsistent ==
  \A n \in Node :
    memStateVal[n] =>
      /\ n # Exit
      /\ isPredecessorMemStateKnown(n)
      /\ memState[n] = FlowValue(n)

(* What the assertions of isPredecessorMemStateKnown and of                *)
(* setInitialMemState say: whatever is on the worklist is the entry or has *)
(* a forward predecessor to take a state from.                             *)
PendingHavePredecessor ==
  \A i \in 1..Len(processing) :
    processing[i] = Entry \/ Len(Predecessors(processing[i])) > 0

(* A node that could get its state is on the worklist: dropping a node     *)
(* whose predecessors are unknown never loses it.                          *)
ReadyIsPending ==
  \A n \in Node \ {Exit} :
    (/\ isPredecessorMemStateKnown(n)
     /\ n = Entry \/ Len(Predecessors(n)) > 0
     /\ ~memStateVal[n])
    => \E i \in 1..Len(processing) : processing[i] = n

(* When the penalties are calculated no node is left without a state, so   *)
(* no penalty comes from a default-constructed one.                        *)
AllNodesAnalyzed ==
  phase = "done" /\ ForwardConnected(msg) => \A n \in Node \ {Exit} : memStateVal[n]

(* The abstract analysis, with a node solved once it is marked valid.      *)
FA == INSTANCE ForwardAnalysis WITH
        preds  <- [n \in Node |-> {m \in Node : HasForwardEdge(msg.in[n], m)}],
        solved <- {n \in Node : memStateVal[n]},
        ended  <- (phase = "done")

(* The worklist implements the abstract analysis: it solves every node the *)
(* flow reaches, in an order the flow allows, once, and comes to an end.   *)
SolvesInFlowOrder == FA!FairSpec

(* Processing a node again does not change what was computed for it.       *)
StatesStable ==
  [][\A n \in Node : memStateVal[n] =>
       memStateVal'[n] /\ memState'[n] = memState[n]]_vars

(* The worklist empties on every graph.                                    *)
AnalysisTerminates == <>(phase = "done")

=============================================================================
