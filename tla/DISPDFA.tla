------------------------------- MODULE DISPDFA ------------------------------
(***************************************************************************)
(* The D-ISP data flow analysis of memory/disp_dfa.cpp (class              *)
(* DISPDataFlowAnalyzer).  The worklist is that of ICacheDFA; the memory   *)
(* changes only where a function is entered or returned to, and the        *)
(* function returned to is taken from the call context of the node, which  *)
(* the worklist carries along.  A node keeps the state BEFORE its own      *)
(* call or return.                                                         *)
(***************************************************************************)
EXTENDS CallMSG, LRUDISP, DISPPenalty

ASSUME GraphAssumption == \A g \in MSGs : IsCallGraph(g)

VARIABLES
  msg,           \* the graph under analysis
  processing,    \* the worklist; its last element is popped next
  memState,      \* memStateNProp: the D-ISP before the node
  memStateVal,   \* memStateValNProp: that state was computed
  ctxMap,        \* the call context of the nodes met so far
  penalty,       \* dynamicMemPenaltyEProp of the out edge of an entry node
                 \* and of the in edge of an exit node
  phase          \* "analyze", "done" or, after a failed assertion, "aborted"

vars == <<msg, processing, memState, memStateVal, ctxMap, penalty, phase>>

-----------------------------------------------------------------------------
Predecessors(n) == ForwardEdges(msg.in[n])

isPredecessorMemStateKnown(n) ==
  \/ n = Entry
  \/ \A i \in 1..Len(Predecessors(n)) : memStateVal[Predecessors(n)[i]]

getContextForNode(n) == IF n \in DOMAIN ctxMap THEN ctxMap[n] ELSE << >>

(* What leaving a node activates: the function an entry node enters, the   *)
(* function an exit node returns to (none if it leaves the root function). *)
Activated(n) ==
  IF msg.type[n] = "Entry" THEN <<msg.func[n]>>
  ELSE IF msg.type[n] = "Exit" /\ Pop(getContextForNode(n)) # << >>
  THEN <<Pop(getContextForNode(n))[Len(getContextForNode(n)) - 1]>>
  ELSE << >>

(* The state behind a node.                                                *)
StateAfter(n) ==
  IF Activated(n) = << >> THEN memState[n]
  ELSE DispUpdate(memState[n], Activated(n)[1])

(* join() of a vector: the last state joins the join of the ones before.   *)
JoinStates(states) ==
  LET joined[i \in 1..Len(states)] ==
        IF i = 1 THEN states[1] ELSE DispJoin(joined[i - 1], states[i])
  IN  joined[Len(states)]

Init ==
  /\ msg \in MSGs
  /\ processing = <<Entry>>
  /\ memState = [n \in Node |-> BlankMemState]
  /\ memStateVal = [n \in Node |-> FALSE]
  /\ ctxMap = [n \in {} |-> << >>]
  /\ penalty = [n \in Node |-> 0]
  /\ phase = "analyze"

Actual == processing[Len(processing)]

Rest == SubSeq(processing, 1, Len(processing) - 1)

Pending == phase = "analyze" /\ processing # << >>

(* Mutant: the dropped node goes back to the bottom of the worklist.       *)
DropNode_requeue ==
  /\ Pending
  /\ ~isPredecessorMemStateKnown(Actual) \/ Actual = Exit
  /\ processing' = <<Actual>> \o Rest
  /\ UNCHANGED <<msg, memState, memStateVal, ctxMap, penalty, phase>>

(* The popped node is the exit or has a predecessor without a state.       *)
DropNode ==
  /\ Pending
  /\ ~isPredecessorMemStateKnown(Actual) \/ Actual = Exit
  /\ processing' = Rest
  /\ UNCHANGED <<msg, memState, memStateVal, ctxMap, penalty, phase>>

(* Mutants: an exit node keeps the context of the function it leaves; an   *)
(* entry node does not add its function.                                   *)
updateContextForNode_keep(n) ==
  IF msg.type[n] = "Entry" THEN Append(getContextForNode(n), msg.func[n])
  ELSE getContextForNode(n)

updateContextForNode_unpushed(n) ==
  IF msg.type[n] = "Exit" THEN Pop(getContextForNode(n)) ELSE getContextForNode(n)

(* updateContextForNode: what the successors of a node get as context.     *)
updateContextForNode(n) == ContextAfter(msg, n, getContextForNode(n))

(* Mutant: a context met later replaces the first one by its caller's.     *)
addContextForNode_overwrite(n) ==
  LET next == {ForwardEdges(msg.out[n])[i] : i \in 1..Len(ForwardEdges(msg.out[n]))}
  IN  ctxMap' = [m \in DOMAIN ctxMap \cup next \cup {n} |->
                   IF m \in next
                   THEN IF m \in DOMAIN ctxMap THEN getContextForNode(n)
                        ELSE updateContextForNode(n)
                   ELSE getContextForNode(m)]

(* addContextForNode of the forward successors: the first context stays.   *)
addContextForNode(n) ==
  LET next == {ForwardEdges(msg.out[n])[i] : i \in 1..Len(ForwardEdges(msg.out[n]))}
  IN  ctxMap' = [m \in DOMAIN ctxMap \cup next \cup {n} |->
                   IF m \in DOMAIN ctxMap \/ m = n THEN getContextForNode(m)
                   ELSE updateContextForNode(n)]

(* An exit node was reached without an open call.                          *)
ContextAsserts(n) == msg.type[n] = "Exit" /\ getContextForNode(n) = << >>

(* The node gets its state; its forward successors get their context and   *)
(* go on the worklist.                                                     *)
SetState(n, state) ==
  /\ ~ContextAsserts(n)
  /\ memState' = [memState EXCEPT ![n] = state]
  /\ memStateVal' = [memStateVal EXCEPT ![n] = TRUE]
  /\ addContextForNode(n)
  /\ processing' = Rest \o ForwardEdges(msg.out[n])
  /\ UNCHANGED <<msg, penalty, phase>>

(* A join takes the states of the predecessors as they are: none of them   *)
(* may be an entry or an exit node.                                        *)
JoinAsserts(n) ==
  \E i \in 1..Len(Predecessors(n)) : msg.type[Predecessors(n)[i]] # "Other"

JoinAndSetInitialMemState ==
  /\ Pending
  /\ isPredecessorMemStateKnown(Actual)
  /\ Actual # Exit
  /\ Len(Predecessors(Actual)) > 1
  /\ ~JoinAsserts(Actual)
  /\ SetState(Actual, JoinStates([i \in 1..Len(Predecessors(Actual)) |->
                                    memState[Predecessors(Actual)[i]]]))

ActivationAsserts(n) ==
  /\ n # Entry
  /\ Activated(Predecessors(n)[1]) # << >>
  /\ UpdateAsserts(memState[Predecessors(n)[1]], Activated(Predecessors(n)[1])[1])

(* The entry starts blank; a node with one forward in edge gets the state  *)
(* behind its predecessor.                                                 *)
SetInitialMemState ==
  /\ Pending
  /\ isPredecessorMemStateKnown(Actual)
  /\ Actual # Exit
  /\ Len(Predecessors(Actual)) <= 1
  /\ ~ActivationAsserts(Actual)
  /\ SetState(Actual, IF Actual = Entry THEN BlankMemState
                      ELSE StateAfter(Predecessors(Actual)[1]))

(* One of the assertions on the way fails.                                 *)
AssertionFails ==
  /\ Pending
  /\ isPredecessorMemStateKnown(Actual)
  /\ Actual # Exit
  /\ \/ Len(Predecessors(Actual)) > 1 /\ JoinAsserts(Actual)
     \/ Len(Predecessors(Actual)) <= 1 /\ ActivationAsserts(Actual)
     \/ ContextAsserts(Actual)
  /\ phase' = "aborted"
  /\ UNCHANGED <<msg, processing, memState, memStateVal, ctxMap, penalty>>

-----------------------------------------------------------------------------
Category(n, f) ==
  IF isInSet(f, memState[n].must) THEN "hit"
  ELSE IF isInSet(f, memState[n].may) THEN "nc"
  ELSE "miss"

(* Mutant: a function that may be there costs no load.                     *)
DispCost_may(n) ==
  IF Activated(n) = << >> THEN 0
  ELSE IF Category(n, Activated(n)[1]) # "miss" THEN getDispHitPenalty(msg.type[n])
  ELSE getDispMissAndLoadPenalty(Activated(n)[1], msg.type[n])

(* Only a certain hit saves the load.                                      *)
DispCost(n) ==
  IF Activated(n) = << >> THEN 0
  ELSE IF Category(n, Activated(n)[1]) = "hit" THEN getDispHitPenalty(msg.type[n])
  ELSE getDispMissAndLoadPenalty(Activated(n)[1], msg.type[n])

(* The penalty of an exit node goes to its one in edge.                    *)
PenaltyAsserts(n) ==
  \/ msg.type[n] = "Entry" /\ Len(msg.out[n]) # 1
  \/ msg.type[n] = "Exit" /\ Activated(n) # << >> /\ Len(msg.in[n]) # 1

CalculateMemPenalty ==
  /\ phase = "analyze"
  /\ processing = << >>
  /\ IF \E n \in Node : PenaltyAsserts(n)
     THEN phase' = "aborted" /\ UNCHANGED penalty
     ELSE phase' = "done" /\ penalty' = [n \in Node |-> DispCost(n)]
  /\ UNCHANGED <<msg, processing, memState, memStateVal, ctxMap>>

Next ==
  \/ DropNode
  \/ JoinAndSetInitialMemState
  \/ SetInitialMemState
  \/ AssertionFails
  \/ CalculateMemPenalty

Spec == Init /\ [][Next]_vars

(* The analysis is one sequential function: it runs until it returns.      *)
FairSpec == Spec /\ WF_vars(Next)

-----------------------------------------------------------------------------
(* Every variable stays in the range the code's types give it.             *)
TypeOK ==
  /\ msg \in CallGraphs
  /\ processing \in Seq(Node)
  /\ \A n \in Node : IsAbsMemSet(memState[n])
  /\ memStateVal \in [Node -> BOOLEAN]
  /\ ctxMap \in [DOMAIN ctxMap -> Seq(Function)]
  /\ penalty \in [Node -> Nat]
  /\ phase \in {"analyze", "done", "aborted"}

(* addContextForNode keeps the context of the predecessor that reached the *)
(* node first and trusts that every other one would bring the same: the    *)
(* context of a node is the chain of calls the node was copied for, and    *)
(* each node with a state has one.                                         *)
ContextsMatchCalls ==
  /\ \A n \in DOMAIN ctxMap : ctxMap[n] = msg.context[n]
  /\ \A n \in Node : memStateVal[n] => n \in DOMAIN ctxMap

(* What the assertions say of every program: joins see no entry or exit    *)
(* node, an exit node closes a call, moving a function to the front pushes *)
(* none out of the must set, and a return penalty has one edge to go to.   *)
NoAssertionFails == phase # "aborted"

(* Two of the assertions can fail, and only these: a function that is      *)
(* called does not fit and the user did not ask to ignore that, or a       *)
(* function has more than one return.                                      *)
OtherAssertionsHold ==
  phase = "aborted" =>
    \/ /\ ~IgnoreOutsized
       /\ \E n \in Node : msg.type[n] = "Entry" /\ Outsized(msg.func[n])
    \/ \E n \in Node : msg.type[n] = "Exit" /\ Len(msg.in[n]) > 1

(* The worklist empties, or an assertion stops the program.                *)
AnalysisEnds == <>(phase # "analyze")

=============================================================================
