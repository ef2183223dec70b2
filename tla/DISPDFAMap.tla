----------------------------- MODULE DISPDFAMap -----------------------------
(***************************************************************************)
(* The D-ISP data flow analysis of memory/disp_dfa_map.cpp (class          *)
(* DISPDataFlowAnalyzerMap) with the state maintainers for FIFO and stack  *)
(* replacement (memory/fifo_bf_disp_state_maintainer.cpp,                  *)
(* memory/stack_bf_disp_state_maintainer.cpp), which keep all concrete     *)
(* states a node can be reached with.  The worklist and the contexts are   *)
(* those of DISPDFA, the state map that of ICacheDFAMap: a node can be     *)
(* stored once only, and no node is looked up before it is stored.         *)
(***************************************************************************)
EXTENDS CallMSG, DISPPenalty, DISPMemStates

CONSTANTS
  ZeroFunction,   \* the address 0, which the context stack has below its end
  ParamSets       \* the disp_parameters to analyse for

ASSUME ParamsAssumption ==
  \A p \in ParamSets :
    /\ p.rpol \in {"FIFO", "STACK"}
    /\ p.size \in Nat \ {0} /\ p.table \in Nat \ {0} /\ p.ignore \in BOOLEAN

ASSUME GraphAssumption == \A g \in MSGs : IsCallGraph(g)

VARIABLES
  msg,           \* the graph under analysis
  params,        \* disp_parameters
  processing,    \* the worklist; its last element is popped next
  state_map,     \* the maintainer's map from nodes to sets of D-ISP states;
                 \* its keys are the nodes whose memStateValNProp is set
  ctxMap,        \* the call context of the nodes met so far
  penalty,       \* dynamicMemPenaltyEProp of the out edge of an entry node
                 \* and of the in edge of an exit node
  phase          \* "analyze", "done" or, after a failed assertion, "aborted"

vars == <<msg, params, processing, state_map, ctxMap, penalty, phase>>

-----------------------------------------------------------------------------
Predecessors(n) == ForwardEdges(msg.in[n])

isPredecessorMemStateKnown(n) ==
  n = Entry \/ \A i \in 1..Len(Predecessors(n)) : Predecessors(n)[i] \in DOMAIN state_map

getContextForNode(n) == IF n \in DOMAIN ctxMap THEN ctxMap[n] ELSE << >>

(* ContextStack::top: the program's root function has no caller.           *)
Top(context) == IF context = << >> THEN ZeroFunction ELSE Last(context)

(* The update of the state behind a node: which function is activated, how,*)
(* and which one was active before.  No update is << >>.                   *)
UpdateOf(n) ==
  LET context == getContextForNode(n)
  IN  CASE msg.type[n] = "Entry" ->
             <<[func |-> msg.func[n], act |-> "CALL", previous |-> Top(context)]>>
        [] msg.type[n] = "Exit" /\ Pop(context) # << >> ->
             <<[func |-> Top(Pop(context)), act |-> "RETURN", previous |-> Top(context)]>>
        [] OTHER -> << >>

(* The blank state is an empty vector; it gets its first content, of an    *)
(* empty memory, by the first update.                                      *)
Contents(states) == IF states = {} THEN {<< >>} ELSE states

Activate(content, u) ==
  IF params.rpol = "FIFO" THEN FifoActivate(params, content, u.func)
  ELSE StackActivate(params, content, u.func, u.act, u.previous)

(* removeDuplicates normalizes the states of a stack memory first.         *)
removeDuplicates(states) ==
  IF params.rpol = "FIFO" THEN states
  ELSE {normalize(params, content) : content \in states}

(* updateState() of all states.                                            *)
Activated(states, u) == {Activate(content, u) : content \in Contents(states)}

UpdateAsserts(states, u) ==
  \E content \in Contents(states) :
    \/ OutsizedAsserts(params, u.func)
    \/ /\ params.rpol = "STACK"
       /\ ~IsTooLarge(params, u.func)
       /\ StackAsserts(params, content, u.func, u.act, u.previous)

(* normalize() of a memory without functions reads the begin of an empty   *)
(* vector, a null pointer.                                                 *)
NormalizeCrashes(states) == params.rpol = "STACK" /\ << >> \in states

(* update() or transfer() from the one predecessor.                        *)
StatesBehind(n) ==
  IF UpdateOf(n) = << >> THEN state_map[n]
  ELSE removeDuplicates(Activated(state_map[n], UpdateOf(n)[1]))

(* join(): the states of all predecessors.                                 *)
JoinedStates(n) ==
  removeDuplicates(UNION {state_map[Predecessors(n)[i]] : i \in 1..Len(Predecessors(n))})

(* The states joinAndSetInitialMemState or setInitialMemState gives a node.*)
InitialStates(n) ==
  CASE n = Entry -> {}
    [] n # Entry /\ Len(Predecessors(n)) > 1 -> JoinedStates(n)
    [] n # Entry /\ Len(Predecessors(n)) <= 1 -> StatesBehind(Predecessors(n)[1])

Init ==
  /\ msg \in MSGs
  /\ params \in ParamSets
  /\ processing = <<Entry>>
  /\ state_map = [n \in {} |-> {}]
  /\ ctxMap = [n \in {} |-> << >>]
  /\ penalty = [n \in Node |-> 0]
  /\ phase = "analyze"

Actual == Last(processing)

Processed == isPredecessorMemStateKnown(Actual) /\ Actual # Exit

(* The popped node is the exit or has a predecessor without a state.       *)
DropNode ==
  /\ phase = "analyze"
  /\ processing # << >>
  /\ ~Processed
  /\ processing' = Front(processing)
  /\ UNCHANGED <<msg, params, state_map, ctxMap, penalty, phase>>

(* Mutant: an exit node does not close its call.                           *)
addContextForNode_open(n) ==
  LET next == ToSet(ForwardEdges(msg.out[n]))
  IN  ctxMap' = [m \in DOMAIN ctxMap \cup next \cup {n} |->
                   IF m \in DOMAIN ctxMap \/ m = n \/ msg.type[n] = "Exit"
                   THEN getContextForNode(IF m \in next THEN n ELSE m)
                   ELSE ContextAfter(msg, n, getContextForNode(n))]

(* addContextForNode of the forward successors: the first context stays.   *)
addContextForNode(n) ==
  LET next == ToSet(ForwardEdges(msg.out[n]))
  IN  ctxMap' = [m \in DOMAIN ctxMap \cup next \cup {n} |->
                   IF m \in DOMAIN ctxMap \/ m = n THEN getContextForNode(m)
                   ELSE ContextAfter(msg, n, getContextForNode(n))]

(* One of the assertions on the way to the state of a node: a join behind  *)
(* a call or return, those of the update, the second insertion of a node,  *)
(* or an exit node without a call.                                         *)
NodeAsserts(n) ==
  LET pred == Predecessors(n)
      only == pred[1]
      update == IF n = Entry \/ Len(pred) # 1 THEN << >> ELSE UpdateOf(only)
  IN  \/ Len(pred) > 1 /\ \E i \in 1..Len(pred) : msg.type[pred[i]] # "Other"
      \/ /\ update # << >>
         /\ ~UpdateAsserts(state_map[only], update[1]) =>
              NormalizeCrashes(Activated(state_map[only], update[1]))
      \/ n \in DOMAIN state_map
      \/ msg.type[n] = "Exit" /\ getContextForNode(n) = << >>

(* The node gets its states, then its successors are pushed.               *)
ProcessNode ==
  /\ phase = "analyze"
  /\ processing # << >>
  /\ Processed
  /\ ~NodeAsserts(Actual)
  /\ state_map' = [n \in DOMAIN state_map \cup {Actual} |->
                     IF n = Actual THEN InitialStates(n) ELSE state_map[n]]
  /\ addContextForNode(Actual)
  /\ processing' = Front(processing) \o ForwardEdges(msg.out[Actual])
  /\ UNCHANGED <<msg, params, penalty, phase>>

AssertionFails ==
  /\ phase = "analyze"
  /\ processing # << >>
  /\ Processed
  /\ NodeAsserts(Actual)
  /\ phase' = "aborted"
  /\ UNCHANGED <<msg, params, processing, state_map, ctxMap, penalty>>

-----------------------------------------------------------------------------
Holds(content, f) ==
  IF params.rpol = "FIFO" THEN FifoIsInState(content, f) ELSE StackIsInState(content, f)

isInAllSets(f, n) ==
  state_map[n] # {} /\ \A content \in state_map[n] : Holds(content, f)

(* Mutant: a function some states hold costs no load.                      *)
DispCost_any(n) ==
  LET u == UpdateOf(n)[1]
  IN  IF \E content \in state_map[n] : Holds(content, u.func)
      THEN getDispHitPenalty(msg.type[n])
      ELSE getDispMissAndLoadPenalty(u.func, msg.type[n])

(* Only a certain hit saves the load.                                      *)
DispCost(n) ==
  LET u == UpdateOf(n)[1]
  IN  IF isInAllSets(u.func, n) THEN getDispHitPenalty(msg.type[n])
      ELSE getDispMissAndLoadPenalty(u.func, msg.type[n])

(* A node whose states were never computed is looked up, or the penalty of *)
(* an exit node has more than one in edge to go to.                        *)
PenaltyAsserts(n) ==
  /\ UpdateOf(n) # << >>
  /\ \/ n \notin DOMAIN state_map
     \/ msg.type[n] = "Exit" /\ Len(msg.in[n]) # 1

CalculateMemPenalty ==
  /\ phase = "analyze"
  /\ processing = << >>
  /\ IF \E n \in Node : PenaltyAsserts(n)
     THEN phase' = "aborted" /\ UNCHANGED penalty
     ELSE /\ phase' = "done"
          /\ penalty' = [n \in Node |-> IF UpdateOf(n) = << >> THEN 0 ELSE DispCost(n)]
  /\ UNCHANGED <<msg, params, processing, state_map, ctxMap>>

Next ==
  \/ DropNode
  \/ ProcessNode
  \/ AssertionFails
  \/ CalculateMemPenalty

Spec == Init /\ [][Next]_vars

-----------------------------------------------------------------------------
Called(f) == \E n \in Node : msg.type[n] = "Entry" /\ msg.func[n] = f

(* A function as large as the memory fills the ring: it begins where it    *)
(* ends, which the code cannot tell from an empty range.                   *)
FillsRing ==
  params.rpol = "STACK" /\ \E f \in Function : Called(f) /\ getFunctionMemSize(f) = params.size

(* What can stop the analysis of a program all of whose code is reached    *)
(* forwards, steps before jumps: a function that does not fit and is not to*)
(* be ignored; in a stack memory also one that is ignored, since a caller  *)
(* must be in the memory for its callees to be placed; and a function with *)
(* several returns.  No state is stored twice or looked up too early, no   *)
(* neighbour is missing from the ring and nothing is overwritten from      *)
(* within otherwise.                                                       *)
OtherAssertionsHold ==
  phase = "aborted" =>
    \/ /\ \E f \in Function : Called(f) /\ IsTooLarge(params, f)
       /\ ~params.ignore \/ params.rpol = "STACK"
    \/ \E n \in Node : msg.type[n] = "Exit" /\ Len(msg.in[n]) > 1

=============================================================================
