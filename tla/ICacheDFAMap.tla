---------------------------- MODULE ICacheDFAMap ----------------------------
(***************************************************************************)
(* The instruction cache data flow analysis of memory/icache_dfa_map.cpp   *)
(* (class ICacheDataFlowAnalyzerMap), which keeps the possible contents of *)
(* a FIFO cache.  The worklist is the one of ICacheDFA, but the states     *)
(* live in the state_map of the maintainer, where a node can be entered    *)
(* once only: addAbsMemState asserts that the insertion took place, and    *)
(* getAbsMemState that there is something to find.                         *)
(***************************************************************************)
EXTENDS MemoryStateGraph, SequencesExt

CONSTANTS
  Line,          \* the line addresses the program under analysis can fetch
  LineNo,        \* cache_parameters.line_no
  MissCost       \* getCacheMissCost(): the miss latency + 1

ASSUME LineNoAssumption == LineNo \in Nat \ {0}

ASSUME MissCostAssumption == MissCost \in Nat

(* The graphs to analyse are those the graph creator can build.            *)
ASSUME GraphAssumption == \A g \in MSGs : IsCodeGraph(g, Line)

-----------------------------------------------------------------------------
(***************************************************************************)
(* The cache states of memory/fifo_cache_mem_state.cpp and the sets of them*)
(* that memory/fifo_bf_cache_state_maintainer.cpp keeps.  A state is the   *)
(* sequence of cached lines, the newest first.  An AbsMemSet is a vector   *)
(* from which removeDuplicates erases repetitions: a set.  The blank state *)
(* is the empty vector, not a vector with an empty cache.                  *)
(***************************************************************************)

BlankStates == {}

isInState(content, addr) == \E i \in 1..Len(content) : content[i] = addr

(* Mutant: a hit refreshes the line.                                       *)
AccessAddress_refresh(content, addr) ==
  IF isInState(content, addr)
  THEN <<addr>> \o SelectSeq(content, LAMBDA a : a # addr)
  ELSE IF Len(content) + 1 > LineNo THEN <<addr>> \o Front(content)
  ELSE <<addr>> \o content

(* accessAddress: a hit changes nothing; a miss enters at the front and    *)
(* pushes the oldest line out of a full cache.                             *)
AccessAddress(content, addr) ==
  IF isInState(content, addr) THEN content
  ELSE IF Len(content) + 1 > LineNo THEN <<addr>> \o Front(content)
  ELSE <<addr>> \o content

(* updateState for one line address.                                       *)
UpdateState(states, addr) ==
  IF states = BlankStates THEN {AccessAddress(<< >>, addr)}
  ELSE {AccessAddress(content, addr) : content \in states}

(* The states along the fetch of some lines, and after all of them.        *)
UpdateAlong(states, line_addrs) ==
  LET upd[i \in 0..Len(line_addrs)] ==
        IF i = 0 THEN states ELSE UpdateState(upd[i - 1], line_addrs[i])
  IN  upd

UpdateStates(states, line_addrs) == UpdateAlong(states, line_addrs)[Len(line_addrs)]

(* Mutant: all states are needed for a non-miss.                           *)
isInAnySet_every(states, addr) ==
  states # BlankStates /\ \A content \in states : isInState(content, addr)

isInAllSets(states, addr) ==
  states # BlankStates /\ \A content \in states : isInState(content, addr)

isInAnySet(states, addr) == \E content \in states : isInState(content, addr)

-----------------------------------------------------------------------------
VARIABLES
  msg,           \* the graph under analysis
  processing,    \* the worklist; its last element is popped next
  memStateVal,   \* memStateValNProp: the state of the node was computed
  state_map,     \* the maintainer's map from nodes to sets of cache states
  penalty,       \* dynamicMemPenaltyEProp of the out edges of a node
  phase          \* "analyze", "done" or, after a failed assertion, "aborted"

vars == <<msg, processing, memStateVal, state_map, penalty, phase>>

Predecessors(n) == ForwardEdges(msg.in[n])

isPredecessorMemStateKnown(n) ==
  \/ n = Entry
  \/ \A i \in 1..Len(Predecessors(n)) : memStateVal[Predecessors(n)[i]]

(* The states after the execution of a node.                               *)
StatesAfter(n) == UpdateStates(state_map[n], msg.lines[n])

(* update() and join(): the states after every predecessor, in one vector. *)
InitialStates(n) ==
  IF n = Entry THEN BlankStates
  ELSE UNION {StatesAfter(Predecessors(n)[i]) : i \in 1..Len(Predecessors(n))}

Init ==
  /\ msg \in MSGs
  /\ processing = <<Entry>>
  /\ memStateVal = [n \in Node |-> FALSE]
  /\ state_map = [n \in {} |-> BlankStates]
  /\ penalty = [n \in Node |-> 0]
  /\ phase = "analyze"

Actual == Last(processing)

DropNode ==
  /\ phase = "analyze"
  /\ processing # << >>
  /\ ~isPredecessorMemStateKnown(Actual) \/ Actual = Exit
  /\ processing' = Front(processing)
  /\ UNCHANGED <<msg, memStateVal, state_map, penalty, phase>>

(* Mutant: the successors are pushed in reverse.                           *)
ProcessNode_reversed ==
  /\ phase = "analyze"
  /\ processing # << >>
  /\ isPredecessorMemStateKnown(Actual)
  /\ Actual # Exit
  /\ Actual \notin DOMAIN state_map
  /\ state_map' = [n \in DOMAIN state_map \cup {Actual} |->
                     IF n = Actual THEN InitialStates(n) ELSE state_map[n]]
  /\ memStateVal' = [memStateVal EXCEPT ![Actual] = TRUE]
  /\ processing' = Front(processing) \o Reverse(ForwardEdges(msg.out[Actual]))
  /\ UNCHANGED <<msg, penalty, phase>>

(* joinAndSetInitialMemState or setInitialMemState, then the successors.   *)
ProcessNode ==
  /\ phase = "analyze"
  /\ processing # << >>
  /\ isPredecessorMemStateKnown(Actual)
  /\ Actual # Exit
  /\ Actual \notin DOMAIN state_map
  /\ state_map' = [n \in DOMAIN state_map \cup {Actual} |->
                     IF n = Actual THEN InitialStates(n) ELSE state_map[n]]
  /\ memStateVal' = [memStateVal EXCEPT ![Actual] = TRUE]
  /\ processing' = Front(processing) \o ForwardEdges(msg.out[Actual])
  /\ UNCHANGED <<msg, penalty, phase>>

(* A node that already has an entry in the map: assert(ins_bool) fails.    *)
InsertAgain ==
  /\ phase = "analyze"
  /\ processing # << >>
  /\ isPredecessorMemStateKnown(Actual)
  /\ Actual # Exit
  /\ Actual \in DOMAIN state_map
  /\ phase' = "aborted"
  /\ UNCHANGED <<msg, processing, memStateVal, state_map, penalty>>

(* The class of the i-th fetch of a node: the lines fetched before it in   *)
(* the node (prev_cache_addrs) are applied first.                          *)
Category(n, i) ==
  LET addr   == msg.lines[n][i]
      states == UpdateAlong(state_map[n], msg.lines[n])[i - 1]
  IN  IF isInAllSets(states, addr) THEN "hit"
      ELSE IF isInAnySet(states, addr) THEN "nc"
      ELSE "miss"

(* Mutant: only a certain miss costs a miss.                               *)
CachePenalty_missOnly(n) ==
  MissCost * Cardinality({i \in 1..Len(msg.lines[n]) : Category(n, i) = "miss"})

CachePenalty(n) ==
  MissCost * Cardinality({i \in 1..Len(msg.lines[n]) : Category(n, i) # "hit"})

(* The nodes whose states calculateCachePenalty looks up.                  *)
Looked == {n \in Node : msg.lines[n] # << >>}

CalculateCachePenalty ==
  /\ phase = "analyze"
  /\ processing = << >>
  /\ Looked \subseteq DOMAIN state_map
  /\ penalty' = [n \in Node |-> IF n \in Looked THEN CachePenalty(n) ELSE 0]
  /\ phase' = "done"
  /\ UNCHANGED <<msg, processing, memStateVal, state_map>>

(* A basic block without states: assert(pos != state_map.end()) fails.     *)
LookupFails ==
  /\ phase = "analyze"
  /\ processing = << >>
  /\ ~(Looked \subseteq DOMAIN state_map)
  /\ phase' = "aborted"
  /\ UNCHANGED <<msg, processing, memStateVal, state_map, penalty>>

Next ==
  \/ DropNode
  \/ ProcessNode
  \/ InsertAgain
  \/ CalculateCachePenalty
  \/ LookupFails

Spec == Init /\ [][Next]_vars

-----------------------------------------------------------------------------
(* The nodes up to and including the first block: one that is entered from *)
(* a node without lines among them has it as its only predecessor.         *)
IsOpening(g, H) ==
  /\ Entry \in H
  /\ \A n \in Node, m \in H :
       g.lines[m] = << >> /\ HasForwardEdge(g.in[n], m)
         => n \in H /\ \A k \in Node : HasForwardEdge(g.in[n], k) => k = m

(* The blank state is dropped from a join with other states, because an    *)
(* empty vector adds nothing.  That is harmless if the code of a graph     *)
(* starts with one block, in front of any branch.                          *)
StartsWithOneBlock(g) == \E H \in SUBSET Node : IsOpening(g, H)

(* Every variable stays in the range the code's types give it; the nodes   *)
(* marked valid are the keys of the map.                                   *)
TypeOK ==
  /\ processing \in Seq(Node)
  /\ DOMAIN state_map = {n \in Node : memStateVal[n]}
  /\ \A n \in DOMAIN state_map : \A content \in state_map[n] :
       /\ content \in Seq(Line)
       /\ Len(content) <= LineNo
       /\ IsInjective(content)
  /\ penalty \in [Node -> Nat]
  /\ phase \in {"analyze", "done", "aborted"}

(* A node keeps the states its predecessors have.                          *)
FlowConsistent ==
  \A n \in DOMAIN state_map :
    /\ isPredecessorMemStateKnown(n)
    /\ state_map[n] = InitialStates(n)

(* addAbsMemState and getAbsMemState never abort the analysis.             *)
NoAssertionFails == phase # "aborted"

(* With such successors no node comes up for processing twice, so that     *)
(* assert(ins_bool) holds.                                                 *)
OrderedGraphsPass ==
  phase = "aborted" => ~StepsBeforeJumps(msg) \/ ~ForwardConnected(msg)

=============================================================================
