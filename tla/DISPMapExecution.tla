--------------------------- MODULE DISPMapExecution -------------------------
(***************************************************************************)
(* The analysis of DISPDFAMap followed by an execution of the analysed     *)
(* program, with a real call stack and a real function memory.             *)
(***************************************************************************)
EXTENDS DISPDFAMap, FunctionMemory

VARIABLES
  at,        \* the node being executed
  stack,     \* the functions called and not yet left
  memory,    \* FIFO: the loaded functions in order; stack: where they begin
  looped     \* an edge backwards was taken

execVars == <<at, stack, memory, looped>>
allVars  == <<msg, params, processing, state_map, ctxMap, penalty, phase,
              at, stack, memory, looped>>

ExecInit ==
  /\ Init
  /\ at = Entry
  /\ stack = << >>
  /\ memory = << >>
  /\ looped = FALSE

Analyse == Next /\ UNCHANGED execVars

(* The function the memory is asked for next, with the real call stack.    *)
Request ==
  CASE msg.type[at] = "Entry" ->
         <<[func |-> msg.func[at], act |-> "CALL", previous |-> Top(stack)]>>
    [] msg.type[at] = "Exit" /\ Pop(stack) # << >> ->
         <<[func |-> Top(Pop(stack)), act |-> "RETURN", previous |-> Top(stack)]>>
    [] OTHER -> << >>

(* Control leaves a node along any of its edges; behind an entry and an    *)
(* exit node the memory has the function that goes on.                     *)
TakeEdge ==
  /\ phase = "done"
  /\ \E i \in 1..Len(msg.out[at]) :
       /\ at' = msg.out[at][i].node
       /\ looped' = (looped \/ msg.out[at][i].type = "BackwardJump")
  /\ stack' = ContextAfter(msg, at, stack)
  /\ memory' = CASE Request = << >> -> memory
                 [] Request # << >> /\ params.rpol = "FIFO" ->
                      LoadFifo(params, memory, Request[1].func)
                 [] Request # << >> /\ params.rpol = "STACK" ->
                      LoadRing(params, memory, Request[1])
  /\ UNCHANGED vars

ExecNext == Analyse \/ TakeEdge

ExecSpec == ExecInit /\ [][ExecNext]_allVars

-----------------------------------------------------------------------------
Resident == IF params.rpol = "FIFO" THEN ToSet(memory) ELSE DOMAIN memory

(* A state of the analysis describes the real memory: the same functions   *)
(* in the order of their loading or, for a stack, at the same places but   *)
(* for a rotation of the ring.                                             *)
Describes(content) ==
  IF params.rpol = "FIFO" THEN content = Reverse(memory)
  ELSE /\ {content[i].address : i \in 1..Len(content)} = DOMAIN memory
       /\ \E r \in 0..params.size - 1 : \A i \in 1..Len(content) :
            memory[content[i].address] = (content[i].pos_begin + r) % params.size

(* On every path without an edge backwards one of the states kept for a    *)
(* node is that of the real memory, whether a function wraps around the    *)
(* end of the ring, evicts its own callers, or is loaded again on a return.*)
ContentIsKept ==
  phase = "done" /\ ~looped /\ ~FillsRing =>
    \/ at = Exit
    \/ at = Entry
    \/ \E content \in state_map[at] : Describes(content)

RealCost ==
  IF Request[1].func \in Resident THEN getDispHitPenalty(msg.type[at])
  ELSE getDispMissAndLoadPenalty(Request[1].func, msg.type[at])

(* The penalty of a call or return pays for the cycles the memory takes,   *)
(* for a function that fills the memory too.                               *)
PenaltyCoversLoad ==
  phase = "done" /\ ~looped /\ Request # << >> => RealCost <= penalty[at]

(* The same, but for functions that fill the ring.                         *)
PenaltyCoversLoadIfRing == ~FillsRing => PenaltyCoversLoad

=============================================================================
