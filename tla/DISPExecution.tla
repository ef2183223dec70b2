--------------------------- MODULE DISPExecution ----------------------------
(***************************************************************************)
(* The analysis of DISPDFA followed by an execution of the analysed        *)
(* program, with a real call stack and a real D-ISP.  The properties       *)
(* compare what the analysis promised with what the D-ISP does.            *)
(***************************************************************************)
EXTENDS DISPDFA, FunctionMemory

VARIABLES
  at,        \* the node being executed
  stack,     \* the functions called and not yet left
  content,   \* the functions in the D-ISP, the most recently used first
  looped     \* an edge backwards was taken

Memory == [size |-> DispSize]

execVars == <<at, stack, content, looped>>
allVars  == <<msg, processing, memState, memStateVal, ctxMap, penalty, phase,
              at, stack, content, looped>>

ExecInit ==
  /\ Init
  /\ at = Entry
  /\ stack = << >>
  /\ content = << >>
  /\ looped = FALSE

Analyse == Next /\ UNCHANGED execVars

(* The function the D-ISP is asked for next: the one called, or the one    *)
(* below the top of the call stack.                                        *)
Requested ==
  IF msg.type[at] = "Entry" THEN <<msg.func[at]>>
  ELSE IF msg.type[at] = "Exit" /\ Pop(stack) # << >>
  THEN <<stack[Len(stack) - 1]>>
  ELSE << >>

(* Control leaves a node along any of its edges; behind an entry and an    *)
(* exit node the D-ISP has the function that goes on.                      *)
TakeEdge ==
  /\ phase = "done"
  /\ \E i \in 1..Len(msg.out[at]) :
       /\ at' = msg.out[at][i].node
       /\ looped' = (looped \/ msg.out[at][i].type = "BackwardJump")
  /\ stack' = ContextAfter(msg, at, stack)
  /\ content' = IF Requested = << >> THEN content
                ELSE LoadLru(Memory, content, Requested[1])
  /\ UNCHANGED vars

ExecNext == Analyse \/ TakeEdge

ExecSpec == ExecInit /\ [][ExecNext]_allVars

-----------------------------------------------------------------------------
ExecTypeOK ==
  /\ TypeOK
  /\ at \in Node
  /\ stack \in Seq(Function)
  /\ IsContent(Memory, content)
  /\ looped \in BOOLEAN

Activating == phase = "done" /\ Requested # << >>

(* The context the analysis keeps for a node is the call stack with which  *)
(* the program comes to the node, on every path, loops included.           *)
ContextIsCallStack ==
  phase = "done" /\ memStateVal[at] => getContextForNode(at) = stack

(* A call or return classified as a hit finds its function in the D-ISP.   *)
MustHits ==
  Activating /\ Category(at, Requested[1]) = "hit" => Contains(content, Requested[1])

(* One classified as an always miss does not.                              *)
MissesMiss ==
  Activating /\ memStateVal[at] /\ Category(at, Requested[1]) = "miss"
    => ~Contains(content, Requested[1])

RealCost ==
  IF Contains(content, Requested[1]) THEN getDispHitPenalty(msg.type[at])
  ELSE getDispMissAndLoadPenalty(Requested[1], msg.type[at])

(* The penalty of the node pays for the cycles the D-ISP takes.            *)
PenaltyCoversLoad == Activating => RealCost <= penalty[at]

(* The age of a function is the size of those used after it.               *)
RealAge(i) == UsedSizes(content)[i - 1]

(* The must set bounds the D-ISP from below and the may set from above,    *)
(* ages included.                                                          *)
AgesBound ==
  phase = "done" /\ memStateVal[at] =>
    /\ \A f \in DOMAIN memState[at].must :
         \E i \in 1..Len(content) :
           content[i] = f /\ RealAge(i) <= memState[at].must[f]
    /\ \A i \in 1..Len(content) :
         /\ content[i] \in DOMAIN memState[at].may
         /\ memState[at].may[content[i]] <= RealAge(i)

=============================================================================
