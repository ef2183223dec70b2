--------------------------- MODULE ForwardAnalysis --------------------------
(***************************************************************************)
(* What a data flow analysis over an acyclic graph promises, whatever its  *)
(* worklist looks like: every node the flow reaches, the exit excepted, is *)
(* solved exactly once, after all its predecessors, and the analysis ends  *)
(* when no node is left to solve.                                          *)
(***************************************************************************)
CONSTANTS Node, Entry, Exit

VARIABLES
  preds,    \* the predecessors of each node
  solved,   \* the nodes that have their state
  ended     \* the results were put on the graph

absVars == <<preds, solved, ended>>

Init ==
  /\ preds \in [Node -> SUBSET Node]
  /\ solved = {}
  /\ ended = FALSE

Solvable(n) ==
  /\ n # Exit
  /\ n \notin solved
  /\ n = Entry \/ preds[n] # {}
  /\ preds[n] \subseteq solved

Solve(n) ==
  /\ ~ended
  /\ Solvable(n)
  /\ solved' = solved \cup {n}
  /\ UNCHANGED <<preds, ended>>

End ==
  /\ ~ended
  /\ \A n \in Node : ~Solvable(n)
  /\ ended' = TRUE
  /\ UNCHANGED <<preds, solved>>

Next == (\E n \in Node : Solve(n)) \/ End

Spec == Init /\ [][Next]_absVars

FairSpec == Spec /\ WF_absVars(Next)

=============================================================================
