------------------------------- MODULE LRUDISP ------------------------------
(***************************************************************************)
(* The abstract dynamic instruction scratchpad (D-ISP) with LRU            *)
(* replacement of memory/lru_disp_state_maintainer.cpp.  The memory holds  *)
(* whole functions; the age of a function counts the bytes of the          *)
(* functions used after it, an upper bound in the must set and a lower     *)
(* bound in the may set.                                                   *)
(***************************************************************************)
EXTENDS FunctionTable

CONSTANTS
  ZeroFunction,     \* the address 0, which the maintainers take for "blank"
  DispSize,         \* disp_parameters.size
  IgnoreOutsized    \* disp_parameters.ignore_outsized_functions

(* setMemParameters asserts that the memory is not empty.                  *)
ASSUME DispAssumption ==
  /\ DispSize \in Nat \ {0}
  /\ IgnoreOutsized \in BOOLEAN

INSTANCE MemStateMaintainer WITH Line <- Function, ZeroLine <- ZeroFunction

Outsized(f) == getFunctionMemSize(f) > DispSize

(* Mutant: a function larger than the memory is loaded all the same.       *)
DispAddAddr_always(mem_set, f) ==
  LET aged(g) == mem_set[g] + getFunctionMemSize(f)
      kept    == {g \in DOMAIN mem_set : aged(g) + getFunctionMemSize(g) <= DispSize}
  IN  [g \in kept \cup {f} |-> IF g = f THEN 0 ELSE aged(g)]

(* addAddrToMemSet: the others age by the size of the function, the ones   *)
(* that no longer fit leave.  A function larger than the memory is not     *)
(* loaded.                                                                 *)
DispAddAddr(mem_set, f) ==
  LET aged(g) == mem_set[g] + getFunctionMemSize(f)
      kept    == {g \in DOMAIN mem_set : aged(g) + getFunctionMemSize(g) <= DispSize}
  IN  IF Outsized(f) THEN mem_set
      ELSE [g \in kept \cup {f} |-> IF g = f THEN 0 ELSE aged(g)]

checkFunctionIntersection(a_begin, a_end, b_begin, b_end) ==
  \/ a_begin >= b_begin /\ a_begin < b_end
  \/ b_begin >= a_begin /\ b_begin < a_end

(* Mutants: the must age forgets that g itself fits before f; the may age  *)
(* is the larger one.                                                      *)
getIntersectionalAge_must(analysis, f_age, f_size, g_age, g_size) ==
  IF analysis = "MUST" THEN f_age + f_size
  ELSE (IF f_age > g_age THEN g_age ELSE f_age) + f_size

getIntersectionalAge_may(analysis, f_age, f_size, g_age, g_size) ==
  LET behind == (IF f_age > g_size THEN f_age - g_size ELSE 0) + f_size
  IN  IF analysis = "MUST"
      THEN IF behind < g_age THEN g_age ELSE behind
      ELSE (IF f_age > g_age THEN f_age ELSE g_age) + f_size

(* The age of g once f, whose bytes overlap those of g, is the youngest.   *)
getIntersectionalAge(analysis, f_age, f_size, g_age, g_size) ==
  LET behind == (IF f_age > g_size THEN f_age - g_size ELSE 0) + f_size
  IN  IF analysis = "MUST"
      THEN IF behind < g_age THEN g_age ELSE behind
      ELSE (IF f_age > g_age THEN g_age ELSE f_age) + f_size

(* The age moveAddrToFront gives to g when f, which is in the set, is used.*)
AgeBehind(mem_set, f, g, analysis) ==
  LET f_size == getFunctionMemSize(f)
      g_size == getFunctionMemSize(g)
  IN  IF checkFunctionIntersection(mem_set[f], mem_set[f] + f_size,
                                   mem_set[g], mem_set[g] + g_size)
      THEN getIntersectionalAge(analysis, mem_set[f], f_size, mem_set[g], g_size)
      ELSE IF mem_set[g] < mem_set[f] THEN mem_set[g] + f_size
      ELSE mem_set[g]

PushedOut(mem_set, f, analysis) ==
  {g \in DOMAIN mem_set \ {f} :
     AgeBehind(mem_set, f, g, analysis) + getFunctionMemSize(g) > DispSize}

DispMoveToFront(mem_set, f, analysis) ==
  [g \in DOMAIN mem_set \ PushedOut(mem_set, f, analysis) |->
     IF g = f THEN 0 ELSE AgeBehind(mem_set, f, g, analysis)]

DispUpdateSet(mem_set, f, analysis) ==
  IF isInSet(f, mem_set) THEN DispMoveToFront(mem_set, f, analysis)
  ELSE DispAddAddr(mem_set, f)

(* update(): the function f is called, or returned to.                     *)
DispUpdate(state, f) ==
  [must |-> DispUpdateSet(state.must, f, "MUST"),
   may  |-> DispUpdateSet(state.may, f, "MAY")]

(* The assertions of update(): a function too large for the memory is one  *)
(* the user asked to ignore, and moving a function to the front pushes     *)
(* none out of the must set.                                               *)
UpdateAsserts(state, f) ==
  \/ Outsized(f) /\ ~IgnoreOutsized
  \/ isInSet(f, state.must) /\ PushedOut(state.must, f, "MUST") # {}

(* Mutant: the may join keeps the common functions only.                   *)
DispJoinMay_common(set_a, set_b) ==
  [f \in DOMAIN set_a \cap DOMAIN set_b |-> set_a[f]]

(* join() of two states.                                                   *)
DispJoinMust(set_a, set_b) ==
  [f \in {x \in UniqueMemAddrs(set_a, set_b) :
            isInSet(x, set_a) /\ isInSet(x, set_b)} |->
     IF set_a[f] > set_b[f] THEN set_a[f] ELSE set_b[f]]

DispJoinMay(set_a, set_b) ==
  [f \in UniqueMemAddrs(set_a, set_b) |->
     IF isInSet(f, set_a) /\ isInSet(f, set_b)
     THEN IF set_a[f] > set_b[f] THEN set_b[f] ELSE set_a[f]
     ELSE IF isInSet(f, set_a) THEN set_a[f] ELSE set_b[f]]

DispJoin(state_a, state_b) ==
  [must |-> DispJoinMust(state_a.must, state_b.must),
   may  |-> DispJoinMay(state_a.may, state_b.may)]

=============================================================================
