------------------------- MODULE MemStateMaintainer -------------------------
(***************************************************************************)
(* The abstract memory sets of the data flow analyses and the operations   *)
(* every maintainer shares: memory/mem_state_maintainer.cpp and the types  *)
(* of graph/graph_structure.h.                                             *)
(*                                                                         *)
(* The code keeps a must set and a may set as vectors of (address, age)    *)
(* entries with at most one entry per address; the vector order is never   *)
(* read (it is re-sorted after every join), so a set is modelled as the    *)
(* partial function from addresses to ages.  The direct mapped maintainer  *)
(* stores the index of the line in the same field (a C union).             *)
(***************************************************************************)
EXTENDS Naturals

CONSTANTS
  Line,      \* the addresses of what the memory holds
  ZeroLine   \* the address 0, which the maintainers take for "blank"

(* A vector<abs_mem_entry_t>: the age (or position) of each address in it. *)
IsMemSet(mem_set) ==
  /\ DOMAIN mem_set \subseteq Line
  /\ mem_set \in [DOMAIN mem_set -> Nat]

(* abs_mem_set_t: the two sets the analysis keeps of a program point.      *)
IsAbsMemSet(state) ==
  /\ state = [must |-> state.must, may |-> state.may]
  /\ IsMemSet(state.must)
  /\ IsMemSet(state.may)

isInSet(addr, mem_set) == addr \in DOMAIN mem_set

(* A join looks only at addresses other than 0.                            *)
UniqueMemAddrs(set_a, set_b) ==
  (DOMAIN set_a \cup DOMAIN set_b) \ {ZeroLine}

(* setBlankMemState clears both sets: nothing is cached for certain, and   *)
(* nothing may be cached, which is the state of a flushed cache.           *)
BlankMemState == [must |-> [a \in {} |-> 0], may |-> [a \in {} |-> 0]]

=============================================================================
