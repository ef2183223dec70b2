------------------------ MODULE CacheStateMaintainer ------------------------
(***************************************************************************)
(* The maintainers of the abstract cache states: what they share           *)
(* (memory/cache_state_maintainer.hpp), and update and join for the two    *)
(* replacement policies.                                                   *)
(***************************************************************************)
EXTENDS MemStateMaintainer

CONSTANTS
  LineNo,      \* cache_parameters.line_no
  BlockAddr    \* get_block_addr(): the address without its line bits

(* analyzeCache asserts that the cache has a line.                         *)
ASSUME LineNoAssumption == LineNo \in Nat \ {0}

ASSUME BlockAddrAssumption == BlockAddr \in [Line -> Nat]

-----------------------------------------------------------------------------
(***************************************************************************)
(* The abstract fully associative LRU cache of                             *)
(* memory/lru_cache_state_maintainer.cpp.  An age is an upper bound of the *)
(* real age in the must set and a lower bound in the may set.              *)
(***************************************************************************)

(* Mutants: the eviction bound is off by one, upwards and downwards.       *)
LRUAddAddr_late(mem_set, addr) ==
  LET kept == {a \in DOMAIN mem_set : mem_set[a] < LineNo}
  IN  [a \in kept \cup {addr} |-> IF a = addr THEN 0 ELSE mem_set[a] + 1]

LRUAddAddr_early(mem_set, addr) ==
  LET kept == {a \in DOMAIN mem_set : mem_set[a] + 2 < LineNo}
  IN  [a \in kept \cup {addr} |-> IF a = addr THEN 0 ELSE mem_set[a] + 1]

(* The address is not in the set: every entry ages, the ones that reach    *)
(* the end are erased and the address enters with age 0.                   *)
LRUAddAddr(mem_set, addr) ==
  LET kept == {a \in DOMAIN mem_set : mem_set[a] + 1 < LineNo}
  IN  [a \in kept \cup {addr} |-> IF a = addr THEN 0 ELSE mem_set[a] + 1]

(* Mutant: the older entries age.                                          *)
LRUMoveToFront_older(mem_set, addr, analysis) ==
  [a \in DOMAIN mem_set |->
     IF a = addr THEN 0
     ELSE IF mem_set[a] > mem_set[addr] THEN mem_set[a] + 1 ELSE mem_set[a]]

(* The address is in the set: it moves to age 0 and the entries younger    *)
(* than it (not older than it, for the may analysis) age.  Nothing is      *)
(* erased, so a may age can reach LineNo.                                  *)
LRUMoveToFront(mem_set, addr, analysis) ==
  LET ages(a) == \/ analysis = "MUST" /\ mem_set[a] < mem_set[addr]
                 \/ analysis = "MAY"  /\ mem_set[a] <= mem_set[addr]
  IN  [a \in DOMAIN mem_set |->
         IF a = addr THEN 0
         ELSE IF ages(a) THEN mem_set[a] + 1 ELSE mem_set[a]]

LRUUpdateSet(mem_set, addr, analysis) ==
  IF isInSet(addr, mem_set)
  THEN LRUMoveToFront(mem_set, addr, analysis)
  ELSE LRUAddAddr(mem_set, addr)

(* update() for one line address.                                          *)
LRUUpdate(state, addr) ==
  [must |-> LRUUpdateSet(state.must, addr, "MUST"),
   may  |-> LRUUpdateSet(state.may, addr, "MAY")]

(* Mutant: the must join keeps the smaller age.                            *)
LRUJoinMust_youngest(set_a, set_b) ==
  [a \in {x \in UniqueMemAddrs(set_a, set_b) :
            isInSet(x, set_a) /\ isInSet(x, set_b)} |->
     IF set_a[a] > set_b[a] THEN set_b[a] ELSE set_a[a]]

(* join() of two states: the common addresses with the larger age, and all *)
(* addresses with the smallest age they have.                              *)
LRUJoinMust(set_a, set_b) ==
  [a \in {x \in UniqueMemAddrs(set_a, set_b) :
            isInSet(x, set_a) /\ isInSet(x, set_b)} |->
     IF set_a[a] > set_b[a] THEN set_a[a] ELSE set_b[a]]

LRUJoinMay(set_a, set_b) ==
  [a \in UniqueMemAddrs(set_a, set_b) |->
     IF isInSet(a, set_a) /\ isInSet(a, set_b)
     THEN IF set_a[a] > set_b[a] THEN set_b[a] ELSE set_a[a]
     ELSE IF isInSet(a, set_a) THEN set_a[a] ELSE set_b[a]]

LRUJoin(state_a, state_b) ==
  [must |-> LRUJoinMust(state_a.must, state_b.must),
   may  |-> LRUJoinMay(state_a.may, state_b.may)]

-----------------------------------------------------------------------------
(***************************************************************************)
(* The abstract direct mapped cache of                                     *)
(* memory/dm_cache_state_maintainer.cpp.  Each entry holds the index of    *)
(* its line; a may set can hold several addresses with one index.          *)
(***************************************************************************)

DMIndex(addr) == BlockAddr[addr] % LineNo

(* Mutant: the line is added without evicting.                             *)
DMReplace_keep(mem_set, addr) ==
  [a \in DOMAIN mem_set \cup {addr} |-> DMIndex(a)]

(* addAddrToMemSet(.., evict = true): whatever has the index of the line   *)
(* leaves the set, then the line is added.                                 *)
DMReplace(mem_set, addr) ==
  LET kept == {a \in DOMAIN mem_set : mem_set[a] # DMIndex(addr)}
  IN  [a \in kept \cup {addr} |->
         IF a = addr THEN DMIndex(addr) ELSE mem_set[a]]

(* update() for one line address: both branches of the code evict.         *)
DMUpdate(state, addr) ==
  [must |-> DMReplace(state.must, addr),
   may  |-> DMReplace(state.may, addr)]

(* Mutant: the may join keeps the common addresses only.                   *)
DMJoinMay_common(set_a, set_b) ==
  [a \in DOMAIN set_a \cap DOMAIN set_b |-> DMIndex(a)]

(* join() adds without evicting, at the index of each address.             *)
DMJoinMust(set_a, set_b) ==
  [a \in {x \in UniqueMemAddrs(set_a, set_b) :
            isInSet(x, set_a) /\ isInSet(x, set_b)} |-> DMIndex(a)]

DMJoinMay(set_a, set_b) ==
  [a \in UniqueMemAddrs(set_a, set_b) |-> DMIndex(a)]

DMJoin(state_a, state_b) ==
  [must |-> DMJoinMust(state_a.must, state_b.must),
   may  |-> DMJoinMay(state_a.may, state_b.may)]

=============================================================================
