--------------------------- MODULE DISPMemStates ----------------------------
(***************************************************************************)
(* The concrete states of a D-ISP that the map based analysis keeps sets of:*)
(* a queue and a ring of functions.                                        *)
(***************************************************************************)
EXTENDS FunctionTable, SequencesExt

-----------------------------------------------------------------------------
(***************************************************************************)
(* The concrete D-ISP state with FIFO replacement of                       *)
(* memory/fifo_disp_mem_state.cpp: the functions in the memory, the newest *)
(* first.  p is the disp_parameters record of the analysis: the size of    *)
(* the memory, the entries of its mapping table, and whether functions     *)
(* larger than the memory are ignored.                                     *)
(***************************************************************************)

IsTooLarge(p, f) == getFunctionMemSize(f) > p.size

(* activateFunction stops at a function that does not fit, if such         *)
(* functions are not to be ignored.                                        *)
OutsizedAsserts(p, f) == IsTooLarge(p, f) /\ ~p.ignore

FifoIsInState(content, f) == Contains(content, f)

(* The newest functions that the table and the memory have room for.       *)
FifoFitting(p, content) ==
  LET used == UsedSizes(content)
  IN  SubSeq(content, 1,
             CHOOSE n \in 0..Len(content) :
               /\ n <= p.table /\ used[n] <= p.size
               /\ \A m \in n + 1..Len(content) : m > p.table \/ used[m] > p.size)

(* activateFunction: a hit changes nothing; a new function pushes out the  *)
(* oldest ones until table and memory hold the rest.                       *)
FifoActivate(p, content, f) ==
  IF IsTooLarge(p, f) \/ FifoIsInState(content, f) THEN content
  ELSE FifoFitting(p, <<f>> \o content)


-----------------------------------------------------------------------------
(***************************************************************************)
(* The concrete D-ISP state with stack replacement of                      *)
(* memory/stack_disp_mem_state.cpp.  The memory is a ring of p.size bytes; *)
(* a called function is loaded behind its caller, one that is returned to  *)
(* in front of its callee, and whatever they overlap is evicted.  A state  *)
(* is the vector of (address, pos_begin, pos_end) in the order of the      *)
(* ring.  Bounds are half open; a range with pos_begin > pos_end wraps.    *)
(***************************************************************************)

(* position_t has 16 bit fields, the entries of the content 32 bit ones.   *)
PositionRange == 2 ^ 16

ToPosition(entry) ==
  [pos_begin |-> entry.pos_begin % PositionRange, pos_end |-> entry.pos_end % PositionRange]

Wraps(range) == range.pos_begin > range.pos_end

Smaller(a, b) == IF a < b THEN a ELSE b
Larger(a, b)  == IF a < b THEN b ELSE a

(* Mutant: the wrap of the range that is entered is forgotten.             *)
checkFunctionIntersection_flat(p, a, b) ==
  LET BeginsIn(x, y) == x.pos_begin >= y.pos_begin /\ x.pos_begin < y.pos_end
  IN  BeginsIn(a, b) \/ BeginsIn(b, a)

checkFunctionIntersection(p, a, b) ==
  LET BeginsIn(x, y) ==
        /\ x.pos_begin >= y.pos_begin
        /\ \/ x.pos_begin < y.pos_end + (IF Wraps(y) THEN p.size ELSE 0)
           \/ Wraps(x) /\ x.pos_end > y.pos_begin
  IN  BeginsIn(a, b) \/ BeginsIn(b, a)

(* The common range of a wrapping range a and a flat range b.              *)
WrapIntersection(a, b) ==
  IF a.pos_begin > b.pos_end
  THEN [pos_begin |-> b.pos_begin, pos_end |-> Smaller(a.pos_end, b.pos_end)]
  ELSE [pos_begin |-> Larger(a.pos_begin, b.pos_begin), pos_end |-> b.pos_end]

(* getFunctionIntersection of two ranges that intersect.                   *)
getFunctionIntersection(a, b) ==
  CASE Wraps(a) /\ ~Wraps(b) -> WrapIntersection(a, b)
    [] Wraps(b) /\ ~Wraps(a) -> WrapIntersection(b, a)
    [] OTHER -> [pos_begin |-> Larger(a.pos_begin, b.pos_begin),
                 pos_end |-> Smaller(a.pos_end, b.pos_end)]

StackIsInState(content, f) == \E i \in 1..Len(content) : content[i].address = f

PositionOf(content, f) == CHOOSE i \in 1..Len(content) : content[i].address = f

Overwrites(p, new, entry) ==
  /\ entry.address # new.address
  /\ checkFunctionIntersection(p, ToPosition(new), ToPosition(entry))

(* evictFunctionsInRange.                                                  *)
Evict(p, content, new) ==
  LET kept[i \in 0..Len(content)] ==
        IF i = 0 THEN << >>
        ELSE IF Overwrites(p, new, content[i]) THEN kept[i - 1]
        ELSE Append(kept[i - 1], content[i])
  IN  kept[Len(content)]

(* Its assertion: what is overwritten is entered from the left or right.   *)
EvictAsserts(p, content, new) ==
  \E i \in 1..Len(content) :
    /\ Overwrites(p, new, content[i])
    /\ LET common == getFunctionIntersection(ToPosition(new), ToPosition(content[i]))
       IN  /\ common.pos_begin # ToPosition(content[i]).pos_begin
           /\ common.pos_end # ToPosition(content[i]).pos_end

(* Where a function goes that is activated by a call from, or on a return  *)
(* from, the function previous.  Only the first one's end is not reduced   *)
(* to the ring.                                                            *)
NewEntry(p, content, f, act, previous) ==
  LET size == getFunctionMemSize(f)
      next == content[PositionOf(content, previous)]
  IN  CASE content = << >> -> [address |-> f, pos_begin |-> 0, pos_end |-> size]
        [] content # << >> /\ act = "CALL" ->
             [address |-> f, pos_begin |-> next.pos_end,
              pos_end |-> (next.pos_end + size) % p.size]
        [] content # << >> /\ act = "RETURN" ->
             [address |-> f, pos_begin |-> (next.pos_begin + p.size - size) % p.size,
              pos_end |-> next.pos_begin]

Inserted(p, content, f, act, previous) ==
  InsertAt(content,
           IF content = << >> THEN 1
           ELSE PositionOf(content, previous) + (IF act = "CALL" THEN 1 ELSE 0),
           NewEntry(p, content, f, act, previous))

(* The function activated before is not there to be found, unless the      *)
(* first function is called into an empty memory.                          *)
NeighbourAsserts(content, act, previous) ==
  ~StackIsInState(content, previous) /\ ~(content = << >> /\ act = "CALL")

(* The assertions of activateFunction for a function that fits.            *)
StackAsserts(p, content, f, act, previous) ==
  /\ ~StackIsInState(content, f)
  /\ ~NeighbourAsserts(content, act, previous) =>
       EvictAsserts(p, Inserted(p, content, f, act, previous),
                    NewEntry(p, content, f, act, previous))

(* activateFunction.                                                       *)
StackActivate(p, content, f, act, previous) ==
  IF getFunctionMemSize(f) > p.size \/ StackIsInState(content, f) THEN content
  ELSE Evict(p, Inserted(p, content, f, act, previous),
             NewEntry(p, content, f, act, previous))

(* normalize(): the first function of a state moves to position 0.         *)
normalize(p, content) ==
  LET offset == content[1].pos_begin
  IN  IF offset = 0 THEN content
      ELSE [i \in 1..Len(content) |->
              [content[i] EXCEPT !.pos_begin = (@ + p.size - offset) % p.size,
                                 !.pos_end = (@ + p.size - offset) % p.size]]

=============================================================================
