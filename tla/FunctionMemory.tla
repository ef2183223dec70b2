--------------------------- MODULE FunctionMemory ---------------------------
(***************************************************************************)
(* The hardware of the D-ISP analyses (external to the repository), as a   *)
(* reference for the arithmetic of the code: what a memory of functions    *)
(* promises, byte by byte.  p is a record with the size of the memory and, *)
(* for FIFO, of its table.  A function that is too large is never loaded.  *)
(***************************************************************************)
EXTENDS FunctionTable, SequencesExt

(* LRU: the functions in the memory, the most recently used first; the     *)
(* least recently used ones make room for a new one.                       *)
UsedSize(content) == UsedSizes(content)[Len(content)]

IsContent(p, content) ==
  /\ content \in Seq(Function)
  /\ IsInjective(content)
  /\ UsedSize(content) <= p.size

(* The longest beginning of a sequence of functions that fits.             *)
Fitting(p, content) ==
  LET used == UsedSizes(content)
  IN  SubSeq(content, 1,
             CHOOSE n \in 0..Len(content) :
               /\ used[n] <= p.size
               /\ n = Len(content) \/ used[n + 1] > p.size)

LoadLru(p, content, f) ==
  IF getFunctionMemSize(f) > p.size THEN content
  ELSE Fitting(p, <<f>> \o RemoveFirst(content, f))

(* FIFO: the functions in the order of their loading; a new one goes to    *)
(* the end of the queue, and no more leave at the front than must.         *)
HasRoomBehind(p, queue, i) ==
  /\ Len(queue) - i <= p.table
  /\ UsedSizes(queue)[Len(queue)] - UsedSizes(queue)[i] <= p.size

LoadFifo(p, queue, f) ==
  LET loaded == Append(queue, f)
      leaving == CHOOSE i \in 0..Len(loaded) :
                   /\ HasRoomBehind(p, loaded, i)
                   /\ \A j \in 0..i - 1 : ~HasRoomBehind(p, loaded, j)
  IN  IF f \in ToSet(queue) \/ getFunctionMemSize(f) > p.size THEN queue
      ELSE SubSeq(loaded, leaving + 1, Len(loaded))

(* Stack: the byte of the ring each function begins at.                    *)
Bytes(p, begin, f) == {(begin + i) % p.size : i \in 0..getFunctionMemSize(f) - 1}

(* A called function begins where its caller ends, one that is returned to *)
(* ends where its callee begins; the functions it overwrites are lost.     *)
BeginOf(p, ring, u) ==
  CASE ring = << >> -> 0
    [] ring # << >> /\ u.act = "CALL" ->
         (ring[u.previous] + getFunctionMemSize(u.previous)) % p.size
    [] ring # << >> /\ u.act = "RETURN" ->
         (ring[u.previous] + p.size - getFunctionMemSize(u.func)) % p.size

LoadRing(p, ring, u) ==
  LET begin == BeginOf(p, ring, u)
      intact == {f \in DOMAIN ring :
                   Bytes(p, ring[f], f) \cap Bytes(p, begin, u.func) = {}}
  IN  IF u.func \in DOMAIN ring \/ getFunctionMemSize(u.func) > p.size THEN ring
      ELSE [f \in intact \cup {u.func} |-> IF f = u.func THEN begin ELSE ring[f]]

=============================================================================
