------------------------------ MODULE MCDISPMap -----------------------------
(***************************************************************************)
(* Model checking DISPMapExecution on the graphs of MCCallGraphs.  With    *)
(* 10 bytes of memory the largest function just fits, with 8 it does not.  *)
(***************************************************************************)
EXTENDS DISPMapExecution, MCCallGraphs

Params(rpol, size, table, ignore) ==
  [rpol |-> rpol, size |-> size, table |-> table, ignore |-> ignore]

AllParams ==
  {Params("FIFO", 8, 8, TRUE), Params("FIFO", 8, 2, TRUE), Params("FIFO", 10, 3, FALSE),
   Params("FIFO", 8, 8, FALSE), Params("STACK", 8, 8, TRUE), Params("STACK", 8, 8, FALSE),
   Params("STACK", 10, 8, TRUE), Params("STACK", 6, 8, TRUE)}

FullRing == {Params("STACK", 10, 8, TRUE)}
=============================================================================
