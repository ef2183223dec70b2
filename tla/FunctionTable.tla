---------------------------- MODULE FunctionTable ---------------------------
(***************************************************************************)
(* What every D-ISP maintainer knows of the functions of the program: the  *)
(* size graph/fcgobj.cpp computed, and the whole blocks of the memory a    *)
(* function takes (DISPMemState, BFDISPStateMaintainer and                 *)
(* DISPStateMaintainerLRU all have the same getFunctionMemSize).           *)
(***************************************************************************)
EXTENDS Integers, Sequences

CONSTANTS
  Function,         \* the addresses of the functions of the program
  FunctionSize,     \* FunctionCallGraphObject::getFunctionSize
  BlockSize         \* disp_parameters.block_size

(* getFunctionMemSize asserts that the function is known and not empty,    *)
(* setMemParameters that blocks are not empty.                             *)
ASSUME FunctionAssumption ==
  /\ FunctionSize \in [Function -> Nat \ {0}]
  /\ BlockSize \in Nat \ {0}

getFunctionMemSize(f) ==
  LET full == (FunctionSize[f] \div BlockSize) * BlockSize
  IN  IF FunctionSize[f] % BlockSize = 0 THEN full ELSE full + BlockSize

(* The sizes of the first functions of a sequence, added up.               *)
UsedSizes(content) ==
  LET used[i \in 0..Len(content)] ==
        IF i = 0 THEN 0 ELSE used[i - 1] + getFunctionMemSize(content[i])
  IN  used

=============================================================================
