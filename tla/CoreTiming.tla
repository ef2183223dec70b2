------------------------------ MODULE CoreTiming ----------------------------
(***************************************************************************)
(* How long the cores need for a block: arch/armv6m_core_timing.cpp and    *)
(* arch/carcore_timing.cpp.  The code of a block is a sequence of [len,    *)
(* class]; a block is fetched from the memory on the chip or off it, and   *)
(* costs [step, jump] cycles, by the way it is left.                       *)
(***************************************************************************)
EXTENDS Integers, Sequences, FiniteSets, SequencesExt

CONSTANT Latency   \* of each core: the latencies of its configuration

Memories == {"on", "off"}

LatencyOf(arch, class, where) ==
  IF class = "load" THEN Latency[arch].load[where] ELSE Latency[arch][class]

-----------------------------------------------------------------------------
(* The ARMv6-M fetches words of four bytes.  Of a word entered at its upper*)
(* half only that half goes to the buffer; the comparisons are strict, an  *)
(* instruction that just fits is fetched again.                            *)

getInstructionsFetchLatency(addr, len, buffered) ==
  CASE len < buffered -> [words |-> 0, left |-> buffered - len]
    [] len = 4 /\ buffered \in 3..4 -> [words |-> 1, left |-> buffered]
    [] len >= buffered /\ ~(len = 4 /\ buffered \in 3..4) ->
         IF addr % 4 = 0 THEN [words |-> 1, left |-> buffered + 4 - len]
         ELSE IF len = 2 THEN [words |-> 1, left |-> buffered]
         ELSE [words |-> 2, left |-> buffered + 2]

(* A block entered by steps only finds the rest of the word in the buffer. *)
getInitialFetchBufferState(addr, step) == IF step /\ addr % 4 # 0 THEN 2 ELSE 0

(* Branches that depend on a condition cost what is paid for the exit.     *)
ArmLatency(class, exit, where) ==
  IF class = "cond" THEN Latency["armv6m"].cond[exit] ELSE LatencyOf("armv6m", class, where)

(* The classes the configuration has latencies for.                        *)
ArmClasses == DOMAIN Latency["armv6m"] \ {"fetch"}

ASSUME ArmLatencyAssumption ==
  /\ \A where \in Memories : Latency["armv6m"].fetch[where] \in Nat
  /\ \A class \in ArmClasses, exit \in {"step", "jump"}, where \in Memories :
       ArmLatency(class, exit, where) \in Nat

ArmExecute(acc, i, where) ==
  LET fetch == getInstructionsFetchLatency(acc.addr, i.len, acc.left)
      after(exit) == acc[exit] + fetch.words * Latency["armv6m"].fetch[where]
                       + 1 + ArmLatency(i.class, exit, where)
  IN  [addr |-> acc.addr + i.len, left |-> fetch.left,
       step |-> after("step"), jump |-> after("jump")]

(* The loop over the code: after each number of instructions, and at last. *)
ArmAlong(start, code, step, where) ==
  LET along[n \in 0..Len(code)] ==
        IF n = 0 THEN [addr |-> start, left |-> getInitialFetchBufferState(start, step),
                       step |-> 0, jump |-> 0]
        ELSE ArmExecute(along[n - 1], code[n], where)
  IN  along

ArmCycles(start, code, step, where) ==
  LET end == ArmAlong(start, code, step, where)[Len(code)]
  IN  [step |-> end.step, jump |-> end.jump]

(* The core itself keeps the last word it has fetched until it branches.   *)
Redirects(class, addr, len, next) == class \in {"jump", "call", "return"} \/ next # addr + len

ArmStep(core, class, addr, len, next, where) ==
  LET taken   == Redirects(class, addr, len, next)
      fetched == ((addr \div 4)..((addr + len - 1) \div 4)) \ {core.word}
  IN  [word |-> IF taken THEN -1 ELSE (addr + len - 1) \div 4,
       cycles |-> core.cycles + Cardinality(fetched) * Latency["armv6m"].fetch[where] + 1
                    + ArmLatency(class, IF taken THEN "jump" ELSE "step", where)]

-----------------------------------------------------------------------------
(* The CarCore has two pipelines that work on a data and an address        *)
(* instruction together, and an instruction window of three words of eight *)
(* bytes, each with the cycle from which it is valid.                      *)
IWS == 3
ToFetchAddr(addr) == addr - (addr % 8)

CarFetch(where) == Latency["carcore"].fetch[where]

(* Where a jump goes to, the fetch that is under way has to end first.     *)
JumpWindow(addr, where) ==
  [i \in 1..IWS |-> [address |-> ToFetchAddr(addr) + 8 * (i - 1),
                     valid |-> 2 * CarFetch(where) + 1 + (i - 1) * (CarFetch(where) + 1)]]

(* When an instruction is complete; its words have to be in front.         *)
WordsOf(addr, len) == 1 + (ToFetchAddr(addr + len - 1) - ToFetchAddr(addr)) \div 8

InWindow(iw, addr, len) ==
  /\ iw[1].address = ToFetchAddr(addr)
  /\ iw[WordsOf(addr, len)].address = ToFetchAddr(addr + len - 1)

(* The word behind the last one is requested when the first one is used up.*)
updateIWOnExecution(iw, addr, len, request, where) ==
  LET last == iw[IWS]
  IN  IF ToFetchAddr(addr) = ToFetchAddr(addr + len) THEN iw
      ELSE Append(Tail(iw),
             [address |-> last.address + 8,
              valid |-> IF last.valid >= request THEN last.valid + CarFetch(where) + 1
                        ELSE request + CarFetch(where) + 2])

Pipeline(class) == IF class \in {"data", "cond"} THEN "data" ELSE "address"

(* Besides its cycle; what a branch takes is charged at the block's end.   *)
CarLatency(class) ==
  IF class \in {"jump", "cond"} THEN 0 ELSE LatencyOf("carcore", class, "off")

(* An address instruction shares the cycle of the data instruction before. *)
CarComplete(core, i, where, begin, paired) ==
  [addr |-> core.addr + i.len,
   iw |-> updateIWOnExecution(core.iw, core.addr, i.len, IF paired THEN begin - 1 ELSE begin, where),
   cycles |-> begin + 1 + CarLatency(i.class)
                - (IF paired /\ Pipeline(i.class) = "address" THEN 1 ELSE 0),
   pipe |-> Pipeline(i.class),
   ok |-> core.ok /\ InWindow(core.iw, core.addr, i.len)]

CarExecute(core, i, where) ==
  LET valid == core.iw[WordsOf(core.addr, i.len)].valid
  IN  CarComplete(core, i, where, IF core.cycles < valid THEN valid ELSE core.cycles,
                  core.cycles > valid /\ core.pipe = "data")

(* What is left of the window, for the block behind this one.              *)
IWForSubsequentBB(core) ==
  LET kept == SelectSeq(core.iw, LAMBDA w : w.address >= ToFetchAddr(core.addr))
  IN  [i \in 1..Len(kept) |->
         [kept[i] EXCEPT !.valid = IF @ < core.cycles + 1 THEN 0 ELSE @ - (core.cycles + 1)]]

(* Mutant: a branch that is not taken costs nothing more.                  *)
CarExit_step(core, last) ==
  LET taken == core.cycles + Latency["carcore"].branch
  IN  CASE last = "jump" -> [step |-> 0, jump |-> taken]
        [] last = "call" -> [step |-> 0, jump |-> core.cycles]
        [] last = "cond" -> [step |-> core.cycles, jump |-> taken]
        [] OTHER         -> [step |-> core.cycles, jump |-> 0]

(* What is paid for the ways out of the block; of a jump only one.         *)
CarExit(core, last) ==
  LET taken == core.cycles + Latency["carcore"].branch
  IN  CASE last = "jump" -> [step |-> 0, jump |-> taken]
        [] last = "call" -> [step |-> 0, jump |-> core.cycles]
        [] last = "cond" -> [step |-> taken, jump |-> taken]
        [] OTHER         -> [step |-> core.cycles, jump |-> 0]

(* The windows kept are those of blocks that do not end with a jump; each  *)
(* is taken by the block behind, if that is entered by steps only.         *)
FirstWindow(windows, start, step, where) ==
  IF ~step THEN JumpWindow(start, where)
  ELSE IF start \in DOMAIN windows THEN windows[start] ELSE << >>

Executed(start, iw, code, where) ==
  FoldLeft(LAMBDA acc, i : CarExecute(acc, i, where),
           [addr |-> start, iw |-> iw, cycles |-> 0, pipe |-> "none", ok |-> TRUE], code)

WithWindowOf(windows, core, class) ==
  LET kept == IF class = "jump" THEN {} ELSE {core.addr}
  IN  [ok |-> core.ok /\ DOMAIN windows \cap kept = {},
       windows |-> [a \in DOMAIN windows \cup kept |->
                      IF a \in DOMAIN windows THEN windows[a] ELSE IWForSubsequentBB(core)],
       cycles |-> CarExit(core, class)]

CarBlock(windows, start, code, step, where) ==
  IF Len(FirstWindow(windows, start, step, where)) # IWS
  THEN [ok |-> FALSE, windows |-> windows, cycles |-> [step |-> 0, jump |-> 0]]
  ELSE WithWindowOf(IF step THEN [a \in DOMAIN windows \ {start} |-> windows[a]] ELSE windows,
                    Executed(start, FirstWindow(windows, start, step, where), code, where),
                    Last(code).class)

-----------------------------------------------------------------------------
(* All blocks, in the order in which their cost is calculated.  Each is    *)
(* [id, start, code, step].                                                *)
CyclesWith(acc, block) ==
  [ok |-> block.ok, windows |-> block.windows, cycles |-> Append(acc.cycles, block.cycles)]

CarCycles(blocks, where) ==
  FoldLeft(LAMBDA acc, b :
      IF acc.ok THEN CyclesWith(acc, CarBlock(acc.windows, b.start, b.code, b.step, where)) ELSE acc,
    [ok |-> TRUE, windows |-> [a \in {} |-> << >>], cycles |-> << >>], blocks)

InEachMemory(all) ==
  [ok |-> \A where \in Memories : all[where].ok, cycles |-> [where \in Memories |-> all[where].cycles]]

(* What stays undone when an assertion fails does not matter.              *)
getCycleCountForInstructions(arch, blocks) ==
  InEachMemory([where \in Memories |->
    IF arch = "carcore" THEN CarCycles(blocks, where)
    ELSE [ok |-> TRUE, cycles |-> [i \in 1..Len(blocks) |->
            ArmCycles(blocks[i].start, blocks[i].code, blocks[i].step, where)]]])

=============================================================================
