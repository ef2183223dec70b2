------------------------------ MODULE DumpParser ----------------------------
(***************************************************************************)
(* The parsers of a disassembly (parser/dump_parser.cpp and those of the   *)
(* ARMv6-M and the CarCore), one line per step.  A line is a record: labels*)
(* and instructions have an address, instructions a length, a kind and the *)
(* target of a branch.                                                     *)
(***************************************************************************)
EXTENDS FlowGraph

CONSTANTS
  Programs,     \* the programs to analyse
  Indirect      \* the target of a branch through a register

VARIABLES
  program,      \* the file and the annotations
  file,         \* unparsed_file_content
  parsing,      \* the variables of the running parseCfgForLabel, or Idle
  process,      \* the labels still to parse
  processed,    \* the addresses of parsed labels
  blacklist,    \* the labels inside the start up code
  func_cfgs,    \* the parsed functions, as [address, cfg]
  parser        \* "parse", "parsed" or "aborted"

parserVars == <<program, file, parsing, process, processed, blacklist, func_cfgs, parser>>

Idle == [function |-> Top]

IsBranch(l) == l.kind = "code" /\ l.op \in {"cond", "jump", "call", "return"}

(* jump_target_vec: the direct targets, and the table of indirect jumps.   *)
JumpTargets(p) ==
  {p.lines[i].target : i \in {j \in 1..Len(p.lines) :
                                IsBranch(p.lines[j]) /\ p.lines[j].target # Indirect}}
  \cup UNION {Range(p.jump_table[a]) : a \in DOMAIN p.jump_table}

Labels(p) == SelectSeq(p.lines, LAMBDA l : l.kind = "label")

getJumpTargetsForIndirectJump(addr) ==
  IF addr \in DOMAIN program.jump_table THEN program.jump_table[addr] ELSE << >>

getCallTargetsForIndirectCall(addr) ==
  IF addr \in DOMAIN program.call_table THEN program.call_table[addr] ELSE << >>

(* A label the line parser ignores is none.                                *)
getAddrLabelForAddr(addr) ==
  IF addr \notin program.ignored /\ \E i \in 1..Len(Labels(program)) :
                                      Labels(program)[i].addr = addr
  THEN addr ELSE UNKNOWN_ADDR

(* The ARMv6-M parser loads labels and instructions only, so that memory   *)
(* holes are not seen, and begins at the entry function.  The CarCore one  *)
(* parses every label in the order of the file.                            *)
LoadedLines(p) ==
  IF p.arch = "armv6m" THEN SelectSeq(p.lines, LAMBDA l : l.kind # "hole") ELSE p.lines

LabelsToParse(p) ==
  IF p.arch = "armv6m" THEN <<p.entry>>
  ELSE LET parsed == SelectSeq(Labels(p), LAMBDA l : l.addr \notin p.ignored)
       IN  [i \in 1..Len(parsed) |-> parsed[i].addr]

InitParser ==
  /\ program \in Programs
  /\ file = LoadedLines(program)
  /\ parsing = Idle
  /\ process = LabelsToParse(program)
  /\ processed = {}
  /\ blacklist = {}
  /\ func_cfgs = << >>
  /\ parser = "parse"

-----------------------------------------------------------------------------
(* The block being read.                                                   *)
NoBlock == [in_bb |-> FALSE, start |-> 0, size |-> 0, instrs |-> 0, code |-> << >>]

(* The line of a label, or the last line if the label is not found.        *)
FindLabel(addr) ==
  LET found == {i \in 1..Len(file) : file[i].kind = "label" /\ file[i].addr = addr}
  IN  IF found = {} THEN Len(file) ELSE Min(found)

Begin(addr) ==
  [function |-> addr, begin |-> FindLabel(addr), line |-> FindLabel(addr),
   bb |-> NoBlock, cfg |-> NewObject, finished |-> FALSE, next |-> 0, hole |-> -1]

(* The next label of the list is parsed unless it was before, or is one of *)
(* the start up code.                                                      *)
ParseLabel ==
  /\ parser = "parse" /\ parsing = Idle /\ process # << >>
  /\ IF Head(process) \in processed \cup blacklist
     THEN process' = Tail(process) /\ UNCHANGED <<parsing, parser>>
     ELSE IF file = << >>
     THEN parser' = "aborted" /\ UNCHANGED <<parsing, process>>
     ELSE parsing' = Begin(Head(process)) /\ UNCHANGED <<process, parser>>
  /\ UNCHANGED <<program, file, processed, blacklist, func_cfgs>>

(* Indirect calls with known targets are not supported: assert(false).     *)
CallAsserts(p, bb, l) ==
  /\ l.op = "call" /\ l.target = Indirect
  /\ IF program.arch = "carcore" /\ p.function # program.startup
     THEN getCallTargetsForIndirectCall(l.addr) # << >>
     ELSE getJumpTargetsForIndirectJump(bb.start) # << >>

(* Mutant: the successor of a jump is the next block.                      *)
Jump_next(c, bb, l) == addBBNode(c, bb, l.addr + l.len)

Jump(c, bb, l) ==
  IF l.target # Indirect THEN addBBNode(c, bb, l.target)
  ELSE IF getJumpTargetsForIndirectJump(bb.start) = << >> THEN addBBNode(c, bb, UNKNOWN_ADDR)
  ELSE addBBJumps(c, bb, getJumpTargetsForIndirectJump(bb.start))

Conditional(c, bb, l) ==
  IF l.target # Indirect THEN addBBCond(c, bb, l.addr + l.len, l.target)
  ELSE IF getJumpTargetsForIndirectJump(bb.start) = << >>
  THEN addBBCond(c, bb, l.addr + l.len, UNKNOWN_ADDR)
  ELSE addBBConds(c, bb, l.addr + l.len, getJumpTargetsForIndirectJump(bb.start))

(* A call to an address without a label is a jump for the ARMv6-M parser.  *)
Call(c, bb, l) ==
  LET callee == IF l.target = Indirect THEN UNKNOWN_ADDR ELSE getAddrLabelForAddr(l.target)
  IN  IF callee = UNKNOWN_ADDR /\ l.target # Indirect /\ program.arch = "armv6m"
      THEN Jump(c, bb, l)
      ELSE addBBCallNode(c, bb, l.addr + l.len, <<callee>>)

Branch(c, bb, l) ==
  CASE l.op = "cond"   -> Conditional(c, bb, l)
    [] l.op = "return" -> addBBReturn(c, bb)
    [] l.op = "call"   -> Call(c, bb, l)
    [] l.op = "jump"   -> Jump(c, bb, l)

(* A block ends with a branch or in front of the target of one.            *)
EndsBlock(l) == IsBranch(l) \/ l.addr + l.len \in JumpTargets(program)

(* The instruction that fills holes.                                       *)
Noop == [len |-> 2, class |-> "alu"]

(* An instruction extends the block; a hole in front of it is filled.      *)
Extended(p, l) ==
  LET start == IF p.hole >= 0 THEN p.hole ELSE l.addr
      fill  == IF p.hole >= 0 THEN l.addr - p.hole ELSE 0
  IN  [in_bb |-> TRUE, start |-> IF p.bb.in_bb THEN p.bb.start ELSE start,
       end |-> l.addr, size |-> p.bb.size + fill + l.len,
       instrs |-> p.bb.instrs + (fill \div 2) + 1,
       code |-> p.bb.code \o [n \in 1..(fill \div 2) |-> Noop]
                  \o <<[len |-> l.len, class |-> l.class]>>]

(* Only the start up code knows the debug instruction, which ends it.      *)
CodeLine(p, l) ==
  LET bb    == Extended(p, l)
      debug == l.op = "debug" /\ program.arch = "carcore" /\ p.function = program.startup
      cfg   == CASE IsBranch(l) -> Branch(p.cfg, bb, l)
                 [] ~IsBranch(l) /\ EndsBlock(l) -> addBBNode(p.cfg, bb, l.addr + l.len)
                 [] ~IsBranch(l) /\ ~EndsBlock(l) /\ debug -> addBBReturn(p.cfg, bb)
                 [] OTHER -> p.cfg
  IN  [p EXCEPT !.line = @ + 1, !.hole = -1, !.next = l.addr + l.len,
                !.cfg = cfg,
                !.bb = IF EndsBlock(l) THEN NoBlock ELSE bb,
                !.finished = (IsBranch(l) \/ (debug /\ ~EndsBlock(l))) /\ isFinished(cfg)]

(* A word of data drops the block in front of a jump target.               *)
WordLine(p, l) ==
  [p EXCEPT !.line = @ + 1,
            !.bb = IF l.addr + l.len \in JumpTargets(program) /\ p.bb.in_bb
                   THEN NoBlock ELSE @]

HoleLine(p) == [p EXCEPT !.line = @ + 1, !.hole = p.next]

InFunction == parser = "parse" /\ parsing # Idle /\ ~parsing.finished /\ parsing.line <= Len(file)

ParseCode ==
  /\ InFunction /\ file[parsing.line].kind = "code"
  /\ IF CallAsserts(parsing, Extended(parsing, file[parsing.line]), file[parsing.line])
     THEN parser' = "aborted" /\ UNCHANGED parsing
     ELSE parsing' = CodeLine(parsing, file[parsing.line]) /\ UNCHANGED parser
  /\ UNCHANGED <<program, file, process, processed, blacklist, func_cfgs>>

ParseWord ==
  /\ InFunction /\ file[parsing.line].kind = "word"
  /\ parsing' = IF program.arch = "armv6m" THEN WordLine(parsing, file[parsing.line])
                ELSE [parsing EXCEPT !.line = @ + 1]
  /\ UNCHANGED <<program, file, process, processed, blacklist, func_cfgs, parser>>

ParseHole ==
  /\ InFunction /\ file[parsing.line].kind = "hole"
  /\ parsing' = IF parsing.function = program.startup THEN [parsing EXCEPT !.line = @ + 1]
                ELSE HoleLine(parsing)
  /\ UNCHANGED <<program, file, process, processed, blacklist, func_cfgs, parser>>

(* The labels inside of the start up code are not parsed again.            *)
ParseLabelLine ==
  /\ InFunction /\ file[parsing.line].kind = "label"
  /\ parsing' = [parsing EXCEPT !.line = @ + 1]
  /\ blacklist' = IF program.arch = "carcore" /\ parsing.function = program.startup
                     /\ file[parsing.line].addr # parsing.function
                  THEN blacklist \cup {file[parsing.line].addr} ELSE blacklist
  /\ UNCHANGED <<program, file, process, processed, func_cfgs, parser>>

(* The function has ended, or the file: its lines are taken out of the     *)
(* file, and for the ARMv6-M its callees are parsed next.                  *)
EndFunction ==
  /\ parser = "parse" /\ parsing # Idle
  /\ parsing.finished \/ parsing.line > Len(file)
  /\ file' = SubSeq(file, 1, parsing.begin - 1) \o SubSeq(file, parsing.line, Len(file))
  /\ func_cfgs' = Append(func_cfgs, [address |-> parsing.function, cfg |-> parsing.cfg])
  /\ processed' = processed \cup {parsing.function}
  /\ process' = Tail(process) \o
                (IF program.arch = "armv6m" THEN parsing.cfg.call_targets ELSE << >>)
  /\ parsing' = Idle
  /\ UNCHANGED <<program, blacklist, parser>>

ParsingDone ==
  /\ parser = "parse" /\ parsing = Idle /\ process = << >>
  /\ parser' = "parsed"
  /\ UNCHANGED <<program, file, parsing, process, processed, blacklist, func_cfgs>>

ParserNext ==
  \/ ParseLabel \/ ParseCode \/ ParseWord \/ ParseHole \/ ParseLabelLine
  \/ EndFunction \/ ParsingDone

-----------------------------------------------------------------------------
(* getFunctionIDsCalledByStartLabel: breadth first from the entry function.*)
FunctionId(addr) == {i \in 1..Len(func_cfgs) : func_cfgs[i].address = addr}

CalledIds(i) ==
  FoldLeft(LAMBDA acc, t : IF FunctionId(t) = {} THEN acc ELSE Append(acc, Min(FunctionId(t))),
           << >>, func_cfgs[i].cfg.call_targets)

RECURSIVE Reach(_, _)
Reach(todo, finished) ==
  IF todo = << >> THEN finished
  ELSE LET known == Range(todo) \cup Range(finished)
           fresh == SelectSeq(CalledIds(Head(todo)), LAMBDA j : j \notin known)
       IN  Reach(Tail(todo) \o fresh, Append(finished, Head(todo)))

getFunctionIDsCalledByStartLabel ==
  Reach(SetToSeq(FunctionId(program.entry)), << >>)

=============================================================================
