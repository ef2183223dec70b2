---------------------------- MODULE MCControlFlow ---------------------------
(***************************************************************************)
(* Model checking ControlFlow: small programs, each with one or two of the *)
(* shapes that make the graphs hard.  Every instruction has two bytes.     *)
(***************************************************************************)
EXTENDS ControlFlow

Label(addr) == [kind |-> "label", addr |-> addr, len |-> 0]
Word(addr)  == [kind |-> "word", addr |-> addr, len |-> 4]
Hole(addr, len) == [kind |-> "hole", addr |-> addr, len |-> len]
Ins(addr, op, target) ==
  [kind |-> "code", addr |-> addr, len |-> 2, op |-> op, target |-> target, to |-> {},
   class |-> IF op = "other" THEN "alu" ELSE op]
Op(addr)  == Ins(addr, "other", 0)
Ret(addr) == Ins(addr, "return", 0)
IndirectJump(addr, to) == [Ins(addr, "jump", Indirect) EXCEPT !.to = to]

MCIndirect == -1
None == [x \in {} |-> 0]

NoFacts == [bound |-> None, inducting |-> None, flow |-> None]

Program(lines, loops, facts) ==
  [arch |-> "armv6m", entry |-> 2, startup |-> 0, ignored |-> {}, enrich |-> TRUE,
   memory |-> "none", optimizer |-> "none", size |-> 0, penalties |-> FALSE, metric |-> "WCET", jump_table |-> None, call_table |-> None,
   lines |-> lines, loops |-> loops, facts |-> facts]

Loop(first, last, bound) == first :> [last |-> last, bound |-> bound]
Bounds(addr, bound) == [NoFacts EXCEPT !.bound = addr :> bound]

(* A function with two ways through it that is called twice.               *)
Twice ==
  Program(<<Label(2), Op(2), Ins(4, "call", 20), Ins(6, "call", 20), Ret(8),
            Label(20), Ins(20, "cond", 26), Op(22), Ins(24, "jump", 28), Op(26), Ret(28)>>,
          None, [NoFacts EXCEPT !.flow = 22 :> [type |-> "MAX", bound |-> 1]])

(* A loop decided at its end, with a call in it, and one behind it.        *)
TailLoop ==
  Program(<<Label(2), Op(2), Op(4), Ins(6, "call", 20), Ins(8, "cond", 4), Op(10),
            Ins(12, "cond", 10), Ret(14), Label(20), Op(20), Ret(22)>>,
          Loop(4, 8, 2) @@ Loop(10, 12, 1),
          [Bounds(4, 2) EXCEPT !.bound = @ @@ (10 :> 1)])

(* A loop entered at its test.                                             *)
RotatedLoop ==
  Program(<<Label(2), Op(2), Ins(4, "jump", 10), Op(6), Op(8), Ins(10, "cond", 6), Ret(12)>>,
          Loop(6, 10, 3), [Bounds(10, 3) EXCEPT !.inducting = 10 :> 2])

(* Nested loops, the inner one with a second jump back.                    *)
NestedLoops ==
  Program(<<Label(2), Op(2), Op(4), Op(6), Ins(8, "cond", 6), Op(10), Ins(12, "cond", 6),
            Ins(14, "cond", 4), Ret(16)>>,
          Loop(4, 14, 1) @@ Loop(6, 12, 2), [Bounds(4, 1) EXCEPT !.bound = @ @@ (6 :> 2)])

(* A loop that may be left in the middle, called in both ways of a branch. *)
Branches ==
  Program(<<Label(2), Ins(2, "cond", 8), Ins(4, "call", 20), Ins(6, "jump", 10),
            Ins(8, "call", 20), Ret(10),
            Label(20), Op(20), Op(22), Ins(24, "cond", 28), Ins(26, "cond", 22), Ret(28)>>,
          Loop(22, 26, 2), Bounds(22, 2))

(* A loop with two calls of a function that calls one with a loop.         *)
CallsInLoops ==
  Program(<<Label(2), Op(2), Ins(4, "call", 20), Ins(6, "call", 20), Ins(8, "cond", 4), Ret(10),
            Label(20), Ins(20, "call", 30), Ret(22), Label(30), Op(30), Ins(32, "cond", 30), Ret(34)>>,
          Loop(4, 8, 1) @@ Loop(30, 32, 1), [Bounds(4, 1) EXCEPT !.bound = @ @@ (30 :> 1)])

(* Data between the blocks of a function, the last of them on the worst    *)
(* path or not.                                                            *)
Pool ==
  Program(<<Label(2), Ins(2, "cond", 12), Op(4), Ret(6), Word(8), Op(12), Ret(14)>>, None, NoFacts)

LongPool ==
  Program(<<Label(2), Ins(2, "cond", 14), Op(4), Op(6), Ret(8), Word(10), Op(14), Ret(16)>>,
          None, NoFacts)

(* A switch, whose table is known.                                         *)
Switch ==
  [Program(<<Label(2), Op(2), IndirectJump(4, {6, 10}), Op(6), Ins(8, "jump", 12), Op(10), Ret(12)>>,
           None, NoFacts) EXCEPT !.jump_table = 2 :> <<6, 10>>]

(* A loop that ends with a jump, and one that is never repeated.           *)
HeadLoop ==
  Program(<<Label(2), Op(2), Ins(4, "cond", 10), Op(6), Ins(8, "jump", 4), Ret(10)>>,
          Loop(4, 8, 2), Bounds(4, 2))
NeverRepeated ==
  Program(<<Label(2), Op(2), Op(4), Ins(6, "cond", 4), Ret(8)>>, Loop(4, 6, 0), Bounds(4, 0))

(* The second function calls a known and a new one.                        *)
ScatteredCalls ==
  Program(<<Label(2), Ins(2, "call", 10), Ins(4, "call", 20), Ret(6),
            Label(10), Op(10), Ret(12),
            Label(20), Ins(20, "call", 10), Ins(22, "call", 30), Ret(24),
            Label(30), Op(30), Ret(32)>>, None, NoFacts)

(* Programs that are not structured: a jump into another function, an      *)
(* unknown target, a call between the labels; and a block with bound zero. *)
TailJump ==
  Program(<<Label(2), Ins(2, "call", 10), Ins(4, "jump", 20), Label(10), Op(10), Ret(12),
            Label(20), Op(20), Ret(22)>>, None, NoFacts)
UnknownJump ==
  Program(<<Label(2), Op(2), IndirectJump(4, {6}), Op(6), Ret(8)>>, None, NoFacts)
CallInside ==
  Program(<<Label(2), Op(2), Ins(4, "call", 8), Op(6), Op(8), Ret(10)>>, None, NoFacts)
NeverExecuted ==
  Program(<<Label(2), Ins(2, "cond", 8), Ins(4, "cond", 8), Op(6), Ret(8)>>, None,
          [NoFacts EXCEPT !.flow = 8 :> [type |-> "EXACT", bound |-> 0]])

(* A CarCore program: start up code with a label in it, data, a hole and a *)
(* label the parser ignores.                                               *)
CarCore ==
  [Program(<<Label(2), Op(2), Ins(4, "call", 30), Ret(6),
             Label(10), Op(10), Ins(12, "cond", 16), Label(14), Op(14), Ins(16, "debug", 0),
             Label(20), Word(20),
             Label(30), Op(30), Hole(32, 4), Op(36), Ins(38, "cond", 30), Ret(40)>>,
           Loop(30, 38, 1), Bounds(30, 1))
   EXCEPT !.arch = "carcore", !.startup = 10, !.ignored = {20}]

(* An indirect call whose targets are known.                               *)
IndirectCall ==
  [Program(<<Label(2), Ins(2, "call", Indirect), Ret(4), Label(10), Ret(10)>>, None, NoFacts)
     EXCEPT !.jump_table = 2 :> <<10>>]

(* All functions of three instructions and a return, with jumps forward and*)
(* calls, and those with a jump back behind them.                          *)
Possible(addr, last) ==
  {Op(addr), Ins(addr, "call", 20)}
  \cup {Ins(addr, op, t) : op \in {"cond", "jump"}, t \in {x \in {6, 8, last} : x > addr + 2}}

Behind == <<Label(20), Op(20), Ret(22)>>

Forward ==
  {Program(<<Label(2), a, b, c, Ret(8)>> \o Behind, None, NoFacts) :
     a \in Possible(2, 8), b \in Possible(4, 8), c \in Possible(6, 8)}

(* Jumps from in front of a loop go to its head or behind it.              *)
Enters(l, h) == l.addr < h /\ l.op \in {"cond", "jump"} /\ l.target > h /\ l.target < 10

Loops ==
  {Program(<<Label(2), x[1], x[2], x[3], Ins(8, "cond", x[4]), Ret(10)>> \o Behind,
           Loop(x[4], 8, 2), Bounds(x[4], 2)) :
     x \in {y \in Possible(2, 10) \X Possible(4, 10) \X Possible(6, 10) \X {2, 4, 6} :
               \A i \in 1..3 : ~Enters(y[i], y[4])}}

(* Code whose time depends on where it lies: instructions of two and four  *)
(* bytes, with loads and, for the CarCore, for both pipelines; the block in*)
(* the middle is entered by steps only or by a jump as well.               *)
Sized(addr, len, class) == [Op(addr) EXCEPT !.len = len, !.class = class]

Straight(arch, a, b, c, d, over) ==
  LET at2  == 2 + a.len
      at3  == at2 + b.len + 2
      at4  == at3 + c.len
      at5  == at4 + d.len
      head == IF over THEN at2 ELSE at3
  IN  [Program(<<Label(2), Sized(2, a.len, a.class), Sized(at2, b.len, b.class),
                 Ins(at2 + b.len, "cond", at5 + 2), Sized(at3, c.len, c.class),
                 Sized(at4, d.len, d.class), Ins(at5, "cond", head),
                 Op(at5 + 2), Ret(at5 + 4)>>,
               Loop(head, at5, 1), Bounds(head, 1))
       EXCEPT !.arch = arch, !.memory = "static"]

Instructions == [len : {2, 4}, class : {"alu", "data", "load"}]

Timed ==
  {Straight(arch, a, b, c, d, over) :
     arch \in {"armv6m", "carcore"}, over \in BOOLEAN, a \in [len : {2, 4}, class : {"alu"}],
     b \in Instructions, c \in Instructions, d \in Instructions}

Shapes == {Twice, ScatteredCalls, TailLoop, RotatedLoop, NestedLoops, Branches, CallsInLoops, Pool, Switch,
           NeverRepeated, CarCore}
Refused == {HeadLoop, TailJump, UnknownJump, CallInside, NeverExecuted,
           IndirectCall, [CarCore EXCEPT !.entry = 20]}

(* Programs with a static memory, by optimizer and size of the memory.     *)
Sizes == {6, 10}
Placing(p, arch, o, n) ==
  [p EXCEPT !.arch = arch, !.memory = "static", !.optimizer = o, !.size = n, !.facts.flow = None]

Static ==
  {Placing(p, arch, o, n) : p \in {Twice, TailLoop, NestedLoops, RotatedLoop, Branches, CallsInLoops},
                            arch \in {"carcore", "armv6m"}, o \in Blockwise \cup Functionwise, n \in Sizes}

(* Other metrics, an optimizer that is asked for jumps, code with a block  *)
(* in no function, which FSISP takes a share of, a function with two ends. *)
TwoEnds ==
  Program(<<Label(2), Op(2), Ins(4, "call", 10), Ret(6),
            Label(10), Ins(10, "cond", 14), Ret(12), Op(14), Ret(16)>>, None, NoFacts)

Others ==
  {[Placing(Branches, "armv6m", o, 8) EXCEPT !.metric = m] :
     o \in {"BBSISP", "FSISP_OLD"}, m \in {"MDIC", "MPL"}}
  \cup {[Placing(p, arch, o, 8) EXCEPT !.penalties = TRUE] :
          p \in {Twice, TailLoop}, arch \in {"carcore", "armv6m"}, o \in {"BBSISP", "BBSISP_WCP", "FSISP"}}
  \cup {Placing(p, "armv6m", "FSISP", n) : p \in {Pool, LongPool}, n \in {4, 8, 10, 12}}
  \cup {Placing(Pool, "armv6m", "FSISP_OLD", 8)}
  \cup {Placing(TwoEnds, "armv6m", o, 8) : o \in {"BBSISP_JP", "BBSISP_WCP"}}

MCPenalty ==
  [jump |-> [ca |-> 5, jump |-> 0, call |-> 0], size |-> [ca |-> 4, jump |-> 2, call |-> 2]]

MCPrograms ==
  Shapes \cup Refused \cup Forward \cup Loops
  \cup {[p EXCEPT !.memory = "static", !.metric = m] : p \in {TailLoop}, m \in {"WCET", "MDIC", "MPL"}}
  \cup Timed
  \cup {[Twice EXCEPT !.enrich = FALSE, !.memory = "dynamic"]}
  \cup Static \cup Others

MCLatency ==
  ("armv6m" :> [fetch |-> [on |-> 0, off |-> 3], load |-> [on |-> 0, off |-> 4], alu |-> 0, data |-> 0,
                cond |-> [step |-> 0, jump |-> 2], jump |-> 2, call |-> 3, return |-> 2])
  @@ ("carcore" :> [fetch |-> [on |-> 0, off |-> 6], load |-> [on |-> 0, off |-> 4], alu |-> 0, data |-> 0,
                    branch |-> 3, call |-> 5, return |-> 4, debug |-> 0])
=============================================================================
