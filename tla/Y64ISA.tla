--------------------------------- MODULE Y64ISA ---------------------------------
(***************************************************************************)
(* What a Y64 machine promises to a program, apart from how lab4/y64sim.c  *)
(* computes it: instructions are decoded by name, a condition asks for the *)
(* sign of the last result, and a step says how the state after it relates *)
(* to the one before.  Two things are left open, because the code does not *)
(* keep them: after an operation on numbers that do not fit an int, and in *)
(* two cases more (see Known), a result that is not zero may be taken for  *)
(* positive or negative; and an access at the very end of the address      *)
(* range may end the process.  Statuses and register 15 are as the code    *)
(* has them, which is not what its comment says (Y64Props).                *)
(***************************************************************************)
EXTENDS Y64

CONSTANT MemSize

VARIABLES ip, regs, mem, sgn, status

isavars == <<ip, regs, mem, sgn, status>>

Cell == 0 .. (MemSize - 1)
Sign == {-1, 0, 1}

-----------------------------------------------------------------------------
(* Decoding.                                                               *)

Names == <<"halt", "nop", "cmov", "irmovq", "rmmovq", "mrmovq", "alu", "jump",
           "call", "ret", "pushq", "popq">>
Conds == <<"yes", "le", "l", "e", "ne", "ge", "g">>
Ops == <<"add", "sub", "and", "xor">>

\* The number at address a, the lowest byte first.
Number64(mm, a) ==
  LET low[i \in 0 .. LONG] ==
        IF i = 0 THEN 0 ELSE low[i - 1] + mm[a + i - 1] * 256 ^ (i - 1)
  IN  IF low[LONG] < LongHalf THEN low[LONG] ELSE low[LONG] - 2 * LongHalf

Name(code) == IF code < Len(Names) THEN Names[code + 1] ELSE "bad"
WithRegs(name) == name \notin {"halt", "nop", "jump", "call", "ret"}
WithImm(name) == name \in {"irmovq", "rmmovq", "mrmovq", "jump", "call"}
Size(name) == 1 + (IF WithRegs(name) THEN 1 ELSE 0) + (IF WithImm(name) THEN LONG ELSE 0)

\* What a function nibble selects; "none" where it selects nothing.
Select(name, fn) ==
  CASE name \in {"cmov", "jump"} /\ fn < Len(Conds) -> Conds[fn + 1]
    [] name = "alu" /\ fn < Len(Ops) -> Ops[fn + 1]
    [] OTHER -> "none"

\* The instruction at address a; size is the room the bytes have from there on.
Decode(mm, a, size) ==
  LET name == Name(mm[a] \div 16)
  IN  IF Size(name) > size THEN [name |-> "cut"]
      ELSE [name |-> name,
            sel |-> Select(name, mm[a] % 16),
            ra |-> IF WithRegs(name) THEN mm[a + 1] \div 16 ELSE REG_NONE,
            rb |-> IF WithRegs(name) THEN mm[a + 1] % 16 ELSE REG_NONE,
            imm |-> IF WithImm(name) THEN Number64(mm, a + Size(name) - LONG) ELSE 0]

-----------------------------------------------------------------------------
(* One instruction.                                                        *)

Get(id) == IF id = REG_NONE THEN 0 ELSE regs[id]
SP == regs[REG_RSP]

OnlyRegs(ids) == \A i \in RegId \ ids : regs'[i] = regs[i]
Sets(id, v) == id # REG_NONE => regs'[id] = v
Stores(a, v) ==
  \A x \in Cell : mem'[x] = IF x \in a .. (a + LONG - 1) THEN ByteOf(v, x - a) ELSE mem[x]

Holds(cond) ==
  CASE cond = "yes" -> TRUE
    [] cond = "le" -> sgn <= 0
    [] cond = "l" -> sgn < 0
    [] cond = "e" -> sgn = 0
    [] cond = "ne" -> sgn # 0
    [] cond = "ge" -> sgn >= 0
    [] cond = "g" -> sgn > 0
    [] OTHER -> FALSE

Exact(op, a, b) ==   \* the result before it is cut to a long
  CASE op = "add" -> b + a
    [] op = "sub" -> b - a
    [] op = "and" -> BytesAnd(a, b)
    [] op = "xor" -> BytesXor(a, b)

SgnOf(x) == IF x < 0 THEN -1 ELSE IF x = 0 THEN 0 ELSE 1

\* Where the sign is promised.  compute_cc takes it from the low halves, so it is
\* wrong for many operands that do not fit an int; and it misses two overflows:
\* of the least int added to itself, and of the least int subtracted from 0.
Known(op, a, b) ==
  /\ a \in Int32 /\ b \in Int32
  /\ ~(op = "add" /\ a = -IntHalf /\ b = -IntHalf)
  /\ ~(op = "sub" /\ a = -IntHalf /\ b = 0)

\* The long an instruction reads or writes.
Where(i) ==
  CASE i.name \in {"rmmovq", "mrmovq"} -> ToLong(Get(i.rb) + i.imm)
    [] i.name \in {"call", "pushq"} -> ToLong(SP - LONG)
    [] i.name \in {"ret", "popq"} -> SP
Touches(i) == i.name \in {"rmmovq", "mrmovq", "call", "pushq", "ret", "popq"}
Present(a) == a >= 0 /\ a + LONG <= MemSize

Goes(to) == status' = "AOK" /\ ip' = to

\* A machine that stops keeps its state, but for the stack pointer of a push.
Stops(statuses, ids) ==
  status' \in statuses /\ ip' = ip /\ mem' = mem /\ sgn' = sgn /\ OnlyRegs(ids)

Computes(i, next) ==
  /\ i.name = "alu" /\ i.sel # "none" /\ Goes(next) /\ mem' = mem
  /\ OnlyRegs({i.rb}) /\ Sets(i.rb, ToLong(Exact(i.sel, Get(i.ra), Get(i.rb))))
  /\ sgn' \in Sign /\ (sgn' = 0 <=> ToLong(Exact(i.sel, Get(i.ra), Get(i.rb))) = 0)
  /\ Known(i.sel, Get(i.ra), Get(i.rb)) => sgn' = SgnOf(Exact(i.sel, Get(i.ra), Get(i.rb)))

Moves(i, next) ==
  /\ i.name \in {"nop", "cmov", "irmovq"} /\ Goes(next) /\ mem' = mem /\ sgn' = sgn
  /\ IF i.name = "nop" \/ (i.name = "cmov" /\ ~Holds(i.sel)) THEN OnlyRegs({})
     ELSE /\ OnlyRegs({i.rb})
          /\ Sets(i.rb, IF i.name = "irmovq" THEN i.imm ELSE Get(i.ra))

Jumps(i, next) ==
  /\ i.name = "jump" /\ i.sel # "none" /\ Goes(IF Holds(i.sel) THEN i.imm ELSE next)
  /\ mem' = mem /\ sgn' = sgn /\ OnlyRegs({})

Accesses(i, next) ==
  /\ Touches(i) /\ Present(Where(i)) /\ sgn' = sgn
  /\ CASE i.name = "rmmovq" -> Goes(next) /\ OnlyRegs({}) /\ Stores(Where(i), Get(i.ra))
       [] i.name = "mrmovq" -> /\ Goes(next) /\ mem' = mem /\ OnlyRegs({i.ra})
                               /\ Sets(i.ra, Number64(mem, Where(i)))
       [] i.name = "pushq" -> /\ Goes(next) /\ OnlyRegs({REG_RSP})
                              /\ Sets(REG_RSP, Where(i)) /\ Stores(Where(i), Get(i.ra))
       [] i.name = "call" -> /\ Goes(i.imm) /\ OnlyRegs({REG_RSP})
                             /\ Sets(REG_RSP, Where(i)) /\ Stores(Where(i), next)
       [] i.name = "ret" -> /\ Goes(Number64(mem, SP)) /\ mem' = mem
                            /\ OnlyRegs({REG_RSP}) /\ Sets(REG_RSP, ToLong(SP + LONG))
       [] i.name = "popq" -> /\ Goes(next) /\ mem' = mem /\ OnlyRegs({i.ra, REG_RSP})
                             /\ Sets(i.ra, Number64(mem, SP))
                             /\ i.ra # REG_RSP => Sets(REG_RSP, ToLong(SP + LONG))

Fails(i) ==
  \/ i.name = "halt" /\ Stops({"HLT"}, {})
  \/ i.name = "cut" /\ Stops({"ADR"}, {})
  \/ i.name = "bad" /\ Stops({"INS"}, {})
  \/ i.name \in {"alu", "jump"} /\ i.sel = "none" /\ Stops({"INS"}, {})
  \/ /\ Touches(i) /\ ~Present(Where(i))
     /\ Stops({"ADR"} \cup (IF Where(i) + LONG < LongHalf THEN {} ELSE {"CRASH"}),
              IF i.name \in {"call", "pushq"} THEN {REG_RSP} ELSE {})

Execute ==
  /\ status = "AOK"
  /\ IF ip \notin Cell THEN Stops({"ADR"}, {})
     ELSE LET i == Decode(mem, ip, MemSize - ip)
              next == ip + Size(i.name)
          IN  \/ Computes(i, next) \/ Moves(i, next) \/ Jumps(i, next)
              \/ Accesses(i, next) \/ Fails(i)

\* A program is put into memory, or it is refused.
Boot ==
  /\ status = "off" /\ status' \in {"AOK", "refused"}
  /\ mem' \in [Cell -> Byte] /\ UNCHANGED <<ip, regs, sgn>>

ISAInit ==
  /\ ip = 0 /\ regs = [i \in RegId |-> 0] /\ mem = [x \in Cell |-> 0]
  /\ sgn = 0 /\ status = "off"

ISASpec == ISAInit /\ [][Boot \/ Execute]_isavars
=============================================================================
