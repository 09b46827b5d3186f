--------------------------------- MODULE Y64Sim ---------------------------------
(***************************************************************************)
(* The instruction set simulator lab4/y64sim.c: main loads a binary file   *)
(* into memory, calls nexti until an instruction stops the machine or      *)
(* max_steps are done, and reports what changed.  One action is one call   *)
(* of nexti, with one disjunct per case of its switch.                     *)
(***************************************************************************)
EXTENDS Y64

CONSTANTS
  MEM_SIZE, BLK_SIZE,
  MaxSteps             \* the values of the argument max_steps

\* init_mem rounds the size up to whole blocks, which hold whole longs.
init_mem(len) == ((len + BLK_SIZE - 1) \div BLK_SIZE) * BLK_SIZE
MemLen == init_mem(MEM_SIZE)
Address == 0 .. (MemLen - 1)

ASSUME MemAssumption ==
  /\ MEM_SIZE \in Nat \ {0} /\ BLK_SIZE \in Nat \ {0} /\ BLK_SIZE % LONG = 0
  /\ MemLen \in Nat \ {0} /\ MemLen + LONG < LongHalf
  /\ MaxSteps \subseteq Int

VARIABLES
  pc, r, m, cc,       \* y64sim_t
  stat,               \* e of main, or why the process is over
  step, max_steps,
  savem,              \* the copy of memory main takes before the first step
  report              \* what main prints at the end

machine == <<pc, r, m, cc>>
simvars == <<machine, stat, step, max_steps, savem, report>>

PACK_CC(z, s, o) == [zf |-> z, sf |-> s, of |-> o]
DEFAULT_CC == PACK_CC(TRUE, FALSE, FALSE)
CC == [zf : BOOLEAN, sf : BOOLEAN, of : BOOLEAN]

Status == {"AOK", "HLT", "ADR", "INS"}   \* stat_t
NoReport == [regs |-> {}, mem |-> {}, pc |-> LongHalf]   \* no pc is that large
Change(P) == [at : P, old : Long, new : Long]

SimTypeOK ==
  /\ pc \in Long
  /\ r \in [RegId -> Long] /\ m \in [Address -> Byte] /\ cc \in CC
  /\ stat \in Status \cup {"off", "refused", "CRASH"}
  /\ step \in Nat /\ max_steps \in MaxSteps \cup {0}
  /\ savem \in [Address -> Byte]
  /\ report.regs \subseteq Change(RegId) /\ report.mem \subseteq Change(Address)
  /\ report.pc = NoReport.pc \/ report.pc \in Long

\* new_y64sim
SimInit ==
  /\ pc = 0
  /\ r = [i \in RegId |-> 0]
  /\ m = [a \in Address |-> 0]
  /\ cc = DEFAULT_CC
  /\ stat = "off" /\ step = 0 /\ max_steps = 0
  /\ savem = m /\ report = NoReport

-----------------------------------------------------------------------------
(* Memory and registers.                                                   *)

InMem(a) == a >= 0 /\ a + LONG <= MemLen

\* The test of get_long_val and set_long_val adds before it compares: for the
\* last addresses of a long the sum overflows, and what follows is undefined.
SumOverflows(a) == a + LONG > LongHalf - 1

LongAt(mem, a) == FromBytes([i \in 0 .. (LONG - 1) |-> mem[a + i]])

SetLong(mem, a, v) ==
  [x \in DOMAIN mem |-> IF x \in a .. (a + LONG - 1) THEN ByteOf(v, x - a) ELSE mem[x]]

\* REG_NONE reads as 0, and a write to it is lost.
Reg(id) == IF id < REG_NONE THEN r[id] ELSE 0
SetReg(regs, id, v) == IF id < REG_NONE THEN [regs EXCEPT ![id] = v] ELSE regs

-----------------------------------------------------------------------------
(* compute_alu, compute_cc and cond_doit.                                  *)

compute_alu(op, argA, argB) ==
  CASE op = A_ADD -> ToLong(argA + argB)
    [] op = A_SUB -> ToLong(argB - argA)
    [] op = A_AND -> BytesAnd(argA, argB)
    [] op = A_XOR -> BytesXor(argA, argB)

\* The sign and the overflow are those of the low halves.
compute_cc_NoOverflow(op, argA, argB, val) ==
  PACK_CC(val = 0, ToInt(val) < 0, FALSE)
compute_cc(op, argA, argB, val) ==
  LET a == ToInt(argA)
      b == ToInt(argB)
      v == ToInt(val)
      ovf == \/ op = A_ADD /\ a < 0 /\ b < 0 /\ v > 0
             \/ op = A_ADD /\ a > 0 /\ b > 0 /\ v < 0
             \/ op = A_SUB /\ a < 0 /\ b > 0 /\ v < 0
             \/ op = A_SUB /\ a > 0 /\ b < 0 /\ v > 0
  IN  PACK_CC(val = 0, v < 0, ovf)

\* No case for a condition above C_G: it does nothing.
cond_doit_SignOnly(c, cond) ==
  \/ cond = C_YES
  \/ cond = C_LE /\ (c.sf \/ c.zf)
  \/ cond = C_L /\ c.sf
  \/ cond = C_E /\ c.zf
  \/ cond = C_NE /\ ~c.zf
  \/ cond = C_GE /\ ~c.sf
  \/ cond = C_G /\ ~c.sf /\ ~c.zf
cond_doit(c, cond) ==
  \/ cond = C_YES
  \/ cond = C_LE /\ (c.sf # c.of \/ c.zf)
  \/ cond = C_L /\ c.sf # c.of
  \/ cond = C_E /\ c.zf
  \/ cond = C_NE /\ ~c.zf
  \/ cond = C_GE /\ c.sf = c.of
  \/ cond = C_G /\ c.sf = c.of /\ ~c.zf

-----------------------------------------------------------------------------
(* main up to the loop, and the fetch of nexti.                            *)

\* load_binfile wants to see the end of the file, so a file that fills the
\* memory is refused like one that does not fit.
Load(file) ==
  /\ stat = "off"
  /\ \E n \in MaxSteps : max_steps' = n
  /\ IF Len(file) >= MemLen
     THEN stat' = "refused" /\ UNCHANGED <<m, savem>>
     ELSE /\ stat' = "AOK"
          /\ m' = [a \in Address |-> IF a < Len(file) THEN file[a + 1] ELSE m[a]]
          /\ savem' = m'
  /\ UNCHANGED <<pc, r, cc, step, report>>

Looping == stat = "AOK" /\ step < max_steps

HasRegs(code) == code \notin {I_HALT, I_NOP, I_JMP, I_CALL, I_RET}
HasImm(code) == code \in {I_IRMOVQ, I_RMMOVQ, I_MRMOVQ, I_JMP, I_CALL}

icode == HIGH(m[pc])
ifun == LOW(m[pc])
raid == HIGH(m[pc + 1])
rbid == LOW(m[pc + 1])
immAt == IF HasRegs(icode) THEN pc + 2 ELSE pc + 1
addr == LongAt(m, immAt)
next_pc == immAt + (IF HasImm(icode) THEN LONG ELSE 0)

Fetched ==
  /\ pc \in Address
  /\ HasRegs(icode) => pc + 1 \in Address
  /\ HasImm(icode) => InMem(immAt)

Instr(code) == Looping /\ Fetched /\ icode = code

Continue(to) == pc' = to /\ stat' = "AOK"
Stop(s) == pc' = pc /\ stat' = s

\* An address get_long_val or set_long_val does not accept.
Fault(a) ==
  /\ ~InMem(a)
  /\ \/ Stop("ADR")
     \/ SumOverflows(a) /\ Stop("CRASH")

-----------------------------------------------------------------------------
(* nexti: the cases of the switch.                                         *)

BadFetch == Looping /\ ~Fetched /\ Stop("ADR") /\ UNCHANGED <<r, m, cc>>
Halt == Instr(I_HALT) /\ Stop("HLT") /\ UNCHANGED <<r, m, cc>>
Nop == Instr(I_NOP) /\ Continue(next_pc) /\ UNCHANGED <<r, m, cc>>

Rrmovq ==
  /\ Instr(I_RRMOVQ) /\ Continue(next_pc)
  /\ r' = IF cond_doit(cc, ifun) THEN SetReg(r, rbid, Reg(raid)) ELSE r
  /\ UNCHANGED <<m, cc>>

Irmovq ==
  /\ Instr(I_IRMOVQ) /\ Continue(next_pc)
  /\ r' = SetReg(r, rbid, addr)
  /\ UNCHANGED <<m, cc>>

MemAt == ToLong(Reg(rbid) + addr)

Rmmovq ==
  /\ Instr(I_RMMOVQ)
  /\ \/ InMem(MemAt) /\ Continue(next_pc) /\ m' = SetLong(m, MemAt, Reg(raid))
     \/ Fault(MemAt) /\ m' = m
  /\ UNCHANGED <<r, cc>>

Mrmovq_Untested ==
  /\ Instr(I_MRMOVQ)
  /\ \/ InMem(MemAt) /\ Continue(next_pc) /\ r' = SetReg(r, raid, LongAt(m, MemAt))
     \/ Fault(MemAt) /\ r' = SetReg(r, raid, 0)
  /\ UNCHANGED <<m, cc>>
Mrmovq ==
  /\ Instr(I_MRMOVQ)
  /\ \/ InMem(MemAt) /\ Continue(next_pc) /\ r' = SetReg(r, raid, LongAt(m, MemAt))
     \/ Fault(MemAt) /\ r' = r
  /\ UNCHANGED <<m, cc>>

Alu ==
  /\ Instr(I_ALU)
  /\ \/ /\ ifun < A_NONE /\ Continue(next_pc)
        /\ LET val == compute_alu(ifun, Reg(raid), Reg(rbid))
           IN  /\ cc' = compute_cc(ifun, Reg(raid), Reg(rbid), val)
               /\ r' = SetReg(r, rbid, val)
     \/ ifun >= A_NONE /\ Stop("INS") /\ UNCHANGED <<r, cc>>
  /\ m' = m

Jmp ==
  /\ Instr(I_JMP)
  /\ \/ ifun <= C_G /\ Continue(IF cond_doit(cc, ifun) THEN addr ELSE next_pc)
     \/ ifun > C_G /\ Stop("INS")
  /\ UNCHANGED <<r, m, cc>>

\* call and push move %rsp before they know whether the stack can be written.
Below == ToLong(Reg(REG_RSP) - LONG)
Above == ToLong(Reg(REG_RSP) + LONG)

Push(v, to) ==
  /\ r' = SetReg(r, REG_RSP, Below)
  /\ \/ InMem(Below) /\ Continue(to) /\ m' = SetLong(m, Below, v)
     \/ Fault(Below) /\ m' = m
  /\ cc' = cc

Call == Instr(I_CALL) /\ Push(next_pc, addr)
Pushq == Instr(I_PUSHQ) /\ Push(Reg(raid), next_pc)

Ret ==
  /\ Instr(I_RET)
  /\ \/ /\ InMem(Reg(REG_RSP)) /\ Continue(LongAt(m, Reg(REG_RSP)))
        /\ r' = SetReg(r, REG_RSP, Above)
     \/ Fault(Reg(REG_RSP)) /\ r' = r
  /\ UNCHANGED <<m, cc>>

Popq ==
  /\ Instr(I_POPQ)
  /\ \/ /\ InMem(Reg(REG_RSP)) /\ Continue(next_pc)
        /\ r' = SetReg(SetReg(r, REG_RSP, Above), raid, LongAt(m, Reg(REG_RSP)))
     \/ Fault(Reg(REG_RSP)) /\ r' = r
  /\ UNCHANGED <<m, cc>>

BadInstr ==
  /\ Looping /\ Fetched /\ icode > I_POPQ
  /\ Stop("INS") /\ UNCHANGED <<r, m, cc>>

nexti ==
  /\ \/ BadFetch \/ Halt \/ Nop \/ Rrmovq \/ Irmovq \/ Rmmovq \/ Mrmovq \/ Alu
     \/ Jmp \/ Call \/ Ret \/ Pushq \/ Popq \/ BadInstr
  /\ step' = step + 1
  /\ UNCHANGED <<max_steps, savem, report>>

-----------------------------------------------------------------------------
(* The end of main: the differences to the registers and the memory saved  *)
(* before the first step (all registers were 0).                           *)

diff_reg == {[at |-> i, old |-> 0, new |-> r[i]] : i \in {j \in RegId : r[j] # 0}}

LongOr0(mem, a) == IF InMem(a) THEN LongAt(mem, a) ELSE 0
diff_mem_First(old, new) ==
  LET changed == {p \in Address : p % LONG = 0 /\ LongOr0(old, p) # LongOr0(new, p)}
  IN  {[at |-> p, old |-> LongOr0(old, p), new |-> LongOr0(new, p)] :
         p \in {q \in changed : \A x \in changed : q <= x}}
diff_mem(old, new) ==
  {[at |-> p, old |-> LongOr0(old, p), new |-> LongOr0(new, p)] :
     p \in {q \in Address : q % LONG = 0 /\ LongOr0(old, q) # LongOr0(new, q)}}

Report ==
  /\ stat \in Status /\ ~Looping /\ report = NoReport
  /\ report' = [regs |-> diff_reg, mem |-> diff_mem(savem, m), pc |-> pc]
  /\ UNCHANGED <<machine, stat, step, max_steps, savem>>

SimOver == stat \in {"refused", "CRASH"} \/ report # NoReport
=============================================================================
