------------------------------- MODULE Y64Proofs -------------------------------
(***************************************************************************)
(* Proofs about the assembler and the simulator, for every width of a long *)
(* and an int, every size of memory and every source.                      *)
(***************************************************************************)
EXTENDS Y64Props, SequenceTheorems, FiniteSetTheorems, WellFoundedInduction, TLAPS

-----------------------------------------------------------------------------
(* Arithmetic.                                                             *)

\* A remainder within one modulus of the number it comes from.
LEMMA ModSmall == \A d \in Nat \ {0} : \A n \in Int : 0 <= n /\ n < d => n % d = n
BY Z3
LEMMA ModUp == \A d \in Nat \ {0} : \A n \in Int : d <= n /\ n < 2 * d => n % d = n - d
BY Z3
LEMMA ModDown == \A d \in Nat \ {0} : \A n \in Int : -d <= n /\ n < 0 => n % d = n + d
BY Z3
LEMMA ModRange == \A d \in Nat \ {0} : \A n \in Int : n % d \in 0 .. (d - 1)
BY SMT
LEMMA DivInt == \A d \in Nat \ {0} : \A n \in Int : n \div d \in Int
BY SMT

\* A number is its quotient and its remainder.
LEMMA Divided == \A d \in Nat \ {0} : \A n \in Int :
  \E q \in Int : \E s \in 0 .. (d - 1) : n = d * q + s /\ n \div d = q /\ n % d = s
BY Z3

LEMMA Remainder ==
  \A d \in Nat \ {0} : \A q, s \in Int : 0 <= s /\ s < d => (d * q + s) % d = s
BY Z3

LEMMA Widths ==
  /\ LONG \in 1 .. 8 /\ LongHalf \in Nat \ {0} /\ IntHalf \in Nat \ {0}
  /\ 2 * LongHalf \in Nat \ {0} /\ 2 * IntHalf \in Nat \ {0}
  /\ 4 * IntHalf <= LongHalf
  /\ \A i \in 0 .. LONG : 256 ^ i \in Nat \ {0}
BY WidthAssumption

\* A number cut to a long is a long, and a long stays what it is.
LEMMA ToLongType == \A x \in Int : ToLong(x) \in Long
<1> TAKE x \in Int
<1>1. (x + LongHalf) % (2 * LongHalf) \in 0 .. (2 * LongHalf - 1)
  BY ModRange, Widths
<1> QED BY <1>1, Widths DEF ToLong, Long

LEMMA ToLongExact == \A x \in Long : ToLong(x) = x
<1> TAKE x \in Long
<1>1. x + LongHalf \in Int /\ 0 <= x + LongHalf /\ x + LongHalf < 2 * LongHalf
  BY Widths DEF Long
<1>2. (x + LongHalf) % (2 * LongHalf) = x + LongHalf
  BY <1>1, ModSmall, Widths
<1> QED BY <1>2, Widths DEF ToLong, Long

\* The cast to an int: exact on ints, and off by one turn just outside.
LEMMA ToIntCases ==
  \A x \in Int :
    /\ x \in Int32 => ToInt(x) = x
    /\ IntHalf <= x /\ x < 3 * IntHalf => ToInt(x) = x - 2 * IntHalf
    /\ -3 * IntHalf <= x /\ x < -IntHalf => ToInt(x) = x + 2 * IntHalf
<1> TAKE x \in Int
<1> DEFINE h == IntHalf
           d == 2 * h
           n == x + h
<1>1. h \in Nat \ {0} /\ d \in Nat \ {0} /\ n \in Int
  BY Widths
<1>2. ASSUME x \in Int32 PROVE ToInt(x) = x
  <2>1. 0 <= n /\ n < d
    BY <1>1, <1>2 DEF Int32
  <2>2. n % d = n
    BY <1>1, <2>1, ModSmall
  <2> QED BY <1>1, <2>2 DEF ToInt
<1>3. ASSUME IntHalf <= x, x < 3 * IntHalf PROVE ToInt(x) = x - 2 * IntHalf
  <2>1. d <= n /\ n < 2 * d
    BY <1>1, <1>3
  <2>2. n % d = n - d
    BY <1>1, <2>1, ModUp
  <2> QED BY <1>1, <2>2 DEF ToInt
<1>4. ASSUME -3 * IntHalf <= x, x < -IntHalf PROVE ToInt(x) = x + 2 * IntHalf
  <2>1. -d <= n /\ n < 0
    BY <1>1, <1>4
  <2>2. n % d = n + d
    BY <1>1, <2>1, ModDown
  <2> QED BY <1>1, <2>2 DEF ToInt
<1> QED BY <1>2, <1>3, <1>4

\* The bytes of a number are bytes, and bytes make a long.
LEMMA ByteOfType == \A v \in Int : \A i \in 0 .. LONG : ByteOf(v, i) \in Byte
<1> TAKE v \in Int
<1> TAKE i \in 0 .. LONG
<1>1. v \div 256 ^ i \in Int
  BY DivInt, Widths
<1>2. 256 \in Nat \ {0}
  OBVIOUS
<1>3. (v \div 256 ^ i) % 256 \in 0 .. (256 - 1)
  BY <1>1, <1>2, ModRange
<1> QED BY <1>3 DEF ByteOf, Byte

LEMMA FromBytesType ==
  ASSUME NEW b, \A i \in 0 .. (LONG - 1) : b[i] \in Byte
  PROVE  FromBytes(b) \in Long
<1>1. ASSUME NEW i \in 0 .. 7, NEW rest \in Int PROVE Horner(b, i, rest) \in Int
  <2>1. CASE i < LONG
    <3>1. b[i] \in 0 .. 255
      BY <2>1, Widths DEF Byte
    <3> QED BY <2>1, <3>1 DEF Horner
  <2>2. CASE ~(i < LONG)
    BY <2>2 DEF Horner
  <2> QED BY <2>1, <2>2
<1> DEFINE h7 == Horner(b, 7, 0)
           h6 == Horner(b, 6, h7)
           h5 == Horner(b, 5, h6)
           h4 == Horner(b, 4, h5)
           h3 == Horner(b, 3, h4)
           h2 == Horner(b, 2, h3)
           h1 == Horner(b, 1, h2)
           h0 == Horner(b, 0, h1)
<1> HIDE DEF h7, h6, h5, h4, h3, h2, h1, h0
<1>7. h7 \in Int /\ h6 \in Int /\ h5 \in Int
  <2>1. h7 \in Int
    BY <1>1 DEF h7
  <2>2. h6 \in Int
    BY <1>1, <2>1 DEF h6
  <2> QED BY <1>1, <2>1, <2>2 DEF h5
<1>4. h4 \in Int /\ h3 \in Int
  <2>1. h4 \in Int
    BY <1>1, <1>7 DEF h4
  <2> QED BY <1>1, <2>1 DEF h3
<1>2. h2 \in Int /\ h1 \in Int
  <2>1. h2 \in Int
    BY <1>1, <1>4 DEF h2
  <2> QED BY <1>1, <2>1 DEF h1
<1>3. h0 \in Int
  BY <1>1, <1>2 DEF h0
<1> QED BY <1>3, ToLongType DEF FromBytes, h7, h6, h5, h4, h3, h2, h1, h0

LEMMA BitsType == \A x, y \in Int : BytesAnd(x, y) \in Long /\ BytesXor(x, y) \in Long
<1> TAKE x, y \in Int
<1> DEFINE and == [i \in 0 .. (LONG - 1) |-> AndByte(ByteOf(x, i), ByteOf(y, i))]
           xor == [i \in 0 .. (LONG - 1) |-> XorByte(ByteOf(x, i), ByteOf(y, i))]
<1>1. \A i \in 0 .. (LONG - 1) : ByteOf(x, i) \in Byte /\ ByteOf(y, i) \in Byte
  BY ByteOfType, Widths
<1>2. \A i \in 0 .. (LONG - 1) : and[i] \in Byte /\ xor[i] \in Byte
  BY <1>1, BitsAssumption
<1> HIDE DEF and, xor
<1>3. FromBytes(and) \in Long /\ FromBytes(xor) \in Long
  BY <1>2, FromBytesType
<1> QED BY <1>3 DEF BytesAnd, BytesXor, and, xor

-----------------------------------------------------------------------------
(* The simulator: the types of what nexti computes.                        *)

LEMMA MemFacts == MemLen \in Nat \ {0} /\ MemLen + LONG < LongHalf /\ LONG \in 1 .. 8
BY MemAssumption, Widths

LEMMA LongAtType ==
  ASSUME NEW mem \in [Address -> Byte], NEW a \in Int, InMem(a)
  PROVE  LongAt(mem, a) \in Long
<1> DEFINE b == [i \in 0 .. (LONG - 1) |-> mem[a + i]]
<1>1. \A i \in 0 .. (LONG - 1) : a + i \in Address
  BY MemFacts DEF InMem, Address
<1>2. \A i \in 0 .. (LONG - 1) : b[i] \in Byte
  BY <1>1
<1> HIDE DEF b
<1>3. FromBytes(b) \in Long
  BY <1>2, FromBytesType
<1> QED BY <1>3 DEF LongAt, b

LEMMA SetLongType ==
  ASSUME NEW mem \in [Address -> Byte], NEW a \in Int, NEW v \in Int
  PROVE  SetLong(mem, a, v) \in [Address -> Byte]
<1>1. \A x \in Address : x \in a .. (a + LONG - 1) => x - a \in 0 .. LONG
  BY MemFacts DEF Address
<1>2. \A x \in Address : x \in a .. (a + LONG - 1) => ByteOf(v, x - a) \in Byte
  BY <1>1, ByteOfType
<1> QED BY <1>2 DEF SetLong

Nibble == 0 .. 15

LEMMA RegType ==
  ASSUME SimTypeOK, NEW id \in Nibble
  PROVE  Reg(id) \in Long
<1>1. 0 \in Long
  BY Widths DEF Long
<1>2. r \in [0 .. 14 -> Long]
  BY DEF SimTypeOK, RegId, REG_NONE
<1> QED BY <1>1, <1>2 DEF Reg, Nibble, REG_NONE

LEMMA SetRegType ==
  ASSUME NEW regs \in [RegId -> Long], NEW id, NEW v \in Long
  PROVE  SetReg(regs, id, v) \in [RegId -> Long]
BY DEF SetReg

LEMMA NibbleType == \A x \in Byte : HIGH(x) \in Nibble /\ LOW(x) \in Nibble
<1>1. \A x \in 0 .. 255 : x \div 16 \in 0 .. 15 /\ x % 16 \in 0 .. 15
  BY SMT
<1> QED BY <1>1 DEF Byte, HIGH, LOW, Nibble

\* What a fetch that succeeds has read.
LEMMA FetchType ==
  ASSUME SimTypeOK, Fetched
  PROVE  /\ icode \in Nibble /\ ifun \in Nibble
         /\ HasRegs(icode) => raid \in Nibble /\ rbid \in Nibble
         /\ HasImm(icode) => addr \in Long
         /\ next_pc \in Long
<1>1. pc \in Address /\ m \in [Address -> Byte] /\ pc \in Int
  BY MemFacts DEF Fetched, SimTypeOK, Address
<1>2. icode \in Nibble /\ ifun \in Nibble
  BY <1>1, NibbleType DEF icode, ifun
<1>3. HasRegs(icode) => raid \in Nibble /\ rbid \in Nibble
  BY <1>1, NibbleType DEF raid, rbid, Fetched
<1>4. immAt \in Int /\ 0 <= immAt /\ immAt <= pc + 2
  BY <1>1, MemFacts DEF immAt, Address
<1>5. HasImm(icode) => addr \in Long
  BY <1>1, <1>4, LongAtType DEF addr, Fetched
<1>6. next_pc \in Long
  <2>1. CASE HasImm(icode)
    BY <2>1, <1>4, MemFacts, Widths DEF Fetched, InMem, next_pc, Long
  <2>2. CASE ~HasImm(icode)
    BY <2>2, <1>1, <1>4, MemFacts, Widths DEF next_pc, Long, Address
  <2> QED BY <2>1, <2>2
<1> QED BY <1>2, <1>3, <1>5, <1>6

LEMMA AluType ==
  ASSUME NEW op \in Nat, op < A_NONE, NEW a \in Long, NEW b \in Long
  PROVE  compute_alu(op, a, b) \in Long
<1>1. a \in Int /\ b \in Int /\ a + b \in Int /\ b - a \in Int
  BY Widths DEF Long
<1>2. /\ ToLong(a + b) \in Long /\ ToLong(b - a) \in Long
      /\ BytesAnd(a, b) \in Long /\ BytesXor(a, b) \in Long
  BY <1>1, ToLongType, BitsType
<1>3. op = A_ADD \/ op = A_SUB \/ op = A_AND \/ op = A_XOR
  BY DEF A_ADD, A_SUB, A_AND, A_XOR, A_NONE
<1> QED BY <1>2, <1>3 DEF compute_alu, A_ADD, A_SUB, A_AND, A_XOR

LEMMA CCType ==
  ASSUME NEW op, NEW a, NEW b, NEW v
  PROVE  compute_cc(op, a, b, v) \in CC
BY DEF compute_cc, PACK_CC, CC

\* What a step of nexti may change, by type.
Machine ==
  /\ pc \in Long /\ r \in [RegId -> Long] /\ m \in [Address -> Byte] /\ cc \in CC
  /\ stat \in Status \cup {"off", "refused", "CRASH"}

LEMMA ContinueType ==
  ASSUME NEW to \in Long, Continue(to)
  PROVE  pc' \in Long /\ stat' \in Status
BY DEF Continue, Status

LEMMA StopType ==
  ASSUME SimTypeOK, NEW s \in Status \cup {"CRASH"}, Stop(s)
  PROVE  pc' \in Long /\ stat' \in Status \cup {"CRASH"}
BY DEF Stop, Status, SimTypeOK

LEMMA FaultType ==
  ASSUME SimTypeOK, NEW a, Fault(a)
  PROVE  pc' \in Long /\ stat' \in Status \cup {"CRASH"}
<1>1. CASE Stop("ADR")
  BY <1>1, StopType DEF Status
<1>2. CASE Stop("CRASH")
  BY <1>2, StopType
<1> QED BY <1>1, <1>2 DEF Fault

LEMMA PushType ==
  ASSUME SimTypeOK, NEW v \in Long, NEW to \in Long, Push(v, to)
  PROVE  Machine'
<1>1. Reg(REG_RSP) \in Long
  BY RegType DEF REG_RSP, Nibble
<1>2. Below \in Long /\ Below \in Int
  <2>1. Reg(REG_RSP) - LONG \in Int
    BY <1>1, Widths DEF Long
  <2>2. Below \in Long
    BY <2>1, ToLongType DEF Below
  <2> QED BY <2>2, Widths DEF Long
<1>3. r' \in [RegId -> Long]
  BY <1>2, SetRegType DEF Push, SimTypeOK
<1>4. cc' \in CC
  BY DEF Push, SimTypeOK
<1>5. CASE Continue(to) /\ m' = SetLong(m, Below, v)
  <2>1. v \in Int
    BY Widths DEF Long
  <2>2. m' \in [Address -> Byte]
    BY <1>2, <1>5, <2>1, SetLongType DEF SimTypeOK
  <2> QED BY <1>3, <1>4, <1>5, <2>2, ContinueType DEF Machine
<1>6. CASE Fault(Below) /\ m' = m
  BY <1>3, <1>4, <1>6, FaultType DEF Machine, SimTypeOK
<1> QED BY <1>5, <1>6 DEF Push

\* The cases of the switch.
LEMMA PlainCasesType ==
  ASSUME SimTypeOK, BadFetch \/ Halt \/ Nop \/ BadInstr
  PROVE  Machine'
<1>1. CASE BadFetch
  BY <1>1, StopType DEF BadFetch, Machine, SimTypeOK, Status
<1>2. CASE Halt
  BY <1>2, StopType DEF Halt, Machine, SimTypeOK, Status
<1>3. CASE BadInstr
  BY <1>3, StopType DEF BadInstr, Machine, SimTypeOK, Status
<1>4. CASE Nop
  <2>1. next_pc \in Long
    BY <1>4, FetchType DEF Nop, Instr
  <2> QED BY <1>4, <2>1, ContinueType DEF Nop, Machine, SimTypeOK
<1> QED BY <1>1, <1>2, <1>3, <1>4

LEMMA MoveType ==
  ASSUME SimTypeOK, Rrmovq \/ Irmovq
  PROVE  Machine'
<1>1. Fetched /\ HasRegs(icode) /\ Continue(next_pc) /\ m' = m /\ cc' = cc
  BY DEF Rrmovq, Irmovq, Instr, HasRegs, I_RRMOVQ, I_IRMOVQ, I_HALT, I_NOP, I_JMP,
         I_CALL, I_RET
<1>2. next_pc \in Long /\ raid \in Nibble /\ rbid \in Nibble
  BY <1>1, FetchType
<1>3. r' \in [RegId -> Long]
  <2>1. CASE Rrmovq
    <3>1. Reg(raid) \in Long
      BY <1>2, RegType
    <3> QED BY <2>1, <3>1, SetRegType DEF Rrmovq, SimTypeOK
  <2>2. CASE Irmovq
    <3>1. addr \in Long
      BY <1>1, <2>2, FetchType DEF Irmovq, Instr, HasImm
    <3> QED BY <2>2, <3>1, SetRegType DEF Irmovq, SimTypeOK
  <2> QED BY <2>1, <2>2
<1> QED BY <1>1, <1>2, <1>3, ContinueType DEF Machine, SimTypeOK

LEMMA MemCasesType ==
  ASSUME SimTypeOK, Rmmovq \/ Mrmovq
  PROVE  Machine'
<1>1. Fetched /\ HasRegs(icode) /\ HasImm(icode) /\ cc' = cc
  BY DEF Rmmovq, Mrmovq, Instr, HasRegs, HasImm, I_RMMOVQ, I_MRMOVQ, I_HALT, I_NOP,
         I_JMP, I_CALL, I_RET
<1>2. next_pc \in Long /\ raid \in Nibble /\ rbid \in Nibble /\ addr \in Long
  BY <1>1, FetchType
<1>3. Reg(raid) \in Long /\ Reg(rbid) \in Long
  BY <1>2, RegType
<1>4. MemAt \in Int
  <2>1. Reg(rbid) + addr \in Int
    BY <1>2, <1>3, Widths DEF Long
  <2>2. MemAt \in Long
    BY <2>1, ToLongType DEF MemAt
  <2> QED BY <2>2, Widths DEF Long
<1>5. CASE Rmmovq
  <2>1. r' = r
    BY <1>5 DEF Rmmovq
  <2>2. CASE Continue(next_pc) /\ m' = SetLong(m, MemAt, Reg(raid))
    <3>1. Reg(raid) \in Int
      BY <1>3, Widths DEF Long
    <3>2. m' \in [Address -> Byte]
      BY <1>4, <2>2, <3>1, SetLongType DEF SimTypeOK
    <3> QED BY <1>1, <1>2, <2>1, <2>2, <3>2, ContinueType DEF Machine, SimTypeOK
  <2>3. CASE Fault(MemAt) /\ m' = m
    BY <1>1, <2>1, <2>3, FaultType DEF Machine, SimTypeOK
  <2> QED BY <1>5, <2>2, <2>3 DEF Rmmovq
<1>6. CASE Mrmovq
  <2>1. m' = m
    BY <1>6 DEF Mrmovq
  <2>2. CASE InMem(MemAt) /\ Continue(next_pc) /\ r' = SetReg(r, raid, LongAt(m, MemAt))
    <3>1. LongAt(m, MemAt) \in Long
      BY <1>4, <2>2, LongAtType DEF SimTypeOK
    <3>2. r' \in [RegId -> Long]
      BY <2>2, <3>1, SetRegType DEF SimTypeOK
    <3> QED BY <1>1, <1>2, <2>1, <2>2, <3>2, ContinueType DEF Machine, SimTypeOK
  <2>3. CASE Fault(MemAt) /\ r' = r
    BY <1>1, <2>1, <2>3, FaultType DEF Machine, SimTypeOK
  <2> QED BY <1>6, <2>2, <2>3 DEF Mrmovq
<1> QED BY <1>5, <1>6

LEMMA AluCaseType ==
  ASSUME SimTypeOK, Alu
  PROVE  Machine'
<1>1. Fetched /\ HasRegs(icode) /\ m' = m
  BY DEF Alu, Instr, HasRegs, I_ALU, I_HALT, I_NOP, I_JMP, I_CALL, I_RET
<1>2. next_pc \in Long /\ raid \in Nibble /\ rbid \in Nibble /\ ifun \in Nibble
  BY <1>1, FetchType
<1>3. Reg(raid) \in Long /\ Reg(rbid) \in Long
  BY <1>2, RegType
<1>4. CASE ifun < A_NONE
  <2> DEFINE val == compute_alu(ifun, Reg(raid), Reg(rbid))
  <2>1. val \in Long
    BY <1>2, <1>3, <1>4, AluType DEF Nibble
  <2>2. /\ Continue(next_pc) /\ cc' = compute_cc(ifun, Reg(raid), Reg(rbid), val)
        /\ r' = SetReg(r, rbid, val)
    BY <1>2, <1>4 DEF Alu, A_NONE, Nibble
  <2> HIDE DEF val
  <2>3. r' \in [RegId -> Long] /\ cc' \in CC
    BY <2>1, <2>2, SetRegType, CCType DEF SimTypeOK
  <2> QED BY <1>1, <1>2, <2>2, <2>3, ContinueType DEF Machine, SimTypeOK
<1>5. CASE ~(ifun < A_NONE)
  <2>1. Stop("INS") /\ r' = r /\ cc' = cc
    BY <1>5 DEF Alu
  <2> QED BY <1>1, <2>1, StopType DEF Machine, SimTypeOK, Status
<1> QED BY <1>4, <1>5

LEMMA JumpType ==
  ASSUME SimTypeOK, Jmp \/ Call
  PROVE  Machine'
<1>1. Fetched /\ HasImm(icode)
  BY DEF Jmp, Call, Instr, HasImm
<1>2. next_pc \in Long /\ addr \in Long
  BY <1>1, FetchType
<1>3. CASE Jmp
  <2>1. r' = r /\ m' = m /\ cc' = cc
    BY <1>3 DEF Jmp
  <2>2. CASE Continue(IF cond_doit(cc, ifun) THEN addr ELSE next_pc)
    BY <1>2, <2>1, <2>2, ContinueType DEF Machine, SimTypeOK
  <2>3. CASE Stop("INS")
    BY <2>1, <2>3, StopType DEF Machine, SimTypeOK, Status
  <2> QED BY <1>3, <2>2, <2>3 DEF Jmp
<1>4. CASE Call
  BY <1>2, <1>4, PushType DEF Call
<1> QED BY <1>3, <1>4

LEMMA StackType ==
  ASSUME SimTypeOK, Ret \/ Pushq \/ Popq
  PROVE  Machine'
<1>1. Fetched /\ next_pc \in Long
  BY FetchType DEF Ret, Pushq, Popq, Instr
<1>2. Reg(REG_RSP) \in Long /\ Reg(REG_RSP) \in Int
  <2>1. Reg(REG_RSP) \in Long
    BY RegType DEF REG_RSP, Nibble
  <2> QED BY <2>1, Widths DEF Long
<1>3. Above \in Long
  <2>1. Reg(REG_RSP) + LONG \in Int
    BY <1>2, Widths
  <2> QED BY <2>1, ToLongType DEF Above
<1>4. InMem(Reg(REG_RSP)) => LongAt(m, Reg(REG_RSP)) \in Long
  BY <1>2, LongAtType DEF SimTypeOK
<1>5. CASE Pushq
  <2>1. HasRegs(icode)
    BY <1>5 DEF Pushq, Instr, HasRegs, I_PUSHQ, I_HALT, I_NOP, I_JMP, I_CALL, I_RET
  <2>2. Reg(raid) \in Long
    BY <1>1, <2>1, FetchType, RegType
  <2> QED BY <1>1, <1>5, <2>2, PushType DEF Pushq
<1>6. CASE Ret
  <2>1. m' = m /\ cc' = cc
    BY <1>6 DEF Ret
  <2>2. CASE /\ InMem(Reg(REG_RSP)) /\ Continue(LongAt(m, Reg(REG_RSP)))
             /\ r' = SetReg(r, REG_RSP, Above)
    <3>1. r' \in [RegId -> Long]
      BY <1>3, <2>2, SetRegType DEF SimTypeOK
    <3> QED BY <1>4, <2>1, <2>2, <3>1, ContinueType DEF Machine, SimTypeOK
  <2>3. CASE Fault(Reg(REG_RSP)) /\ r' = r
    BY <2>1, <2>3, FaultType DEF Machine, SimTypeOK
  <2> QED BY <1>6, <2>2, <2>3 DEF Ret
<1>7. CASE Popq
  <2>1. m' = m /\ cc' = cc
    BY <1>7 DEF Popq
  <2>2. CASE /\ InMem(Reg(REG_RSP)) /\ Continue(next_pc)
             /\ r' = SetReg(SetReg(r, REG_RSP, Above), raid, LongAt(m, Reg(REG_RSP)))
    <3>1. SetReg(r, REG_RSP, Above) \in [RegId -> Long]
      BY <1>3, SetRegType DEF SimTypeOK
    <3>2. r' \in [RegId -> Long]
      BY <1>4, <2>2, <3>1, SetRegType
    <3> QED BY <1>1, <2>1, <2>2, <3>2, ContinueType DEF Machine, SimTypeOK
  <2>3. CASE Fault(Reg(REG_RSP)) /\ r' = r
    BY <2>1, <2>3, FaultType DEF Machine, SimTypeOK
  <2> QED BY <1>7, <2>2, <2>3 DEF Popq
<1> QED BY <1>5, <1>6, <1>7

LEMMA NextiType ==
  ASSUME SimTypeOK, nexti
  PROVE  SimTypeOK'
<1>1. Machine'
  BY PlainCasesType, MoveType, MemCasesType, AluCaseType, JumpType, StackType DEF nexti
<1>2. /\ step' = step + 1 /\ max_steps' = max_steps /\ savem' = savem /\ report' = report
  BY DEF nexti
<1> QED BY <1>1, <1>2 DEF SimTypeOK, Machine

LEMMA LoadType ==
  ASSUME SimTypeOK, file \in Seq(Byte), Load(file)
  PROVE  SimTypeOK'
<1>1. max_steps' \in MaxSteps
  BY DEF Load
<1>2. /\ pc' = pc /\ r' = r /\ cc' = cc /\ step' = step /\ report' = report
  BY DEF Load
<1>3. CASE stat' = "refused" /\ UNCHANGED <<m, savem>>
  BY <1>1, <1>2, <1>3 DEF SimTypeOK
<1>4. CASE /\ stat' = "AOK" /\ savem' = m'
           /\ m' = [a \in Address |-> IF a < Len(file) THEN file[a + 1] ELSE m[a]]
  <2>1. \A a \in Address : a < Len(file) => file[a + 1] \in Byte
    BY MemFacts DEF Address
  <2>2. m' \in [Address -> Byte]
    BY <1>4, <2>1 DEF SimTypeOK
  <2> QED BY <1>1, <1>2, <1>4, <2>2 DEF SimTypeOK, Status
<1> QED BY <1>3, <1>4 DEF Load

LEMMA LongOr0Type ==
  ASSUME NEW mem \in [Address -> Byte], NEW a \in Address
  PROVE  LongOr0(mem, a) \in Long
<1>1. a \in Int /\ 0 \in Long
  BY MemFacts, Widths DEF Address, Long
<1> QED BY <1>1, LongAtType DEF LongOr0

LEMMA ReportType ==
  ASSUME SimTypeOK, Report
  PROVE  SimTypeOK'
<1>1. 0 \in Long
  BY Widths DEF Long
<1>2. diff_reg \subseteq Change(RegId)
  BY <1>1 DEF diff_reg, Change, SimTypeOK
<1>3. diff_mem(savem, m) \subseteq Change(Address)
  BY LongOr0Type DEF diff_mem, Change, SimTypeOK
<1>4. report' = [regs |-> diff_reg, mem |-> diff_mem(savem, m), pc |-> pc]
  BY DEF Report
<1> QED BY <1>2, <1>3, <1>4 DEF Report, SimTypeOK, machine

LEMMA SimInitType == SimInit => SimTypeOK
<1> SUFFICES ASSUME SimInit PROVE SimTypeOK
  OBVIOUS
<1>1. 0 \in Long /\ -1 \in Long /\ 0 \in Byte
  BY Widths DEF Long, Byte
<1>2. DEFAULT_CC \in CC
  BY DEF DEFAULT_CC, PACK_CC, CC
<1> QED BY <1>1, <1>2 DEF SimInit, SimTypeOK, NoReport

-----------------------------------------------------------------------------
(* What a step of nexti may never do.                                      *)

LEMMA SetRegElsewhere ==
  ASSUME SimTypeOK, NEW v \in Long, NEW i \in RegId, i # REG_RSP
  PROVE  SetReg(r, REG_RSP, v)[i] = r[i]
BY DEF SetReg, SimTypeOK

LEMMA FailedStep ==
  ASSUME SimTypeOK, nexti, stat = "AOK", stat' # "AOK"
  PROVE  /\ pc' = pc /\ m' = m /\ cc' = cc
         /\ \A i \in RegId : r'[i] # r[i] => i = REG_RSP /\ icode \in {I_CALL, I_PUSHQ}
<1>1. \A to : ~Continue(to)
  BY DEF Continue
<1>2. \A a : Fault(a) => pc' = pc
  BY DEF Fault, Stop
<1>3. ASSUME NEW v, NEW to, Push(v, to)
      PROVE  /\ pc' = pc /\ m' = m /\ cc' = cc
             /\ \A i \in RegId : r'[i] # r[i] => i = REG_RSP
  <2>1. Fault(Below) /\ m' = m /\ cc' = cc /\ r' = SetReg(r, REG_RSP, Below)
    BY <1>1, <1>3 DEF Push
  <2>2. Below \in Long
    <3>1. Reg(REG_RSP) \in Long
      BY RegType DEF REG_RSP, Nibble
    <3>2. Reg(REG_RSP) - LONG \in Int
      BY <3>1, Widths DEF Long
    <3> QED BY <3>2, ToLongType DEF Below
  <2> QED BY <1>2, <2>1, <2>2, SetRegElsewhere
<1>4. CASE BadFetch \/ Halt \/ BadInstr
  BY <1>4 DEF BadFetch, Halt, BadInstr, Stop
<1>5. CASE Nop \/ Rrmovq \/ Irmovq
  BY <1>1, <1>5 DEF Nop, Rrmovq, Irmovq
<1>6. CASE Rmmovq \/ Mrmovq
  BY <1>1, <1>2, <1>6 DEF Rmmovq, Mrmovq
<1>7. CASE Alu \/ Jmp
  BY <1>1, <1>7 DEF Alu, Jmp, Stop
<1>8. CASE Call
  BY <1>3, <1>8 DEF Call, Instr
<1>9. CASE Pushq
  BY <1>3, <1>9 DEF Pushq, Instr
<1>10. CASE Ret \/ Popq
  BY <1>1, <1>2, <1>10 DEF Ret, Popq
<1> QED BY <1>4, <1>5, <1>6, <1>7, <1>8, <1>9, <1>10 DEF nexti

\* A zero flag that means equal, and a sign and an overflow that differ when
\* the first is less, answer every condition.
LEMMA FlagsCompare ==
  ASSUME NEW A \in Int, NEW B \in Int, NEW z \in BOOLEAN, NEW s \in BOOLEAN,
         NEW o \in BOOLEAN, z <=> B = A, (s /\ ~o) \/ (~s /\ o) <=> B < A
  PROVE  Compares(PACK_CC(z, s, o), B, A)
<1> DEFINE c == PACK_CC(z, s, o)
<1>1. c.zf = z /\ c.sf = s /\ c.of = o
  BY DEF PACK_CC
<1> HIDE DEF c
<1>0. (s # o) <=> (s /\ ~o) \/ (~s /\ o)
  OBVIOUS
<1>2. (cond_doit(c, C_E) <=> z) /\ (cond_doit(c, C_NE) <=> ~z)
  BY <1>1 DEF cond_doit, C_YES, C_LE, C_L, C_E, C_NE, C_GE, C_G
<1>3. (cond_doit(c, C_L) <=> s # o) /\ (cond_doit(c, C_GE) <=> ~(s # o))
  BY <1>1 DEF cond_doit, C_YES, C_LE, C_L, C_E, C_NE, C_GE, C_G
<1>4. (cond_doit(c, C_LE) <=> s # o \/ z) /\ (cond_doit(c, C_G) <=> ~(s # o) /\ ~z)
  BY <1>1 DEF cond_doit, C_YES, C_LE, C_L, C_E, C_NE, C_GE, C_G
<1>5. Compares(c, B, A)
  BY <1>0, <1>2, <1>3, <1>4 DEF Compares
<1> QED BY <1>5 DEF c

\* A number and its low half differ by whole turns, and a number that differs
\* from an int by whole turns has that int as its low half.
LEMMA LowHalf ==
  \A x \in Int : ToInt(x) \in Int32 /\ \E k \in Int : x = (2 * IntHalf) * k + ToInt(x)
<1> TAKE x \in Int
<1> DEFINE h == IntHalf
           d == 2 * h
           n == x + h
<1>1. h \in Nat \ {0} /\ d \in Nat \ {0} /\ n \in Int
  BY Widths
<1>2. PICK q \in Int, s \in 0 .. (d - 1) : n = d * q + s /\ n % d = s
  BY <1>1, Divided
<1>3. ToInt(x) = s - h
  BY <1>2 DEF ToInt
<1>4. x = d * q + (s - h)
  BY <1>1, <1>2
<1>5. s - h \in Int32
  BY <1>1, <1>2 DEF Int32
<1> HIDE DEF d
<1> QED BY <1>3, <1>4, <1>5 DEF d

LEMMA LowHalfIs ==
  ASSUME NEW k \in Int, NEW y \in Int32
  PROVE  ToInt((2 * IntHalf) * k + y) = y
<1> DEFINE h == IntHalf
           d == 2 * h
           s == y + h
<1>1. h \in Nat \ {0} /\ d \in Nat \ {0} /\ y \in Int /\ s \in Int /\ 0 <= s /\ s < d
  BY Widths DEF Int32
<1>2. (d * k + s) % d = s
  <2> HIDE DEF d, s
  <2> QED BY <1>1, Remainder
<1>3. (d * k + y) + h = d * k + s
  BY <1>1
<1>4. ToInt(d * k + y) = (((d * k + y) + h) % d) - h
  BY DEF ToInt
<1> QED BY <1>1, <1>2, <1>3, <1>4

LEMMA SameLowHalf ==
  ASSUME NEW x \in Int, NEW y \in Int, NEW k \in Int, x = (2 * IntHalf) * k + y
  PROVE  ToInt(x) = ToInt(y)
<1>1. PICK j \in Int : y = (2 * IntHalf) * j + ToInt(y)
  BY LowHalf
<1>2. PICK v \in Int32 : v = ToInt(y)
  BY LowHalf
<1>3. x = (2 * IntHalf) * (k + j) + v /\ k + j \in Int
  BY <1>1, <1>2, Widths DEF Int32
<1>4. ToInt((2 * IntHalf) * (k + j) + v) = v
  BY <1>3, LowHalfIs
<1> QED BY <1>2, <1>3, <1>4

\* A turn of a long is a number of turns of an int.
LEMMA PowerStep ==
  ASSUME NEW i \in 0 .. LONG, NEW p \in Nat, \E j \in Nat : 256 ^ i = p * j
  PROVE  \E j \in Nat : 256 ^ (i + 1) = p * j
<1>1. PICK j \in Nat : 256 ^ i = p * j
  OBVIOUS
<1>2. 256 ^ (i + 1) = 256 * 256 ^ i
  BY PowerAssumption
<1>3. 256 * (p * j) = p * (256 * j) /\ 256 * j \in Nat
  OBVIOUS
<1>4. 256 ^ (i + 1) = p * (256 * j)
  BY <1>1, <1>2, <1>3
<1> QED BY <1>3, <1>4

LEMMA LongTurns == \E j \in Nat : LongHalf = IntHalf * j
<1> DEFINE b == INT - 1
           p == 256 ^ b
           Multiple(i) == \E j \in Nat : 256 ^ i = p * j
<1>1. LONG \in 1 .. 8 /\ b \in 0 .. (LONG - 2) /\ p \in Nat
  BY WidthAssumption, Widths
<1>2. \A i \in 0 .. LONG : Multiple(i) => Multiple(i + 1)
  <2> HIDE DEF p
  <2> QED BY <1>1, PowerStep
<1>3. Multiple(b)
  <2>1. p = p * 1
    BY <1>1
  <2> QED BY <2>1
<1> HIDE DEF Multiple, b
<1>4. /\ b + 1 <= LONG => Multiple(b + 1)
      /\ b + 2 <= LONG => Multiple(b + 2)
  BY <1>1, <1>2, <1>3
<1>5. /\ b + 3 <= LONG => Multiple(b + 3)
      /\ b + 4 <= LONG => Multiple(b + 4)
  BY <1>1, <1>2, <1>4
<1>6. /\ b + 5 <= LONG => Multiple(b + 5)
      /\ b + 6 <= LONG => Multiple(b + 6)
  BY <1>1, <1>2, <1>5
<1>7. b + 7 <= LONG => Multiple(b + 7)
  BY <1>1, <1>2, <1>6
<1>8. Multiple(LONG - 1)
  <2>1. LONG - 1 \in {b + 1, b + 2, b + 3, b + 4, b + 5, b + 6, b + 7}
    BY <1>1
  <2> QED BY <1>1, <1>4, <1>5, <1>6, <1>7, <2>1
<1>9. PICK j \in Nat : 256 ^ (LONG - 1) = p * j
  BY <1>8 DEF Multiple
<1>10. 128 * (p * j) = (128 * p) * j
  BY <1>1
<1> QED BY <1>9, <1>10 DEF LongHalf, IntHalf, b

LEMMA LongTurn == \A x \in Int : \E k \in Int : ToLong(x) = (2 * LongHalf) * k + x
<1> TAKE x \in Int
<1> DEFINE h == LongHalf
           d == 2 * h
           n == x + h
<1>1. h \in Nat \ {0} /\ d \in Nat \ {0} /\ n \in Int
  BY Widths
<1>2. PICK q \in Int, s \in 0 .. (d - 1) : n = d * q + s /\ n % d = s
  BY <1>1, Divided
<1>3. ToLong(x) = s - h
  BY <1>2 DEF ToLong
<1>4. s - h = d * (-q) + x
  BY <1>1, <1>2
<1> QED BY <1>3, <1>4

\* compute_cc sees the difference of the low halves.
LEMMA LowDifference ==
  ASSUME NEW A \in Int, NEW B \in Int
  PROVE  ToInt(ToLong(B - A)) = ToInt(ToInt(B) - ToInt(A))
<1> DEFINE d == 2 * IntHalf
<1>1. d \in Nat
  BY Widths
<1>2. PICK j \in Nat : LongHalf = IntHalf * j
  BY LongTurns
<1>3. PICK k \in Int : ToLong(B - A) = (2 * LongHalf) * k + (B - A)
  <2>1. B - A \in Int
    OBVIOUS
  <2> QED BY <2>1, LongTurn
<1>4. PICK a \in Int, ka \in Int : a = ToInt(A) /\ A = d * ka + a
  BY LowHalf DEF Int32
<1>5. PICK b \in Int, kb \in Int : b = ToInt(B) /\ B = d * kb + b
  BY LowHalf DEF Int32
<1>6. (2 * LongHalf) * k = d * (j * k)
  BY <1>2, Widths
<1>7. j * k \in Int
  BY <1>2
<1> HIDE DEF d
<1>8. ToLong(B - A) = d * (j * k + kb - ka) + (b - a) /\ j * k + kb - ka \in Int
  <2>1. PICK z \in Int : z = j * k
    BY <1>7
  <2>2. ToLong(B - A) = d * z + ((d * kb + b) - (d * ka + a))
    BY <1>3, <1>4, <1>5, <1>6, <2>1
  <2>3. d * z + ((d * kb + b) - (d * ka + a)) = d * (z + kb - ka) + (b - a)
    BY <1>1
  <2> QED BY <2>1, <2>2, <2>3
<1>9. ToLong(B - A) \in Int /\ b - a \in Int
  BY <1>1, <1>8
<1>10. PICK x \in Int, y \in Int, z \in Int :
         x = ToLong(B - A) /\ y = b - a /\ x = (2 * IntHalf) * z + y
  BY <1>8, <1>9 DEF d
<1>11. ToInt(x) = ToInt(y)
  BY <1>10, SameLowHalf
<1> QED BY <1>4, <1>5, <1>10, <1>11

\* A difference of longs that is cut to 0 is 0.
LEMMA NoDifference ==
  ASSUME NEW A \in Long, NEW B \in Long
  PROVE  ToLong(B - A) = 0 <=> B = A
<1>1. A \in Int /\ B \in Int /\ -2 * LongHalf < B - A /\ B - A < 2 * LongHalf /\ LongHalf \in Nat \ {0}
  BY Widths DEF Long
<1>2. PICK k \in Int : ToLong(B - A) = (2 * LongHalf) * k + (B - A)
  <2>1. B - A \in Int
    BY <1>1
  <2> QED BY <2>1, LongTurn
<1>3. ASSUME ToLong(B - A) = 0 PROVE B = A
  <2> DEFINE d == 2 * LongHalf
  <2>1. d \in Nat /\ d * k = A - B
    BY <1>1, <1>2, <1>3
  <2>2. ASSUME k >= 1 PROVE FALSE
    <3>1. d * k >= d
      <4> HIDE DEF d
      <4> QED BY <2>1, <2>2
    <3> QED BY <1>1, <2>1, <3>1
  <2>3. ASSUME k <= -1 PROVE FALSE
    <3>1. d * k <= -d
      <4> HIDE DEF d
      <4> QED BY <2>1, <2>3
    <3> QED BY <1>1, <2>1, <3>1
  <2>4. k = 0
    BY <2>2, <2>3
  <2> QED BY <1>1, <2>1, <2>4
<1>4. ASSUME B = A PROVE ToLong(B - A) = 0
  <2>1. 0 \in Long
    BY <1>1 DEF Long
  <2> QED BY <1>1, <1>4, <2>1, ToLongExact
<1> QED BY <1>3, <1>4

\* The sign and the overflow of a difference of ints show their order, but
\* for the least int, which is taken to be above 0.
LEMMA OrderOfInts ==
  ASSUME NEW a \in Int32, NEW b \in Int32, NEW v, v = ToInt(b - a),
         NEW o, o <=> (a < 0 /\ b > 0 /\ v < 0) \/ (a > 0 /\ b < 0 /\ v > 0)
  PROVE  (v < 0 /\ ~o) \/ (~(v < 0) /\ o) <=> b < a \/ (b = 0 /\ a = -IntHalf)
<1> DEFINE d == b - a
<1>1. IntHalf \in Nat \ {0} /\ a \in Int /\ b \in Int /\ d \in Int
      /\ -2 * IntHalf < d /\ d < 2 * IntHalf
  BY Widths DEF Int32
<1>2. CASE d \in Int32
  <2>1. v = d
    BY <1>1, <1>2, ToIntCases
  <2>2. ~o
    BY <1>1, <2>1
  <2>3. v < 0 <=> b < a
    BY <1>1, <2>1
  <2>4. ~(b = 0 /\ a = -IntHalf)
    BY <1>1, <1>2 DEF Int32
  <2> QED BY <2>2, <2>3, <2>4
<1>3. CASE IntHalf <= d
  <2>1. v = d - 2 * IntHalf
    BY <1>1, <1>3, ToIntCases
  <2>2. a < 0 /\ v < 0 /\ ~(b < a) /\ (b > 0 \/ (b = 0 /\ a = -IntHalf))
    BY <1>1, <1>3, <2>1 DEF Int32
  <2>3. (b = 0 /\ a = -IntHalf) <=> ~(b > 0)
    BY <1>1, <2>2
  <2> QED BY <1>1, <2>2, <2>3
<1>4. CASE d < -IntHalf
  <2>1. v = d + 2 * IntHalf
    BY <1>1, <1>4, ToIntCases
  <2>2. a > 0 /\ b < 0 /\ v > 0 /\ b < a /\ v \in Int
    BY <1>1, <1>4, <2>1 DEF Int32
  <2>3. o /\ ~(v < 0)
    BY <2>2
  <2> QED BY <2>2, <2>3
<1>5. d \in Int32 \/ IntHalf <= d \/ d < -IntHalf
  BY <1>1 DEF Int32
<1> QED BY <1>2, <1>3, <1>4, <1>5

\* What the flags of a difference of longs show.
LEMMA FlagsOfDifference ==
  ASSUME NEW A \in Long, NEW B \in Long
  PROVE  \E s, o \in BOOLEAN :
           /\ compute_cc(A_SUB, A, B, ToLong(B - A)) = PACK_CC(B = A, s, o)
           /\ (s /\ ~o) \/ (~s /\ o) <=> LowLess(B, A)
<1>1. A \in Int /\ B \in Int
  BY Widths DEF Long
<1>2. PICK a \in Int32 : a = ToInt(A)
  BY <1>1, LowHalf
<1>3. PICK b \in Int32 : b = ToInt(B)
  BY <1>1, LowHalf
<1>4. PICK v : v = ToInt(b - a) /\ v = ToInt(ToLong(B - A))
  BY <1>1, <1>2, <1>3, LowDifference
<1> DEFINE o == \/ A_SUB = A_ADD /\ a < 0 /\ b < 0 /\ v > 0
                \/ A_SUB = A_ADD /\ a > 0 /\ b > 0 /\ v < 0
                \/ A_SUB = A_SUB /\ a < 0 /\ b > 0 /\ v < 0
                \/ A_SUB = A_SUB /\ a > 0 /\ b < 0 /\ v > 0
<1>5. o <=> (a < 0 /\ b > 0 /\ v < 0) \/ (a > 0 /\ b < 0 /\ v > 0)
  BY DEF A_ADD, A_SUB
<1>6. compute_cc(A_SUB, A, B, ToLong(B - A)) = PACK_CC(ToLong(B - A) = 0, v < 0, o)
  BY <1>2, <1>3, <1>4 DEF compute_cc
<1>7. (v < 0) \in BOOLEAN /\ o \in BOOLEAN
  BY DEF o
<1> HIDE DEF o
<1>8. (v < 0 /\ ~o) \/ (~(v < 0) /\ o) <=> b < a \/ (b = 0 /\ a = -IntHalf)
  BY <1>4, <1>5, OrderOfInts
<1>9. LowLess(B, A) <=> b < a \/ (b = 0 /\ a = -IntHalf)
  BY <1>2, <1>3 DEF LowLess
<1>10. (ToLong(B - A) = 0) = (B = A)
  BY NoDifference
<1> QED BY <1>6, <1>7, <1>8, <1>9, <1>10

\* The conditions after a difference: right just when the low halves show the
\* order of the longs, and for all ints but one pair.
LEMMA ConditionsOfDifference ==
  ASSUME NEW A \in Long, NEW B \in Long, NEW c,
         c = compute_cc(A_SUB, A, B, ToLong(B - A))
  PROVE  Compares(c, B, A) <=> (LowLess(B, A) <=> B < A)
<1>1. PICK s \in BOOLEAN, o \in BOOLEAN :
        c = PACK_CC(B = A, s, o) /\ ((s /\ ~o) \/ (~s /\ o) <=> LowLess(B, A))
  BY FlagsOfDifference
<1>2. A \in Int /\ B \in Int /\ (B = A) \in BOOLEAN
  BY Widths DEF Long
<1>3. ASSUME LowLess(B, A) <=> B < A PROVE Compares(c, B, A)
  <2>1. PICK z \in BOOLEAN : z = (B = A)
    BY <1>2
  <2>2. (z <=> B = A) /\ ((s /\ ~o) \/ (~s /\ o) <=> B < A) /\ c = PACK_CC(z, s, o)
    BY <1>1, <1>3, <2>1
  <2> QED BY <1>2, <2>2, FlagsCompare
<1>4. ASSUME Compares(c, B, A) PROVE LowLess(B, A) <=> B < A
  <2>1. cond_doit(c, C_L) <=> B < A
    BY <1>4 DEF Compares
  <2>2. c.sf = s /\ c.of = o
    BY <1>1 DEF PACK_CC
  <2>3. cond_doit(c, C_L) <=> c.sf # c.of
    BY DEF cond_doit, C_YES, C_LE, C_L, C_E, C_NE, C_GE, C_G
  <2>4. s # o <=> (s /\ ~o) \/ (~s /\ o)
    OBVIOUS
  <2> QED BY <1>1, <2>1, <2>2, <2>3, <2>4
<1> QED BY <1>3, <1>4

LEMMA ConditionsOfInts ==
  ASSUME NEW A \in Int32, NEW B \in Int32, ~(A = -IntHalf /\ B = 0), NEW c,
         c = compute_cc(A_SUB, A, B, ToLong(B - A))
  PROVE  Compares(c, B, A)
<1>1. A \in Long /\ B \in Long /\ A \in Int /\ B \in Int
  BY Widths DEF Int32, Long
<1>2. ToInt(A) = A /\ ToInt(B) = B
  BY <1>1, ToIntCases
<1>3. LowLess(B, A) <=> B < A
  BY <1>2 DEF LowLess
<1> QED BY <1>1, <1>3, ConditionsOfDifference

LEMMA Subtraction ==
  ASSUME SimTypeOK, Alu, ifun = A_SUB, NEW A, A = Reg(raid), NEW B, B = Reg(rbid)
  PROVE  /\ {A, B} \subseteq Int32 /\ ~(A = -IntHalf /\ B = 0) => Compares(cc', B, A)
         /\ Compares(cc', B, A) <=> (LowLess(B, A) <=> B < A)
<1>1. cc' = compute_cc(A_SUB, A, B, compute_alu(A_SUB, A, B))
  BY DEF Alu, A_NONE, A_SUB
<1>2. compute_alu(A_SUB, A, B) = ToLong(B - A)
  BY DEF compute_alu, A_ADD, A_SUB, A_AND, A_XOR
<1>3. A \in Long /\ B \in Long
  <2>1. Fetched /\ HasRegs(icode)
    BY DEF Alu, Instr, HasRegs, I_ALU, I_HALT, I_NOP, I_JMP, I_CALL, I_RET
  <2>2. raid \in Nibble /\ rbid \in Nibble
    BY <2>1, FetchType
  <2> QED BY <2>2, RegType
<1> QED BY <1>1, <1>2, <1>3, ConditionsOfInts, ConditionsOfDifference

-----------------------------------------------------------------------------
(* The assembler: the types of what parse_line and relocate compute.       *)

LEMMA PackType == \A x, y \in Nibble : HPACK(x, y) \in Byte
BY DEF Nibble, HPACK, Byte

\* The table of instructions.
LEMMA TableTypes ==
  \A i \in instr_set :
    /\ i.code \in Byte /\ i.bytes \in 0 .. (LONG + 2)
    /\ IsData(i) => i.bytes \in 1 .. LONG
<1>1. \A d \in DOMAIN DATA_BYTES : DATA_BYTES[d] \in 1 .. LONG
  BY SourceAssumption
<1>2. \A d \in DOMAIN DATA_BYTES : Ins(d, I_DIRECTIVE, 0, DATA_BYTES[d]).bytes \in 1 .. LONG
                               /\ Ins(d, I_DIRECTIVE, 0, DATA_BYTES[d]).code \in Byte
  BY <1>1 DEF Ins, HPACK, Byte, I_DIRECTIVE
<1> DEFINE fixed ==
  { Ins("nop", I_NOP, 0, 1), Ins("halt", I_HALT, 0, 1),
    Ins("rrmovq", I_RRMOVQ, 0, 2), Ins("cmovle", I_RRMOVQ, C_LE, 2),
    Ins("cmovl", I_RRMOVQ, C_L, 2), Ins("cmove", I_RRMOVQ, C_E, 2),
    Ins("cmovne", I_RRMOVQ, C_NE, 2), Ins("cmovge", I_RRMOVQ, C_GE, 2),
    Ins("cmovg", I_RRMOVQ, C_G, 2), Ins("irmovq", I_IRMOVQ, 0, LONG + 2),
    Ins("rmmovq", I_RMMOVQ, 0, LONG + 2), Ins("mrmovq", I_MRMOVQ, 0, LONG + 2),
    Ins("addq", I_ALU, A_ADD, 2), Ins("subq", I_ALU, A_SUB, 2),
    Ins("andq", I_ALU, A_AND, 2), Ins("xorq", I_ALU, A_XOR, 2),
    Ins("jmp", I_JMP, C_YES, LONG + 1), Ins("jle", I_JMP, C_LE, LONG + 1),
    Ins("jl", I_JMP, C_L, LONG + 1), Ins("je", I_JMP, C_E, LONG + 1),
    Ins("jne", I_JMP, C_NE, LONG + 1), Ins("jge", I_JMP, C_GE, LONG + 1),
    Ins("jg", I_JMP, C_G, LONG + 1), Ins("call", I_CALL, 0, LONG + 1),
    Ins("ret", I_RET, 0, 1), Ins("pushq", I_PUSHQ, 0, 2), Ins("popq", I_POPQ, 0, 2),
    Ins(".pos", I_DIRECTIVE, 1, 0), Ins(".align", I_DIRECTIVE, 2, 0) }
<1>3. \A i \in fixed : i.code \in Byte /\ i.bytes \in 0 .. (LONG + 2)
                     /\ i.code # HPACK(I_DIRECTIVE, 0)
  BY Widths DEF Ins, HPACK, Byte, I_HALT, I_NOP, I_RRMOVQ, I_IRMOVQ, I_RMMOVQ,
     I_MRMOVQ, I_ALU, I_JMP, I_CALL, I_RET, I_PUSHQ, I_POPQ, I_DIRECTIVE, A_ADD, A_SUB,
     A_AND, A_XOR, C_YES, C_LE, C_L, C_E, C_NE, C_GE, C_G
<1>4. \A i \in instr_set :
        i \in fixed \/ \E d \in DOMAIN DATA_BYTES : i = Ins(d, I_DIRECTIVE, 0, DATA_BYTES[d])
  BY DEF instr_set
<1> HIDE DEF fixed
<1> QED BY <1>2, <1>3, <1>4, Widths DEF IsData

LEMMA addressMemoryType ==
  ASSUME NEW codes \in [CodeIndex -> Byte], NEW i \in Nat, NEW v \in Int,
         NEW bytes \in 0 .. LONG
  PROVE  addressMemory(codes, i, v, bytes) \in [CodeIndex -> Byte]
<1>1. \A k \in CodeIndex : k \in i .. (i + bytes - 1) => k - i \in 0 .. LONG
  BY Widths DEF CodeIndex
<1>2. \A k \in CodeIndex : k \in i .. (i + bytes - 1) => ByteOf(v, k - i) \in Byte
  BY <1>1, ByteOfType
<1> QED BY <1>2 DEF addressMemory

LEMMA DataIsDirective == \A i : IsData(i) => HIGH(i.code) = I_DIRECTIVE
BY DEF IsData, HIGH, HPACK, I_DIRECTIVE

\* The operands of an instruction: three at most, and those with registers in
\* their second byte have them where RegsByte looks.
LEMMA OperandsLen ==
  ASSUME NEW i
  PROVE  /\ Len(Operands(i)) \in 0 .. 3 /\ DOMAIN Operands(i) = 1 .. Len(Operands(i))
         /\ HIGH(i.code) \in {I_RRMOVQ, I_IRMOVQ, I_RMMOVQ, I_MRMOVQ, I_ALU} => Len(Operands(i)) = 3
         /\ HIGH(i.code) \in {I_PUSHQ, I_POPQ} => Len(Operands(i)) = 1
         /\ HIGH(i.code) = I_DIRECTIVE => Len(Operands(i)) = 1
<1> DEFINE c == HIGH(i.code)
<1> USE DEF I_HALT, I_NOP, I_RRMOVQ, I_IRMOVQ, I_RMMOVQ, I_MRMOVQ, I_ALU, I_JMP, I_CALL,
            I_RET, I_PUSHQ, I_POPQ, I_DIRECTIVE
<1>1. CASE c \in {I_NOP, I_HALT, I_RET}
  BY <1>1, DataIsDirective DEF Operands
<1>2. CASE c \in {I_IRMOVQ, I_RMMOVQ, I_MRMOVQ}
  <2>1. CASE c = I_IRMOVQ
    <3>1. Operands(i) = <<parse_imm, parse_delim, parse_reg>>
      BY <2>1, DataIsDirective DEF Operands
    <3> QED BY <2>1, <3>1
  <2>2. CASE c = I_RMMOVQ
    <3>1. Operands(i) = <<parse_reg, parse_delim, parse_mem>>
      BY <2>2, DataIsDirective DEF Operands
    <3> QED BY <2>2, <3>1
  <2>3. CASE c = I_MRMOVQ
    <3>1. Operands(i) = <<parse_mem, parse_delim, parse_reg>>
      BY <2>3, DataIsDirective DEF Operands
    <3> QED BY <2>3, <3>1
  <2> QED BY <1>2, <2>1, <2>2, <2>3
<1>3. CASE c \in {I_RRMOVQ, I_ALU}
  <2>1. Operands(i) = <<parse_reg, parse_delim, parse_reg>>
    BY <1>3, DataIsDirective DEF Operands
  <2> QED BY <1>3, <2>1
<1>4. CASE c \in {I_JMP, I_CALL, I_PUSHQ, I_POPQ}
  <2>1. Operands(i) = <<parse_imm>> \/ Operands(i) = <<parse_reg>>
    BY <1>4, DataIsDirective DEF Operands
  <2> QED BY <1>4, <2>1
<1>5. CASE c \notin {I_NOP, I_HALT, I_RET, I_IRMOVQ, I_RMMOVQ, I_MRMOVQ, I_RRMOVQ, I_ALU,
                     I_JMP, I_CALL, I_PUSHQ, I_POPQ}
  <2>1. Operands(i) = <<parse_data>> \/ Operands(i) = <<parse_digit>>
    BY <1>5, DataIsDirective DEF Operands
  <2> QED BY <1>5, <2>1
<1> QED BY <1>1, <1>2, <1>3, <1>4, <1>5

LEMMA ArgsType ==
  ASSUME NEW i, NEW rest \in Seq(Token), Parses(i, rest)
  PROVE  /\ SubSeq(rest, 1, Len(Operands(i))) \in Seq(Token)
         /\ Len(SubSeq(rest, 1, Len(Operands(i)))) = Len(Operands(i))
<1> PICK n : n = Len(Operands(i))
  OBVIOUS
<1>1. n \in 0 .. 3
  BY OperandsLen
<1>2. n <= Len(rest)
  BY DEF Parses
<1>3. SubSeq(rest, 1, n) \in Seq(Token) /\ Len(SubSeq(rest, 1, n)) = n
  BY <1>1, <1>2
<1> QED BY <1>3

LEMMA TokenFields ==
  ASSUME NEW s \in Seq(Token), NEW k \in DOMAIN s
  PROVE  s[k].num \in Long /\ s[k].name \in STRING /\ s[k].reg \in Nibble /\ s[k] \in Token
<1>1. s[k] \in Token
  OBVIOUS
<1> QED BY <1>1 DEF Token, RegId, Nibble, REG_NONE

LEMMA NumberType ==
  ASSUME NEW args \in Seq(Token), NEW old \in Long
  PROVE  Number(args, old) \in Long
<1> DEFINE numbers == {k \in DOMAIN args : args[k].kind \in {"imm", "num", "dmem"}}
<1>1. CASE numbers = {}
  BY <1>1 DEF Number
<1>2. CASE numbers # {}
  <2>1. (CHOOSE k \in numbers : TRUE) \in DOMAIN args
    BY <1>2
  <2>2. args[CHOOSE k \in numbers : TRUE].num \in Long
    BY <2>1, TokenFields
  <2> QED BY <1>2, <2>2 DEF Number
<1> QED BY <1>1, <1>2

LEMMA RegsByteType ==
  ASSUME NEW i, NEW args \in Seq(Token), Len(args) = Len(Operands(i)), HasRegsByte(i)
  PROVE  RegsByte(i, args) \in Byte
<1> USE DEF I_RRMOVQ, I_IRMOVQ, I_RMMOVQ, I_MRMOVQ, I_ALU, I_PUSHQ, I_POPQ
<1>1. 15 \in Nibble
  BY DEF Nibble
<1>2. \A k \in DOMAIN args : args[k].reg \in Nibble
  BY TokenFields
<1>3. CASE HIGH(i.code) \in {I_PUSHQ, I_POPQ}
  <2>1. args[1].reg \in Nibble
    <3>1. Len(args) = 1
      BY <1>3, OperandsLen
    <3> QED BY <1>2, <3>1
  <2>2. HPACK(args[1].reg, 15) \in Byte
    BY <1>1, <2>1, PackType
  <2> QED BY <1>3, <2>2 DEF RegsByte
<1>4. CASE HIGH(i.code) \in {I_RRMOVQ, I_IRMOVQ, I_RMMOVQ, I_MRMOVQ, I_ALU}
  <2>1. args[1].reg \in Nibble /\ args[3].reg \in Nibble
    <3>1. Len(args) = 3
      BY <1>4, OperandsLen
    <3> QED BY <1>2, <3>1
  <2>2. /\ HPACK(15, args[3].reg) \in Byte /\ HPACK(args[3].reg, args[1].reg) \in Byte
        /\ HPACK(args[1].reg, args[3].reg) \in Byte
    BY <1>1, <2>1, PackType
  <2> QED BY <1>4, <2>2 DEF RegsByte
<1> QED BY <1>3, <1>4 DEF HasRegsByte

LEMMA CodesType ==
  ASSUME NEW old \in [CodeIndex -> Byte], NEW i \in instr_set, NEW args \in Seq(Token),
         Len(args) = Len(Operands(i)), NEW v \in Long
  PROVE  Codes(old, i, args, v) \in [CodeIndex -> Byte]
<1> DEFINE head == [old EXCEPT ![0] = i.code,
                               ![1] = IF HasRegsByte(i) THEN RegsByte(i, args) ELSE @]
<1>1. i.code \in Byte /\ i.bytes \in 0 .. (LONG + 2) /\ (IsData(i) => i.bytes \in 1 .. LONG)
  BY TableTypes
<1>2. head \in [CodeIndex -> Byte]
  BY <1>1, RegsByteType, Widths DEF CodeIndex
<1> HIDE DEF head
<1>3. v \in Int /\ LONG \in 0 .. LONG
  BY Widths DEF Long
<1>4. addressMemory(head, 2, v, LONG) \in [CodeIndex -> Byte]
  BY <1>2, <1>3, addressMemoryType
<1>5. addressMemory(head, 1, v, LONG) \in [CodeIndex -> Byte]
  BY <1>2, <1>3, addressMemoryType
<1>6. IsData(i) => addressMemory(head, 0, v, i.bytes) \in [CodeIndex -> Byte]
  BY <1>1, <1>2, <1>3, addressMemoryType, Widths
<1>7. CASE HIGH(i.code) \in {I_IRMOVQ, I_RMMOVQ, I_MRMOVQ}
  <2>1. Codes(old, i, args, v) = addressMemory(head, 2, v, LONG)
    BY <1>7, DataIsDirective DEF Codes, head, I_IRMOVQ, I_RMMOVQ, I_MRMOVQ, I_JMP,
       I_CALL, I_DIRECTIVE
  <2> QED BY <1>4, <2>1
<1>8. CASE HIGH(i.code) \in {I_JMP, I_CALL}
  <2>1. Codes(old, i, args, v) = addressMemory(head, 1, v, LONG)
    BY <1>8, DataIsDirective DEF Codes, head, I_IRMOVQ, I_RMMOVQ, I_MRMOVQ, I_JMP,
       I_CALL, I_DIRECTIVE
  <2> QED BY <1>5, <2>1
<1>9. CASE HIGH(i.code) \notin {I_IRMOVQ, I_RMMOVQ, I_MRMOVQ, I_JMP, I_CALL}
  <2>1. CASE IsData(i)
    <3>1. Codes(old, i, args, v) = addressMemory(head, 0, v, i.bytes)
      BY <1>9, <2>1 DEF Codes, head
    <3> QED BY <1>6, <2>1, <3>1
  <2>2. CASE ~IsData(i)
    <3>1. Codes(old, i, args, v) = head
      BY <1>9, <2>2 DEF Codes, head
    <3> QED BY <1>2, <3>1
  <2> QED BY <2>1, <2>2
<1> QED BY <1>7, <1>8, <1>9

-----------------------------------------------------------------------------
(* The assembler: its invariant.                                           *)

KnownNames(s) ==
  \A k \in DOMAIN s : s[k].kind = "ins" => \E i \in instr_set : i.name = s[k].name
Entry == [name : STRING, line : DOMAIN lines]

AsmInv ==
  /\ AsmTypeOK
  /\ source \in Source
  /\ KnownNames(ptr)
  /\ Len(lines) <= Len(source)
  /\ phase = "parse" => lines # <<>>
  /\ phase = "binfile" => file \in Seq(Byte)

LEMMA SourceType ==
  ASSUME source \in Source
  PROVE  /\ source \in Seq(Seq(Token))
         /\ \A l \in DOMAIN source : source[l] \in Seq(Token) /\ KnownNames(source[l])
BY SourceAssumption DEF KnownNames

\* What is left of a line is made of tokens of the line.
LEMMA RestType ==
  ASSUME NEW s \in Seq(Token), KnownNames(s), NEW n \in 1 .. (Len(s) + 1)
  PROVE  SubSeq(s, n, Len(s)) \in Seq(Token) /\ KnownNames(SubSeq(s, n, Len(s)))
<1> DEFINE t == SubSeq(s, n, Len(s))
<1>1. /\ t \in Seq(Token) /\ Len(t) = Len(s) - n + 1
      /\ \A k \in 1 .. Len(t) : t[k] = s[n + k - 1]
  OBVIOUS
<1>2. \A k \in DOMAIN t : n + k - 1 \in DOMAIN s /\ t[k] = s[n + k - 1]
  BY <1>1
<1> QED BY <1>1, <1>2 DEF KnownNames

LEMMA TailType ==
  ASSUME NEW s \in Seq(Token), KnownNames(s), s # <<>>
  PROVE  Tail(s) \in Seq(Token) /\ KnownNames(Tail(s)) /\ Len(Tail(s)) = Len(s) - 1
<1>1. /\ Tail(s) \in Seq(Token) /\ Len(Tail(s)) = Len(s) - 1
      /\ \A k \in 1 .. Len(Tail(s)) : Tail(s)[k] = s[k + 1]
  OBVIOUS
<1>2. \A k \in DOMAIN Tail(s) : k + 1 \in DOMAIN s /\ Tail(s)[k] = s[k + 1]
  BY <1>1
<1> QED BY <1>1, <1>2 DEF KnownNames

LEMMA FindType ==
  ASSUME NEW n, \E i \in instr_set : i.name = n
  PROVE  find_instr(n) \in instr_set /\ find_instr(n).name = n
BY DEF find_instr

LEMMA EditType ==
  ASSUME lines \in Seq(Line), lines # <<>>, NEW line \in Line, Edit(line)
  PROVE  /\ lines' \in Seq(Line) /\ Len(lines') = Len(lines) /\ DOMAIN lines' = DOMAIN lines
         /\ lines' # <<>>
BY DEF Edit

LEMMA CurrentType ==
  ASSUME lines \in Seq(Line), lines # <<>>
  PROVE  /\ Current \in Line /\ Current.codes \in [CodeIndex -> Byte]
         /\ Current.bytes \in 0 .. (LONG + 2) /\ Current.addr \in Long
<1>1. Current \in Line
  BY DEF Current
<1> QED BY <1>1 DEF Line

\* Actions that change no more than the phase, the place or the file.
LEMMA ControlType ==
  ASSUME AsmInv, UNCHANGED <<source, lines, ptr, value, vmaddr, symtab, reltab>>,
         phase' \in Phase, at' \in Nat \ {0},
         phase' = "parse" => phase = "parse",
         \/ file' = file /\ (phase' = "binfile" => phase = "binfile")
         \/ file' \in Seq(Byte)
  PROVE  AsmInv'
BY DEF AsmInv, AsmTypeOK, KnownNames

LEMMA NextLineType ==
  ASSUME AsmInv, NextLine
  PROVE  AsmInv'
<1>1. /\ lines' = Append(lines, Blank) /\ ptr' = source[Len(lines) + 1] /\ value' = 0
      /\ phase' = "parse" /\ Len(lines) < Len(source)
      /\ UNCHANGED <<source, vmaddr, symtab, reltab, at, file>>
  BY DEF NextLine, tables
<1>2. source \in Seq(Seq(Token)) /\ lines \in Seq(Line) /\ Len(lines) \in Nat
  BY SourceType DEF AsmInv, AsmTypeOK
<1>3. ptr' \in Seq(Token) /\ KnownNames(ptr')
  <2>1. Len(lines) + 1 \in DOMAIN source
    BY <1>1, <1>2
  <2> QED BY <1>1, <2>1, SourceType DEF AsmInv
<1>4. Blank \in Line /\ 0 \in Long
  BY Widths DEF Blank, Line, Long, Byte
<1>5. lines' \in Seq(Line) /\ Len(lines') = Len(lines) + 1 /\ lines' # <<>>
  <2>1. /\ Append(lines, Blank) \in Seq(Line)
        /\ Len(Append(lines, Blank)) = Len(lines) + 1
    BY <1>2, <1>4
  <2>2. lines' \in Seq(Line) /\ Len(lines') = Len(lines) + 1
    BY <1>1, <2>1
  <2> QED BY <1>2, <2>2
<1>6. DOMAIN lines \subseteq DOMAIN lines'
  BY <1>2, <1>5
<1>7. reltab' \in Seq(Entry')
  <2>1. reltab \in Seq(Entry)
    BY DEF AsmInv, AsmTypeOK, Entry
  <2>2. Entry \subseteq Entry'
    BY <1>6 DEF Entry
  <2> HIDE DEF Entry
  <2> QED BY <1>1, <2>1, <2>2
<1>8. KnownNames(ptr)'
  BY <1>3 DEF KnownNames
<1> QED BY <1>1, <1>2, <1>3, <1>4, <1>5, <1>7, <1>8 DEF AsmInv, AsmTypeOK, Entry, Phase

\* Actions that edit the line that is parsed.
LEMMA ParseType ==
  ASSUME AsmInv, phase = "parse", NEW line \in Line, Edit(line),
         phase' \in {"parse", "failed"}, UNCHANGED <<source, at, file>>,
         ptr' \in Seq(Token), KnownNames(ptr'), value' \in Long, vmaddr' \in Long,
         \A n \in DOMAIN symtab' : symtab'[n] \in Long,
         reltab' \in Seq(Entry)
  PROVE  AsmInv'
<1>1. lines \in Seq(Line) /\ lines # <<>>
  BY DEF AsmInv, AsmTypeOK
<1>2. /\ lines' \in Seq(Line) /\ Len(lines') = Len(lines) /\ DOMAIN lines' = DOMAIN lines
      /\ lines' # <<>>
  BY <1>1, EditType
<1>3. reltab' \in Seq(Entry')
  BY <1>2 DEF Entry
<1>4. KnownNames(ptr)'
  BY DEF KnownNames
<1> QED BY <1>2, <1>3, <1>4 DEF AsmInv, AsmTypeOK, Entry, Phase

LEMMA LabelType ==
  ASSUME AsmInv, Label
  PROVE  AsmInv'
<1>1. /\ phase = "parse" /\ ptr # <<>> /\ ptr' = Tail(ptr)
      /\ UNCHANGED <<source, phase, value, vmaddr, reltab, at, file>>
  BY DEF Label, parse_label, Parsing
<1>2. ptr' \in Seq(Token) /\ KnownNames(ptr')
  BY <1>1, TailType DEF AsmInv, AsmTypeOK
<1>3. \A n \in DOMAIN symtab' : symtab'[n] \in Long
  BY DEF Label, add_symbol, AsmInv, AsmTypeOK
<1> DEFINE line == [Current EXCEPT !.type = "INS", !.addr = vmaddr]
<1>4. line \in Line /\ Edit(line)
  <2>1. Current \in Line
    BY <1>1, CurrentType DEF AsmInv, AsmTypeOK
  <2> QED BY <2>1 DEF Label, Line, AsmInv, AsmTypeOK
<1> HIDE DEF line
<1> QED BY <1>1, <1>2, <1>3, <1>4, ParseType DEF AsmInv, AsmTypeOK, Entry

LEMMA InstructionType ==
  ASSUME AsmInv, Instruction
  PROVE  AsmInv'
<1> DEFINE i == find_instr(Head(ptr).name)
           args == SubSeq(Tail(ptr), 1, Len(Operands(i)))
           line == [type |-> "INS", addr |-> vmaddr, bytes |-> i.bytes,
                    codes |-> Codes(Current.codes, i, args, value')]
<1>1. /\ phase = "parse" /\ ptr # <<>> /\ Head(ptr).kind = "ins"
      /\ UNCHANGED <<source, phase, symtab, at, file>>
      /\ Parses(i, Tail(ptr)) /\ value' = Number(args, value) /\ Edit(line)
      /\ add_reloc(args) /\ vmaddr' = ToLong(vmaddr + i.bytes)
      /\ ptr' = SubSeq(ptr, Len(args) + 2, Len(ptr))
  BY DEF Instruction, parse_instr, Parsing
<1>2. ptr \in Seq(Token) /\ KnownNames(ptr) /\ value \in Long /\ vmaddr \in Long
      /\ lines \in Seq(Line) /\ lines # <<>>
  BY <1>1 DEF AsmInv, AsmTypeOK
<1>3. i \in instr_set
  <2>1. 1 \in DOMAIN ptr /\ Head(ptr) = ptr[1]
    BY <1>1, <1>2
  <2>2. \E x \in instr_set : x.name = Head(ptr).name
    BY <1>1, <1>2, <2>1 DEF KnownNames
  <2> QED BY <2>2, FindType
<1>4. i.bytes \in 0 .. (LONG + 2)
  BY <1>3, TableTypes
<1>5. Tail(ptr) \in Seq(Token) /\ Len(Tail(ptr)) = Len(ptr) - 1
  BY <1>1, <1>2, TailType
<1> HIDE DEF i
<1>6. args \in Seq(Token) /\ Len(args) = Len(Operands(i)) /\ Len(args) \in 0 .. 3
      /\ Len(args) <= Len(ptr) - 1
  BY <1>1, <1>5, ArgsType, OperandsLen DEF Parses
<1> HIDE DEF args
<1>7. value' \in Long
  BY <1>1, <1>2, <1>6, NumberType
<1>8. vmaddr' \in Long
  <2>1. vmaddr + i.bytes \in Int
    BY <1>2, <1>4, Widths DEF Long
  <2> QED BY <1>1, <2>1, ToLongType
<1>9. ptr' \in Seq(Token) /\ KnownNames(ptr')
  <2>1. Len(args) + 2 \in 1 .. (Len(ptr) + 1)
    BY <1>2, <1>6
  <2> QED BY <1>1, <1>2, <2>1, RestType
<1>10. line \in Line
  <2>1. Current.codes \in [CodeIndex -> Byte]
    BY <1>2, CurrentType
  <2>2. Codes(Current.codes, i, args, value') \in [CodeIndex -> Byte]
    BY <1>3, <1>6, <1>7, <2>1, CodesType
  <2> QED BY <1>2, <1>4, <2>2 DEF Line
<1>11. reltab' \in Seq(Entry)
  <2>1. reltab \in Seq(Entry)
    BY DEF AsmInv, AsmTypeOK, Entry
  <2>2. CASE parse_symbol(args) = {}
    BY <1>1, <2>1, <2>2 DEF add_reloc
  <2>3. CASE parse_symbol(args) # {}
    <3> DEFINE k == CHOOSE k \in parse_symbol(args) : TRUE
               e == [name |-> args[k].name, line |-> Len(lines)]
    <3>1. k \in DOMAIN args
      BY <2>3 DEF parse_symbol
    <3>2. args[k].name \in STRING
      BY <1>6, <3>1, TokenFields
    <3>3. Len(lines) \in DOMAIN lines
      BY <1>2
    <3>4. e \in Entry
      BY <3>2, <3>3 DEF Entry
    <3>5. reltab' = <<e>> \o reltab
      BY <1>1, <2>3 DEF add_reloc
    <3> HIDE DEF e
    <3>6. <<e>> \in Seq(Entry)
      BY <3>4
    <3> QED BY <2>1, <3>5, <3>6
  <2> QED BY <2>2, <2>3
<1>12. \A n \in DOMAIN symtab' : symtab'[n] \in Long
  BY <1>1 DEF AsmInv, AsmTypeOK
<1> HIDE DEF line
<1> QED BY <1>1, <1>7, <1>8, <1>9, <1>10, <1>11, <1>12, ParseType
\* The directives without code are .pos and .align.
LEMMA DirectiveNames ==
  \A i \in instr_set : IsDirective(i) /\ ~IsData(i) => i.name \in {".pos", ".align"}
<1> USE DEF Ins
<1>1. \A d : IsData(Ins(d, I_DIRECTIVE, 0, DATA_BYTES[d]))
  BY DEF IsData
<1>2. \A n, c, b : c \in {I_NOP, I_HALT, I_RRMOVQ, I_IRMOVQ, I_RMMOVQ, I_MRMOVQ, I_ALU, I_JMP,
                          I_CALL, I_RET, I_PUSHQ, I_POPQ} =>
        \A f \in 0 .. 6 : ~IsDirective(Ins(n, c, f, b))
  BY DEF IsDirective, HIGH, HPACK, I_HALT, I_NOP, I_RRMOVQ, I_IRMOVQ, I_RMMOVQ, I_MRMOVQ,
         I_ALU, I_JMP, I_CALL, I_RET, I_PUSHQ, I_POPQ, I_DIRECTIVE
<1>3. /\ {C_YES, C_LE, C_L, C_E, C_NE, C_GE, C_G, A_ADD, A_SUB, A_AND, A_XOR, 0} \subseteq 0 .. 6
  BY DEF C_YES, C_LE, C_L, C_E, C_NE, C_GE, C_G, A_ADD, A_SUB, A_AND, A_XOR
<1>4. \A n, f, b : Ins(n, I_DIRECTIVE, f, b).name = n
  OBVIOUS
<1> HIDE DEF Ins
<1> QED BY <1>1, <1>2, <1>3, <1>4 DEF instr_set

LEMMA AlignedType ==
  ASSUME NEW v \in Long, NEW n \in Long, n # 0
  PROVE  Aligned(v, n) \in Long
<1> DEFINE a == ToLong(v + n - 1)
           absa == IF a < 0 THEN -a ELSE a
           absn == IF n < 0 THEN -n ELSE n
<1>1. v \in Int /\ n \in Int
  BY Widths DEF Long
<1>2. v + n - 1 \in Int
  BY <1>1
<1>3. a \in Int
  <2>1. a \in Long
    BY <1>2, ToLongType
  <2> QED BY <2>1, Widths DEF Long
<1> HIDE DEF a
<1>4. absn \in Nat \ {0} /\ absa \in Int
  BY <1>1, <1>3
<1>5. absa \div absn \in Int
  BY <1>4, DivInt
<1>6. Quotient(a, n) \in Int
  <2> DEFINE q == absa \div absn
  <2>1. Quotient(a, n) = IF (a < 0) = (n < 0) THEN q ELSE -q
    BY DEF Quotient
  <2>2. q \in Int
    BY <1>5
  <2> HIDE DEF q
  <2>3. -q \in Int
    BY <2>2
  <2> QED BY <2>1, <2>2, <2>3
<1>7. Quotient(a, n) * n \in Int
  <2> DEFINE q == Quotient(a, n)
  <2>1. q \in Int
    BY <1>6
  <2> HIDE DEF q
  <2>2. q * n \in Int
    BY <2>1, <1>1
  <2> QED BY <2>2 DEF q
<1> QED BY <1>7, ToLongType DEF Aligned, a

LEMMA DirectiveType ==
  ASSUME AsmInv, Directive
  PROVE  AsmInv'
<1> DEFINE i == find_instr(Head(ptr).name)
           n == ptr[2].num
           line == [Current EXCEPT !.type = "INS", !.addr = vmaddr', !.bytes = 0,
                                   !.codes = [@ EXCEPT ![0] = i.code]]
<1>1. /\ phase = "parse" /\ ptr # <<>> /\ Head(ptr).kind = "ins"
      /\ UNCHANGED <<source, phase, symtab, reltab, at, file>>
      /\ IsDirective(i) /\ Parses(i, Tail(ptr)) /\ (i.name = ".align" => ~DivisionTraps(vmaddr, n))
      /\ vmaddr' = (IF i.name = ".pos" THEN n ELSE Aligned(vmaddr, n))
      /\ value' = n /\ Edit(line) /\ ptr' = SubSeq(ptr, 3, Len(ptr))
      /\ ~IsData(i)
  BY DEF Directive, parse_instr, Parsing, tables
<1>2. ptr \in Seq(Token) /\ KnownNames(ptr) /\ value \in Long /\ vmaddr \in Long
      /\ lines \in Seq(Line) /\ lines # <<>>
  BY <1>1 DEF AsmInv, AsmTypeOK
<1>3. i \in instr_set
  <2>1. 1 \in DOMAIN ptr /\ Head(ptr) = ptr[1]
    BY <1>1, <1>2
  <2>2. \E x \in instr_set : x.name = Head(ptr).name
    BY <1>1, <1>2, <2>1 DEF KnownNames
  <2> QED BY <2>2, FindType
<1>4. i.code \in Byte
  BY <1>3, TableTypes
<1>5. Len(Tail(ptr)) = Len(ptr) - 1
  BY <1>1, <1>2, TailType
<1> HIDE DEF i
<1>6. Len(Operands(i)) = 1 /\ Len(Operands(i)) <= Len(Tail(ptr))
  BY <1>1, OperandsLen DEF IsDirective, Parses
<1>7. 2 \in DOMAIN ptr /\ 3 \in 1 .. (Len(ptr) + 1)
  BY <1>2, <1>5, <1>6
<1>8. n \in Long
  BY <1>2, <1>7, TokenFields
<1>9. ptr' \in Seq(Token) /\ KnownNames(ptr')
  BY <1>1, <1>2, <1>7, RestType
<1>10. vmaddr' \in Long
  <2>1. CASE i.name = ".pos"
    BY <1>1, <1>8, <2>1
  <2>2. CASE i.name # ".pos"
    <3>1. i.name = ".align"
      BY <1>1, <1>3, <2>2, DirectiveNames DEF IsDirective
    <3>2. Aligned(vmaddr, n) \in Long
      BY <1>1, <1>2, <1>8, <3>1, AlignedType DEF DivisionTraps
    <3> QED BY <1>1, <2>2, <3>2
  <2> QED BY <2>1, <2>2
<1>11. line \in Line
  <2>1. /\ Current \in Line /\ Current.codes \in [CodeIndex -> Byte]
    BY <1>2, CurrentType
  <2>2. [Current.codes EXCEPT ![0] = i.code] \in [CodeIndex -> Byte]
    BY <1>4, <2>1
  <2>3. 0 \in 0 .. (LONG + 2)
    BY Widths
  <2> QED BY <1>10, <2>1, <2>2, <2>3 DEF Line
<1> HIDE DEF line, n
<1>12. phase' \in {"parse", "failed"}
  BY <1>1
<1>13. value' \in Long /\ (\A x \in DOMAIN symtab' : symtab'[x] \in Long) /\ reltab' \in Seq(Entry)
  BY <1>1, <1>8 DEF AsmInv, AsmTypeOK, Entry
<1> QED BY <1>1, <1>9, <1>10, <1>11, <1>12, <1>13, ParseType

LEMMA LineErrorType ==
  ASSUME AsmInv, LineError
  PROVE  AsmInv'
<1> DEFINE line == [Current EXCEPT !.type = "ERR"]
<1>1. /\ phase = "parse" /\ phase' = "failed" /\ Edit(line)
      /\ UNCHANGED <<source, ptr, value, vmaddr, symtab, reltab, at, file>>
  BY DEF LineError, parser, tables
<1>2. line \in Line
  <2>1. Current \in Line
    BY <1>1, CurrentType DEF AsmInv, AsmTypeOK
  <2> QED BY <2>1 DEF Line
<1> HIDE DEF line
<1>3. /\ ptr' \in Seq(Token) /\ KnownNames(ptr') /\ value' \in Long /\ vmaddr' \in Long
      /\ \A n \in DOMAIN symtab' : symtab'[n] \in Long
      /\ reltab' \in Seq(Entry)
  BY <1>1 DEF AsmInv, AsmTypeOK, Entry
<1> QED BY <1>1, <1>2, <1>3, ParseType

LEMMA RelocateType ==
  ASSUME AsmInv, Relocate
  PROVE  AsmInv'
<1> DEFINE l == reltab[at].line
           v == symtab[reltab[at].name]
           codes == lines[l].codes
           new == addressMemory(codes, RelocIndex(codes), v, LONG)
<1>1. /\ phase = "relocate" /\ at <= Len(reltab) /\ reltab[at].name \in DOMAIN symtab
      /\ lines' = [lines EXCEPT ![l].codes = new] /\ at' = at + 1
      /\ UNCHANGED <<source, phase, ptr, value, vmaddr, symtab, reltab, file>>
  BY DEF Relocate, find_symbol, parser, tables
<1>2. lines \in Seq(Line) /\ at \in Nat \ {0} /\ reltab \in Seq(Entry)
  BY DEF AsmInv, AsmTypeOK, Entry
<1>3. l \in DOMAIN lines
  <2>1. at \in DOMAIN reltab
    BY <1>1, <1>2
  <2>2. reltab[at] \in Entry
    BY <1>2, <2>1
  <2> QED BY <2>2 DEF Entry
<1>4. v \in Int
  <2>1. v \in Long
    BY <1>1 DEF AsmInv, AsmTypeOK
  <2> QED BY <2>1, Widths DEF Long
<1> HIDE DEF l, v
<1>5. lines[l] \in Line /\ codes \in [CodeIndex -> Byte]
  <2>1. lines[l] \in Line
    BY <1>2, <1>3
  <2> QED BY <2>1 DEF Line
<1>6. RelocIndex(codes) \in Nat
  BY DEF RelocIndex, I_IRMOVQ, I_CALL, I_JMP
<1>7. new \in [CodeIndex -> Byte]
  <2> HIDE DEF codes
  <2>1. LONG \in 0 .. LONG
    BY Widths
  <2> QED BY <1>4, <1>5, <1>6, <2>1, addressMemoryType
<1> HIDE DEF new
<1>8. lines' \in Seq(Line) /\ Len(lines') = Len(lines) /\ DOMAIN lines' = DOMAIN lines
  <2>1. [lines[l] EXCEPT !.codes = new] \in Line
    BY <1>5, <1>7 DEF Line
  <2>2. lines' = [lines EXCEPT ![l] = [lines[l] EXCEPT !.codes = new]]
    BY <1>1
  <2> HIDE DEF codes
  <2>3. [lines EXCEPT ![l] = [lines[l] EXCEPT !.codes = new]] \in Seq(Line)
    BY <1>2, <1>3, <2>1
  <2> QED BY <1>2, <2>2, <2>3
<1>9. Entry' = Entry
  BY <1>8 DEF Entry
<1>10. KnownNames(ptr)'
  BY <1>1 DEF AsmInv, KnownNames
<1> QED BY <1>1, <1>2, <1>8, <1>9, <1>10 DEF AsmInv, AsmTypeOK, Entry
LEMMA WrittenType ==
  ASSUME NEW f \in Seq(Byte), NEW line \in Line, line.addr >= 0
  PROVE  Written(f, line) \in Seq(Byte)
<1> DEFINE end == line.addr + line.bytes
           n == IF end > Len(f) THEN end ELSE Len(f)
           b(k) == IF k \in (line.addr + 1) .. end THEN line.codes[k - 1 - line.addr]
                   ELSE IF k <= Len(f) THEN f[k] ELSE 0
<1>1. /\ line.addr \in Nat /\ line.bytes \in 0 .. (LONG + 2)
      /\ line.codes \in [CodeIndex -> Byte] /\ LONG \in Nat
  BY Widths DEF Line, Long
<1>2. n \in Nat /\ end \in Nat
  BY <1>1
<1>3. \A k \in 1 .. n : b(k) \in Byte
  <2> TAKE k \in 1 .. n
  <2>1. CASE k \in (line.addr + 1) .. end
    <3>1. k - 1 - line.addr \in CodeIndex
      BY <1>1, <2>1 DEF CodeIndex
    <3>2. line.codes[k - 1 - line.addr] \in Byte
      BY <1>1, <3>1
    <3> QED BY <2>1, <3>2
  <2>2. CASE k \notin (line.addr + 1) .. end
    <3>1. k <= Len(f) => f[k] \in Byte
      BY <1>2
    <3>2. 0 \in Byte
      BY DEF Byte
    <3> QED BY <2>2, <3>1, <3>2
  <2> QED BY <2>1, <2>2
<1>4. Written(f, line) = IF line.bytes = 0 THEN f ELSE [k \in 1 .. n |-> b(k)]
  BY DEF Written
<1> HIDE DEF n, b
<1>5. [k \in 1 .. n |-> b(k)] \in Seq(Byte)
  BY <1>2, <1>3
<1> QED BY <1>4, <1>5

LEMMA WriteLineType ==
  ASSUME AsmInv, WriteLine
  PROVE  AsmInv'
<1>1. /\ phase = "binfile" /\ at <= Len(lines)
      /\ lines[at].type = "INS" => lines[at].addr >= 0
      /\ file' = (IF lines[at].type = "INS" THEN Written(file, lines[at]) ELSE file)
      /\ at' = at + 1
      /\ UNCHANGED <<source, phase, lines, ptr, value, vmaddr, symtab, reltab>>
  BY DEF WriteLine, parser, tables
<1>2. file \in Seq(Byte) /\ lines \in Seq(Line) /\ at \in Nat \ {0} /\ phase \in Phase
  BY <1>1 DEF AsmInv, AsmTypeOK
<1>3. lines[at] \in Line
  BY <1>1, <1>2
<1>4. file' \in Seq(Byte)
  BY <1>1, <1>2, <1>3, WrittenType
<1> QED BY <1>1, <1>2, <1>4, ControlType

LEMMA OtherControl ==
  ASSUME AsmInv,
         \/ Start \/ EndOfLine \/ AlignTraps \/ EndOfSource \/ UnknownSymbol
         \/ OpenOut \/ SeekError \/ Finish
  PROVE  AsmInv'
<1> USE DEF parser, tables, Phase
<1>1. phase \in Phase /\ at \in Nat \ {0} /\ <<>> \in Seq(Byte)
  BY DEF AsmInv, AsmTypeOK
<1>2. CASE Start
  BY <1>1, <1>2, ControlType DEF Start
<1>3. CASE EndOfLine
  BY <1>1, <1>3, ControlType DEF EndOfLine
<1>4. CASE AlignTraps
  BY <1>1, <1>4, ControlType DEF AlignTraps
<1>5. CASE EndOfSource
  BY <1>1, <1>5, ControlType DEF EndOfSource
<1>6. CASE UnknownSymbol
  BY <1>1, <1>6, ControlType DEF UnknownSymbol
<1>7. CASE OpenOut
  <2>1. UNCHANGED <<source, lines, ptr, value, vmaddr, symtab, reltab>> /\ at' = 1
    BY <1>7 DEF OpenOut
  <2>2. CASE phase' = "binfile" /\ file' = <<>>
    <3>1. file' \in Seq(Byte)
      BY <2>2, <1>1
    <3> QED BY <2>1, <2>2, <3>1, ControlType
  <2>3. CASE phase' = "failed" /\ file' = file
    BY <2>1, <2>3, ControlType
  <2> QED BY <1>7, <2>2, <2>3 DEF OpenOut
<1>8. CASE SeekError
  BY <1>1, <1>8, ControlType DEF SeekError
<1>9. CASE Finish
  BY <1>1, <1>9, ControlType DEF Finish
<1> QED BY <1>2, <1>3, <1>4, <1>5, <1>6, <1>7, <1>8, <1>9

LEMMA AsmInitInv == AsmInit => AsmInv
<1> SUFFICES ASSUME AsmInit PROVE AsmInv
  OBVIOUS
<1>1. 0 \in Long
  BY Widths DEF Long
<1>2. source \in Seq(Seq(Token))
  BY SourceType DEF AsmInit
<1> QED BY <1>1, <1>2 DEF AsmInit, AsmInv, AsmTypeOK, KnownNames, Phase

LEMMA AsmStep == AsmInv /\ [AsmNext]_asmvars => AsmInv'
<1> SUFFICES ASSUME AsmInv, [AsmNext]_asmvars PROVE AsmInv'
  OBVIOUS
<1>1. CASE UNCHANGED asmvars
  BY <1>1 DEF asmvars, parser, tables, AsmInv, AsmTypeOK, KnownNames
<1>2. CASE AsmNext
  BY <1>2, OtherControl, NextLineType, LabelType, InstructionType, DirectiveType,
     LineErrorType, RelocateType, WriteLineType DEF AsmNext
<1> QED BY <1>1, <1>2

-----------------------------------------------------------------------------
(* The names of the source: what parse_line has read of it is in symtab    *)
(* and reltab.                                                             *)

\* A nonempty set of naturals has a least element.
LEMMA Least ==
  ASSUME NEW S, S \subseteq Nat, S # {}
  PROVE  \E x \in S : \A y \in S : x <= y
<1>1. IsWellFoundedOn(OpToRel(<, Nat), Nat)
  BY NatLessThanWellFounded
<1>2. PICK x \in S : \A y \in S : ~(<<y, x>> \in OpToRel(<, Nat))
  BY <1>1, WFMin
<1>3. \A y \in S : ~(y < x)
  BY <1>2 DEF OpToRel
<1> QED BY <1>3

\* A token that no comment precedes.
Live(l, x) ==
  /\ l \in DOMAIN source /\ x \in DOMAIN source[l]
  /\ \A y \in 1 .. x : source[l][y].kind # "comment"

LEMMA TokensLive ==
  ASSUME source \in Source, NEW l \in DOMAIN source
  PROVE  /\ \A x : x \in DOMAIN Tokens(l) <=> Live(l, x)
         /\ \A x : Live(l, x) => Tokens(l)[x] = source[l][x]
<1> DEFINE s == source[l]
           cut == {k \in DOMAIN s : s[k].kind = "comment"}
           c == CHOOSE k \in cut : \A x \in cut : k <= x
<1>1. s \in Seq(Token)
  BY SourceType
<1> HIDE DEF s
<1>2. CASE cut = {}
  <2>1. Tokens(l) = s
    BY <1>2 DEF Tokens, s
  <2>2. \A x : Live(l, x) <=> x \in DOMAIN s
    BY <1>1, <1>2 DEF Live, s
  <2> QED BY <2>1, <2>2 DEF s
<1>3. CASE cut # {}
  <2>1. c \in cut /\ \A x \in cut : c <= x
    <3>1. cut \subseteq Nat
      BY <1>1
    <3>2. \E k \in cut : \A x \in cut : k <= x
      BY <1>3, <3>1, Least
    <3> HIDE DEF cut
    <3> QED BY <3>2
  <2>2. Tokens(l) = SubSeq(s, 1, c - 1)
    BY <1>3 DEF Tokens, s
  <2> HIDE DEF c
  <2>3. c \in 1 .. Len(s) /\ s[c].kind = "comment" /\ \A x \in DOMAIN s : s[x].kind = "comment" => c <= x
    BY <1>1, <2>1
  <2>4. /\ DOMAIN Tokens(l) = 1 .. (c - 1)
        /\ \A x \in 1 .. (c - 1) : Tokens(l)[x] = s[x]
    BY <1>1, <2>2, <2>3
  <2>5. \A x : Live(l, x) <=> x \in 1 .. (c - 1)
    <3>1. \A x : Live(l, x) => x \in 1 .. (c - 1)
      BY <1>1, <2>3 DEF Live, s
    <3>2. \A x \in 1 .. (c - 1) : Live(l, x)
      BY <1>1, <2>3 DEF Live, s
    <3> QED BY <3>1, <3>2
  <2> QED BY <2>4, <2>5 DEF s
<1> QED BY <1>2, <1>3

Taken == Len(source[Len(lines)]) - Len(ptr)   \* tokens of the current line
Finished == ptr = <<>> \/ Head(ptr).kind = "comment"
Read(l, x) == Live(l, x) /\ l <= Len(lines) /\ (l = Len(lines) => x <= Taken)
Is(l, x, kind, n) == source[l][x].kind = kind /\ source[l][x].name = n

LineInv ==
  lines # <<>> =>
    /\ Taken \in 0 .. Len(source[Len(lines)])
    /\ ptr = SubSeq(source[Len(lines)], Taken + 1, Len(source[Len(lines)]))
    /\ \A x \in 1 .. Taken : source[Len(lines)][x].kind # "comment"

OneLabel(n) ==
  \E l \in DOMAIN source : \E x \in DOMAIN source[l] :
    /\ Read(l, x) /\ Is(l, x, "label", n)
    /\ \A j \in DOMAIN source : \A y \in DOMAIN source[j] :
         Read(j, y) /\ Is(j, y, "label", n) => j = l /\ y = x
LabelsRead ==
  \A l \in DOMAIN source : \A x \in DOMAIN source[l] :
    Read(l, x) /\ source[l][x].kind = "label" => source[l][x].name \in DOMAIN symtab
UsesRead ==
  \A l \in DOMAIN source : \A x \in DOMAIN source[l] :
    Read(l, x) /\ source[l][x].kind = "sym" =>
      \E k \in DOMAIN reltab : reltab[k].name = source[l][x].name
TablesInv == (\A n \in DOMAIN symtab : OneLabel(n)) /\ LabelsRead /\ UsesRead

Resolved(k) == reltab[k].name \in DOMAIN symtab
PhaseInv ==
  /\ phase \notin {"parse", "failed", "crash"} => Finished
  /\ phase \in {"relocate", "binfile", "done"} => Len(lines) = Len(source)
  /\ phase = "relocate" => \A k \in DOMAIN reltab : k < at => Resolved(k)
  /\ file # NoFile =>
       /\ phase \in {"binfile", "done", "failed"} /\ Finished
       /\ Len(lines) = Len(source) /\ \A k \in DOMAIN reltab : Resolved(k)

SymInv == LineInv /\ TablesInv /\ PhaseInv

\* At the end of a line nothing of it is left to read.
LEMMA FinishedRead ==
  ASSUME source \in Source, LineInv, Finished, Len(lines) <= Len(source), lines \in Seq(Line),
         NEW l, NEW x, Live(l, x), l <= Len(lines)
  PROVE  Read(l, x)
<1> SUFFICES ASSUME l = Len(lines) PROVE x <= Taken
  BY DEF Read
<1> DEFINE s == source[l]
<1>1. s \in Seq(Token) /\ x \in 1 .. Len(s) /\ \A y \in 1 .. x : s[y].kind # "comment"
  BY SourceType DEF Live
<1>2. lines # <<>>
  BY SourceType DEF Live
<1>3. Taken \in 0 .. Len(s) /\ ptr = SubSeq(s, Taken + 1, Len(s))
  BY <1>2 DEF LineInv
<1> HIDE DEF s
<1>4. CASE ptr = <<>>
  <2>1. Len(ptr) = Len(s) - Taken
    BY <1>1, <1>3
  <2>2. Len(ptr) = 0
    BY <1>4
  <2>3. Len(s) \in Nat
    BY <1>1
  <2> QED BY <1>1, <1>3, <2>1, <2>2, <2>3
<1>5. CASE ptr # <<>> /\ Head(ptr).kind = "comment"
  <2>1. Len(ptr) = Len(s) - Taken /\ Taken < Len(s)
    BY <1>1, <1>3, <1>5
  <2>2. Head(ptr) = s[Taken + 1]
    BY <1>1, <1>3, <2>1
  <2> QED BY <1>1, <1>3, <1>5, <2>1, <2>2
<1> QED BY <1>4, <1>5 DEF Finished

\* Steps that read no token.
LEMMA NothingRead ==
  ASSUME SymInv, source' = source, ptr' = ptr, Len(lines') = Len(lines),
         lines' = <<>> <=> lines = <<>>, symtab' = symtab, reltab' = reltab
  PROVE  LineInv' /\ TablesInv' /\ Finished' = Finished
<1>1. Taken' = Taken
  BY DEF Taken
<1>2. LineInv'
  BY <1>1 DEF SymInv, LineInv
<1>3. \A l, x : Read(l, x)' = Read(l, x)
  BY <1>1 DEF Read, Live
<1>4. TablesInv'
  BY <1>3 DEF SymInv, TablesInv, OneLabel, LabelsRead, UsesRead, Is
<1> QED BY <1>2, <1>4 DEF Finished

\* Steps that read the next d tokens of the line.
LEMMA TokensRead ==
  ASSUME AsmInv, SymInv, lines # <<>>, source' = source, Len(lines') = Len(lines), lines' # <<>>,
         NEW d \in 1 .. Len(ptr), ptr' = SubSeq(ptr, d + 1, Len(ptr)),
         \A k \in 1 .. d : ptr[k].kind # "comment"
  PROVE  /\ LineInv' /\ Taken \in Nat /\ Len(lines) \in DOMAIN source
         /\ \A k \in 1 .. d : Live(Len(lines), Taken + k) /\ source[Len(lines)][Taken + k] = ptr[k]
         /\ \A l, x : Read(l, x)' <=>
              Read(l, x) \/ (l = Len(lines) /\ \E k \in 1 .. d : x = Taken + k)
<1> DEFINE L == Len(lines)
           s == source[L]
<1>1. lines \in Seq(Line) /\ ptr \in Seq(Token) /\ source \in Seq(Seq(Token)) /\ L \in DOMAIN source
  BY SourceType DEF AsmInv, AsmTypeOK
<1>2. s \in Seq(Token)
  BY <1>1
<1>3. Taken \in 0 .. Len(s) /\ ptr = SubSeq(s, Taken + 1, Len(s))
      /\ \A x \in 1 .. Taken : s[x].kind # "comment"
  BY DEF SymInv, LineInv
<1>4. Taken' = Len(s) - Len(ptr')
  BY DEF Taken
<1>5. Taken = Len(s) - Len(ptr)
  BY DEF Taken
<1> HIDE DEF s, Taken
<1>6. Len(ptr') = Len(ptr) - d
  BY <1>1
<1>7. Taken' = Taken + d /\ Taken + d <= Len(s)
  <2>1. Len(s) \in Nat /\ Len(ptr) \in Nat /\ Taken \in 0 .. Len(s) /\ d \in 1 .. Len(ptr)
    BY <1>1, <1>2, <1>3
  <2>2. Taken = Len(s) - Len(ptr) /\ Taken' = Len(s) - (Len(ptr) - d)
    BY <1>4, <1>5, <1>6
  <2> QED BY <2>1, <2>2
<1>8. \A k \in 1 .. Len(ptr) : s[Taken + k] = ptr[k]
  <2>1. \A k \in 1 .. Len(ptr) : SubSeq(s, Taken + 1, Len(s))[k] = s[Taken + k]
    <3>1. Len(ptr) = Len(s) - Taken
      BY <1>1, <1>2, <1>3, <1>5
    <3> QED BY <1>2, <1>3, <3>1
  <2> QED BY <1>3, <2>1
<1>9. \A x \in 1 .. (Taken + d) : s[x].kind # "comment"
  <2> TAKE x \in 1 .. (Taken + d)
  <2>1. CASE x <= Taken
    BY <1>3, <2>1
  <2>2. CASE x > Taken
    <3>1. x - Taken \in 1 .. d /\ x = Taken + (x - Taken)
      BY <1>3, <2>2
    <3>2. x - Taken \in 1 .. Len(ptr)
      BY <3>1
    <3>3. s[x] = ptr[x - Taken]
      BY <1>8, <3>1, <3>2
    <3> QED BY <3>1, <3>3
  <2> QED BY <1>3, <2>1, <2>2
<1>10. ptr' = SubSeq(s, Taken + d + 1, Len(s))
  <2>1. /\ ptr' \in Seq(Token) /\ Len(ptr') = Len(s) - Taken - d
        /\ \A k \in 1 .. Len(ptr') : ptr'[k] = ptr[d + k]
    BY <1>1, <1>5, <1>6
  <2>2. /\ SubSeq(s, Taken + d + 1, Len(s)) \in Seq(Token)
        /\ Len(SubSeq(s, Taken + d + 1, Len(s))) = Len(s) - Taken - d
        /\ \A k \in 1 .. (Len(s) - Taken - d) :
             SubSeq(s, Taken + d + 1, Len(s))[k] = s[Taken + d + k]
    BY <1>2, <1>3, <1>7
  <2>3. \A k \in 1 .. (Len(s) - Taken - d) : ptr[d + k] = s[Taken + d + k]
    <3> TAKE k \in 1 .. (Len(s) - Taken - d)
    <3>1. d + k \in 1 .. Len(ptr) /\ Taken + (d + k) = Taken + d + k
      BY <1>1, <1>2, <1>3, <1>5
    <3> QED BY <1>8, <3>1
  <2> HIDE DEF s
  <2>4. \A k \in 1 .. Len(ptr') : ptr'[k] = SubSeq(s, Taken + d + 1, Len(s))[k]
    BY <2>1, <2>2, <2>3
  <2> QED BY <2>1, <2>2, <2>4, SeqEqual
<1>11. LineInv'
  <2>1. /\ (source[Len(lines)])' = s /\ Taken' \in 0 .. Len(s)
        /\ ptr' = SubSeq(s, Taken' + 1, Len(s))
        /\ \A x \in 1 .. Taken' : s[x].kind # "comment"
    <3>1. (source[Len(lines)])' = s
      BY DEF s
    <3> QED BY <1>2, <1>3, <1>7, <1>9, <1>10, <3>1
  <2> QED BY <2>1 DEF LineInv
<1>12. \A k \in 1 .. d : Live(L, Taken + k) /\ s[Taken + k] = ptr[k]
  <2> TAKE k \in 1 .. d
  <2>1. Taken + k \in 1 .. Len(s) /\ k \in 1 .. Len(ptr)
    BY <1>2, <1>3, <1>7
  <2>2. \A y \in 1 .. (Taken + k) : s[y].kind # "comment"
    BY <1>3, <1>9
  <2> QED BY <1>1, <1>2, <1>8, <2>1, <2>2 DEF Live, s
<1>13. \A l, x : Live(l, x)' <=> Live(l, x)
  BY DEF Live
<1>14. \A l, x : Read(l, x)' <=>
         Read(l, x) \/ (l = L /\ \E k \in 1 .. d : x = Taken + k)
  <2> TAKE l, x
  <2>1. CASE l # L
    BY <1>13, <2>1 DEF Read
  <2>2. CASE l = L
    <3>1. Live(l, x) => x \in Nat
      BY <1>2, <2>2 DEF Live, s
    <3>2. Read(l, x)' <=> Live(l, x) /\ x <= Taken + d
      BY <1>1, <1>7, <1>13, <2>2 DEF Read
    <3>3. Read(l, x) <=> Live(l, x) /\ x <= Taken
      BY <1>1, <2>2 DEF Read
    <3>4. Live(l, x) /\ x <= Taken + d /\ ~(x <= Taken) => x - Taken \in 1 .. d /\ x = Taken + (x - Taken)
      BY <1>3, <3>1
    <3>5. \A k \in 1 .. d : x = Taken + k => Live(l, x) /\ x <= Taken + d
      <4> TAKE k \in 1 .. d
      <4>1. Live(L, Taken + k)
        BY <1>12
      <4>2. Taken + k <= Taken + d
        BY <1>3
      <4> QED BY <2>2, <4>1, <4>2
    <3>6. Live(l, x) /\ x <= Taken => x <= Taken + d
      BY <1>3, <3>1
    <3> QED BY <2>2, <3>2, <3>3, <3>4, <3>5, <3>6
  <2> QED BY <2>1, <2>2
<1>15. Taken \in Nat
  BY <1>2, <1>3
<1> QED BY <1>1, <1>11, <1>12, <1>14, <1>15 DEF s

\* An instruction has at most one operand that is no register: a number or a
\* symbol.
LEMMA OneSymbol ==
  ASSUME NEW i, NEW j \in DOMAIN Operands(i), NEW k \in DOMAIN Operands(i)
  PROVE  /\ "sym" \in Operands(i)[j] /\ "sym" \in Operands(i)[k] => j = k
         /\ \A a \in Operands(i)[j] : \A b \in Operands(i)[k] :
              a \notin {"reg", "comma"} /\ b \notin {"reg", "comma"} => j = k
         /\ "label" \notin Operands(i)[k] /\ "comment" \notin Operands(i)[k]
<1> DEFINE c == HIGH(i.code)
<1> USE DEF I_HALT, I_NOP, I_RRMOVQ, I_IRMOVQ, I_RMMOVQ, I_MRMOVQ, I_ALU, I_JMP, I_CALL,
            I_RET, I_PUSHQ, I_POPQ, I_DIRECTIVE, parse_delim, parse_reg, parse_digit,
            parse_imm, parse_mem, parse_data
<1>1. CASE c \in {I_NOP, I_HALT, I_RET}
  <2>1. Operands(i) = <<>>
    BY <1>1, DataIsDirective DEF Operands
  <2> QED BY <2>1
<1>2. CASE c = I_IRMOVQ
  <2>1. Operands(i) = <<parse_imm, parse_delim, parse_reg>>
    BY <1>2, DataIsDirective DEF Operands
  <2> QED BY <2>1
<1>3. CASE c = I_RMMOVQ
  <2>1. Operands(i) = <<parse_reg, parse_delim, parse_mem>>
    BY <1>3, DataIsDirective DEF Operands
  <2> QED BY <2>1
<1>4. CASE c = I_MRMOVQ
  <2>1. Operands(i) = <<parse_mem, parse_delim, parse_reg>>
    BY <1>4, DataIsDirective DEF Operands
  <2> QED BY <2>1
<1>5. CASE c \in {I_RRMOVQ, I_ALU}
  <2>1. Operands(i) = <<parse_reg, parse_delim, parse_reg>>
    BY <1>5, DataIsDirective DEF Operands
  <2> QED BY <2>1
<1>6. CASE c \in {I_JMP, I_CALL}
  <2>1. Operands(i) = <<parse_imm>>
    BY <1>6, DataIsDirective DEF Operands
  <2> QED BY <2>1
<1>7. CASE c \in {I_PUSHQ, I_POPQ}
  <2>1. Operands(i) = <<parse_reg>>
    BY <1>7, DataIsDirective DEF Operands
  <2> QED BY <2>1
<1>8. CASE c \notin {I_NOP, I_HALT, I_RET, I_IRMOVQ, I_RMMOVQ, I_MRMOVQ, I_RRMOVQ, I_ALU,
                     I_JMP, I_CALL, I_PUSHQ, I_POPQ}
  <2>1. Operands(i) = <<parse_data>> \/ Operands(i) = <<parse_digit>>
    BY <1>8, DataIsDirective DEF Operands
  <2> QED BY <2>1
<1> QED BY <1>1, <1>2, <1>3, <1>4, <1>5, <1>6, <1>7, <1>8

LEMMA LabelSym ==
  ASSUME AsmInv, SymInv, Label
  PROVE  SymInv'
<1> PICK L, n, X : L = Len(lines) /\ n = Head(ptr).name /\ X = Taken + 1
  OBVIOUS
<1>1. /\ phase = "parse" /\ ptr # <<>> /\ Head(ptr).kind = "label" /\ n \notin DOMAIN symtab
      /\ symtab' = [x \in DOMAIN symtab \cup {n} |-> IF x = n THEN vmaddr ELSE symtab[x]]
      /\ Edit([Current EXCEPT !.type = "INS", !.addr = vmaddr]) /\ ptr' = Tail(ptr)
      /\ UNCHANGED <<source, phase, reltab, file>>
  BY DEF Label, parse_label, Parsing, add_symbol, find_symbol
<1>2. ptr \in Seq(Token) /\ lines # <<>> /\ lines \in Seq(Line)
  BY <1>1 DEF AsmInv, AsmTypeOK
<1>3. Len(lines') = Len(lines) /\ lines' # <<>>
  BY <1>2, <1>1 DEF Edit
<1>4. 1 \in 1 .. Len(ptr) /\ ptr' = SubSeq(ptr, 1 + 1, Len(ptr)) /\ ptr[1] = Head(ptr)
  BY <1>1, <1>2
<1>5. \A k \in 1 .. 1 : ptr[k].kind # "comment"
  BY <1>1, <1>4
<1>6. /\ LineInv' /\ Taken \in Nat /\ L \in DOMAIN source
      /\ \A k \in 1 .. 1 : Live(L, Taken + k) /\ source[L][Taken + k] = ptr[k]
      /\ \A l, x : Read(l, x)' <=>
           Read(l, x) \/ (l = L /\ \E k \in 1 .. 1 : x = Taken + k)
  BY <1>1, <1>2, <1>3, <1>4, <1>5, TokensRead
<1>7. /\ Live(L, X) /\ Is(L, X, "label", n) /\ X \in DOMAIN source[L]
      /\ \A l, x : Read(l, x)' <=> Read(l, x) \/ (l = L /\ x = X)
  BY <1>1, <1>4, <1>6 DEF Live, Is
<1>8. ~Read(L, X)
  <2>1. ~(X <= Taken)
    BY <1>6
  <2> QED BY <2>1 DEF Read
<1>9. DOMAIN symtab' = DOMAIN symtab \cup {n}
  BY <1>1
<1>10. ASSUME NEW w \in DOMAIN symtab' PROVE OneLabel(w)'
  <2>1. CASE w = n
    <3>1. \A j \in DOMAIN source : \A y \in DOMAIN source[j] :
            Read(j, y) => ~Is(j, y, "label", n)
      BY <1>1 DEF SymInv, TablesInv, LabelsRead, Is
    <3>2. \A j \in DOMAIN source : \A y \in DOMAIN source[j] :
            Read(j, y)' /\ Is(j, y, "label", n) => j = L /\ y = X
      BY <1>7, <3>1
    <3>3. Read(L, X)' /\ Is(L, X, "label", n) /\ L \in DOMAIN source /\ X \in DOMAIN source[L]
      BY <1>6, <1>7
    <3> QED BY <1>1, <2>1, <3>2, <3>3 DEF OneLabel, Is
  <2>2. CASE w # n
    <3>1. OneLabel(w)
      BY <1>9, <2>2 DEF SymInv, TablesInv
    <3>2. \A j \in DOMAIN source : \A y \in DOMAIN source[j] :
            Is(j, y, "label", w) => (Read(j, y)' <=> Read(j, y))
      BY <1>7, <2>2 DEF Is
    <3> QED BY <1>1, <3>1, <3>2 DEF OneLabel, Is
  <2> QED BY <2>1, <2>2
<1>11. LabelsRead'
  BY <1>1, <1>7, <1>9 DEF SymInv, TablesInv, LabelsRead, Is
<1>12. UsesRead'
  BY <1>1, <1>7 DEF SymInv, TablesInv, UsesRead, Is
<1>13. PhaseInv'
  BY <1>1 DEF SymInv, PhaseInv
<1> QED BY <1>6, <1>10, <1>11, <1>12, <1>13 DEF SymInv, TablesInv

\* Tokens without a label: what they use must have come to reltab.
LEMMA OtherTokensSym ==
  ASSUME AsmInv, SymInv, phase = "parse", UNCHANGED <<source, phase, symtab, file>>,
         NEW line, Edit(line), NEW d \in 1 .. Len(ptr), ptr' = SubSeq(ptr, d + 1, Len(ptr)),
         \A k \in 1 .. d : ptr[k].kind \notin {"comment", "label"},
         \A k \in 1 .. d : ptr[k].kind = "sym" =>
           \E e \in DOMAIN reltab' : reltab'[e].name = ptr[k].name,
         \A k \in DOMAIN reltab : \E e \in DOMAIN reltab' : reltab'[e].name = reltab[k].name
  PROVE  SymInv'
<1> DEFINE L == Len(lines)
<1>1. lines # <<>> /\ lines \in Seq(Line)
  BY DEF AsmInv, AsmTypeOK
<1>2. Len(lines') = Len(lines) /\ lines' # <<>>
  BY <1>1 DEF Edit
<1>3. /\ LineInv' /\ Taken \in Nat /\ L \in DOMAIN source
      /\ \A k \in 1 .. d : Live(L, Taken + k) /\ source[L][Taken + k] = ptr[k]
      /\ \A l, x : Read(l, x)' <=>
           Read(l, x) \/ (l = L /\ \E k \in 1 .. d : x = Taken + k)
  BY <1>1, <1>2, TokensRead
<1> HIDE DEF L
<1>4. \A l, x : source[l][x].kind = "label" => (Read(l, x)' <=> Read(l, x))
  BY <1>3
<1>5. ASSUME NEW w \in DOMAIN symtab' PROVE OneLabel(w)'
  <2>1. OneLabel(w)
    BY DEF SymInv, TablesInv
  <2> QED BY <1>4, <2>1 DEF OneLabel, Is
<1>6. LabelsRead'
  BY <1>4 DEF SymInv, TablesInv, LabelsRead
<1>7. UsesRead'
  <2> SUFFICES ASSUME NEW l \in DOMAIN source, NEW x \in DOMAIN source[l],
                      Read(l, x)', source[l][x].kind = "sym"
               PROVE  \E e \in DOMAIN reltab' : reltab'[e].name = source[l][x].name
    BY DEF UsesRead
  <2>1. CASE Read(l, x)
    <3>1. PICK k \in DOMAIN reltab : reltab[k].name = source[l][x].name
      BY <2>1 DEF SymInv, TablesInv, UsesRead
    <3> QED BY <3>1
  <2>2. CASE l = L /\ \E k \in 1 .. d : x = Taken + k
    BY <1>3, <2>2
  <2>3. Read(l, x)' <=> Read(l, x) \/ (l = L /\ \E k \in 1 .. d : x = Taken + k)
    BY <1>3
  <2> HIDE DEF Read
  <2> QED BY <2>1, <2>2, <2>3
<1>8. PhaseInv'
  BY DEF SymInv, PhaseInv
<1> QED BY <1>3, <1>5, <1>6, <1>7, <1>8 DEF SymInv, TablesInv

LEMMA ArgsRead ==
  ASSUME AsmInv, ptr # <<>>, NEW i, Parses(i, Tail(ptr)),
         NEW args, args = SubSeq(Tail(ptr), 1, Len(Operands(i)))
  PROVE  /\ args \in Seq(Token) /\ Len(args) = Len(Operands(i)) /\ Len(args) \in 0 .. 3
         /\ Len(args) <= Len(ptr) - 1
         /\ \A k \in DOMAIN args :
              args[k] = ptr[k + 1] /\ k \in DOMAIN Operands(i) /\ args[k].kind \in Operands(i)[k]
<1>1. ptr \in Seq(Token) /\ Tail(ptr) \in Seq(Token) /\ Len(Tail(ptr)) = Len(ptr) - 1
      /\ \A k \in 1 .. Len(Tail(ptr)) : Tail(ptr)[k] = ptr[k + 1]
  BY DEF AsmInv, AsmTypeOK
<1>2. args \in Seq(Token) /\ Len(args) = Len(Operands(i)) /\ Len(args) \in 0 .. 3
      /\ Len(args) <= Len(ptr) - 1
  BY <1>1, ArgsType, OperandsLen DEF Parses
<1>3. \A k \in 1 .. Len(args) : args[k] = Tail(ptr)[k]
  BY <1>1, <1>2
<1>4. DOMAIN args = 1 .. Len(args) /\ DOMAIN Operands(i) = DOMAIN args
  BY <1>2, OperandsLen
<1>5. \A k \in 1 .. Len(args) : args[k] = ptr[k + 1]
  BY <1>1, <1>2, <1>3
<1>6. \A k \in DOMAIN args : args[k].kind \in Operands(i)[k]
  BY <1>3, <1>4 DEF Parses
<1> HIDE DEF Parses
<1> QED BY <1>2, <1>4, <1>5, <1>6

LEMMA InstructionSym ==
  ASSUME AsmInv, SymInv, Instruction
  PROVE  SymInv'
<1> DEFINE i == find_instr(Head(ptr).name)
           args == SubSeq(Tail(ptr), 1, Len(Operands(i)))
           line == [type |-> "INS", addr |-> vmaddr, bytes |-> i.bytes,
                    codes |-> Codes(Current.codes, i, args, value')]
           d == Len(args) + 1
<1>1. /\ phase = "parse" /\ ptr # <<>> /\ Head(ptr).kind = "ins"
      /\ UNCHANGED <<source, phase, symtab, file>>
      /\ Parses(i, Tail(ptr)) /\ Edit(line) /\ add_reloc(args)
      /\ ptr' = SubSeq(ptr, Len(args) + 2, Len(ptr))
  BY DEF Instruction, parse_instr, Parsing
<1>2. ptr \in Seq(Token)
  BY DEF AsmInv, AsmTypeOK
<1> HIDE DEF i
<1>3. args \in Seq(Token) /\ Len(args) = Len(Operands(i)) /\ Len(args) \in 0 .. 3
      /\ Len(args) <= Len(ptr) - 1
  BY <1>1, ArgsRead
<1>4. \A k \in DOMAIN args : args[k] = ptr[k + 1]
  BY <1>1, ArgsRead
<1>5. \A k \in DOMAIN args : k \in DOMAIN Operands(i) /\ args[k].kind \in Operands(i)[k]
  BY <1>1, ArgsRead
<1> HIDE DEF args, line
<1>6. d \in 1 .. Len(ptr) /\ ptr' = SubSeq(ptr, d + 1, Len(ptr))
  BY <1>1, <1>2, <1>3
<1>7. \A k \in 1 .. d : k = 1 \/ (k - 1 \in DOMAIN args /\ ptr[k] = args[k - 1])
  <2> TAKE k \in 1 .. d
  <2>1. k # 1 => k - 1 \in 1 .. Len(args) /\ k = (k - 1) + 1
    BY <1>3
  <2>2. DOMAIN args = 1 .. Len(args)
    BY <1>3
  <2> QED BY <1>4, <2>1, <2>2
<1>8. ptr[1].kind = "ins"
  BY <1>1, <1>2
<1>9. \A k \in 1 .. d : ptr[k].kind \notin {"comment", "label"}
  <2>1. \A k \in DOMAIN args : args[k].kind \notin {"comment", "label"}
    BY <1>5, OneSymbol
  <2> QED BY <1>7, <1>8, <2>1
<1>10. parse_symbol(args) # {} =>
         \E k \in DOMAIN args : /\ args[k].kind = "sym"
                                /\ reltab' = <<[name |-> args[k].name, line |-> Len(lines)]>> \o reltab
  <2>1. parse_symbol(args) # {} => (CHOOSE k \in parse_symbol(args) : TRUE) \in parse_symbol(args)
    OBVIOUS
  <2>2. \A k \in parse_symbol(args) : k \in DOMAIN args /\ args[k].kind = "sym"
    BY DEF parse_symbol
  <2> QED BY <1>1, <2>1, <2>2 DEF add_reloc
<1>11. reltab \in Seq(Entry)
  BY DEF AsmInv, AsmTypeOK, Entry
<1>12. CASE parse_symbol(args) = {}
  <2>1. \A k \in DOMAIN args : args[k].kind # "sym"
    BY <1>12 DEF parse_symbol
  <2>2. \A k \in 1 .. d : ptr[k].kind # "sym"
    BY <1>7, <1>8, <2>1
  <2>3. reltab' = reltab
    BY <1>1, <1>12 DEF add_reloc
  <2> HIDE DEF d
  <2> QED BY <1>1, <1>6, <1>9, <2>2, <2>3, OtherTokensSym
<1>13. CASE parse_symbol(args) # {}
  <2>1. PICK k \in DOMAIN args :
          /\ args[k].kind = "sym"
          /\ reltab' = <<[name |-> args[k].name, line |-> Len(lines)]>> \o reltab
    BY <1>10, <1>13
  <2> DEFINE e == [name |-> args[k].name, line |-> Len(lines)]
  <2>2. e.name = args[k].name
    OBVIOUS
  <2>3. e \in Entry
    <3>1. args[k].name \in STRING
      BY <1>3, TokenFields
    <3>2. lines \in Seq(Line) /\ lines # <<>>
      BY <1>1 DEF AsmInv, AsmTypeOK
    <3>3. Len(lines) \in DOMAIN lines
      BY <3>2
    <3> QED BY <3>1, <3>3 DEF Entry
  <2>4. reltab' = <<e>> \o reltab
    BY <2>1
  <2> HIDE DEF e
  <2>5. /\ DOMAIN reltab' = 1 .. (Len(reltab) + 1) /\ reltab'[1] = e
        /\ \A j \in DOMAIN reltab : j + 1 \in DOMAIN reltab' /\ reltab'[j + 1] = reltab[j]
    BY <1>11, <2>3, <2>4
  <2>6. \A j \in DOMAIN args : args[j].kind = "sym" => j = k
    BY <1>5, <2>1, OneSymbol
  <2>7. \A j \in 1 .. d : ptr[j].kind = "sym" => ptr[j] = args[k]
    BY <1>7, <1>8, <2>6
  <2>8. 1 \in DOMAIN reltab'
    BY <1>11, <2>5
  <2>9. \A j \in 1 .. d : ptr[j].kind = "sym" =>
           \E x \in DOMAIN reltab' : reltab'[x].name = ptr[j].name
    BY <2>2, <2>5, <2>7, <2>8
  <2>10. \A j \in DOMAIN reltab : \E x \in DOMAIN reltab' : reltab'[x].name = reltab[j].name
    BY <2>5
  <2> HIDE DEF d
  <2> QED BY <1>1, <1>6, <1>9, <2>9, <2>10, OtherTokensSym
<1> QED BY <1>12, <1>13

LEMMA DirectiveSym ==
  ASSUME AsmInv, SymInv, Directive
  PROVE  SymInv'
<1> DEFINE i == find_instr(Head(ptr).name)
           line == [Current EXCEPT !.type = "INS", !.addr = vmaddr', !.bytes = 0,
                                   !.codes = [@ EXCEPT ![0] = i.code]]
<1>1. /\ phase = "parse" /\ ptr # <<>> /\ Head(ptr).kind = "ins"
      /\ UNCHANGED <<source, phase, symtab, reltab, file>>
      /\ IsDirective(i) /\ ~IsData(i) /\ Parses(i, Tail(ptr))
      /\ Edit(line) /\ ptr' = SubSeq(ptr, 3, Len(ptr))
  BY DEF Directive, parse_instr, Parsing, tables
<1> HIDE DEF i, line
<1>2. ptr \in Seq(Token) /\ Len(Tail(ptr)) = Len(ptr) - 1
      /\ \A k \in 1 .. Len(Tail(ptr)) : Tail(ptr)[k] = ptr[k + 1]
  BY <1>1 DEF AsmInv, AsmTypeOK
<1>3. Operands(i) = <<parse_digit>>
  BY <1>1 DEF Operands, IsDirective, I_HALT, I_NOP, I_RRMOVQ, I_IRMOVQ, I_RMMOVQ, I_MRMOVQ,
     I_ALU, I_JMP, I_CALL, I_RET, I_PUSHQ, I_POPQ, I_DIRECTIVE
<1>4. 1 <= Len(Tail(ptr)) /\ Tail(ptr)[1].kind = "num"
  BY <1>1, <1>3 DEF Parses, parse_digit
<1>5. 2 \in 1 .. Len(ptr) /\ ptr[1].kind = "ins" /\ ptr[2].kind = "num"
  BY <1>1, <1>2, <1>4
<1>6. \A k \in 1 .. 2 : ptr[k].kind \notin {"comment", "label", "sym"}
  BY <1>5
<1>7. ptr' = SubSeq(ptr, 2 + 1, Len(ptr))
  BY <1>1
<1>8. \A k \in DOMAIN reltab : \E e \in DOMAIN reltab' : reltab'[e].name = reltab[k].name
  BY <1>1
<1> QED BY <1>1, <1>5, <1>6, <1>7, <1>8, OtherTokensSym

\* A new line, of which nothing is read.
LEMMA NextLineRead ==
  ASSUME AsmInv, SymInv, NextLine
  PROVE  LineInv' /\ Finished /\ \A l, x : Read(l, x)' <=> Read(l, x)
<1>1. /\ phase = "assemble" /\ Len(lines) < Len(source)
      /\ lines' = Append(lines, Blank) /\ ptr' = source[Len(lines) + 1] /\ phase' = "parse"
      /\ UNCHANGED <<source, symtab, reltab, at, file>>
  BY DEF NextLine, tables
<1>2. lines \in Seq(Line) /\ Len(lines) \in Nat /\ source \in Seq(Seq(Token)) /\ source \in Source
  BY SourceType DEF AsmInv, AsmTypeOK
<1>3. Len(lines') = Len(lines) + 1 /\ lines' # <<>>
  <2>1. Len(lines') = Len(lines) + 1
    BY <1>1, <1>2
  <2> QED BY <1>2, <2>1
<1>4. source[Len(lines) + 1] \in Seq(Token)
  BY <1>1, <1>2
<1>5. Taken' = 0
  <2>1. Taken' = Len(source[Len(lines) + 1]) - Len(source[Len(lines) + 1])
    BY <1>1, <1>3 DEF Taken
  <2>2. Len(source[Len(lines) + 1]) \in Nat
    BY <1>4
  <2> HIDE DEF Taken
  <2> QED BY <2>1, <2>2
<1>6. LineInv'
  <2> PICK s : s = source[Len(lines) + 1]
    OBVIOUS
  <2>1. (source[Len(lines)])' = s
    BY <1>1, <1>3
  <2>2. s \in Seq(Token) /\ ptr' = s
    BY <1>1, <1>4
  <2>3. s = SubSeq(s, 1, Len(s)) /\ 0 \in 0 .. Len(s)
    <3>1. SubSeq(s, 1, Len(s)) \in Seq(Token) /\ Len(SubSeq(s, 1, Len(s))) = Len(s)
          /\ \A k \in 1 .. Len(s) : s[k] = SubSeq(s, 1, Len(s))[k]
      BY <2>2
    <3>2. s = SubSeq(s, 1, Len(s))
      BY <2>2, <3>1, SeqEqual
    <3> QED BY <2>2, <3>2
  <2> QED BY <1>5, <2>1, <2>2, <2>3 DEF LineInv
<1>7. Finished
  BY <1>1 DEF SymInv, PhaseInv
<1>8. \A l, x : Read(l, x)' <=> Read(l, x)
  <2> TAKE l, x
  <2>1. Live(l, x)' <=> Live(l, x)
    BY <1>1 DEF Live
  <2>2. Live(l, x) => l \in Nat /\ x \in Nat \ {0}
    <3>1. l \in DOMAIN source => source[l] \in Seq(Token) /\ l \in Nat
      BY <1>2
    <3> QED BY <3>1 DEF Live
  <2>3. Live(l, x) /\ l <= Len(lines) => Read(l, x)
    BY <1>1, <1>2, <1>7, FinishedRead DEF SymInv
  <2>4. Read(l, x)' <=> Live(l, x) /\ l <= Len(lines) + 1 /\ (l = Len(lines) + 1 => x <= 0)
    BY <1>3, <1>5, <2>1 DEF Read
  <2>5. Read(l, x) => Live(l, x) /\ l <= Len(lines)
    BY DEF Read
  <2> QED BY <1>2, <2>2, <2>3, <2>4, <2>5
<1> QED BY <1>6, <1>7, <1>8

LEMMA NextLineSym ==
  ASSUME AsmInv, SymInv, NextLine
  PROVE  SymInv'
<1>1. phase' = "parse" /\ UNCHANGED <<source, symtab, reltab, file>> /\ file = NoFile
  BY DEF NextLine, tables, SymInv, PhaseInv
<1>2. LineInv' /\ \A l, x : Read(l, x)' <=> Read(l, x)
  BY NextLineRead
<1>3. TablesInv'
  BY <1>1, <1>2 DEF SymInv, TablesInv, OneLabel, LabelsRead, UsesRead, Is
<1>4. PhaseInv'
  BY <1>1 DEF SymInv, PhaseInv
<1> QED BY <1>2, <1>3, <1>4 DEF SymInv

LEMMA LineErrorSym ==
  ASSUME AsmInv, SymInv, LineError
  PROVE  SymInv'
<1>1. /\ phase = "parse" /\ phase' = "failed" /\ Edit([Current EXCEPT !.type = "ERR"])
      /\ UNCHANGED <<source, ptr, symtab, reltab, file>>
  BY DEF LineError, parser, tables
<1>2. lines \in Seq(Line) /\ lines # <<>>
  BY <1>1 DEF AsmInv, AsmTypeOK
<1>3. Len(lines') = Len(lines) /\ lines' # <<>>
  BY <1>1, <1>2 DEF Edit
<1>4. LineInv' /\ TablesInv'
  BY <1>1, <1>2, <1>3, NothingRead
<1>5. PhaseInv'
  BY <1>1 DEF SymInv, PhaseInv
<1> QED BY <1>4, <1>5 DEF SymInv

\* Relocate and the steps that edit no line.
LEMMA OtherSym ==
  ASSUME AsmInv, AsmInv', SymInv,
         \/ Start \/ EndOfLine \/ AlignTraps \/ EndOfSource \/ Relocate \/ UnknownSymbol
         \/ OpenOut \/ WriteLine \/ SeekError \/ Finish
  PROVE  SymInv'
<1> USE DEF parser, tables
<1>1. UNCHANGED <<source, ptr, symtab, reltab>> /\ Len(lines') = Len(lines)
      /\ (lines' = <<>> <=> lines = <<>>)
  <2>1. CASE Relocate
    <3>1. lines \in Seq(Line)
      BY DEF AsmInv, AsmTypeOK
    <3>2. \A l, x : [lines EXCEPT ![l] = x] = [k \in DOMAIN lines |-> IF k = l THEN x ELSE lines[k]]
      OBVIOUS
    <3>3. \A l, x : /\ Len([lines EXCEPT ![l] = x]) = Len(lines)
                    /\ [lines EXCEPT ![l] = x] = <<>> <=> lines = <<>>
      BY <3>1
    <3> QED BY <2>1, <3>3 DEF Relocate
  <2>2. CASE Start \/ EndOfLine \/ AlignTraps \/ EndOfSource \/ UnknownSymbol
    BY <2>2 DEF Start, EndOfLine, AlignTraps, EndOfSource, UnknownSymbol
  <2>3. CASE OpenOut \/ WriteLine \/ SeekError \/ Finish
    BY <2>3 DEF OpenOut, WriteLine, SeekError, Finish
  <2> QED BY <2>1, <2>2, <2>3
<1>2. LineInv' /\ TablesInv' /\ Finished' = Finished
  BY <1>1, NothingRead
<1>3. \A k : Resolved(k)' = Resolved(k)
  BY <1>1 DEF Resolved
<1>4. Len(source') = Len(source) /\ DOMAIN reltab' = DOMAIN reltab
  BY <1>1
<1>5. reltab \in Seq(Entry) /\ at \in Nat \ {0}
  BY DEF AsmInv, AsmTypeOK, Entry
<1> HIDE DEF Resolved
<1>6. PhaseInv'
  <2>1. CASE Start
    BY <1>1, <1>2, <1>3, <2>1 DEF Start, SymInv, PhaseInv
  <2>2. CASE EndOfLine
    <3>1. Finished
      BY <2>2 DEF EndOfLine, Finished
    <3> QED BY <1>1, <1>2, <1>3, <2>2, <3>1 DEF EndOfLine, SymInv, PhaseInv
  <2>3. CASE AlignTraps
    BY <1>1, <1>2, <1>3, <2>3 DEF AlignTraps, parse_instr, Parsing, SymInv, PhaseInv
  <2>4. CASE EndOfSource
    <3>1. \A k \in DOMAIN reltab : ~(k < 1)
      BY <1>5
    <3> QED BY <1>1, <1>2, <1>3, <2>4, <3>1 DEF EndOfSource, SymInv, PhaseInv
  <2>5. CASE Relocate
    <3>1. /\ phase = "relocate" /\ phase' = phase /\ file' = file /\ at' = at + 1
          /\ Resolved(at)
      BY <2>5 DEF Relocate, find_symbol, Resolved
    <3>2. \A k \in DOMAIN reltab : k < at + 1 => k < at \/ k = at
      BY <1>5
    <3> QED BY <1>1, <1>2, <1>3, <1>4, <3>1, <3>2 DEF SymInv, PhaseInv
  <2>6. CASE UnknownSymbol
    BY <1>1, <1>2, <1>3, <2>6 DEF UnknownSymbol, SymInv, PhaseInv
  <2>7. CASE OpenOut
    <3>1. \A k \in DOMAIN reltab : k < at
      BY <1>5, <2>7 DEF OpenOut
    <3>2. \A k \in DOMAIN reltab : Resolved(k)
      BY <2>7, <3>1 DEF OpenOut, SymInv, PhaseInv
    <3>3. Finished /\ Len(lines) = Len(source) /\ phase' \in {"binfile", "failed"}
      BY <2>7 DEF OpenOut, SymInv, PhaseInv
    <3> QED BY <1>1, <1>2, <1>3, <1>4, <3>2, <3>3 DEF PhaseInv
  <2>8. CASE WriteLine
    <3>1. /\ phase = "binfile" /\ phase' = "binfile" /\ file # NoFile
      <4>1. phase = "binfile" /\ phase' = "binfile" /\ file \in Seq(Byte)
        BY <2>8 DEF WriteLine, AsmInv
      <4>2. ASSUME file = NoFile PROVE FALSE
        <5>1. Len(file) = 1 /\ file[1] = -1
          BY <4>2 DEF NoFile
        <5>2. file[1] \in Byte
          BY <4>1, <5>1
        <5> QED BY <5>1, <5>2 DEF Byte
      <4> QED BY <4>1, <4>2
    <3>2. Finished /\ Len(lines) = Len(source) /\ \A k \in DOMAIN reltab : Resolved(k)
      BY <3>1 DEF SymInv, PhaseInv
    <3> QED BY <1>1, <1>2, <1>3, <1>4, <3>1, <3>2 DEF PhaseInv
  <2>9. CASE SeekError \/ Finish
    <3>1. /\ phase = "binfile" /\ phase' \in {"failed", "done"} /\ file' = file
      BY <2>9 DEF SeekError, Finish
    <3>2. Finished /\ Len(lines) = Len(source)
      BY <3>1 DEF SymInv, PhaseInv
    <3>3. file # NoFile => \A k \in DOMAIN reltab : Resolved(k)
      BY DEF SymInv, PhaseInv
    <3> QED BY <1>1, <1>2, <1>3, <1>4, <3>1, <3>2, <3>3 DEF PhaseInv
  <2> QED BY <2>1, <2>2, <2>3, <2>4, <2>5, <2>6, <2>7, <2>8, <2>9
<1> QED BY <1>2, <1>6 DEF SymInv

LEMMA SymInit == AsmInit => SymInv
<1> SUFFICES ASSUME AsmInit PROVE SymInv
  OBVIOUS
<1>1. lines = <<>> /\ ptr = <<>> /\ DOMAIN symtab = {} /\ phase = "start" /\ file = NoFile
      /\ Len(lines) = 0 /\ source \in Source
  BY DEF AsmInit
<1>2. \A l, x : ~Read(l, x)
  <2>1. source \in Seq(Seq(Token))
    BY <1>1, SourceType
  <2>2. \A l \in DOMAIN source : l \in Nat \ {0}
    BY <2>1
  <2> QED BY <1>1, <2>2 DEF Read, Live
<1> QED BY <1>1, <1>2 DEF SymInv, LineInv, TablesInv, LabelsRead, UsesRead, PhaseInv, Finished

LEMMA SymStep == AsmInv /\ SymInv /\ [AsmNext]_asmvars => SymInv'
<1> SUFFICES ASSUME AsmInv, SymInv, [AsmNext]_asmvars PROVE SymInv'
  OBVIOUS
<1>1. AsmInv'
  BY AsmStep
<1>2. CASE UNCHANGED asmvars
  <2>1. UNCHANGED <<source, lines, ptr, symtab, reltab, phase, file, at>>
    BY <1>2 DEF asmvars, parser, tables
  <2>2. LineInv' /\ TablesInv' /\ Finished' = Finished
    BY <2>1, NothingRead
  <2> QED BY <2>1, <2>2 DEF SymInv, PhaseInv, Resolved
<1>3. CASE AsmNext
  BY <1>1, <1>3, OtherSym, NextLineSym, LabelSym, InstructionSym, DirectiveSym, LineErrorSym
     DEF AsmNext
<1> QED BY <1>2, <1>3

LEMMA SymbolsResolved == AsmInv /\ SymInv => NoFileUnresolved
<1> SUFFICES ASSUME AsmInv, SymInv, file # NoFile,
                    NEW l \in DOMAIN source, NEW x \in DOMAIN Tokens(l),
                    IsUse(l, x, Tokens(l)[x].name)
             PROVE  LabelsOnce(Tokens(l)[x].name)
  BY DEF NoFileUnresolved
<1> DEFINE n == Tokens(l)[x].name
<1>1. Finished /\ Len(lines) = Len(source) /\ (\A k \in DOMAIN reltab : Resolved(k)) /\ LineInv
  BY DEF SymInv, PhaseInv
<1>2. source \in Source /\ lines \in Seq(Line) /\ Len(lines) <= Len(source)
      /\ source \in Seq(Seq(Token))
  BY SourceType DEF AsmInv, AsmTypeOK
<1>3. \A j \in DOMAIN source : j <= Len(lines)
  BY <1>1, <1>2
<1>4. \A j \in DOMAIN source : \A y \in DOMAIN Tokens(j) :
        Read(j, y) /\ Tokens(j)[y] = source[j][y] /\ y \in DOMAIN source[j]
  <2> TAKE j \in DOMAIN source
  <2> TAKE y \in DOMAIN Tokens(j)
  <2>1. Live(j, y) /\ Tokens(j)[y] = source[j][y]
    BY <1>2, TokensLive
  <2>2. Read(j, y)
    BY <1>1, <1>2, <1>3, <2>1, FinishedRead
  <2> QED BY <2>1, <2>2 DEF Live
<1>5. \A j, y : Read(j, y) => j \in DOMAIN source /\ y \in DOMAIN Tokens(j)
  BY <1>2, TokensLive DEF Read, Live
<1>6. n \in DOMAIN symtab
  <2>1. PICK k \in DOMAIN reltab : reltab[k].name = source[l][x].name
    BY <1>4 DEF SymInv, TablesInv, UsesRead, IsUse
  <2> QED BY <1>1, <1>4, <2>1 DEF Resolved
<1> HIDE DEF n
<1> PICK j \in DOMAIN source : \E y \in DOMAIN source[j] :
      /\ Read(j, y) /\ Is(j, y, "label", n)
      /\ \A k \in DOMAIN source : \A z \in DOMAIN source[k] :
           Read(k, z) /\ Is(k, z, "label", n) => k = j /\ z = y
  BY <1>6 DEF SymInv, TablesInv, OneLabel
<1>7. PICK y \in DOMAIN source[j] :
        /\ Read(j, y) /\ Is(j, y, "label", n)
        /\ \A k \in DOMAIN source : \A z \in DOMAIN source[k] :
             Read(k, z) /\ Is(k, z, "label", n) => k = j /\ z = y
  OBVIOUS
<1>8. IsLabel(j, y, n) /\ y \in DOMAIN Tokens(j)
  BY <1>4, <1>5, <1>7 DEF IsLabel, Is
<1>9. \A k \in DOMAIN source : \A z \in DOMAIN Tokens(k) : IsLabel(k, z, n) => k = j /\ z = y
  BY <1>4, <1>7 DEF IsLabel, Is
<1> QED BY <1>8, <1>9 DEF LabelsOnce, n

-----------------------------------------------------------------------------
(* The bytes of the file.                                                  *)

LEMMA WrittenIs ==
  ASSUME NEW f \in Seq(Byte), NEW line \in Line, line.addr >= 0
  PROVE  /\ \A p \in DOMAIN f : p \in DOMAIN Written(f, line)
         /\ \A p \in DOMAIN f : p \notin (line.addr + 1) .. (line.addr + line.bytes) =>
              Written(f, line)[p] = f[p]
         /\ \A i \in 0 .. (line.bytes - 1) :
              /\ line.addr + i + 1 \in DOMAIN Written(f, line)
              /\ Written(f, line)[line.addr + i + 1] = line.codes[i]
<1> DEFINE end == line.addr + line.bytes
           n == IF end > Len(f) THEN end ELSE Len(f)
           b(k) == IF k \in (line.addr + 1) .. end THEN line.codes[k - 1 - line.addr]
                   ELSE IF k <= Len(f) THEN f[k] ELSE 0
           w == [k \in 1 .. n |-> b(k)]
<1>1. line.addr \in Nat /\ line.bytes \in Nat
  BY Widths DEF Line, Long
<1>2. Written(f, line) = IF line.bytes = 0 THEN f ELSE w
  BY DEF Written
<1>3. CASE line.bytes = 0
  <2>1. \A i \in 0 .. (line.bytes - 1) : FALSE
    BY <1>3
  <2>2. \A p \in DOMAIN f : p \in DOMAIN Written(f, line) /\ Written(f, line)[p] = f[p]
    BY <1>2, <1>3
  <2> QED BY <2>1, <2>2
<1>4. CASE line.bytes # 0
  <2>1. n \in Nat /\ Len(f) <= n /\ end <= n /\ DOMAIN f = 1 .. Len(f) /\ Len(f) \in Nat
    BY <1>1
  <2>2. \A p \in DOMAIN f : p \in 1 .. n
    BY <2>1
  <2>3. \A p \in DOMAIN f : p \notin (line.addr + 1) .. end => b(p) = f[p]
    BY <2>1
  <2>4. \A i \in 0 .. (line.bytes - 1) :
          line.addr + i + 1 \in 1 .. n /\ b(line.addr + i + 1) = line.codes[i]
    <3> TAKE i \in 0 .. (line.bytes - 1)
    <3> PICK p : p = line.addr + i + 1
      OBVIOUS
    <3>1. p \in (line.addr + 1) .. end /\ p - 1 - line.addr = i
      BY <1>1
    <3>2. p \in 1 .. n
      BY <1>1, <2>1, <3>1
    <3>3. b(p) = line.codes[p - 1 - line.addr]
      BY <3>1
    <3> HIDE DEF b, n
    <3> QED BY <3>1, <3>2, <3>3
  <2> HIDE DEF b, n
  <2>5. DOMAIN w = 1 .. n /\ \A k \in 1 .. n : w[k] = b(k)
    OBVIOUS
  <2> HIDE DEF w
  <2> QED BY <1>2, <1>4, <2>2, <2>3, <2>4, <2>5
<1> QED BY <1>3, <1>4

\* Line j puts bytes where line k has some.
Overlap(j, k) ==
  /\ lines[j].bytes > 0
  /\ lines[j].addr < lines[k].addr + lines[k].bytes
  /\ lines[k].addr < lines[j].addr + lines[j].bytes
CoveredBefore(k, n) ==
  \E j \in DOMAIN lines : j > k /\ j < n /\ lines[j].type = "INS" /\ Overlap(j, k)
InFile(k) ==
  \A i \in 0 .. (lines[k].bytes - 1) :
    /\ lines[k].addr + i + 1 \in DOMAIN file
    /\ file[lines[k].addr + i + 1] = lines[k].codes[i]

\* The lines that are written are in the file, unless a later one took their place.
FileInv ==
  /\ phase \in {"binfile", "done"} =>
       \A k \in DOMAIN lines : k < at /\ lines[k].type = "INS" =>
         lines[k].addr >= 0 /\ (~CoveredBefore(k, at) => InFile(k))
  /\ phase = "done" => at > Len(lines)

LEMMA WriteLineFile ==
  ASSUME AsmInv, FileInv, WriteLine
  PROVE  FileInv'
<1>1. /\ phase = "binfile" /\ phase' = "binfile" /\ at <= Len(lines) /\ at' = at + 1
      /\ lines[at].type = "INS" => lines[at].addr >= 0
      /\ file' = (IF lines[at].type = "INS" THEN Written(file, lines[at]) ELSE file)
      /\ lines' = lines
  BY DEF WriteLine
<1>2. file \in Seq(Byte) /\ lines \in Seq(Line) /\ at \in 1 .. Len(lines)
  BY <1>1 DEF AsmInv, AsmTypeOK
<1>3. lines[at] \in Line /\ at \in DOMAIN lines
  BY <1>2
<1>4. \A k \in DOMAIN lines : k \in Nat /\ lines[k].addr \in Int /\ lines[k].bytes \in Nat
  <2> TAKE k \in DOMAIN lines
  <2>1. lines[k] \in Line
    BY <1>2
  <2>2. lines[k].addr \in Long /\ lines[k].bytes \in 0 .. (LONG + 2)
    BY <2>1 DEF Line
  <2> QED BY <1>2, <2>2, Widths DEF Long
<1>5. lines[at].type = "INS" =>
        /\ \A p \in DOMAIN file : p \in DOMAIN file'
        /\ \A p \in DOMAIN file :
             p \notin (lines[at].addr + 1) .. (lines[at].addr + lines[at].bytes) => file'[p] = file[p]
        /\ \A i \in 0 .. (lines[at].bytes - 1) :
             /\ lines[at].addr + i + 1 \in DOMAIN file'
             /\ file'[lines[at].addr + i + 1] = lines[at].codes[i]
  BY <1>1, <1>2, <1>3, WrittenIs
<1>6. ASSUME NEW k \in DOMAIN lines, k < at + 1, lines[k].type = "INS",
             ~CoveredBefore(k, at + 1)
      PROVE  \A i \in 0 .. (lines[k].bytes - 1) :
               /\ lines[k].addr + i + 1 \in DOMAIN file'
               /\ file'[lines[k].addr + i + 1] = lines[k].codes[i]
  <2>1. CASE k = at
    BY <1>5, <1>6, <2>1
  <2>2. CASE k < at
    <3>1. ~CoveredBefore(k, at) /\ ~(lines[at].type = "INS" /\ Overlap(at, k))
      <4>1. \A j \in DOMAIN lines : j < at => j < at + 1
        BY <1>2, <1>4
      <4>2. at > k /\ at < at + 1
        BY <1>2, <2>2
      <4> QED BY <1>3, <1>6, <4>1, <4>2 DEF CoveredBefore
    <3>2. InFile(k)
      BY <1>1, <1>6, <2>2, <3>1 DEF FileInv
    <3>3. CASE lines[at].type # "INS"
      BY <1>1, <3>2, <3>3 DEF InFile
    <3>4. CASE lines[at].type = "INS"
      <4> TAKE i \in 0 .. (lines[k].bytes - 1)
      <4> PICK p : p = lines[k].addr + i + 1
        OBVIOUS
      <4>1. p \in DOMAIN file /\ file[p] = lines[k].codes[i]
        BY <3>2 DEF InFile
      <4>2. p \notin (lines[at].addr + 1) .. (lines[at].addr + lines[at].bytes)
        <5>1. ~Overlap(at, k)
          BY <3>1, <3>4
        <5>2. /\ lines[k].addr \in Int /\ lines[at].addr \in Int
              /\ lines[k].bytes \in Nat /\ lines[at].bytes \in Nat
          BY <1>3, <1>4
        <5> QED BY <5>1, <5>2 DEF Overlap
      <4> QED BY <1>5, <3>4, <4>1, <4>2
    <3> QED BY <3>3, <3>4
  <2> QED BY <1>2, <1>4, <1>6, <2>1, <2>2
<1>7. ASSUME NEW k \in DOMAIN lines, k < at + 1, lines[k].type = "INS"
      PROVE  lines[k].addr >= 0
  <2>1. k = at \/ k < at
    BY <1>2, <1>4, <1>7
  <2> QED BY <1>1, <1>7, <2>1 DEF FileInv
<1>8. \A k, n : CoveredBefore(k, n)' <=> CoveredBefore(k, n')
  BY <1>1 DEF CoveredBefore, Overlap
<1> QED BY <1>1, <1>6, <1>7, <1>8 DEF FileInv, InFile, CoveredBefore, Overlap

LEMMA OtherFile ==
  ASSUME AsmInv, FileInv, [AsmNext]_asmvars, ~WriteLine
  PROVE  FileInv'
<1> USE DEF parser, tables
<1>1. CASE /\ UNCHANGED <<lines, file, at>> /\ (phase' = phase \/ Finish)
  <2>1. phase' = phase \/ (phase = "binfile" /\ phase' = "done" /\ at > Len(lines))
    BY <1>1 DEF Finish
  <2>2. (phase' = "done") => at > Len(lines)
    BY <2>1 DEF FileInv
  <2>3. phase' \in {"binfile", "done"} => phase \in {"binfile", "done"}
    BY <2>1
  <2> QED BY <1>1, <2>2, <2>3 DEF FileInv, CoveredBefore, Overlap, InFile
<1>2. CASE phase' \notin {"binfile", "done"}
  BY <1>2 DEF FileInv
<1>3. CASE OpenOut
  <2>1. at' = 1 /\ phase' # "done" /\ lines' = lines
    BY <1>3 DEF OpenOut
  <2>2. \A k \in DOMAIN lines : ~(k < 1)
    <3>1. lines \in Seq(Line)
      BY DEF AsmInv, AsmTypeOK
    <3> QED BY <3>1
  <2> QED BY <2>1, <2>2 DEF FileInv
<1>4. CASE UNCHANGED asmvars
  BY <1>1, <1>4 DEF asmvars
<1>5. CASE Start \/ NextLine \/ EndOfLine \/ Label \/ Instruction \/ Directive \/ AlignTraps
           \/ LineError \/ EndOfSource \/ Relocate \/ UnknownSymbol \/ SeekError
  BY <1>2, <1>5 DEF Start, NextLine, EndOfLine, Label, Instruction, Directive, AlignTraps,
     LineError, EndOfSource, Relocate, UnknownSymbol, SeekError, parse_label, parse_instr,
     Parsing
<1>6. CASE Finish
  BY <1>1, <1>6 DEF Finish
<1> QED BY <1>3, <1>4, <1>5, <1>6 DEF AsmNext

LEMMA FileStep == AsmInv /\ FileInv /\ [AsmNext]_asmvars => FileInv'
BY WriteLineFile, OtherFile

LEMMA ListingSound == AsmInv /\ FileInv => ListingMatchesFile
<1> SUFFICES ASSUME AsmInv, FileInv, phase = "done", NEW k \in DOMAIN lines,
                    lines[k].type = "INS", lines[k].addr < LISTING, ~Covered(k),
                    NEW i \in DOMAIN Listing[k].codes
             PROVE  /\ Listing[k].addr + i + 1 \in DOMAIN file
                    /\ file[Listing[k].addr + i + 1] = Listing[k].codes[i]
  BY DEF ListingMatchesFile
<1>1. lines \in Seq(Line) /\ at > Len(lines) /\ at \in Nat
  BY DEF AsmInv, AsmTypeOK, FileInv
<1>2. \A j \in DOMAIN lines : j < at
  BY <1>1
<1>3. lines[k].addr >= 0 /\ InFile(k)
  <2>1. ~CoveredBefore(k, at)
    BY DEF CoveredBefore, Covered, Overlap
  <2> QED BY <1>2, <2>1 DEF FileInv
<1>4. lines[k].addr % LISTING = lines[k].addr
  <2>1. lines[k] \in Line
    BY <1>1
  <2>2. lines[k].addr \in Int /\ LISTING \in Nat
    BY <2>1, Widths, SourceAssumption DEF Line, Long
  <2>3. LISTING \in Nat \ {0}
    BY <1>3, <2>2
  <2> QED BY <1>3, <2>2, <2>3, ModSmall
<1>5. Listing[k] = [addr |-> lines[k].addr % LISTING,
                    codes |-> [x \in 0 .. (lines[k].bytes - 1) |-> lines[k].codes[x]]]
  BY DEF Listing
<1>6. i \in 0 .. (lines[k].bytes - 1) /\ Listing[k].codes[i] = lines[k].codes[i]
      /\ Listing[k].addr = lines[k].addr
  BY <1>4, <1>5
<1> QED BY <1>3, <1>6 DEF InFile

-----------------------------------------------------------------------------
(* The two programs together.                                              *)

Y64Inv == AsmInv /\ SymInv /\ FileInv /\ SimTypeOK

LEMMA InitInv == Init => Y64Inv
<1>1. AsmInit => FileInv
  BY DEF AsmInit, FileInv
<1> QED BY <1>1, AsmInitInv, SymInit, SimInitType DEF Init, Y64Inv

LEMMA SimulateType ==
  ASSUME Y64Inv, Simulate
  PROVE  SimTypeOK' /\ AsmInv' /\ SymInv' /\ FileInv'
<1>1. file \in Seq(Byte)
  BY DEF Y64Inv, AsmInv, AsmTypeOK, Simulate
<1>2. SimTypeOK'
  BY <1>1, LoadType, NextiType, ReportType DEF Simulate, Y64Inv
<1>3. AsmInv' /\ SymInv' /\ FileInv'
  BY AsmStep, SymStep, FileStep DEF Simulate, Y64Inv
<1> QED BY <1>2, <1>3

LEMMA StepInv == Y64Inv /\ [Next]_vars => Y64Inv'
<1> SUFFICES ASSUME Y64Inv, [Next]_vars PROVE Y64Inv'
  OBVIOUS
<1>1. ASSUME UNCHANGED simvars PROVE SimTypeOK'
  BY <1>1 DEF simvars, machine, SimTypeOK, Y64Inv
<1>2. CASE Assemble
  BY <1>1, <1>2, AsmStep, SymStep, FileStep DEF Assemble, Y64Inv
<1>3. CASE Simulate
  BY <1>3, SimulateType DEF Y64Inv
<1>4. CASE UNCHANGED vars
  BY <1>1, <1>4, AsmStep, SymStep, FileStep DEF vars, Y64Inv
<1> QED BY <1>2, <1>3, <1>4 DEF Next

LEMMA Inductive == Spec => []Y64Inv
BY InitInv, StepInv, PTL DEF Spec

(***************************************************************************)
(* Longs stay longs and bytes stay bytes, whatever the width: the codes of *)
(* a line, the symbols, the file, the registers, the memory and the report *)
(* (parse_line, relocate, binfile, load_binfile, nexti, diff_mem).         *)
(***************************************************************************)
THEOREM TypesCorrect == Spec => []TypeOK
<1>1. Y64Inv => TypeOK
  BY DEF Y64Inv, AsmInv, TypeOK
<1> QED BY <1>1, Inductive, PTL

\* A step of the machine that stops it is a step of nexti.
LEMMA StopIsNexti ==
  ASSUME Y64Inv, [Next]_vars, stat = "AOK", stat' # stat
  PROVE  nexti
<1>1. ~UNCHANGED simvars
  BY DEF simvars
<1>2. Simulate
  BY <1>1 DEF Next, Assemble, vars
<1> QED BY <1>2 DEF Simulate, Load, Report

(***************************************************************************)
(* An instruction that stops the machine leaves no trace but the %rsp that *)
(* call and pushq have moved (nexti).                                      *)
(***************************************************************************)
THEOREM FailedStepsHarmless == Spec => FailedStepIsHarmless
<1>1. Y64Inv /\ [Next]_vars =>
        [stat = "AOK" /\ stat' # "AOK" =>
           /\ pc' = pc /\ m' = m /\ cc' = cc
           /\ \A i \in RegId : r'[i] # r[i] => i = REG_RSP /\ icode \in {I_CALL, I_PUSHQ}]_vars
  BY StopIsNexti, FailedStep DEF Y64Inv
<1> QED BY <1>1, Inductive, PTL DEF Spec, FailedStepIsHarmless

(***************************************************************************)
(* After subq the conditions tell how the operands compare just when their *)
(* low halves do, which all ints but one pair satisfy, whatever the widths *)
(* of int and long (compute_cc and cond_doit).                             *)
(***************************************************************************)
THEOREM ConditionsCorrect == Spec => ConditionsTellOrder
<1>1. ASSUME Y64Inv, Alu, ifun = A_SUB
      PROVE  LET A == Reg(raid)
                 B == Reg(rbid)
             IN  /\ {A, B} \subseteq Int32 /\ ~(A = -IntHalf /\ B = 0) => Compares(cc', B, A)
                 /\ Compares(cc', B, A) <=> (LowLess(B, A) <=> B < A)
  BY <1>1, Subtraction DEF Y64Inv
<1>2. Y64Inv /\ [Next]_vars =>
        [Alu /\ ifun = A_SUB =>
           LET A == Reg(raid)
               B == Reg(rbid)
           IN  /\ {A, B} \subseteq Int32 /\ ~(A = -IntHalf /\ B = 0) => Compares(cc', B, A)
               /\ Compares(cc', B, A) <=> (LowLess(B, A) <=> B < A)]_vars
  BY <1>1
<1> QED BY <1>2, Inductive, PTL DEF Spec, ConditionsTellOrder

(***************************************************************************)
(* There is no .bin file unless every name that is used labels exactly one *)
(* place, whatever the source (add_symbol, relocate and main).             *)
(***************************************************************************)
THEOREM FilesResolved == Spec => []NoFileUnresolved
<1>1. Y64Inv => NoFileUnresolved
  BY SymbolsResolved DEF Y64Inv
<1> QED BY <1>1, Inductive, PTL

(***************************************************************************)
(* The listing shows what is in the file, whatever the source: a line with *)
(* an address of three digits that no later line covers is found in the    *)
(* file at the address printed (print_line and binfile).                   *)
(***************************************************************************)
THEOREM ListingsMatch == Spec => []ListingMatchesFile
<1>1. Y64Inv => ListingMatchesFile
  BY ListingSound DEF Y64Inv
<1> QED BY <1>1, Inductive, PTL

-----------------------------------------------------------------------------
(***************************************************************************)
(* A long is the number of its bytes: FromBytes and ByteOf are inverses.   *)
(***************************************************************************)
\* A quotient is known by the remainder it leaves.
LEMMA DivIs ==
  \A d \in Nat \ {0} : \A q, s \in Int : 0 <= s /\ s < d => (d * q + s) \div d = q
BY Z3

\* Dividing by P and then by 256 is dividing by 256 * P.
LEMMA DivDiv ==
  ASSUME NEW p \in Nat \ {0}, NEW v \in Int
  PROVE  v \div (256 * p) = (v \div p) \div 256
<1>1. PICK q \in Int, s \in 0 .. (p - 1) : v = p * q + s /\ v \div p = q
  BY Divided
<1>2. PICK u \in Int, t \in 0 .. 255 : q = 256 * u + t /\ q \div 256 = u
  <2>1. 256 \in Nat \ {0}
    OBVIOUS
  <2> QED BY <2>1, Divided
<1>3. v = (256 * p) * u + (p * t + s)
  BY <1>1, <1>2
<1>4. 0 <= p * t /\ p * t <= p * 255
  BY SMT
<1>5. p * t + s \in Int /\ 0 <= p * t + s /\ p * t + s < 256 * p /\ 256 * p \in Nat \ {0}
  BY <1>4
<1>6. v \div (256 * p) = u
  BY <1>3, <1>5, DivIs
<1> QED BY <1>1, <1>2, <1>6

\* A set that holds 0 and with each number the next one
LEMMA Climb ==
  ASSUME NEW Good, 0 \in Good, \A k \in 0 .. (LONG - 1) : k \in Good => k + 1 \in Good
  PROVE  \A k \in 0 .. LONG : k \in Good
<1> DEFINE Bad == (0 .. LONG) \ Good
<1>1. SUFFICES ASSUME Bad # {} PROVE FALSE
  OBVIOUS
<1>2. Bad \subseteq Nat
  BY Widths
<1>3. PICK k \in Bad : \A j \in Bad : k <= j
  BY <1>1, <1>2, Least
<1>4. k # 0 /\ k \in 0 .. LONG
  BY <1>3
<1>5. k - 1 \in 0 .. (LONG - 1) /\ k - 1 \in 0 .. LONG /\ (k - 1) + 1 = k /\ ~(k <= k - 1)
  BY <1>4, Widths
<1>6. k - 1 \in Good
  BY <1>3, <1>5
<1>7. (k - 1) + 1 \in Good
  BY <1>5, <1>6
<1> QED BY <1>3, <1>5, <1>7

\* The quotients of a number by the powers: each leaves one byte to the next.
LEMMA ByteStep ==
  ASSUME NEW v \in Int, NEW k \in 0 .. LONG
  PROVE  /\ v \div 256 ^ k \in Int /\ v \div 256 ^ (k + 1) \in Int
         /\ v \div 256 ^ k = 256 * (v \div 256 ^ (k + 1)) + ByteOf(v, k)
<1>1. 256 ^ k \in Nat \ {0} /\ 256 ^ (k + 1) = 256 * 256 ^ k /\ 256 \in Nat \ {0}
  BY Widths, PowerAssumption
<1> DEFINE p == 256 ^ k
           q == v \div p
<1>2. q \in Int
  BY <1>1, DivInt
<1>3. p \in Nat \ {0} /\ 256 ^ (k + 1) = 256 * p
  BY <1>1
<1>4. ByteOf(v, k) = q % 256
  BY DEF ByteOf
<1> HIDE DEF p
<1>5. v \div (256 * p) = q \div 256
  BY <1>3, DivDiv
<1> HIDE DEF q
<1>6. q \div 256 \in Int /\ q = 256 * (q \div 256) + (q % 256)
  <2>1. PICK u \in Int, t \in 0 .. (256 - 1) : q = 256 * u + t /\ q \div 256 = u /\ q % 256 = t
    BY <1>1, <1>2, Divided
  <2> QED BY <2>1
<1>7. v \div 256 ^ (k + 1) = q \div 256
  BY <1>3, <1>5
<1>8. /\ q \in Int /\ v \div 256 ^ (k + 1) \in Int
      /\ q = 256 * (v \div 256 ^ (k + 1)) + ByteOf(v, k)
  BY <1>2, <1>4, <1>6, <1>7
<1> QED BY <1>8 DEF q, p

\* Numbers Q[0], Q[1], ... of which each leaves its lowest byte to the next.
Chain(Q, b) ==
  /\ Q \in [0 .. LONG -> Int]
  /\ \A k \in 0 .. (LONG - 1) : b[k] \in Byte /\ Q[k] = 256 * Q[k + 1] + b[k]

\* The number of the bytes, before it is cut to a long
Digits(b) ==
  Horner(b, 0, Horner(b, 1, Horner(b, 2, Horner(b, 3,
  Horner(b, 4, Horner(b, 5, Horner(b, 6, Horner(b, 7, 0))))))))

LEMMA ChainBytes ==
  ASSUME NEW Q, NEW b, Chain(Q, b)
  PROVE  \A k \in 0 .. (LONG - 1) : ByteOf(Q[0], k) = b[k]
<1> DEFINE v == Q[0]
           Good == {k \in 0 .. LONG : v \div 256 ^ k = Q[k]}
<1>1. v \in Int /\ v \div 256 ^ 0 = v
  <2>1. v \in Int /\ 256 ^ 0 = 1
    BY Widths, PowerAssumption DEF Chain
  <2>2. \A n \in Int : n \div 1 = n
    BY Z3
  <2> QED BY <2>1, <2>2
<1>2. 0 \in Good
  BY <1>1, Widths
<1> HIDE DEF v
<1>3. ASSUME NEW k \in 0 .. (LONG - 1), v \div 256 ^ k = Q[k]
      PROVE  v \div 256 ^ (k + 1) = Q[k + 1] /\ ByteOf(v, k) = b[k]
  <2>1. k \in 0 .. LONG /\ Q[k + 1] \in Int /\ Q[k] \in Int
    BY Widths DEF Chain
  <2>2. b[k] \in 0 .. 255 /\ Q[k] = 256 * Q[k + 1] + b[k]
    BY DEF Chain, Byte
  <2>3. ByteOf(v, k) \in 0 .. 255
    BY <1>1, <2>1, ByteOfType DEF Byte
  <2>4. /\ v \div 256 ^ (k + 1) \in Int
        /\ Q[k] = 256 * (v \div 256 ^ (k + 1)) + ByteOf(v, k)
    BY <1>1, <1>3, <2>1, ByteStep
  <2> DEFINE u == v \div 256 ^ (k + 1)
             w == Q[k + 1]
             x == ByteOf(v, k)
             y == b[k]
  <2>5. /\ u \in Int /\ w \in Int /\ x \in 0 .. 255 /\ y \in 0 .. 255
        /\ 256 * u + x = 256 * w + y
    BY <2>1, <2>2, <2>3, <2>4
  <2> HIDE DEF u, w, x, y
  <2>6. u = w /\ x = y
    BY <2>5
  <2> QED BY <2>6 DEF u, w, x, y
<1>4. \A k \in 0 .. (LONG - 1) : k \in Good => k + 1 \in Good
  BY <1>3, Widths
<1>5. \A k \in 0 .. LONG : k \in Good
  <2> HIDE DEF Good
  <2> QED BY <1>2, <1>4, Climb
<1>6. \A k \in 0 .. (LONG - 1) : ByteOf(v, k) = b[k]
  BY <1>3, <1>5, Widths
<1> QED BY <1>6 DEF v

\* The number of the bytes lies below the next power, and what is in front of it counts
\* in multiples of that.
LEMMA ChainRange ==
  ASSUME NEW Q, NEW b, Chain(Q, b)
  PROVE  /\ Q[0] \in Int /\ Q[LONG] \in Int
         /\ 0 <= Q[0] - 256 ^ LONG * Q[LONG] /\ Q[0] - 256 ^ LONG * Q[LONG] < 256 ^ LONG
<1> DEFINE Good == {k \in 0 .. LONG : /\ 0 <= Q[0] - 256 ^ k * Q[k]
                                      /\ Q[0] - 256 ^ k * Q[k] < 256 ^ k}
<1>1. \A k \in 0 .. LONG : Q[k] \in Int
  BY DEF Chain
<1>2. 0 \in Good
  BY <1>1, PowerAssumption, Widths
<1>3. ASSUME NEW k \in 0 .. (LONG - 1), k \in Good PROVE k + 1 \in Good
  <2> DEFINE p == 256 ^ k
             n == Q[0]
             x == Q[k]
             y == Q[k + 1]
             d == b[k]
  <2>1. p \in Nat \ {0} /\ 256 ^ (k + 1) = 256 * p
    BY PowerAssumption, Widths
  <2>2. n \in Int /\ x \in Int /\ y \in Int /\ d \in 0 .. 255 /\ x = 256 * y + d
    BY <1>1, Widths DEF Chain, Byte
  <2>3. 0 <= n - p * x /\ n - p * x < p
    BY <1>3
  <2> HIDE DEF p, n, x, y, d
  <2>4. p * x = (256 * p) * y + p * d /\ p * d \in Int /\ 0 <= p * d /\ p * d <= 255 * p
    BY <2>1, <2>2
  <2>5. p * x \in Int /\ (256 * p) * y \in Int
    BY <2>1, <2>2
  <2>6. 0 <= n - (256 * p) * y /\ n - (256 * p) * y < 256 * p
    BY <2>1, <2>2, <2>3, <2>4, <2>5
  <2>7. 0 <= n - 256 ^ (k + 1) * y /\ n - 256 ^ (k + 1) * y < 256 ^ (k + 1)
    BY <2>1, <2>6
  <2> QED BY <2>7, Widths DEF n, y
<1>4. LONG \in Good
  <2> HIDE DEF Good
  <2> QED BY <1>2, <1>3, Climb, Widths
<1> QED BY <1>1, <1>4, Widths

LEMMA ChainDiff ==
  ASSUME NEW Q, NEW T, NEW b, Chain(Q, b), Chain(T, b)
  PROVE  Q[0] - T[0] = 256 ^ LONG * (Q[LONG] - T[LONG])
<1> DEFINE Good == {k \in 0 .. LONG : Q[0] - T[0] = 256 ^ k * (Q[k] - T[k])}
<1>1. \A k \in 0 .. LONG : Q[k] \in Int /\ T[k] \in Int
  BY DEF Chain
<1>2. 0 \in Good
  BY <1>1, PowerAssumption, Widths
<1>3. ASSUME NEW k \in 0 .. (LONG - 1), k \in Good PROVE k + 1 \in Good
  <2> DEFINE p == 256 ^ k
             n == Q[0] - T[0]
             x == Q[k] - T[k]
             y == Q[k + 1] - T[k + 1]
  <2>1. p \in Nat \ {0} /\ 256 ^ (k + 1) = 256 * p
    BY PowerAssumption, Widths
  <2>2. x = 256 * y /\ x \in Int /\ y \in Int
    <3>1. /\ b[k] \in 0 .. 255 /\ Q[k] = 256 * Q[k + 1] + b[k]
          /\ T[k] = 256 * T[k + 1] + b[k]
      BY DEF Chain, Byte
    <3> QED BY <1>1, <3>1, Widths
  <2>3. n = p * x
    BY <1>3
  <2> HIDE DEF p, n, x, y
  <2>4. n = (256 * p) * y
    BY <2>1, <2>2, <2>3
  <2>5. n = 256 ^ (k + 1) * y
    BY <2>1, <2>4
  <2> QED BY <2>5, Widths DEF n, y
<1>4. LONG \in Good
  <2> HIDE DEF Good
  <2> QED BY <1>2, <1>3, Climb, Widths
<1> QED BY <1>4

LEMMA ChainExists ==
  ASSUME NEW b, \A k \in 0 .. (LONG - 1) : b[k] \in Byte, NEW z \in Int
  PROVE  \E Q : Chain(Q, b) /\ Q[LONG] = z /\ (z = 0 => Q[0] = Digits(b))
<1> DEFINE G(k, rest) == IF k < LONG THEN b[k] + 256 * rest ELSE z
           g8 == z
           g7 == G(7, g8)
           g6 == G(6, g7)
           g5 == G(5, g6)
           g4 == G(4, g5)
           g3 == G(3, g4)
           g2 == G(2, g3)
           g1 == G(1, g2)
           g0 == G(0, g1)
           Q == [k \in 0 .. LONG |-> <<g0, g1, g2, g3, g4, g5, g6, g7, g8>>[k + 1]]
<1>1. ASSUME NEW k \in 0 .. 7, NEW rest \in Int
      PROVE  G(k, rest) \in Int /\ (k < LONG => G(k, rest) = 256 * rest + b[k])
                                /\ (~(k < LONG) => G(k, rest) = z)
  <2>1. CASE k < LONG
    <3>1. b[k] \in 0 .. 255
      BY <2>1, Widths DEF Byte
    <3> QED BY <2>1, <3>1
  <2>2. CASE ~(k < LONG)
    BY <2>2
  <2> QED BY <2>1, <2>2
<1>2. z = 0 => g0 = Digits(b)
  BY DEF Digits, Horner
<1> HIDE DEF G
<1>3. g8 \in Int /\ g8 = z
  OBVIOUS
<1> HIDE DEF g8
<1>4. g7 \in Int /\ (7 < LONG => g7 = 256 * g8 + b[7]) /\ (~(7 < LONG) => g7 = z)
  BY <1>1, <1>3
<1> HIDE DEF g7
<1>5. g6 \in Int /\ (6 < LONG => g6 = 256 * g7 + b[6]) /\ (~(6 < LONG) => g6 = z)
  BY <1>1, <1>4
<1> HIDE DEF g6
<1>6. g5 \in Int /\ (5 < LONG => g5 = 256 * g6 + b[5]) /\ (~(5 < LONG) => g5 = z)
  BY <1>1, <1>5
<1> HIDE DEF g5
<1>7. g4 \in Int /\ (4 < LONG => g4 = 256 * g5 + b[4]) /\ (~(4 < LONG) => g4 = z)
  BY <1>1, <1>6
<1> HIDE DEF g4
<1>8. g3 \in Int /\ (3 < LONG => g3 = 256 * g4 + b[3]) /\ (~(3 < LONG) => g3 = z)
  BY <1>1, <1>7
<1> HIDE DEF g3
<1>9. g2 \in Int /\ (2 < LONG => g2 = 256 * g3 + b[2]) /\ (~(2 < LONG) => g2 = z)
  BY <1>1, <1>8
<1> HIDE DEF g2
<1>10. g1 \in Int /\ (1 < LONG => g1 = 256 * g2 + b[1]) /\ (~(1 < LONG) => g1 = z)
  BY <1>1, <1>9
<1> HIDE DEF g1
<1>11. g0 \in Int /\ (0 < LONG => g0 = 256 * g1 + b[0]) /\ (~(0 < LONG) => g0 = z)
  BY <1>1, <1>10
<1> HIDE DEF g0
<1>12. /\ 0 <= LONG => Q[0] = g0
       /\ 1 <= LONG => Q[1] = g1
       /\ 2 <= LONG => Q[2] = g2
       /\ 3 <= LONG => Q[3] = g3
       /\ 4 <= LONG => Q[4] = g4
       /\ 5 <= LONG => Q[5] = g5
       /\ 6 <= LONG => Q[6] = g6
       /\ 7 <= LONG => Q[7] = g7
       /\ 8 <= LONG => Q[8] = g8
  BY Widths
<1>13. \A k \in 0 .. LONG : Q[k] \in Int
  BY <1>3, <1>4, <1>5, <1>6, <1>7, <1>8, <1>9, <1>10, <1>11, Widths
<1>14. Q = [k \in 0 .. LONG |-> Q[k]]
  OBVIOUS
<1> HIDE DEF Q
<1>15. Q[LONG] = z /\ Q[0] = g0
  <2>1. CASE LONG = 1
    BY <2>1, <1>12, <1>3, <1>10
  <2>2. CASE LONG = 2
    BY <2>2, <1>12, <1>3, <1>9
  <2>3. CASE LONG = 3
    BY <2>3, <1>12, <1>3, <1>8
  <2>4. CASE LONG = 4
    BY <2>4, <1>12, <1>3, <1>7
  <2>5. CASE LONG = 5
    BY <2>5, <1>12, <1>3, <1>6
  <2>6. CASE LONG = 6
    BY <2>6, <1>12, <1>3, <1>5
  <2>7. CASE LONG = 7
    BY <2>7, <1>12, <1>3, <1>4
  <2>8. CASE LONG = 8
    BY <2>8, <1>12, <1>3
  <2> QED BY <2>1, <2>2, <2>3, <2>4, <2>5, <2>6, <2>7, <2>8, Widths
<1>16. ASSUME NEW k \in 0 .. (LONG - 1) PROVE Q[k] = 256 * Q[k + 1] + b[k]
  <2>0. k \in 0 .. 7 /\ k < LONG /\ k + 1 <= LONG
    BY Widths
  <2>1. CASE k = 0
    <3>1. Q[0] = g0 /\ Q[1] = g1 /\ k + 1 = 1
      BY <2>0, <2>1, <1>12, Widths
    <3>2. g0 = 256 * g1 + b[0]
      BY <2>0, <2>1, <1>11
    <3> QED BY <2>1, <3>1, <3>2
  <2>2. CASE k = 1
    <3>1. Q[1] = g1 /\ Q[2] = g2 /\ k + 1 = 2
      BY <2>0, <2>2, <1>12, Widths
    <3>2. g1 = 256 * g2 + b[1]
      BY <2>0, <2>2, <1>10
    <3> QED BY <2>2, <3>1, <3>2
  <2>3. CASE k = 2
    <3>1. Q[2] = g2 /\ Q[3] = g3 /\ k + 1 = 3
      BY <2>0, <2>3, <1>12, Widths
    <3>2. g2 = 256 * g3 + b[2]
      BY <2>0, <2>3, <1>9
    <3> QED BY <2>3, <3>1, <3>2
  <2>4. CASE k = 3
    <3>1. Q[3] = g3 /\ Q[4] = g4 /\ k + 1 = 4
      BY <2>0, <2>4, <1>12, Widths
    <3>2. g3 = 256 * g4 + b[3]
      BY <2>0, <2>4, <1>8
    <3> QED BY <2>4, <3>1, <3>2
  <2>5. CASE k = 4
    <3>1. Q[4] = g4 /\ Q[5] = g5 /\ k + 1 = 5
      BY <2>0, <2>5, <1>12, Widths
    <3>2. g4 = 256 * g5 + b[4]
      BY <2>0, <2>5, <1>7
    <3> QED BY <2>5, <3>1, <3>2
  <2>6. CASE k = 5
    <3>1. Q[5] = g5 /\ Q[6] = g6 /\ k + 1 = 6
      BY <2>0, <2>6, <1>12, Widths
    <3>2. g5 = 256 * g6 + b[5]
      BY <2>0, <2>6, <1>6
    <3> QED BY <2>6, <3>1, <3>2
  <2>7. CASE k = 6
    <3>1. Q[6] = g6 /\ Q[7] = g7 /\ k + 1 = 7
      BY <2>0, <2>7, <1>12, Widths
    <3>2. g6 = 256 * g7 + b[6]
      BY <2>0, <2>7, <1>5
    <3> QED BY <2>7, <3>1, <3>2
  <2>8. CASE k = 7
    <3>1. Q[7] = g7 /\ Q[8] = g8 /\ k + 1 = 8
      BY <2>0, <2>8, <1>12, Widths
    <3>2. g7 = 256 * g8 + b[7]
      BY <2>0, <2>8, <1>4
    <3> QED BY <2>8, <3>1, <3>2
  <2> QED BY <2>0, <2>1, <2>2, <2>3, <2>4, <2>5, <2>6, <2>7, <2>8
<1>17. Chain(Q, b)
  BY <1>13, <1>14, <1>16 DEF Chain
<1> QED BY <1>2, <1>15, <1>17

LEMMA Turn == 2 * LongHalf = 256 ^ LONG
<1>1. LONG - 1 \in 0 .. LONG /\ (LONG - 1) + 1 = LONG
  BY Widths
<1>2. 256 ^ ((LONG - 1) + 1) = 256 * 256 ^ (LONG - 1) /\ 256 ^ (LONG - 1) \in Nat
  BY <1>1, PowerAssumption, Widths
<1>3. 256 ^ LONG = 256 * 256 ^ (LONG - 1)
  BY <1>1, <1>2
<1> QED BY <1>2, <1>3 DEF LongHalf

LEMMA DigitsFacts ==
  ASSUME NEW b, \A k \in 0 .. (LONG - 1) : b[k] \in Byte
  PROVE  /\ Digits(b) \in 0 .. (2 * LongHalf - 1)
         /\ FromBytes(b) = IF Digits(b) < LongHalf THEN Digits(b) ELSE Digits(b) - 2 * LongHalf
<1>1. PICK T : Chain(T, b) /\ T[LONG] = 0 /\ T[0] = Digits(b)
  BY ChainExists
<1>2. T[0] \in Int /\ 0 <= T[0] - 256 ^ LONG * T[LONG] /\ T[0] - 256 ^ LONG * T[LONG] < 256 ^ LONG
  BY <1>1, ChainRange
<1>3. Digits(b) \in 0 .. (2 * LongHalf - 1)
  BY <1>1, <1>2, Turn, Widths
<1>4. FromBytes(b) = ToLong(Digits(b))
  BY DEF FromBytes, Digits
<1> DEFINE h == LongHalf
           d == 2 * h
           x == Digits(b)
           n == x + h
<1>5. d \in Nat \ {0} /\ h \in Nat \ {0} /\ n \in Int /\ x \in 0 .. (d - 1)
  BY <1>3, Widths
<1>6. ToLong(x) = (n % d) - h
  BY DEF ToLong
<1> HIDE DEF x, h
<1>7. CASE x < h
  <2>1. 0 <= n /\ n < d
    BY <1>5, <1>7
  <2>2. n % d = n
    BY <1>5, <2>1, ModSmall
  <2> QED BY <1>4, <1>5, <1>6, <1>7, <2>2, <1>3 DEF x, h
<1>8. CASE ~(x < h)
  <2>1. d <= n /\ n < 2 * d
    BY <1>5, <1>8
  <2>2. n % d = n - d
    BY <1>5, <2>1, ModUp
  <2>3. ToLong(x) = x - d
    BY <1>5, <1>6, <2>2
  <2> QED BY <1>4, <1>8, <2>3, <1>3 DEF x, h
<1> QED BY <1>3, <1>7, <1>8 DEF x, h

\* The bytes of the long that was made of bytes are these bytes.
LEMMA BytesBack ==
  ASSUME NEW b, \A k \in 0 .. (LONG - 1) : b[k] \in Byte
  PROVE  \A k \in 0 .. (LONG - 1) : ByteOf(FromBytes(b), k) = b[k]
<1>1. PICK T : Chain(T, b) /\ T[LONG] = 0 /\ T[0] = Digits(b)
  BY ChainExists
<1>2. CASE Digits(b) < LongHalf
  <2>1. FromBytes(b) = T[0]
    BY <1>1, <1>2, DigitsFacts
  <2> QED BY <1>1, <2>1, ChainBytes
<1>3. CASE ~(Digits(b) < LongHalf)
  <2>1. PICK Q : Chain(Q, b) /\ Q[LONG] = -1
    BY ChainExists
  <2>2. Q[0] - T[0] = 256 ^ LONG * (Q[LONG] - T[LONG])
    BY <1>1, <2>1, ChainDiff
  <2>3. Q[0] \in Int /\ T[0] \in Int
    BY <1>1, <2>1, Widths DEF Chain
  <2>4. Q[0] = T[0] - 2 * LongHalf
    BY <1>1, <2>1, <2>2, <2>3, Turn, Widths
  <2>5. FromBytes(b) = Q[0]
    BY <1>1, <1>3, <2>4, DigitsFacts
  <2> QED BY <2>1, <2>5, ChainBytes
<1> QED BY <1>2, <1>3

\* The long that is made of the bytes of a long is this long.
LEMMA LongBack ==
  ASSUME NEW v \in Long, NEW b, \A k \in 0 .. (LONG - 1) : b[k] = ByteOf(v, k)
  PROVE  FromBytes(b) = v
<1>1. v \in Int
  BY Widths DEF Long
<1>2. \A k \in 0 .. (LONG - 1) : b[k] \in Byte
  BY <1>1, ByteOfType, Widths
<1> DEFINE Q == [k \in 0 .. LONG |-> v \div 256 ^ k]
<1>3. Chain(Q, b)
  <2>1. \A k \in 0 .. LONG : Q[k] \in Int
    BY <1>1, ByteStep
  <2>2. ASSUME NEW k \in 0 .. (LONG - 1) PROVE Q[k] = 256 * Q[k + 1] + b[k]
    <3>1. k \in 0 .. LONG /\ k + 1 \in 0 .. LONG
      BY Widths
    <3>2. v \div 256 ^ k = 256 * (v \div 256 ^ (k + 1)) + ByteOf(v, k)
      BY <1>1, <3>1, ByteStep
    <3> QED BY <3>1, <3>2
  <2>3. Q = [k \in 0 .. LONG |-> Q[k]]
    OBVIOUS
  <2> HIDE DEF Q
  <2> QED BY <1>2, <2>1, <2>2, <2>3 DEF Chain
<1>4. Q[0] = v
  <2>1. 256 ^ 0 = 1 /\ 0 \in 0 .. LONG
    BY Widths, PowerAssumption
  <2>2. \A n \in Int : n \div 1 = n
    BY Z3
  <2> QED BY <1>1, <2>1, <2>2
<1> HIDE DEF Q
<1>5. PICK T : Chain(T, b) /\ T[LONG] = 0 /\ T[0] = Digits(b)
  BY <1>2, ChainExists
<1>6. Q[0] - T[0] = 256 ^ LONG * (Q[LONG] - T[LONG]) /\ Q[LONG] \in Int
  BY <1>3, <1>5, ChainDiff, ChainRange
<1> DEFINE d == 256 ^ LONG
           z == Q[LONG]
           x == Digits(b)
<1>7. /\ d \in Nat \ {0} /\ z \in Int /\ x \in 0 .. (d - 1) /\ v - x = d * z
      /\ d = 2 * LongHalf /\ LongHalf \in Nat \ {0}
  BY <1>1, <1>2, <1>4, <1>5, <1>6, DigitsFacts, Turn, Widths
<1>8. FromBytes(b) = IF x < LongHalf THEN x ELSE x - d
  BY <1>2, DigitsFacts, Turn
<1>9. -LongHalf <= v /\ v < LongHalf
  BY Widths DEF Long
<1> HIDE DEF d, z, x
<1>10. z < 1 /\ z > -2
  <2>1. ASSUME z >= 1 PROVE FALSE
    <3>1. d * z >= d
      BY <1>7, <2>1
    <3> QED BY <1>1, <1>7, <1>9, <3>1
  <2>2. ASSUME z <= -2 PROVE FALSE
    <3>1. d * z <= -2 * d
      BY <1>7, <2>2
    <3> QED BY <1>1, <1>7, <1>9, <3>1
  <2> QED BY <1>7, <2>1, <2>2
<1>11. CASE z = 0
  BY <1>1, <1>7, <1>8, <1>9, <1>11
<1>12. CASE z = -1
  BY <1>1, <1>7, <1>8, <1>9, <1>12
<1> QED BY <1>7, <1>10, <1>11, <1>12

\* The bytes of a long in memory
LEMMA LongAtBytes ==
  ASSUME NEW mem \in [Address -> Byte], NEW a \in Int, InMem(a)
  PROVE  /\ \A k \in 0 .. (LONG - 1) : a + k \in Address /\ ByteOf(LongAt(mem, a), k) = mem[a + k]
         /\ LongAt(mem, a) \in Long
<1> DEFINE b == [i \in 0 .. (LONG - 1) |-> mem[a + i]]
<1>1. \A k \in 0 .. (LONG - 1) : a + k \in Address
  BY MemFacts DEF InMem, Address
<1>2. \A k \in 0 .. (LONG - 1) : b[k] \in Byte /\ b[k] = mem[a + k]
  BY <1>1
<1>3. LongAt(mem, a) = FromBytes(b)
  BY DEF LongAt
<1> HIDE DEF b
<1> QED BY <1>1, <1>2, <1>3, BytesBack, LongAtType

-----------------------------------------------------------------------------
(***************************************************************************)
(* The report.                                                             *)
(***************************************************************************)
LEMMA WholeMultiple ==
  \A l \in 1 .. 8 : \A a, n \in Nat : a % l = 0 => (n * a) % l = 0
<1> TAKE l \in 1 .. 8
<1> TAKE a, n \in Nat
<1> HAVE a % l = 0
<1>1. PICK q \in Int, s \in 0 .. (l - 1) : a = l * q + s /\ a % l = s
  BY Divided
<1>2. a = l * q
  BY <1>1
<1>3. n * a = l * (n * q) /\ n * q \in Int /\ n * a \in Int
  BY <1>1, <1>2
<1>4. PICK u \in Int, t \in 0 .. (l - 1) : n * a = l * u + t /\ (n * a) % l = t /\ (n * a) \div l = u
  BY <1>3, Divided
<1>5. (l * (n * q) + 0) \div l = n * q
  BY <1>3, DivIs
<1>6. u = n * q
  BY <1>3, <1>4, <1>5
<1>7. t = 0
  BY <1>3, <1>4, <1>6
<1> QED BY <1>4, <1>7

\* The memory is made of whole longs.
LEMMA WholeLongs == MemLen % LONG = 0
<1> DEFINE n == (MEM_SIZE + BLK_SIZE - 1) \div BLK_SIZE
<1>1. /\ MEM_SIZE \in Nat \ {0} /\ BLK_SIZE \in Nat \ {0} /\ BLK_SIZE % LONG = 0
      /\ LONG \in 1 .. 8
  BY MemAssumption, Widths
<1>2. n \in Nat
  BY <1>1, Z3
<1>3. MemLen = n * BLK_SIZE
  BY DEF MemLen, init_mem
<1> HIDE DEF n
<1>4. BLK_SIZE \in Nat
  BY <1>1
<1> QED BY <1>1, <1>2, <1>3, <1>4, WholeMultiple

\* The long that an address belongs to
At(x) == LONG * (x \div LONG)

LEMMA AtFacts ==
  ASSUME NEW x \in Address
  PROVE  /\ At(x) \in Address /\ At(x) % LONG = 0 /\ InMem(At(x))
         /\ x \in At(x) .. (At(x) + LONG - 1) /\ x - At(x) \in 0 .. (LONG - 1)
         /\ \A p \in Address : p % LONG = 0 /\ x \in p .. (p + LONG - 1) => p = At(x)
<1>1. LONG \in Nat \ {0} /\ MemLen \in Nat \ {0} /\ x \in Nat /\ x < MemLen
  BY MemFacts DEF Address
<1> DEFINE l == LONG
<1>6. l \in Nat \ {0} /\ At(x) = l * (x \div l) /\ MemLen \in Int /\ x \in Int /\ MemLen % l = 0
  BY <1>1, WholeLongs DEF At
<1> HIDE DEF l
<1>2. PICK q \in Int, s \in 0 .. (l - 1) : x = l * q + s /\ x \div l = q
  BY <1>6, Divided
<1>3. At(x) = l * q /\ l * q \in Int
  BY <1>6, <1>2
<1>4. PICK w \in Int, o \in 0 .. (l - 1) : MemLen = l * w + o /\ MemLen % l = o
  BY <1>6, Divided
<1>5. MemLen = l * w
  BY <1>6, <1>4
<1>7. q >= 0 /\ l * q >= 0
  <2>1. ASSUME q <= -1 PROVE FALSE
    <3>1. l * q <= l * (-1)
      BY <1>6, <2>1
    <3> QED BY <1>1, <1>2, <1>3, <1>6, <3>1
  <2>2. q >= 0
    BY <2>1
  <2> QED BY <1>6, <2>2
<1>8. l * q + l <= MemLen
  <2>1. ASSUME w <= q PROVE FALSE
    <3>1. l * w <= l * q
      BY <1>6, <2>1
    <3> QED BY <1>1, <1>2, <1>3, <1>5, <1>6, <3>1
  <2>2. q + 1 <= w
    BY <2>1
  <2>3. l * (q + 1) <= l * w
    BY <1>6, <2>2
  <2> QED BY <1>3, <1>5, <1>6, <2>3
<1>9. (l * q) % l = 0
  <2>1. PICK u \in Int, t \in 0 .. (l - 1) : /\ l * q = l * u + t /\ (l * q) % l = t
                                             /\ (l * q) \div l = u
    BY <1>3, <1>6, Divided
  <2>2. (l * q + 0) \div l = q
    BY <1>6, DivIs
  <2>3. u = q
    BY <1>3, <2>1, <2>2
  <2> QED BY <1>3, <2>1, <2>3
<1>10. ASSUME NEW p \in Address, p % l = 0, x \in p .. (p + l - 1) PROVE p = l * q
  <2>1. p \in Int
    BY MemFacts DEF Address
  <2>2. PICK u \in Int, t \in 0 .. (l - 1) : p = l * u + t /\ p % l = t
    <3>1. \E u \in Int : \E t \in 0 .. (l - 1) : p = l * u + t /\ p \div l = u /\ p % l = t
      BY <1>6, <2>1, Divided
    <3> QED BY <3>1
  <2>3. p = l * u
    BY <1>6, <1>10, <2>2
  <2>4. x = l * u + (x - p) /\ 0 <= x - p /\ x - p < l /\ x - p \in Int
    BY <1>1, <1>6, <1>10, <2>1, <2>3
  <2>5. (l * u + (x - p)) \div l = u
    BY <1>6, <2>4, DivIs
  <2>6. u = q
    BY <1>2, <2>4, <2>5
  <2> QED BY <2>3, <2>6
<1>11. l * q \in Address /\ InMem(l * q)
  BY <1>1, <1>3, <1>6, <1>7, <1>8, MemFacts DEF InMem, Address, l
<1>12. x \in (l * q) .. (l * q + l - 1) /\ x - l * q \in 0 .. (l - 1)
  BY <1>2, <1>3, <1>6
<1> QED BY <1>3, <1>9, <1>10, <1>11, <1>12 DEF l

\* What diff_mem lists
LEMMA DiffMem ==
  ASSUME NEW old \in [Address -> Byte], NEW new \in [Address -> Byte], NEW x \in Address
  PROVE  LET hit == {c \in diff_mem(old, new) : x \in c.at .. (c.at + LONG - 1)}
         IN  /\ Cardinality(hit) <= 1
             /\ new[x] = IF hit = {} THEN old[x]
                         ELSE LET c == CHOOSE c \in hit : TRUE IN ByteOf(c.new, x - c.at)
<1> DEFINE p == At(x)
           hit == {c \in diff_mem(old, new) : x \in c.at .. (c.at + LONG - 1)}
           e == [at |-> p, old |-> LongAt(old, p), new |-> LongAt(new, p)]
<1>1. /\ p \in Address /\ p % LONG = 0 /\ InMem(p) /\ p \in Int
      /\ x \in p .. (p + LONG - 1) /\ x - p \in 0 .. (LONG - 1) /\ p + (x - p) = x
  <2>1. /\ p \in Address /\ p % LONG = 0 /\ InMem(p)
        /\ x \in p .. (p + LONG - 1) /\ x - p \in 0 .. (LONG - 1)
    BY AtFacts
  <2> HIDE DEF p
  <2>2. p \in Int /\ x \in Int
    BY <2>1, MemFacts DEF Address
  <2> QED BY <2>1, <2>2
<1>2. /\ ByteOf(LongAt(old, p), x - p) = old[x]
      /\ ByteOf(LongAt(new, p), x - p) = new[x]
  BY <1>1, LongAtBytes
<1>3. ASSUME NEW c \in hit PROVE c = e /\ LongAt(old, p) # LongAt(new, p)
  <2>1. PICK q \in Address : /\ q % LONG = 0 /\ LongOr0(old, q) # LongOr0(new, q)
                             /\ c = [at |-> q, old |-> LongOr0(old, q), new |-> LongOr0(new, q)]
    BY <1>3 DEF diff_mem
  <2>2. q = p
    BY <1>3, <2>1, AtFacts
  <2> QED BY <1>1, <2>1, <2>2 DEF LongOr0
<1>4. ASSUME LongAt(old, p) # LongAt(new, p) PROVE e \in hit
  <2>1. e \in diff_mem(old, new)
    BY <1>1, <1>4 DEF diff_mem, LongOr0
  <2> QED BY <1>1, <2>1
<1> HIDE DEF p, e
<1>5. CASE LongAt(old, p) = LongAt(new, p)
  <2>1. hit = {}
    BY <1>3, <1>5
  <2> HIDE DEF hit
  <2>2. Cardinality(hit) <= 1
    BY <2>1, FS_EmptySet
  <2>3. new[x] = old[x]
    BY <1>2, <1>5
  <2> QED BY <2>1, <2>2, <2>3 DEF hit
<1>6. CASE LongAt(old, p) # LongAt(new, p)
  <2>1. hit = {e}
    BY <1>3, <1>4, <1>6
  <2> HIDE DEF hit
  <2>2. Cardinality(hit) = 1
    BY <2>1, FS_Singleton
  <2>3. (CHOOSE c \in hit : TRUE) = e
    BY <2>1
  <2>4. e.at = p /\ e.new = LongAt(new, p)
    BY DEF e
  <2>5. new[x] = LET c == CHOOSE c \in hit : TRUE IN ByteOf(c.new, x - c.at)
    BY <1>2, <2>3, <2>4
  <2>6. Cardinality(hit) <= 1 /\ hit # {}
    BY <2>1, <2>2
  <2> QED BY <2>5, <2>6 DEF hit
<1> QED BY <1>5, <1>6

\* A report that was made is the one of the state it was made in: the machine has
\* stopped for good.
ReportInv ==
  report # NoReport =>
    /\ stat \in Status /\ ~Looping
    /\ report.regs = diff_reg /\ report.mem = diff_mem(savem, m)

LEMMA ReportStep == ReportInv /\ [Next]_vars => ReportInv'
<1> SUFFICES ASSUME ReportInv, [Next]_vars PROVE ReportInv'
  OBVIOUS
<1>1. ASSUME UNCHANGED simvars PROVE ReportInv'
  BY <1>1 DEF simvars, machine, ReportInv, Looping, diff_reg, diff_mem, LongOr0, LongAt
<1>2. CASE \E f : Load(f)
  BY <1>2 DEF Load, ReportInv, Status
<1>3. CASE nexti
  <2>1. Looping
    BY <1>3 DEF nexti, BadFetch, Halt, Nop, Rrmovq, Irmovq, Rmmovq, Mrmovq, Alu, Jmp, Call, Ret,
                Pushq, Popq, BadInstr, Instr
  <2> QED BY <1>3, <2>1 DEF nexti, ReportInv
<1>4. CASE Report
  <2>1. /\ report'.regs = diff_reg /\ report'.mem = diff_mem(savem, m)
        /\ UNCHANGED <<machine, stat, step, max_steps, savem>> /\ stat \in Status /\ ~Looping
    BY <1>4 DEF Report
  <2> QED BY <2>1 DEF machine, ReportInv, Looping, diff_reg
<1> QED BY <1>1, <1>2, <1>3, <1>4 DEF Next, Assemble, Simulate, vars

LEMMA ReportAlways == Spec => []ReportInv
<1>1. Init => ReportInv
  BY DEF Init, SimInit, ReportInv
<1> QED BY <1>1, ReportStep, PTL DEF Spec

(***************************************************************************)
(* The registers and the longs that diff_reg and diff_mem print, applied   *)
(* to the state that was saved, give the state at the end.                 *)
(***************************************************************************)
THEOREM ReportsTellAll == Spec => []ReportTellsAll
<1>1. Y64Inv /\ ReportInv => ReportTellsAll
  <2> SUFFICES ASSUME Y64Inv, ReportInv, report # NoReport PROVE ReportTellsAll
    BY DEF ReportTellsAll
  <2>1. report.regs = diff_reg /\ report.mem = diff_mem(savem, m)
    BY DEF ReportInv
  <2>2. savem \in [Address -> Byte] /\ m \in [Address -> Byte]
    BY DEF Y64Inv, SimTypeOK
  <2>3. \A i \in RegId : r[i] # 0 <=> \E c \in report.regs : c.at = i /\ c.new = r[i]
    <3> TAKE i \in RegId
    <3> DEFINE c == [at |-> i, old |-> 0, new |-> r[i]]
    <3>1. r[i] # 0 => c \in report.regs /\ c.at = i /\ c.new = r[i]
      BY <2>1 DEF diff_reg
    <3>2. ASSUME NEW d \in report.regs, d.at = i PROVE r[i] # 0
      BY <2>1, <3>2 DEF diff_reg
    <3> QED BY <3>1, <3>2
  <2>4. \A x \in Address :
          LET hit == {c \in report.mem : x \in c.at .. (c.at + LONG - 1)}
          IN  /\ Cardinality(hit) <= 1
              /\ m[x] = IF hit = {} THEN savem[x]
                        ELSE LET c == CHOOSE c \in hit : TRUE IN ByteOf(c.new, x - c.at)
    <3> TAKE x \in Address
    <3> DEFINE d == diff_mem(savem, m)
               hit == {c \in d : x \in c.at .. (c.at + LONG - 1)}
    <3>1. /\ Cardinality(hit) <= 1
          /\ m[x] = IF hit = {} THEN savem[x]
                    ELSE LET c == CHOOSE c \in hit : TRUE IN ByteOf(c.new, x - c.at)
      BY <2>2, DiffMem
    <3>2. report.mem = d
      BY <2>1
    <3> HIDE DEF d
    <3> QED BY <3>1, <3>2
  <2> QED BY <2>3, <2>4 DEF ReportTellsAll
<1> QED BY <1>1, Inductive, ReportAlways, PTL

-----------------------------------------------------------------------------
(***************************************************************************)
(* The simulator implements the instruction set: what an instruction is.   *)
(***************************************************************************)
\* The module of the instruction set has its own names for what it shares.
LEMMA SameHalf == ISA!LongHalf = LongHalf /\ ISA!IntHalf = IntHalf
BY DEF ISA!LongHalf, LongHalf, ISA!IntHalf, IntHalf
LEMMA SameNames ==
  /\ ISA!RegId = RegId /\ ISA!REG_NONE = REG_NONE /\ ISA!REG_RSP = REG_RSP
  /\ ISA!Byte = Byte /\ ISA!Cell = Address /\ ISA!Int32 = Int32
BY SameHalf DEF ISA!RegId, RegId, ISA!REG_NONE, REG_NONE, ISA!REG_RSP, REG_RSP, ISA!Byte, Byte,
                ISA!Cell, Address, ISA!Int32, Int32
LEMMA SameNumbers ==
  /\ \A x : ISA!ToLong(x) = ToLong(x)
  /\ \A v, i : ISA!ByteOf(v, i) = ByteOf(v, i)
BY SameHalf DEF ISA!ToLong, ToLong, ISA!ByteOf, ByteOf
LEMMA SameBits ==
  \A x, y : ISA!BytesAnd(x, y) = BytesAnd(x, y) /\ ISA!BytesXor(x, y) = BytesXor(x, y)
<1>1. \A b, i, rest : ISA!Horner(b, i, rest) = Horner(b, i, rest)
  BY DEF ISA!Horner, Horner
<1>2. \A b : ISA!FromBytes(b) = FromBytes(b)
  BY <1>1, SameNumbers DEF ISA!FromBytes, FromBytes
<1> QED BY <1>2, SameNumbers DEF ISA!BytesAnd, BytesAnd, ISA!BytesXor, BytesXor

IsLow(mem, a, g) ==
  g = [i \in 0 .. LONG |-> IF i = 0 THEN 0 ELSE g[i - 1] + mem[a + i - 1] * 256 ^ (i - 1)]

\* A number that is added up from its lowest byte is the long in memory.
LEMMA NumberOfBytes ==
  ASSUME NEW mem, NEW a \in Int, \A k \in 0 .. (LONG - 1) : mem[a + k] \in Byte
  PROVE  ISA!Number64(mem, a) = LongAt(mem, a)
<1> DEFINE b == [i \in 0 .. (LONG - 1) |-> mem[a + i]]
<1>2. \A k \in 0 .. (LONG - 1) : b[k] \in Byte /\ b[k] = mem[a + k]
  OBVIOUS
<1>3. LongAt(mem, a) = FromBytes(b)
  BY DEF LongAt
<1> HIDE DEF b
<1>4. PICK T : Chain(T, b) /\ T[LONG] = 0 /\ T[0] = Digits(b)
  BY <1>2, ChainExists
<1>5. \A k \in 0 .. LONG : T[k] \in Int
  BY <1>4 DEF Chain
<1> DEFINE f == [k \in 0 .. LONG |-> T[0] - 256 ^ k * T[k]]
<1>6. f[0] = 0 /\ f[LONG] = Digits(b)
  <2>1. 0 \in 0 .. LONG /\ LONG \in 0 .. LONG /\ 256 ^ 0 = 1 /\ 256 ^ LONG \in Nat
    BY PowerAssumption, Widths
  <2>2. T[0] \in Int /\ 256 ^ LONG * T[LONG] = 0
    BY <1>4, <1>5, <2>1
  <2>3. f[0] = T[0] - 1 * T[0] /\ f[LONG] = T[0] - 256 ^ LONG * T[LONG]
    BY <2>1
  <2> QED BY <1>4, <2>2, <2>3
<1>7. ASSUME NEW k \in 0 .. (LONG - 1) PROVE f[k + 1] = f[k] + mem[a + k] * 256 ^ k
  <2> DEFINE p == 256 ^ k
             n == T[0]
             x == T[k]
             y == T[k + 1]
             d == mem[a + k]
  <2>1. /\ p \in Nat \ {0} /\ 256 ^ (k + 1) = 256 * p
        /\ k \in 0 .. LONG /\ k + 1 \in 0 .. LONG
    BY PowerAssumption, Widths
  <2>2. n \in Int /\ x \in Int /\ y \in Int /\ d \in 0 .. 255 /\ x = 256 * y + d
    <3>1. b[k] \in Byte /\ x = 256 * y + b[k]
      BY <1>4 DEF Chain
    <3> QED BY <1>2, <1>5, <2>1, <3>1, Widths DEF Byte
  <2>3. f[k] = n - p * x /\ f[k + 1] = n - (256 * p) * y
    BY <2>1
  <2> HIDE DEF p, n, x, y, d, f
  <2>4. p * x = (256 * p) * y + d * p /\ p * x \in Int /\ (256 * p) * y \in Int /\ d * p \in Int
    BY <2>1, <2>2
  <2>5. f[k + 1] = f[k] + d * p
    BY <2>2, <2>3, <2>4
  <2> QED BY <2>5 DEF d, p
<1>8. IsLow(mem, a, f)
  <2>1. ASSUME NEW i \in 0 .. LONG, i # 0
        PROVE  f[i] = f[i - 1] + mem[a + i - 1] * 256 ^ (i - 1)
    <3>1. i - 1 \in 0 .. (LONG - 1) /\ (i - 1) + 1 = i /\ a + i - 1 = a + (i - 1)
      BY <2>1, Widths
    <3> HIDE DEF f
    <3>2. f[(i - 1) + 1] = f[i - 1] + mem[a + (i - 1)] * 256 ^ (i - 1)
      BY <1>7, <3>1
    <3> QED BY <3>1, <3>2
  <2>2. f = [i \in 0 .. LONG |-> f[i]]
    OBVIOUS
  <2> HIDE DEF f
  <2>3. \A i \in 0 .. LONG :
          f[i] = IF i = 0 THEN 0 ELSE f[i - 1] + mem[a + i - 1] * 256 ^ (i - 1)
    BY <1>6, <2>1
  <2> QED BY <2>2, <2>3 DEF IsLow
<1> HIDE DEF f
<1> DEFINE g == CHOOSE g : IsLow(mem, a, g)
<1>9. IsLow(mem, a, g)
  BY <1>8
<1>10. ISA!Number64(mem, a) = IF g[LONG] < LongHalf THEN g[LONG] ELSE g[LONG] - 2 * LongHalf
  BY SameHalf DEF ISA!Number64, IsLow
<1> HIDE DEF g
<1>11. g[LONG] = f[LONG]
  <2> DEFINE Good == {k \in 0 .. LONG : g[k] = f[k]}
  <2>1. \A h : IsLow(mem, a, h) => h[0] = 0
    BY Widths DEF IsLow
  <2>2. 0 \in Good
    BY <1>8, <1>9, <2>1, Widths
  <2>3. ASSUME NEW k \in 0 .. (LONG - 1), NEW h, IsLow(mem, a, h)
        PROVE  h[k + 1] = h[k] + mem[a + k] * 256 ^ k
    <3>1. k + 1 \in 0 .. LONG /\ k + 1 # 0 /\ (k + 1) - 1 = k /\ a + (k + 1) - 1 = a + k
      BY Widths
    <3>2. h[k + 1] = h[(k + 1) - 1] + mem[a + (k + 1) - 1] * 256 ^ ((k + 1) - 1)
      BY <2>3, <3>1 DEF IsLow
    <3> QED BY <3>1, <3>2
  <2>4. ASSUME NEW k \in 0 .. (LONG - 1), k \in Good PROVE k + 1 \in Good
    <3>1. g[k + 1] = f[k + 1]
      BY <1>8, <1>9, <2>3, <2>4
    <3> QED BY <3>1, Widths
  <2>5. LONG \in Good
    <3> HIDE DEF Good
    <3> QED BY <2>2, <2>4, Climb, Widths
  <2> QED BY <2>5
<1> QED BY <1>2, <1>3, <1>6, <1>10, <1>11, DigitsFacts

LEMMA NumberIs ==
  ASSUME NEW mem \in [Address -> Byte], NEW a \in Int, InMem(a)
  PROVE  ISA!Number64(mem, a) = LongAt(mem, a)
<1>1. \A k \in 0 .. (LONG - 1) : a + k \in Address
  BY MemFacts DEF InMem, Address
<1> QED BY <1>1, NumberOfBytes

\* The abstract sign, and what makes it tell the same as the flags.
Sgn(c) == IF c.zf THEN 0 ELSE IF c.sf # c.of THEN -1 ELSE 1
FlagsOK(c) == c \in CC /\ (c.zf => c.sf = c.of)

LEMMA Conditions ==
  ASSUME FlagsOK(cc), NEW fn \in Nibble, NEW name \in {"cmov", "jump"}
  PROVE  /\ ISA!Holds(ISA!Select(name, fn)) <=> cond_doit(cc, fn)
         /\ ISA!Select(name, fn) = "none" <=> fn > C_G
<1>1. cc.zf \in BOOLEAN /\ cc.sf \in BOOLEAN /\ cc.of \in BOOLEAN /\ (cc.zf => cc.sf = cc.of)
  BY DEF FlagsOK, CC
<1> DEFINE s == ISA!Select(name, fn)
<1>2. /\ fn = 0 => s = "yes"
      /\ fn = 1 => s = "le"
      /\ fn = 2 => s = "l"
      /\ fn = 3 => s = "e"
      /\ fn = 4 => s = "ne"
      /\ fn = 5 => s = "ge"
      /\ fn = 6 => s = "g"
      /\ fn > 6 => s = "none"
  BY DEF ISA!Select, ISA!Conds, ISA!Ops, Nibble
<1> HIDE DEF s
<1>3. /\ cond_doit(cc, 0)
      /\ cond_doit(cc, 1) <=> (cc.sf # cc.of \/ cc.zf)
      /\ cond_doit(cc, 2) <=> cc.sf # cc.of
      /\ cond_doit(cc, 3) <=> cc.zf
      /\ cond_doit(cc, 4) <=> ~cc.zf
      /\ cond_doit(cc, 5) <=> cc.sf = cc.of
      /\ cond_doit(cc, 6) <=> (cc.sf = cc.of /\ ~cc.zf)
      /\ fn > 6 => ~cond_doit(cc, fn)
  BY DEF cond_doit, C_YES, C_LE, C_L, C_E, C_NE, C_GE, C_G, Nibble
<1>4. /\ ISA!Holds("yes") /\ ~ISA!Holds("none")
      /\ ISA!Holds("le") <=> Sgn(cc) <= 0
      /\ ISA!Holds("l") <=> Sgn(cc) < 0
      /\ ISA!Holds("e") <=> Sgn(cc) = 0
      /\ ISA!Holds("ne") <=> Sgn(cc) # 0
      /\ ISA!Holds("ge") <=> Sgn(cc) >= 0
      /\ ISA!Holds("g") <=> Sgn(cc) > 0
  BY DEF ISA!Holds, Sgn
<1>5. /\ Sgn(cc) = 0 <=> cc.zf
      /\ Sgn(cc) < 0 <=> ~cc.zf /\ cc.sf # cc.of
      /\ Sgn(cc) > 0 <=> ~cc.zf /\ cc.sf = cc.of
      /\ Sgn(cc) <= 0 <=> cc.zf \/ cc.sf # cc.of
      /\ Sgn(cc) >= 0 <=> cc.zf \/ cc.sf = cc.of
  BY DEF Sgn
<1>6. (s = "none") <=> fn > 6
  BY <1>2 DEF Nibble
<1>7. ISA!Holds(s) <=> cond_doit(cc, fn)
  <2>1. CASE fn > 6
    BY <1>2, <1>3, <1>4, <2>1
  <2>2. CASE fn \in {0, 1, 2, 3}
    BY <1>1, <1>2, <1>3, <1>4, <1>5, <2>2
  <2>3. CASE fn \in {4, 5, 6}
    BY <1>1, <1>2, <1>3, <1>4, <1>5, <2>3
  <2> QED BY <2>1, <2>2, <2>3 DEF Nibble
<1> QED BY <1>6, <1>7 DEF s, C_G

LEMMA Shapes ==
  ASSUME NEW code \in Nibble, NEW name, name = ISA!Name(code)
  PROVE  /\ code = 0 => name = "halt"
         /\ code = 1 => name = "nop"
         /\ code = 2 => name = "cmov"
         /\ code = 3 => name = "irmovq"
         /\ code = 4 => name = "rmmovq"
         /\ code = 5 => name = "mrmovq"
         /\ code = 6 => name = "alu"
         /\ code = 7 => name = "jump"
         /\ code = 8 => name = "call"
         /\ code = 9 => name = "ret"
         /\ code = 10 => name = "pushq"
         /\ code = 11 => name = "popq"
         /\ code > 11 => name = "bad"
         /\ HasRegs(code) <=> ISA!WithRegs(name)
         /\ HasImm(code) <=> ISA!WithImm(name)
<1>1. /\ code = 0 => name = "halt"
      /\ code = 1 => name = "nop"
      /\ code = 2 => name = "cmov"
      /\ code = 3 => name = "irmovq"
      /\ code = 4 => name = "rmmovq"
      /\ code = 5 => name = "mrmovq"
      /\ code = 6 => name = "alu"
      /\ code = 7 => name = "jump"
      /\ code = 8 => name = "call"
      /\ code = 9 => name = "ret"
      /\ code = 10 => name = "pushq"
      /\ code = 11 => name = "popq"
      /\ code > 11 => name = "bad"
  BY DEF ISA!Name, ISA!Names, Nibble
<1>2. ASSUME code \in 0 .. 3
      PROVE  (HasRegs(code) <=> ISA!WithRegs(name)) /\ (HasImm(code) <=> ISA!WithImm(name))
  BY <1>1, <1>2 DEF HasRegs, HasImm, ISA!WithRegs, ISA!WithImm,
     I_HALT, I_NOP, I_JMP, I_CALL, I_RET, I_IRMOVQ, I_RMMOVQ, I_MRMOVQ
<1>3. ASSUME code \in 4 .. 7
      PROVE  (HasRegs(code) <=> ISA!WithRegs(name)) /\ (HasImm(code) <=> ISA!WithImm(name))
  BY <1>1, <1>3 DEF HasRegs, HasImm, ISA!WithRegs, ISA!WithImm,
     I_HALT, I_NOP, I_JMP, I_CALL, I_RET, I_IRMOVQ, I_RMMOVQ, I_MRMOVQ
<1>4. ASSUME code \in 8 .. 11
      PROVE  (HasRegs(code) <=> ISA!WithRegs(name)) /\ (HasImm(code) <=> ISA!WithImm(name))
  BY <1>1, <1>4 DEF HasRegs, HasImm, ISA!WithRegs, ISA!WithImm,
     I_HALT, I_NOP, I_JMP, I_CALL, I_RET, I_IRMOVQ, I_RMMOVQ, I_MRMOVQ
<1>5. ASSUME code \in 12 .. 15
      PROVE  (HasRegs(code) <=> ISA!WithRegs(name)) /\ (HasImm(code) <=> ISA!WithImm(name))
  BY <1>1, <1>5 DEF HasRegs, HasImm, ISA!WithRegs, ISA!WithImm,
     I_HALT, I_NOP, I_JMP, I_CALL, I_RET, I_IRMOVQ, I_RMMOVQ, I_MRMOVQ
<1> QED BY <1>1, <1>2, <1>3, <1>4, <1>5 DEF Nibble

\* The instruction at pc, as the instruction set reads it
Decoded == ISA!Decode(m, pc, MemLen - pc)
Follows == pc + ISA!Size(Decoded.name)

LEMMA Sizes ==
  ASSUME NEW code \in Nibble, NEW name, name = ISA!Name(code)
  PROVE  ISA!Size(name) = 1 + (IF HasRegs(code) THEN 1 ELSE 0) + (IF HasImm(code) THEN LONG ELSE 0)
BY Shapes DEF ISA!Size

LEMMA DecodeCut ==
  ASSUME SimTypeOK, pc \in Address, ~Fetched
  PROVE  Decoded.name = "cut"
<1>1. icode \in Nibble
  <2>1. m[pc] \in Byte
    BY DEF SimTypeOK
  <2> QED BY <2>1, NibbleType DEF icode
<1>2. pc \in Int /\ MemLen \in Nat /\ LONG \in 1 .. 8
  BY MemFacts DEF Address
<1> DEFINE name == ISA!Name(m[pc] \div 16)
<1>3. name = ISA!Name(icode)
  BY DEF icode, HIGH
<1> HIDE DEF name
<1>4. ISA!Size(name) > MemLen - pc
  <2>1. ISA!Size(name) = 1 + (IF HasRegs(icode) THEN 1 ELSE 0) + (IF HasImm(icode) THEN LONG ELSE 0)
    BY <1>1, <1>3, Sizes
  <2> QED BY <1>2, <2>1, MemFacts DEF Fetched, immAt, InMem, Address
<1>5. Decoded = [name |-> "cut"]
  BY <1>4 DEF Decoded, ISA!Decode, name
<1> QED BY <1>5

LEMMA DecodeIs ==
  ASSUME SimTypeOK, Fetched
  PROVE  /\ Decoded.name = ISA!Name(icode)
         /\ Decoded.sel = ISA!Select(Decoded.name, ifun)
         /\ HasRegs(icode) => Decoded.ra = raid /\ Decoded.rb = rbid
         /\ HasImm(icode) => Decoded.imm = addr
         /\ Follows = next_pc
<1>1. icode \in Nibble /\ pc \in Address /\ m \in [Address -> Byte]
  BY FetchType DEF Fetched, SimTypeOK
<1>2. pc \in Int /\ 0 <= pc /\ MemLen \in Nat /\ LONG \in 1 .. 8
  BY <1>1, MemFacts DEF Address
<1> DEFINE name == ISA!Name(m[pc] \div 16)
           sel == ISA!Select(name, m[pc] % 16)
           ra == IF ISA!WithRegs(name) THEN m[pc + 1] \div 16 ELSE REG_NONE
           rb == IF ISA!WithRegs(name) THEN m[pc + 1] % 16 ELSE REG_NONE
           imm == IF ISA!WithImm(name) THEN ISA!Number64(m, pc + ISA!Size(name) - LONG) ELSE 0
<1>3. name = ISA!Name(icode)
  BY DEF icode, HIGH
<1>4. ISA!Size(name) = 1 + (IF HasRegs(icode) THEN 1 ELSE 0) + (IF HasImm(icode) THEN LONG ELSE 0)
  <2> HIDE DEF name
  <2> QED BY <1>1, <1>3, Sizes
<1>5. (HasRegs(icode) <=> ISA!WithRegs(name)) /\ (HasImm(icode) <=> ISA!WithImm(name))
  <2> HIDE DEF name
  <2> QED BY <1>1, <1>3, Shapes
<1>6. pc + ISA!Size(name) = next_pc
  <2> HIDE DEF name
  <2> QED BY <1>2, <1>4 DEF next_pc, immAt
<1>7. ~(ISA!Size(name) > MemLen - pc)
  <2> HIDE DEF name
  <2> QED BY <1>2, <1>4 DEF Fetched, immAt, InMem, Address
<1>8. HasImm(icode) => imm = addr
  <2> HIDE DEF name
  <2> SUFFICES ASSUME HasImm(icode) PROVE imm = addr
    OBVIOUS
  <2>1. pc + ISA!Size(name) - LONG = immAt /\ immAt \in Int
    BY <1>2, <1>4 DEF immAt
  <2>2. ISA!Number64(m, immAt) = LongAt(m, immAt)
    BY <1>1, <2>1, NumberIs DEF Fetched
  <2> QED BY <1>5, <2>1, <2>2 DEF addr
<1>9. Decoded = [name |-> name, sel |-> sel, ra |-> ra, rb |-> rb, imm |-> imm]
  BY <1>7, SameNames DEF Decoded, ISA!Decode
<1>10. sel = ISA!Select(name, ifun) /\ (HasRegs(icode) => ra = raid /\ rb = rbid)
  BY <1>5 DEF ifun, raid, rbid, HIGH, LOW
<1> HIDE DEF name, sel, ra, rb, imm
<1> QED BY <1>3, <1>6, <1>8, <1>9, <1>10 DEF Follows

-----------------------------------------------------------------------------
(***************************************************************************)
(* The sign of a result.                                                   *)
(***************************************************************************)
LEMMA TopByte == \A v \in Long : v < 0 <=> ByteOf(v, LONG - 1) >= 128
<1> TAKE v \in Long
<1> DEFINE p == 256 ^ (LONG - 1)
<1>1. p \in Nat \ {0} /\ LongHalf = 128 * p /\ v \in Int /\ -LongHalf <= v /\ v < LongHalf
  BY Widths DEF LongHalf, Long
<1>0. ByteOf(v, LONG - 1) = (v \div p) % 256
  BY DEF ByteOf
<1> HIDE DEF p
<1>2. PICK q \in Int, s \in 0 .. (p - 1) : v = p * q + s /\ v \div p = q
  BY <1>1, Divided
<1>3. ByteOf(v, LONG - 1) = q % 256
  BY <1>0, <1>2
<1>4. -128 <= q /\ q <= 127
  <2>1. ASSUME q <= -129 PROVE FALSE
    <3>1. p * q <= p * (-129)
      BY <1>1, <2>1
    <3> QED BY <1>1, <1>2, <3>1
  <2>2. ASSUME q >= 128 PROVE FALSE
    <3>1. p * q >= p * 128
      BY <1>1, <2>2
    <3> QED BY <1>1, <1>2, <3>1
  <2> QED BY <2>1, <2>2
<1>5. v < 0 <=> q < 0
  <2>1. ASSUME q < 0 PROVE v < 0
    <3>1. p * q <= p * (-1)
      BY <1>1, <2>1
    <3> QED BY <1>1, <1>2, <3>1
  <2>2. ASSUME q >= 0 PROVE v >= 0
    <3>1. p * q >= 0
      BY <1>1, <2>2
    <3> QED BY <1>1, <1>2, <3>1
  <2> QED BY <1>1, <2>1, <2>2
<1>6. q < 0 <=> q % 256 >= 128
  <2>1. 256 \in Nat \ {0}
    OBVIOUS
  <2>2. ASSUME q < 0 PROVE q % 256 = q + 256
    BY <1>4, <2>1, <2>2, ModDown
  <2>3. ASSUME q >= 0 PROVE q % 256 = q
    BY <1>4, <2>1, <2>3, ModSmall
  <2> QED BY <1>4, <2>2, <2>3
<1> QED BY <1>3, <1>5, <1>6

LEMMA IntByte == \A v \in Long : ToInt(v) \in Int /\ (ToInt(v) < 0 <=> ByteOf(v, INT - 1) >= 128)
<1> TAKE v \in Long
<1> DEFINE p == 256 ^ (INT - 1)
<1>1. p \in Nat \ {0} /\ IntHalf = 128 * p /\ v \in Int
  <2>1. INT - 1 \in 0 .. LONG /\ v \in Int
    BY WidthAssumption, Widths DEF Long
  <2> QED BY <2>1, Widths DEF IntHalf
<1>0. ByteOf(v, INT - 1) = (v \div p) % 256
  BY DEF ByteOf
<1> HIDE DEF p
<1>2. PICK q \in Int, s \in 0 .. (p - 1) : v = p * q + s /\ v \div p = q
  BY <1>1, Divided
<1>3. ByteOf(v, INT - 1) = q % 256
  BY <1>0, <1>2
<1>4. PICK u \in Int, t \in 0 .. (256 - 1) : q = 256 * u + t /\ q % 256 = t
  <2>1. 256 \in Nat \ {0}
    OBVIOUS
  <2> QED BY <2>1, Divided
<1> DEFINE d == 256 * p
           w == p * t + s
<1>5. w \in Int /\ 0 <= w /\ w < d /\ d \in Nat \ {0} /\ v = d * u + w /\ d * u \in Int
  <2>1. p * t \in Int /\ 0 <= p * t /\ p * t <= p * 255
    BY <1>1
  <2>2. p * q = d * u + p * t /\ d * u \in Int
    BY <1>1, <1>4
  <2> QED BY <1>1, <1>2, <2>1, <2>2
<1>6. w < 128 * p <=> t < 128
  <2>1. ASSUME t < 128 PROVE w < 128 * p
    <3>1. p * t <= p * 127 /\ p * t \in Int
      BY <1>1, <2>1
    <3> QED BY <1>1, <1>2, <3>1
  <2>2. ASSUME t >= 128 PROVE w >= 128 * p
    <3>1. p * t >= p * 128 /\ p * t \in Int
      BY <1>1, <2>2
    <3> QED BY <1>1, <1>2, <3>1
  <2> QED BY <1>1, <1>5, <2>1, <2>2
<1>7. ToInt(v) = ((v + 128 * p) % d) - 128 * p
  BY <1>1 DEF ToInt
<1>10. d = 256 * p
  OBVIOUS
<1> HIDE DEF w, d
<1>8. CASE w < 128 * p
  <2>1. v + 128 * p = d * u + (w + 128 * p)
    BY <1>1, <1>5
  <2>2. 0 <= w + 128 * p /\ w + 128 * p < d /\ w + 128 * p \in Int
    BY <1>1, <1>5, <1>8, <1>10
  <2>3. (v + 128 * p) % d = w + 128 * p
    BY <1>5, <2>1, <2>2, Remainder
  <2>4. ToInt(v) = w
    BY <1>1, <1>5, <1>7, <2>3
  <2> QED BY <1>3, <1>4, <1>5, <1>6, <1>8, <2>4
<1>9. CASE ~(w < 128 * p)
  <2>1. v + 128 * p = d * (u + 1) + (w - 128 * p)
    BY <1>1, <1>5, <1>10
  <2>2. 0 <= w - 128 * p /\ w - 128 * p < d /\ w - 128 * p \in Int
    BY <1>1, <1>5, <1>9, <1>10
  <2>3. (v + 128 * p) % d = w - 128 * p
    <3> DEFINE e == u + 1
               y == w - 128 * p
    <3>1. v + 128 * p = d * e + y /\ e \in Int /\ y \in Int /\ 0 <= y /\ y < d /\ d \in Nat \ {0}
      BY <1>5, <2>1, <2>2
    <3> HIDE DEF e, y
    <3>2. (d * e + y) % d = y
      BY <3>1, Remainder
    <3> QED BY <3>1, <3>2 DEF y
  <2>4. ToInt(v) = w - 256 * p
    BY <1>1, <1>5, <1>7, <1>10, <2>3
  <2>5. ToInt(v) < 0
    BY <1>1, <1>5, <1>10, <2>4
  <2> QED BY <1>1, <1>3, <1>4, <1>5, <1>6, <1>9, <2>4, <2>5
<1> QED BY <1>8, <1>9

\* Of two ints, & and ^ make a long whose sign is that of its low half.
LEMMA SignOfBits ==
  ASSUME NEW A \in Int32, NEW B \in Int32, NEW v \in {BytesAnd(A, B), BytesXor(A, B)}
  PROVE  v \in Long /\ (ToInt(v) < 0 <=> v < 0)
<1>1. A \in Long /\ B \in Long /\ A \in Int /\ B \in Int
  BY Widths DEF Long, Int32
<1>2. v \in Long
  BY <1>1, BitsType
<1> DEFINE j == LONG - 1
           k == INT - 1
<1>3. j \in 0 .. (LONG - 1) /\ k \in 0 .. (LONG - 1)
  BY WidthAssumption, Widths
<1>4. /\ A < 0 <=> ByteOf(A, j) >= 128
      /\ A < 0 <=> ByteOf(A, k) >= 128
      /\ B < 0 <=> ByteOf(B, j) >= 128
      /\ B < 0 <=> ByteOf(B, k) >= 128
  BY <1>1, TopByte, IntByte, ToIntCases
<1>5. \A i \in 0 .. (LONG - 1) : ByteOf(A, i) \in Byte /\ ByteOf(B, i) \in Byte
  BY <1>1, ByteOfType, Widths
<1> DEFINE and == [i \in 0 .. (LONG - 1) |-> AndByte(ByteOf(A, i), ByteOf(B, i))]
           xor == [i \in 0 .. (LONG - 1) |-> XorByte(ByteOf(A, i), ByteOf(B, i))]
<1>6. \A i \in 0 .. (LONG - 1) :
        /\ and[i] \in Byte /\ xor[i] \in Byte
        /\ and[i] >= 128 <=> ByteOf(A, i) >= 128 /\ ByteOf(B, i) >= 128
        /\ xor[i] >= 128 <=> (ByteOf(A, i) >= 128) # (ByteOf(B, i) >= 128)
  BY <1>5, BitsAssumption
<1>7. BytesAnd(A, B) = FromBytes(and) /\ BytesXor(A, B) = FromBytes(xor)
  BY DEF BytesAnd, BytesXor
<1> HIDE DEF and, xor, j, k
<1>8. ASSUME NEW i \in {j, k}
      PROVE  /\ ByteOf(FromBytes(and), i) >= 128 <=> A < 0 /\ B < 0
             /\ ByteOf(FromBytes(xor), i) >= 128 <=> (A < 0) # (B < 0)
  <2>1. i \in 0 .. (LONG - 1)
    BY <1>3
  <2>2. ByteOf(FromBytes(and), i) = and[i] /\ ByteOf(FromBytes(xor), i) = xor[i]
    BY <1>6, <2>1, BytesBack
  <2>3. and[i] >= 128 <=> ByteOf(A, i) >= 128 /\ ByteOf(B, i) >= 128
    BY <1>6, <2>1
  <2>4. xor[i] >= 128 <=> (ByteOf(A, i) >= 128) # (ByteOf(B, i) >= 128)
    BY <1>6, <2>1
  <2>5. (ByteOf(A, i) >= 128 <=> A < 0) /\ (ByteOf(B, i) >= 128 <=> B < 0)
    BY <1>4
  <2> QED BY <2>2, <2>3, <2>4, <2>5
<1>9. ByteOf(v, j) >= 128 <=> ByteOf(v, k) >= 128
  BY <1>7, <1>8
<1>10. (v < 0 <=> ByteOf(v, j) >= 128) /\ (ToInt(v) < 0 <=> ByteOf(v, k) >= 128)
  BY <1>2, TopByte, IntByte DEF j, k
<1> QED BY <1>2, <1>9, <1>10

\* The overflow of an operation, in words of the low halves
Overflow(op, a, b, v) ==
  \/ op = A_ADD /\ a < 0 /\ b < 0 /\ v > 0
  \/ op = A_ADD /\ a > 0 /\ b > 0 /\ v < 0
  \/ op = A_SUB /\ a < 0 /\ b > 0 /\ v < 0
  \/ op = A_SUB /\ a > 0 /\ b < 0 /\ v > 0

LEMMA PackFields ==
  \A z, s, o : PACK_CC(z, s, o).zf = z /\ PACK_CC(z, s, o).sf = s /\ PACK_CC(z, s, o).of = o
BY DEF PACK_CC

LEMMA Flags ==
  ASSUME NEW op, NEW A, NEW B, NEW v, NEW c, c = compute_cc(op, A, B, v)
  PROVE  /\ c.zf = (v = 0) /\ c.sf = (ToInt(v) < 0)
         /\ c.of = Overflow(op, ToInt(A), ToInt(B), ToInt(v))
<1>1. c = PACK_CC(v = 0, ToInt(v) < 0, Overflow(op, ToInt(A), ToInt(B), ToInt(v)))
  BY DEF compute_cc, Overflow
<1> QED BY <1>1, PackFields

\* A sign and an overflow that differ when the sum is negative.
LEMMA FlagsOfSum ==
  ASSUME NEW A \in Int32, NEW B \in Int32, ~(A = -IntHalf /\ B = -IntHalf),
         NEW c, c = compute_cc(A_ADD, A, B, ToLong(A + B))
  PROVE  (c.zf <=> A + B = 0) /\ (c.sf # c.of <=> A + B < 0)
<1> DEFINE d == A + B
           v == ToInt(d)
           a == ToInt(A)
           b == ToInt(B)
           o == Overflow(A_ADD, a, b, v)
<1>1. /\ IntHalf \in Nat \ {0} /\ A \in Int /\ B \in Int /\ d \in Int
      /\ -2 * IntHalf < d /\ d < 2 * IntHalf
      /\ -IntHalf <= A /\ A < IntHalf /\ -IntHalf <= B /\ B < IntHalf
  BY Widths DEF Int32
<1>2. ToLong(d) = d
  <2>1. d \in Long
    BY <1>1, Widths DEF Long
  <2> QED BY <2>1, ToLongExact
<1>3. a = A /\ b = B
  BY <1>1, ToIntCases
<1>5. o <=> (A < 0 /\ B < 0 /\ v > 0) \/ (A > 0 /\ B > 0 /\ v < 0)
  BY <1>3 DEF A_ADD, A_SUB, Overflow
<1>6. c.zf = (d = 0) /\ c.sf = (v < 0) /\ c.of = o
  BY <1>2, Flags
<1>7. (v < 0 /\ ~o) \/ (~(v < 0) /\ o) <=> d < 0
  <2>1. CASE d \in Int32
    <3>1. v = d
      BY <1>1, <2>1, ToIntCases
    <3>2. ~o
      BY <1>1, <1>5, <3>1
    <3> QED BY <1>1, <3>1, <3>2
  <2>2. CASE IntHalf <= d
    <3>1. v = d - 2 * IntHalf
      BY <1>1, <2>2, ToIntCases
    <3>2. A > 0 /\ B > 0 /\ v < 0 /\ ~(d < 0)
      BY <1>1, <2>2, <3>1
    <3> QED BY <1>5, <3>2
  <2>3. CASE d < -IntHalf
    <3>1. v = d + 2 * IntHalf
      BY <1>1, <2>3, ToIntCases
    <3>2. A < 0 /\ B < 0 /\ v > 0 /\ d < 0 /\ v \in Int
      BY <1>1, <2>3, <3>1
    <3>3. o /\ ~(v < 0)
      BY <1>5, <3>2
    <3> QED BY <3>2, <3>3
  <2>4. d \in Int32 \/ IntHalf <= d \/ d < -IntHalf
    BY <1>1 DEF Int32
  <2> QED BY <2>1, <2>2, <2>3, <2>4
<1>8. (v < 0) \in BOOLEAN /\ o \in BOOLEAN
  BY DEF Overflow
<1>9. (d < 0) <=> (c.sf # c.of)
  <2> HIDE DEF d, v, o
  <2> QED BY <1>6, <1>7, <1>8
<1> QED BY <1>6, <1>9

\* The flags of a result that is 0 are not those of a negative number.
LEMMA FlagsFit ==
  ASSUME NEW op, NEW A, NEW B, NEW v
  PROVE  FlagsOK(compute_cc(op, A, B, v))
<1> DEFINE c == compute_cc(op, A, B, v)
<1>1. c \in CC
  BY CCType
<1>2. ASSUME c.zf PROVE c.sf = c.of
  <2>1. v = 0
    BY <1>2, Flags
  <2>2. ToInt(v) = 0
    <3>1. 0 \in Int32 /\ 0 \in Int
      BY Widths DEF Int32
    <3>2. ToInt(0) = 0
      BY <3>1, ToIntCases
    <3> QED BY <2>1, <3>2
  <2>3. ~(ToInt(v) < 0) /\ ~Overflow(op, ToInt(A), ToInt(B), ToInt(v))
    BY <2>2 DEF Overflow
  <2>4. c.sf = (ToInt(v) < 0) /\ c.of = Overflow(op, ToInt(A), ToInt(B), ToInt(v))
    BY Flags
  <2>5. (ToInt(v) < 0) \in BOOLEAN /\ Overflow(op, ToInt(A), ToInt(B), ToInt(v)) \in BOOLEAN
    BY DEF Overflow
  <2> HIDE DEF c
  <2> QED BY <2>3, <2>4, <2>5
<1> QED BY <1>1, <1>2 DEF FlagsOK

OpName(op) == ISA!Select("alu", op)

LEMMA OpNames ==
  /\ OpName(0) = "add" /\ OpName(1) = "sub" /\ OpName(2) = "and" /\ OpName(3) = "xor"
  /\ \A op \in Nibble : OpName(op) = "none" <=> op >= A_NONE
BY DEF OpName, ISA!Select, ISA!Conds, ISA!Ops, Nibble, A_NONE

LEMMA Results ==
  ASSUME NEW op \in Nibble, op < A_NONE, NEW A \in Long, NEW B \in Long,
         NEW v, v = compute_alu(op, A, B), NEW c, c = compute_cc(op, A, B, v)
  PROVE  /\ ISA!ToLong(ISA!Exact(OpName(op), A, B)) = v
         /\ Sgn(c) = 0 <=> v = 0
         /\ ISA!Known(OpName(op), A, B) => Sgn(c) = ISA!SgnOf(ISA!Exact(OpName(op), A, B))
<1>0. A \in Int /\ B \in Int
  BY Widths DEF Long
<1>4. Sgn(c) = 0 <=> v = 0
  <2>1. c.zf <=> v = 0
    BY Flags
  <2>2. Sgn(c) = 0 <=> c.zf
    BY SMT DEF Sgn
  <2> QED BY <2>1, <2>2
<1>1. CASE op = 0
  <2>1. OpName(op) = "add" /\ op = A_ADD
    BY <1>1, OpNames DEF A_ADD
  <2>2. ISA!Exact("add", A, B) = B + A /\ B + A = A + B
    BY <1>0 DEF ISA!Exact
  <2>3. v = ToLong(A + B)
    BY <2>1 DEF compute_alu, A_ADD, A_SUB, A_AND, A_XOR
  <2>4. ASSUME ISA!Known("add", A, B) PROVE Sgn(c) = ISA!SgnOf(A + B)
    <3>1. A \in Int32 /\ B \in Int32 /\ ~(A = -IntHalf /\ B = -IntHalf)
      BY <2>4, SameHalf, SameNames DEF ISA!Known
    <3>2. (c.zf <=> A + B = 0) /\ (c.sf # c.of <=> A + B < 0)
      BY <2>1, <2>3, <3>1, FlagsOfSum
    <3> QED BY <1>0, <3>2 DEF Sgn, ISA!SgnOf
  <2> QED BY <1>4, <2>1, <2>2, <2>3, <2>4, SameNumbers
<1>2. CASE op = 1
  <2>1. OpName(op) = "sub" /\ op = A_SUB
    BY <1>2, OpNames DEF A_SUB
  <2>2. ISA!Exact("sub", A, B) = B - A
    BY <1>0 DEF ISA!Exact
  <2>3. v = ToLong(B - A)
    BY <2>1 DEF compute_alu, A_ADD, A_SUB, A_AND, A_XOR
  <2>4. ASSUME ISA!Known("sub", A, B) PROVE Sgn(c) = ISA!SgnOf(B - A)
    <3>1. A \in Int32 /\ B \in Int32 /\ ~(A = -IntHalf /\ B = 0)
      BY <2>4, SameHalf, SameNames DEF ISA!Known
    <3>2. Compares(c, B, A)
      BY <2>1, <2>3, <3>1, ConditionsOfInts
    <3>3. (c.zf <=> B = A) /\ (c.sf # c.of <=> B < A)
      BY <3>2 DEF Compares, cond_doit, C_YES, C_LE, C_L, C_E, C_NE, C_GE, C_G
    <3>4. (B - A = 0 <=> B = A) /\ (B - A < 0 <=> B < A)
      BY <1>0
    <3> QED BY <3>3, <3>4 DEF Sgn, ISA!SgnOf
  <2> QED BY <1>4, <2>1, <2>2, <2>3, <2>4, SameNumbers
<1>3. CASE op \in {2, 3}
  <2> DEFINE w == IF op = 2 THEN BytesAnd(A, B) ELSE BytesXor(A, B)
  <2>1. /\ op = 2 => OpName(op) = "and"
        /\ op = 3 => OpName(op) = "xor"
    BY OpNames
  <2>2. ISA!Exact(OpName(op), A, B) = w
    BY <1>3, <2>1, SameBits DEF ISA!Exact
  <2>3. v = w
    BY <1>3 DEF compute_alu, A_ADD, A_SUB, A_AND, A_XOR
  <2>4. w \in Long /\ ToLong(w) = w
    BY <1>0, BitsType, ToLongExact
  <2>5. ASSUME ISA!Known(OpName(op), A, B) PROVE Sgn(c) = ISA!SgnOf(w)
    <3>1. A \in Int32 /\ B \in Int32
      BY <2>5, SameNames DEF ISA!Known
    <3>2. ToInt(w) < 0 <=> w < 0
      BY <1>3, <3>1, SignOfBits
    <3> HIDE DEF w
    <3>3. c.zf = (w = 0) /\ c.sf = (ToInt(w) < 0) /\ c.of = Overflow(op, ToInt(A), ToInt(B), ToInt(w))
      BY <2>3, Flags
    <3>4. ~Overflow(op, ToInt(A), ToInt(B), ToInt(w))
      BY <1>3 DEF Overflow, A_ADD, A_SUB
    <3>7. (ToInt(w) < 0) \in BOOLEAN /\ Overflow(op, ToInt(A), ToInt(B), ToInt(w)) \in BOOLEAN
      BY DEF Overflow
    <3>5. w \in Int
      BY <2>4, Widths DEF Long
    <3>6. (c.zf <=> w = 0) /\ (c.sf # c.of <=> w < 0)
      BY <3>2, <3>3, <3>4, <3>7
    <3> QED BY <3>5, <3>6 DEF Sgn, ISA!SgnOf
  <2> QED BY <1>4, <2>2, <2>3, <2>4, <2>5, SameNumbers
<1> QED BY <1>1, <1>2, <1>3 DEF Nibble, A_NONE

-----------------------------------------------------------------------------
(***************************************************************************)
(* Every case of the switch is a step of the instruction set.              *)
(***************************************************************************)
LEMMA Executes ==
  ASSUME stat = "AOK", pc \in Address,
         \/ ISA!Computes(Decoded, Follows) \/ ISA!Moves(Decoded, Follows)
         \/ ISA!Jumps(Decoded, Follows) \/ ISA!Accesses(Decoded, Follows)
         \/ ISA!Fails(Decoded)
  PROVE  ISA!Execute
BY SameNames DEF ISA!Execute, Decoded, Follows

\* What the instruction set reads and writes
LEMMA GetIs ==
  /\ \A id \in Nibble : ISA!Get(id) = Reg(id)
  /\ ISA!SP = Reg(REG_RSP)
BY SameNames DEF ISA!Get, ISA!SP, Reg, Nibble, REG_NONE, REG_RSP

LEMMA SetIs ==
  ASSUME SimTypeOK, NEW id \in Nibble, NEW v, r' = SetReg(r, id, v)
  PROVE  ISA!OnlyRegs({id}) /\ ISA!Sets(id, v)
<1>1. r \in [RegId -> Long] /\ RegId = 0 .. 14
  BY DEF SimTypeOK, RegId, REG_NONE
<1>2. \A i \in RegId \ {id} : r'[i] = r[i]
  BY <1>1 DEF SetReg
<1>3. id # REG_NONE => r'[id] = v
  BY <1>1 DEF SetReg, REG_NONE, Nibble
<1> QED BY <1>2, <1>3, SameNames DEF ISA!OnlyRegs, ISA!Sets

LEMMA NoSet == r' = r => ISA!OnlyRegs({})
BY DEF ISA!OnlyRegs

LEMMA StoreIs ==
  ASSUME SimTypeOK, NEW a, NEW v, m' = SetLong(m, a, v)
  PROVE  ISA!Stores(a, v)
<1>1. DOMAIN m = Address
  BY DEF SimTypeOK
<1>2. \A x \in Address : m'[x] = IF x \in a .. (a + LONG - 1) THEN ByteOf(v, x - a) ELSE m[x]
  BY <1>1 DEF SetLong
<1> QED BY <1>2, SameNames, SameNumbers DEF ISA!Stores

LEMMA GoesIs == \A to : Continue(to) => ISA!Goes(to)
BY DEF Continue, ISA!Goes

LEMMA StopsIs ==
  ASSUME NEW statuses, NEW ids, stat' \in statuses, pc' = pc, m' = m, cc' = cc, ISA!OnlyRegs(ids)
  PROVE  ISA!Stops(statuses, ids)
BY DEF ISA!Stops

\* A case of the switch that is reached
LEMMA Reached ==
  ASSUME SimTypeOK, NEW code, Instr(code)
  PROVE  /\ stat = "AOK" /\ pc \in Address /\ Fetched /\ icode = code
         /\ icode \in Nibble /\ ifun \in Nibble
         /\ Decoded.name = ISA!Name(code) /\ Decoded.sel = ISA!Select(Decoded.name, ifun)
         /\ Follows = next_pc
BY FetchType, DecodeIs DEF Instr, Looping, Fetched

LEMMA Operands2 ==
  ASSUME SimTypeOK, Fetched, HasRegs(icode)
  PROVE  /\ raid \in Nibble /\ rbid \in Nibble /\ Decoded.ra = raid /\ Decoded.rb = rbid
         /\ ISA!Get(Decoded.ra) = Reg(raid) /\ ISA!Get(Decoded.rb) = Reg(rbid)
         /\ Reg(raid) \in Long /\ Reg(rbid) \in Long
BY FetchType, DecodeIs, GetIs, RegType

LEMMA BadFetchStep ==
  ASSUME SimTypeOK, BadFetch
  PROVE  ISA!Execute
<1>1. stat = "AOK" /\ stat' = "ADR" /\ pc' = pc /\ r' = r /\ m' = m /\ cc' = cc
  BY DEF BadFetch, Looping, Stop
<1>2. ISA!Stops({"ADR"}, {})
  BY <1>1, StopsIs, NoSet
<1>3. CASE pc \in Address
  <2>1. Decoded.name = "cut"
    BY <1>3, DecodeCut DEF BadFetch
  <2>2. ISA!Fails(Decoded)
    BY <1>2, <2>1 DEF ISA!Fails
  <2> QED BY <1>1, <1>3, <2>2, Executes
<1>4. CASE pc \notin Address
  BY <1>1, <1>2, <1>4, SameNames DEF ISA!Execute
<1> QED BY <1>3, <1>4

LEMMA HaltStep ==
  ASSUME SimTypeOK, Halt
  PROVE  ISA!Execute
<1>1. Instr(I_HALT) /\ stat' = "HLT" /\ pc' = pc /\ r' = r /\ m' = m /\ cc' = cc
  BY DEF Halt, Stop
<1>2. stat = "AOK" /\ pc \in Address /\ Decoded.name = "halt"
  BY <1>1, Reached, Shapes DEF I_HALT
<1>3. ISA!Stops({"HLT"}, {})
  BY <1>1, StopsIs, NoSet
<1>4. ISA!Fails(Decoded)
  BY <1>2, <1>3 DEF ISA!Fails
<1> QED BY <1>2, <1>4, Executes

LEMMA BadInstrStep ==
  ASSUME SimTypeOK, BadInstr
  PROVE  ISA!Execute
<1>1. /\ Instr(icode) /\ icode > 11 /\ stat' = "INS" /\ pc' = pc /\ r' = r /\ m' = m /\ cc' = cc
  BY DEF BadInstr, Stop, Instr, I_POPQ
<1>2. stat = "AOK" /\ pc \in Address /\ icode \in Nibble /\ Decoded.name = ISA!Name(icode)
  BY <1>1, Reached
<1>3. Decoded.name = "bad"
  BY <1>1, <1>2, Shapes
<1>4. ISA!Stops({"INS"}, {})
  BY <1>1, StopsIs, NoSet
<1>5. ISA!Fails(Decoded)
  BY <1>3, <1>4 DEF ISA!Fails
<1> QED BY <1>2, <1>5, Executes

LEMMA NopStep ==
  ASSUME SimTypeOK, Nop
  PROVE  ISA!Execute
<1>1. Instr(I_NOP) /\ Continue(next_pc) /\ r' = r /\ m' = m /\ cc' = cc
  BY DEF Nop
<1>2. /\ stat = "AOK" /\ pc \in Address /\ Decoded.name = "nop" /\ Follows = next_pc
  BY <1>1, Reached, Shapes DEF I_NOP
<1>3. ISA!Goes(Follows) /\ ISA!OnlyRegs({})
  BY <1>1, <1>2, GoesIs, NoSet
<1>4. ISA!Moves(Decoded, Follows)
  BY <1>1, <1>2, <1>3 DEF ISA!Moves
<1> QED BY <1>2, <1>4, Executes

LEMMA RrmovqStep ==
  ASSUME SimTypeOK, FlagsOK(cc), Rrmovq
  PROVE  ISA!Execute
<1>1. /\ Instr(I_RRMOVQ) /\ Continue(next_pc) /\ m' = m /\ cc' = cc
      /\ r' = IF cond_doit(cc, ifun) THEN SetReg(r, rbid, Reg(raid)) ELSE r
  BY DEF Rrmovq
<1>2. /\ stat = "AOK" /\ pc \in Address /\ Decoded.name = "cmov" /\ Follows = next_pc
      /\ Decoded.sel = ISA!Select("cmov", ifun) /\ ifun \in Nibble /\ Fetched /\ HasRegs(icode)
  BY <1>1, Reached, Shapes DEF I_RRMOVQ, HasRegs, I_HALT, I_NOP, I_JMP, I_CALL, I_RET
<1>3. ISA!Goes(Follows)
  BY <1>1, <1>2, GoesIs
<1>4. ISA!Holds(Decoded.sel) <=> cond_doit(cc, ifun)
  BY <1>2, Conditions
<1>5. rbid \in Nibble /\ Decoded.rb = rbid /\ ISA!Get(Decoded.ra) = Reg(raid)
  BY <1>2, Operands2
<1>6. ISA!Moves(Decoded, Follows)
  <2>1. CASE cond_doit(cc, ifun)
    <3>1. ISA!OnlyRegs({Decoded.rb}) /\ ISA!Sets(Decoded.rb, ISA!Get(Decoded.ra))
      BY <1>1, <1>5, <2>1, SetIs
    <3> QED BY <1>1, <1>2, <1>3, <1>4, <2>1, <3>1 DEF ISA!Moves
  <2>2. CASE ~cond_doit(cc, ifun)
    <3>1. ISA!OnlyRegs({})
      BY <1>1, <2>2, NoSet
    <3> QED BY <1>1, <1>2, <1>3, <1>4, <2>2, <3>1 DEF ISA!Moves
  <2> QED BY <2>1, <2>2
<1> QED BY <1>2, <1>6, Executes

LEMMA IrmovqStep ==
  ASSUME SimTypeOK, Irmovq
  PROVE  ISA!Execute
<1>1. /\ Instr(I_IRMOVQ) /\ Continue(next_pc) /\ m' = m /\ cc' = cc /\ r' = SetReg(r, rbid, addr)
  BY DEF Irmovq
<1>2. /\ stat = "AOK" /\ pc \in Address /\ Decoded.name = "irmovq" /\ Follows = next_pc
      /\ Fetched /\ HasRegs(icode) /\ HasImm(icode)
  BY <1>1, Reached, Shapes DEF I_IRMOVQ, HasRegs, HasImm, I_HALT, I_NOP, I_JMP, I_CALL, I_RET
<1>3. ISA!Goes(Follows) /\ Decoded.imm = addr
  BY <1>1, <1>2, GoesIs, DecodeIs
<1>4. rbid \in Nibble /\ Decoded.rb = rbid
  BY <1>2, Operands2
<1>5. ISA!OnlyRegs({Decoded.rb}) /\ ISA!Sets(Decoded.rb, Decoded.imm)
  BY <1>1, <1>3, <1>4, SetIs
<1>6. ISA!Moves(Decoded, Follows)
  BY <1>1, <1>2, <1>3, <1>5 DEF ISA!Moves
<1> QED BY <1>2, <1>6, Executes

LEMMA JmpStep ==
  ASSUME SimTypeOK, FlagsOK(cc), Jmp
  PROVE  ISA!Execute
<1>1. Instr(I_JMP) /\ r' = r /\ m' = m /\ cc' = cc
  BY DEF Jmp
<1>2. /\ stat = "AOK" /\ pc \in Address /\ Decoded.name = "jump" /\ Follows = next_pc
      /\ Decoded.sel = ISA!Select("jump", ifun) /\ ifun \in Nibble /\ Fetched /\ HasImm(icode)
  BY <1>1, Reached, Shapes DEF I_JMP, HasImm
<1>3. /\ ISA!Holds(Decoded.sel) <=> cond_doit(cc, ifun)
      /\ Decoded.sel = "none" <=> ifun > C_G
  BY <1>2, Conditions
<1>4. Decoded.imm = addr /\ ISA!OnlyRegs({})
  BY <1>1, <1>2, DecodeIs, NoSet
<1>5. CASE ifun <= C_G /\ Continue(IF cond_doit(cc, ifun) THEN addr ELSE next_pc)
  <2>1. ISA!Goes(IF ISA!Holds(Decoded.sel) THEN Decoded.imm ELSE Follows)
    BY <1>2, <1>3, <1>4, <1>5, GoesIs
  <2>2. Decoded.sel # "none"
    BY <1>2, <1>3, <1>5 DEF Nibble, C_G
  <2>3. ISA!Jumps(Decoded, Follows)
    BY <1>1, <1>2, <1>4, <2>1, <2>2 DEF ISA!Jumps
  <2> QED BY <1>2, <2>3, Executes
<1>6. CASE ifun > C_G /\ Stop("INS")
  <2>1. ISA!Stops({"INS"}, {})
    BY <1>1, <1>4, <1>6, StopsIs DEF Stop
  <2>2. ISA!Fails(Decoded)
    BY <1>2, <1>3, <1>6, <2>1 DEF ISA!Fails
  <2> QED BY <1>2, <2>2, Executes
<1> QED BY <1>5, <1>6 DEF Jmp

LEMMA AluStep ==
  ASSUME SimTypeOK, Alu
  PROVE  ISA!Execute
<1>1. Instr(I_ALU) /\ m' = m
  BY DEF Alu
<1>2. /\ stat = "AOK" /\ pc \in Address /\ Decoded.name = "alu" /\ Follows = next_pc
      /\ Decoded.sel = OpName(ifun) /\ ifun \in Nibble /\ Fetched /\ HasRegs(icode)
  BY <1>1, Reached, Shapes DEF I_ALU, HasRegs, I_HALT, I_NOP, I_JMP, I_CALL, I_RET, OpName
<1>3. /\ rbid \in Nibble /\ Decoded.rb = rbid /\ Reg(raid) \in Long /\ Reg(rbid) \in Long
      /\ ISA!Get(Decoded.ra) = Reg(raid) /\ ISA!Get(Decoded.rb) = Reg(rbid)
  BY <1>2, Operands2
<1>4. CASE ifun < A_NONE
  <2> DEFINE val == compute_alu(ifun, Reg(raid), Reg(rbid))
             x == ISA!Exact(OpName(ifun), Reg(raid), Reg(rbid))
  <2>1. /\ Continue(next_pc) /\ cc' = compute_cc(ifun, Reg(raid), Reg(rbid), val)
        /\ r' = SetReg(r, rbid, val)
    BY <1>2, <1>4 DEF Alu, Nibble, A_NONE
  <2>2. ISA!Goes(Follows)
    BY <1>2, <2>1, GoesIs
  <2>3. /\ ISA!ToLong(x) = val /\ (Sgn(cc') = 0 <=> val = 0)
        /\ ISA!Known(OpName(ifun), Reg(raid), Reg(rbid)) => Sgn(cc') = ISA!SgnOf(x)
    BY <1>2, <1>3, <1>4, <2>1, Results
  <2> HIDE DEF val, x
  <2>4. ISA!OnlyRegs({Decoded.rb}) /\ ISA!Sets(Decoded.rb, val)
    BY <1>3, <2>1, SetIs
  <2>5. Decoded.sel # "none"
    BY <1>2, <1>4, OpNames DEF Nibble, A_NONE
  <2>6. Sgn(cc') \in ISA!Sign
    BY DEF Sgn, ISA!Sign
  <2>7. ISA!Computes(Decoded, Follows)
    BY <1>1, <1>2, <1>3, <2>2, <2>3, <2>4, <2>5, <2>6 DEF ISA!Computes, Sgn, x
  <2> QED BY <1>2, <2>7, Executes
<1>5. CASE ~(ifun < A_NONE)
  <2>1. Stop("INS") /\ r' = r /\ cc' = cc
    BY <1>5 DEF Alu
  <2>2. ISA!Stops({"INS"}, {})
    BY <1>1, <2>1, StopsIs, NoSet DEF Stop
  <2>3. Decoded.sel = "none"
    BY <1>2, <1>5, OpNames DEF Nibble, A_NONE
  <2>4. ISA!Fails(Decoded)
    BY <1>2, <2>2, <2>3 DEF ISA!Fails
  <2> QED BY <1>2, <2>4, Executes
<1> QED BY <1>4, <1>5

LEMMA PresentIs == \A a : ISA!Present(a) <=> InMem(a)
BY DEF ISA!Present, InMem

\* An access outside the memory
LEMMA Faults ==
  ASSUME SimTypeOK, ISA!Touches(Decoded), NEW a \in Int, ISA!Where(Decoded) = a, Fault(a),
         m' = m, cc' = cc, NEW ids,
         ids = IF Decoded.name \in {"call", "pushq"} THEN {REG_RSP} ELSE {}, ISA!OnlyRegs(ids)
  PROVE  ISA!Fails(Decoded)
<1>1. ~ISA!Present(a)
  BY PresentIs DEF Fault
<1> DEFINE statuses == {"ADR"} \cup (IF a + LONG < LongHalf THEN {} ELSE {"CRASH"})
<1>2. stat' \in statuses /\ pc' = pc
  BY Widths DEF Fault, Stop, SumOverflows
<1> HIDE DEF statuses
<1>3. ISA!Stops(statuses, ids)
  BY <1>2, StopsIs
<1> QED BY <1>1, <1>3, SameHalf, SameNames DEF ISA!Fails, statuses

LEMMA RegInt == \A v \in Long : v \in Int
BY Widths DEF Long

LEMMA WhereMem ==
  ASSUME SimTypeOK, Fetched, HasRegs(icode), HasImm(icode), Decoded.name \in {"rmmovq", "mrmovq"}
  PROVE  ISA!Where(Decoded) = MemAt /\ MemAt \in Int /\ ISA!Touches(Decoded)
<1>1. ISA!Get(Decoded.rb) = Reg(rbid) /\ Reg(rbid) \in Int /\ Decoded.imm = addr /\ addr \in Int
  BY Operands2, DecodeIs, FetchType, RegInt
<1>2. MemAt \in Int
  BY <1>1, ToLongType, RegInt DEF MemAt
<1>3. ISA!Where(Decoded) = MemAt
  BY <1>1, SameNumbers DEF ISA!Where, MemAt
<1> QED BY <1>2, <1>3 DEF ISA!Touches

LEMMA WhereStack ==
  ASSUME SimTypeOK
  PROVE  /\ Decoded.name \in {"call", "pushq"} => ISA!Where(Decoded) = Below /\ ISA!Touches(Decoded)
         /\ Decoded.name \in {"ret", "popq"} =>
              ISA!Where(Decoded) = Reg(REG_RSP) /\ ISA!Touches(Decoded)
         /\ Below \in Long /\ Below \in Int /\ Reg(REG_RSP) \in Long /\ Reg(REG_RSP) \in Int
         /\ ISA!ToLong(ISA!SP + LONG) = Above /\ Above \in Long
<1>1. Reg(REG_RSP) \in Long /\ Reg(REG_RSP) \in Int
  BY RegType, RegInt DEF REG_RSP, Nibble
<1>2. Below \in Long /\ Below \in Int /\ Above \in Long
  <2>1. Reg(REG_RSP) - LONG \in Int /\ Reg(REG_RSP) + LONG \in Int
    BY <1>1, Widths
  <2> QED BY <2>1, ToLongType, RegInt DEF Below, Above
<1>3. ISA!SP = Reg(REG_RSP)
  BY GetIs
<1>4. ISA!ToLong(ISA!SP + LONG) = Above
  BY <1>3, SameNumbers DEF Above
<1>5. Decoded.name \in {"call", "pushq"} => ISA!Where(Decoded) = Below /\ ISA!Touches(Decoded)
  BY <1>3, SameNumbers DEF ISA!Where, ISA!Touches, Below
<1>6. Decoded.name \in {"ret", "popq"} =>
              ISA!Where(Decoded) = Reg(REG_RSP) /\ ISA!Touches(Decoded)
  BY <1>3 DEF ISA!Where, ISA!Touches
<1> QED BY <1>1, <1>2, <1>4, <1>5, <1>6

LEMMA RmmovqStep ==
  ASSUME SimTypeOK, Rmmovq
  PROVE  ISA!Execute
<1>1. Instr(I_RMMOVQ) /\ r' = r /\ cc' = cc
  BY DEF Rmmovq
<1>2. /\ stat = "AOK" /\ pc \in Address /\ Decoded.name = "rmmovq" /\ Follows = next_pc
      /\ Fetched /\ HasRegs(icode) /\ HasImm(icode)
  BY <1>1, Reached, Shapes DEF I_RMMOVQ, HasRegs, HasImm, I_HALT, I_NOP, I_JMP, I_CALL, I_RET
<1>3. ISA!Get(Decoded.ra) = Reg(raid)
  BY <1>2, Operands2
<1>4. ISA!Where(Decoded) = MemAt /\ MemAt \in Int /\ ISA!Touches(Decoded)
  BY <1>2, WhereMem
<1>5. ISA!OnlyRegs({})
  BY <1>1, NoSet
<1>6. CASE InMem(MemAt) /\ Continue(next_pc) /\ m' = SetLong(m, MemAt, Reg(raid))
  <2>1. ISA!Goes(Follows) /\ ISA!Present(ISA!Where(Decoded))
    BY <1>2, <1>4, <1>6, GoesIs, PresentIs
  <2>2. ISA!Stores(ISA!Where(Decoded), ISA!Get(Decoded.ra))
    BY <1>3, <1>4, <1>6, StoreIs
  <2>3. ISA!Accesses(Decoded, Follows)
    BY <1>1, <1>2, <1>4, <1>5, <2>1, <2>2 DEF ISA!Accesses
  <2> QED BY <1>2, <2>3, Executes
<1>7. CASE Fault(MemAt) /\ m' = m
  <2>1. ISA!Fails(Decoded)
    BY <1>1, <1>2, <1>4, <1>5, <1>7, Faults
  <2> QED BY <1>2, <2>1, Executes
<1> QED BY <1>6, <1>7 DEF Rmmovq

LEMMA MrmovqStep ==
  ASSUME SimTypeOK, Mrmovq
  PROVE  ISA!Execute
<1>1. Instr(I_MRMOVQ) /\ m' = m /\ cc' = cc
  BY DEF Mrmovq
<1>2. /\ stat = "AOK" /\ pc \in Address /\ Decoded.name = "mrmovq" /\ Follows = next_pc
      /\ Fetched /\ HasRegs(icode) /\ HasImm(icode)
  BY <1>1, Reached, Shapes DEF I_MRMOVQ, HasRegs, HasImm, I_HALT, I_NOP, I_JMP, I_CALL, I_RET
<1>3. raid \in Nibble /\ Decoded.ra = raid
  BY <1>2, Operands2
<1>4. ISA!Where(Decoded) = MemAt /\ MemAt \in Int /\ ISA!Touches(Decoded)
  BY <1>2, WhereMem
<1>5. CASE InMem(MemAt) /\ Continue(next_pc) /\ r' = SetReg(r, raid, LongAt(m, MemAt))
  <2>1. ISA!Goes(Follows) /\ ISA!Present(ISA!Where(Decoded))
    BY <1>2, <1>4, <1>5, GoesIs, PresentIs
  <2>2. ISA!Number64(m, ISA!Where(Decoded)) = LongAt(m, MemAt)
    BY <1>4, <1>5, NumberIs DEF SimTypeOK
  <2>3. ISA!OnlyRegs({Decoded.ra}) /\ ISA!Sets(Decoded.ra, ISA!Number64(m, ISA!Where(Decoded)))
    BY <1>3, <1>5, <2>2, SetIs
  <2>4. ISA!Accesses(Decoded, Follows)
    BY <1>1, <1>2, <1>4, <2>1, <2>3 DEF ISA!Accesses
  <2> QED BY <1>2, <2>4, Executes
<1>6. CASE Fault(MemAt) /\ r' = r
  <2>1. ISA!OnlyRegs({})
    BY <1>6, NoSet
  <2>2. ISA!Fails(Decoded)
    BY <1>1, <1>2, <1>4, <1>6, <2>1, Faults
  <2> QED BY <1>2, <2>2, Executes
<1> QED BY <1>5, <1>6 DEF Mrmovq

\* call and pushq, once it is known what they store and where they go
LEMMA PushStep ==
  ASSUME SimTypeOK, stat = "AOK", pc \in Address, NEW v, NEW to, Push(v, to),
         \/ Decoded.name = "call" /\ v = Follows /\ to = Decoded.imm
         \/ Decoded.name = "pushq" /\ v = ISA!Get(Decoded.ra) /\ to = Follows
  PROVE  ISA!Execute
<1>1. r' = SetReg(r, REG_RSP, Below) /\ cc' = cc
  BY DEF Push
<1>2. ISA!Where(Decoded) = Below /\ ISA!Touches(Decoded) /\ Below \in Int
  BY WhereStack
<1>3. ISA!OnlyRegs({REG_RSP}) /\ ISA!Sets(REG_RSP, Below)
  BY <1>1, SetIs DEF REG_RSP, Nibble
<1>4. CASE InMem(Below) /\ Continue(to) /\ m' = SetLong(m, Below, v)
  <2>1. ISA!Goes(to) /\ ISA!Present(Below) /\ ISA!Stores(Below, v)
    BY <1>4, GoesIs, PresentIs, StoreIs
  <2>2. ISA!Accesses(Decoded, Follows)
    BY <1>1, <1>2, <1>3, <2>1, SameNames DEF ISA!Accesses
  <2> QED BY <2>2, Executes
<1>5. CASE Fault(Below) /\ m' = m
  <2>1. ISA!Fails(Decoded)
    BY <1>1, <1>2, <1>3, <1>5, Faults
  <2> QED BY <2>1, Executes
<1> QED BY <1>4, <1>5 DEF Push

LEMMA CallStep ==
  ASSUME SimTypeOK, Call
  PROVE  ISA!Execute
<1>1. Instr(I_CALL) /\ Push(next_pc, addr)
  BY DEF Call
<1>2. /\ stat = "AOK" /\ pc \in Address /\ Decoded.name = "call" /\ Follows = next_pc
      /\ Fetched /\ HasImm(icode)
  BY <1>1, Reached, Shapes DEF I_CALL, HasImm
<1>3. Decoded.imm = addr
  BY <1>2, DecodeIs
<1> QED BY <1>1, <1>2, <1>3, PushStep

LEMMA PushqStep ==
  ASSUME SimTypeOK, Pushq
  PROVE  ISA!Execute
<1>1. Instr(I_PUSHQ) /\ Push(Reg(raid), next_pc)
  BY DEF Pushq
<1>2. /\ stat = "AOK" /\ pc \in Address /\ Decoded.name = "pushq" /\ Follows = next_pc
      /\ Fetched /\ HasRegs(icode)
  BY <1>1, Reached, Shapes DEF I_PUSHQ, HasRegs, I_HALT, I_NOP, I_JMP, I_CALL, I_RET
<1>3. ISA!Get(Decoded.ra) = Reg(raid)
  BY <1>2, Operands2
<1> QED BY <1>1, <1>2, <1>3, PushStep

LEMMA RetStep ==
  ASSUME SimTypeOK, Ret
  PROVE  ISA!Execute
<1>1. Instr(I_RET) /\ m' = m /\ cc' = cc
  BY DEF Ret
<1>2. stat = "AOK" /\ pc \in Address /\ Decoded.name = "ret"
  BY <1>1, Reached, Shapes DEF I_RET
<1> DEFINE sp == Reg(REG_RSP)
<1>3. /\ ISA!Where(Decoded) = sp /\ ISA!Touches(Decoded) /\ sp \in Int
      /\ ISA!SP = sp /\ ISA!ToLong(ISA!SP + LONG) = Above
  BY <1>2, WhereStack, GetIs
<1> HIDE DEF sp
<1>4. CASE InMem(sp) /\ Continue(LongAt(m, sp)) /\ r' = SetReg(r, REG_RSP, Above)
  <2>1. ISA!Number64(m, ISA!SP) = LongAt(m, sp)
    BY <1>3, <1>4, NumberIs DEF SimTypeOK
  <2>2. ISA!Goes(ISA!Number64(m, ISA!SP)) /\ ISA!Present(ISA!Where(Decoded))
    BY <1>3, <1>4, <2>1, GoesIs, PresentIs
  <2>3. ISA!OnlyRegs({REG_RSP}) /\ ISA!Sets(REG_RSP, ISA!ToLong(ISA!SP + LONG))
    BY <1>3, <1>4, SetIs DEF REG_RSP, Nibble
  <2>4. ISA!Accesses(Decoded, Follows)
    BY <1>1, <1>2, <1>3, <2>2, <2>3, SameNames DEF ISA!Accesses
  <2> QED BY <1>2, <2>4, Executes
<1>5. CASE Fault(sp) /\ r' = r
  <2>1. ISA!OnlyRegs({})
    BY <1>5, NoSet
  <2>2. ISA!Fails(Decoded)
    BY <1>1, <1>2, <1>3, <1>5, <2>1, Faults
  <2> QED BY <1>2, <2>2, Executes
<1> QED BY <1>4, <1>5 DEF Ret, sp

LEMMA PopqStep ==
  ASSUME SimTypeOK, Popq
  PROVE  ISA!Execute
<1>1. Instr(I_POPQ) /\ m' = m /\ cc' = cc
  BY DEF Popq
<1>2. /\ stat = "AOK" /\ pc \in Address /\ Decoded.name = "popq" /\ Follows = next_pc
      /\ Fetched /\ HasRegs(icode)
  BY <1>1, Reached, Shapes DEF I_POPQ, HasRegs, I_HALT, I_NOP, I_JMP, I_CALL, I_RET
<1>3. raid \in Nibble /\ Decoded.ra = raid
  BY <1>2, Operands2
<1> DEFINE sp == Reg(REG_RSP)
<1>4. /\ ISA!Where(Decoded) = sp /\ ISA!Touches(Decoded) /\ sp \in Int
      /\ ISA!SP = sp /\ ISA!ToLong(ISA!SP + LONG) = Above
  BY <1>2, WhereStack, GetIs
<1> HIDE DEF sp
<1>5. CASE /\ InMem(sp) /\ Continue(next_pc)
           /\ r' = SetReg(SetReg(r, REG_RSP, Above), raid, LongAt(m, sp))
  <2> DEFINE w == LongAt(m, sp)
             a == Above
  <2>1. ISA!Number64(m, ISA!SP) = w
    BY <1>4, <1>5, NumberIs DEF SimTypeOK
  <2>2. ISA!Goes(Follows) /\ ISA!Present(ISA!Where(Decoded))
    BY <1>2, <1>4, <1>5, GoesIs, PresentIs
  <2>3. r' = SetReg(SetReg(r, 4, a), raid, w)
    BY <1>5 DEF REG_RSP
  <2> HIDE DEF w, a
  <2>4. r \in [0 .. 14 -> Long]
    BY DEF SimTypeOK, RegId, REG_NONE
  <2>5. SetReg(r, 4, a) = [r EXCEPT ![4] = a]
    BY DEF SetReg, REG_NONE
  <2>6. /\ \A i \in (0 .. 14) \ {raid, 4} : r'[i] = r[i]
        /\ raid # 15 => r'[raid] = w
        /\ raid # 4 => r'[4] = a
    <3>1. CASE raid = 15
      <4>1. r' = [r EXCEPT ![4] = a]
        BY <2>3, <2>5, <3>1 DEF SetReg, REG_NONE
      <4> QED BY <2>4, <3>1, <4>1
    <3>2. CASE raid # 15
      <4>1. r' = [[r EXCEPT ![4] = a] EXCEPT ![raid] = w] /\ raid \in 0 .. 14
        BY <1>3, <2>3, <2>5, <3>2 DEF SetReg, REG_NONE, Nibble
      <4> QED BY <2>4, <4>1
    <3> QED BY <3>1, <3>2
  <2>7. /\ ISA!OnlyRegs({Decoded.ra, REG_RSP})
        /\ ISA!Sets(Decoded.ra, ISA!Number64(m, ISA!SP))
        /\ Decoded.ra # REG_RSP => ISA!Sets(REG_RSP, a)
    BY <1>3, <2>1, <2>6, SameNames DEF ISA!OnlyRegs, ISA!Sets, RegId, REG_NONE, REG_RSP
  <2>8. ISA!ToLong(ISA!SP + LONG) = a
    BY <1>4 DEF a
  <2>9. ISA!Accesses(Decoded, Follows)
    BY <1>1, <1>2, <1>4, <2>2, <2>7, <2>8, SameNames DEF ISA!Accesses
  <2> QED BY <1>2, <2>9, Executes
<1>6. CASE Fault(sp) /\ r' = r
  <2>1. ISA!OnlyRegs({})
    BY <1>6, NoSet
  <2>2. ISA!Fails(Decoded)
    BY <1>1, <1>2, <1>4, <1>6, <2>1, Faults
  <2> QED BY <1>2, <2>2, Executes
<1> QED BY <1>5, <1>6 DEF Popq, sp

LEMMA NextiExecutes == SimTypeOK /\ FlagsOK(cc) /\ nexti => ISA!Execute
BY BadFetchStep, HaltStep, NopStep, RrmovqStep, IrmovqStep, RmmovqStep, MrmovqStep, AluStep,
   JmpStep, CallStep, RetStep, PushqStep, PopqStep, BadInstrStep DEF nexti

LEMMA LoadBoots ==
  ASSUME SimTypeOK, file \in Seq(Byte), Load(file)
  PROVE  ISA!Boot
<1>1. m' \in [Address -> Byte]
  <2>1. SimTypeOK'
    BY LoadType
  <2> QED BY <2>1 DEF SimTypeOK
<1>2. /\ stat = "off" /\ stat' \in {"AOK", "refused"} /\ pc' = pc /\ r' = r /\ cc' = cc
  BY DEF Load
<1> QED BY <1>1, <1>2, SameNames DEF ISA!Boot

FlagsInv == FlagsOK(cc)

LEMMA FlagsStep == FlagsInv /\ [Next]_vars => FlagsInv'
<1> SUFFICES ASSUME FlagsInv, [Next]_vars PROVE FlagsOK(cc')
  BY DEF FlagsInv
<1>1. CASE Alu
  BY <1>1, FlagsFit DEF Alu, FlagsInv
<1>2. CASE cc' = cc
  BY <1>2 DEF FlagsInv
<1>3. nexti => Alu \/ cc' = cc
  BY DEF nexti, BadFetch, Halt, Nop, Rrmovq, Irmovq, Rmmovq, Mrmovq, Jmp, Call, Pushq, Push, Ret,
         Popq, BadInstr
<1>4. Alu \/ cc' = cc
  BY <1>3 DEF Next, Assemble, Simulate, Load, Report, vars, simvars, machine
<1> QED BY <1>1, <1>2, <1>4

LEMMA FlagsAlways == Spec => []FlagsInv
<1>1. Init => FlagsInv
  BY DEF Init, SimInit, FlagsInv, FlagsOK, DEFAULT_CC, PACK_CC, CC
<1> QED BY <1>1, FlagsStep, PTL DEF Spec

(***************************************************************************)
(* Every call of nexti is one step of the instruction set, and loading an  *)
(* image is its boot: nexti and what it calls do nothing the instruction   *)
(* set does not promise.                                                   *)
(***************************************************************************)
THEOREM ImplementsInstructions == Spec => ImplementsISA
<1>1. Init => ISA!ISAInit
  BY SameNames DEF Init, SimInit, ISA!ISAInit, DEFAULT_CC, PACK_CC
<1>2. Y64Inv /\ FlagsInv /\ [Next]_vars => [ISA!Boot \/ ISA!Execute]_ISA!isavars
  <2>1. UNCHANGED simvars => UNCHANGED ISA!isavars
    BY DEF simvars, machine, ISA!isavars
  <2>2. Report => UNCHANGED ISA!isavars
    BY DEF Report, machine, ISA!isavars
  <2>3. ASSUME Y64Inv, FlagsInv, nexti PROVE ISA!Execute
    BY <2>3, NextiExecutes DEF Y64Inv, FlagsInv
  <2>4. ASSUME Y64Inv, Simulate, Load(file) PROVE ISA!Boot
    <3>1. file \in Seq(Byte)
      BY <2>4 DEF Y64Inv, AsmInv, AsmTypeOK, Simulate
    <3> QED BY <2>4, <3>1, LoadBoots DEF Y64Inv
  <2> QED BY <2>1, <2>2, <2>3, <2>4 DEF Next, Assemble, Simulate, vars
<1> QED BY <1>1, <1>2, Inductive, FlagsAlways, PTL DEF Spec, ImplementsISA, ISA!ISASpec

-----------------------------------------------------------------------------
(***************************************************************************)
(* The image holds the program: where a line is placed.                    *)
(***************************************************************************)

\* The address behind line i, from that of the line
After(i, a) ==
  IF ~HasIns(i) \/ Coded(i) THEN a + BytesOf(i)
  ELSE IF Mnemonic(i) = ".pos" THEN Arg(i, 1).num
  ELSE a + ((-a) % Arg(i, 1).num)

IsPlace(p, n) ==
  p = [i \in 1 .. n |-> IF i = 1 THEN 0 ELSE After(i - 1, p[i - 1])]

LEMMA PlaceExists ==
  ASSUME NEW N \in Nat \ {0}
  PROVE  \E p : IsPlace(p, N)
<1> DEFINE Bad == {n \in Nat \ {0} : ~\E p : IsPlace(p, n)}
<1>1. SUFFICES ASSUME Bad # {} PROVE FALSE
  OBVIOUS
<1>2. Bad \subseteq Nat
  OBVIOUS
<1>3. PICK n \in Bad : \A k \in Bad : n <= k
  <2> HIDE DEF Bad
  <2> QED BY <1>1, <1>2, Least
<1>4. n # 1
  <2>1. IsPlace([i \in 1 .. 1 |-> 0], 1)
    BY DEF IsPlace
  <2> QED BY <2>1
<1>5. n - 1 \in Nat \ {0} /\ ~(n <= n - 1) /\ n \in Nat
  BY <1>4
<1>6. PICK p : IsPlace(p, n - 1)
  BY <1>3, <1>5
<1> DEFINE q == [i \in 1 .. n |-> IF i = n THEN After(n - 1, p[n - 1]) ELSE p[i]]
<1>7. \A i \in 1 .. n : q[i] = IF i = 1 THEN 0 ELSE After(i - 1, q[i - 1])
  <2> TAKE i \in 1 .. n
  <2>1. CASE i = n
    <3>1. i - 1 \in 1 .. n /\ i - 1 # n
      BY <1>4, <1>5, <2>1
    <3>2. q[i - 1] = p[i - 1]
      BY <3>1
    <3> QED BY <1>4, <2>1, <3>2
  <2>2. CASE i # n /\ i # 1
    <3>1. i \in 1 .. (n - 1) /\ i - 1 \in 1 .. n /\ i - 1 # n
      BY <1>5, <2>2
    <3>2. p[i] = After(i - 1, p[i - 1])
      BY <1>6, <2>2, <3>1 DEF IsPlace
    <3>3. q[i] = p[i] /\ q[i - 1] = p[i - 1]
      BY <2>2, <3>1
    <3> QED BY <2>2, <3>2, <3>3
  <2>3. CASE i # n /\ i = 1
    <3>1. 1 \in 1 .. (n - 1)
      BY <1>5
    <3>2. p[1] = 0
      BY <1>6, <3>1 DEF IsPlace
    <3> QED BY <2>3, <3>2
  <2> QED BY <2>1, <2>2, <2>3
<1>8. q = [i \in 1 .. n |-> q[i]]
  OBVIOUS
<1> HIDE DEF q
<1>9. IsPlace(q, n)
  BY <1>7, <1>8 DEF IsPlace
<1> QED BY <1>3, <1>9

LEMMA PlaceSteps ==
  ASSUME source \in Source
  PROVE  /\ Place[1] = 0
         /\ \A i \in DOMAIN source : Place[i + 1] = After(i, Place[i])
<1> DEFINE N == Len(source) + 1
           p == CHOOSE p : IsPlace(p, N)
<1>1. N \in Nat \ {0} /\ DOMAIN source = 1 .. (N - 1)
  BY SourceType
<1>2. Place = p
  BY DEF Place, IsPlace, After
<1> HIDE DEF N
<1>3. IsPlace(p, N)
  <2>1. \E q : IsPlace(q, N)
    BY <1>1, PlaceExists
  <2> QED BY <2>1
<1> HIDE DEF p
<1>4. p[1] = 0
  BY <1>1, <1>3 DEF IsPlace
<1>5. ASSUME NEW i \in DOMAIN source PROVE p[i + 1] = After(i, p[i])
  <2>1. i + 1 \in 1 .. N /\ i + 1 # 1 /\ (i + 1) - 1 = i
    BY <1>1
  <2>2. p[i + 1] = After((i + 1) - 1, p[(i + 1) - 1])
    BY <1>3, <2>1 DEF IsPlace
  <2> QED BY <2>1, <2>2
<1> QED BY <1>2, <1>4, <1>5

-----------------------------------------------------------------------------
(* The image holds the program: what the table of instructions means.      *)

Title(w) ==
  CASE w \in DOMAIN Cmovs -> "cmov"
    [] w \in DOMAIN Jumps -> "jump"
    [] w \in DOMAIN Alus -> "alu"
    [] OTHER -> w
Chosen(w) ==
  CASE Title(w) = "cmov" -> Cmovs[w]
    [] Title(w) = "jump" -> Jumps[w]
    [] Title(w) = "alu" -> Alus[w]
    [] OTHER -> "none"

\* An entry of the table with code hi and lo stands for the instruction n and s.
Stands(w, hi, lo, b, n, s) ==
  /\ w \notin {".byte", ".word", ".long", ".quad", ".pos", ".align"}
  /\ hi \in 0 .. 11 /\ lo \in Nibble
  /\ Title(w) = n /\ Chosen(w) = s
  /\ ISA!Name(hi) = n /\ ISA!Select(n, lo) = s /\ ISA!Size(n) = b

LEMMA MoveTitles ==
  /\ \A w \in DOMAIN Cmovs : Title(w) = "cmov" /\ Chosen(w) = Cmovs[w]
  /\ DOMAIN Cmovs = {"rrmovq", "cmovle", "cmovl", "cmove", "cmovne", "cmovge", "cmovg"}
  /\ DOMAIN Jumps = {"jmp", "jle", "jl", "je", "jne", "jge", "jg"}
  /\ DOMAIN Alus = {"addq", "subq", "andq", "xorq"}
BY DEF Title, Chosen, Cmovs, Jumps, Alus

LEMMA JumpTitles ==
  \A w \in DOMAIN Jumps : Title(w) = "jump" /\ Chosen(w) = Jumps[w]
BY MoveTitles DEF Title, Chosen

LEMMA Selections ==
  /\ \A n \in {"cmov", "jump"} :
       /\ ISA!Select(n, 0) = "yes" /\ ISA!Select(n, 1) = "le" /\ ISA!Select(n, 2) = "l"
       /\ ISA!Select(n, 3) = "e" /\ ISA!Select(n, 4) = "ne" /\ ISA!Select(n, 5) = "ge"
       /\ ISA!Select(n, 6) = "g"
  /\ ISA!Name(2) = "cmov" /\ ISA!Name(7) = "jump"
  /\ ISA!Size("cmov") = 2 /\ ISA!Size("jump") = LONG + 1
BY Widths DEF ISA!Select, ISA!Conds, ISA!Name, ISA!Names, ISA!Size, ISA!WithRegs, ISA!WithImm

LEMMA MovesStand ==
  /\ Stands("rrmovq", I_RRMOVQ, 0, 2, "cmov", "yes")
  /\ Stands("cmovle", I_RRMOVQ, C_LE, 2, "cmov", "le")
  /\ Stands("cmovl", I_RRMOVQ, C_L, 2, "cmov", "l")
  /\ Stands("cmove", I_RRMOVQ, C_E, 2, "cmov", "e")
  /\ Stands("cmovne", I_RRMOVQ, C_NE, 2, "cmov", "ne")
  /\ Stands("cmovge", I_RRMOVQ, C_GE, 2, "cmov", "ge")
  /\ Stands("cmovg", I_RRMOVQ, C_G, 2, "cmov", "g")
<1>1. /\ Cmovs["rrmovq"] = "yes" /\ Cmovs["cmovle"] = "le" /\ Cmovs["cmovl"] = "l"
      /\ Cmovs["cmove"] = "e" /\ Cmovs["cmovne"] = "ne" /\ Cmovs["cmovge"] = "ge"
      /\ Cmovs["cmovg"] = "g"
  BY DEF Cmovs
<1> QED BY <1>1, MoveTitles, Selections
        DEF Stands, Nibble, I_RRMOVQ, C_LE, C_L, C_E, C_NE, C_GE, C_G

LEMMA JumpsStand ==
  /\ Stands("jmp", I_JMP, C_YES, LONG + 1, "jump", "yes")
  /\ Stands("jle", I_JMP, C_LE, LONG + 1, "jump", "le")
  /\ Stands("jl", I_JMP, C_L, LONG + 1, "jump", "l")
  /\ Stands("je", I_JMP, C_E, LONG + 1, "jump", "e")
  /\ Stands("jne", I_JMP, C_NE, LONG + 1, "jump", "ne")
  /\ Stands("jge", I_JMP, C_GE, LONG + 1, "jump", "ge")
  /\ Stands("jg", I_JMP, C_G, LONG + 1, "jump", "g")
<1>1. /\ Jumps["jmp"] = "yes" /\ Jumps["jle"] = "le" /\ Jumps["jl"] = "l"
      /\ Jumps["je"] = "e" /\ Jumps["jne"] = "ne" /\ Jumps["jge"] = "ge"
      /\ Jumps["jg"] = "g"
  BY DEF Jumps
<1> QED BY <1>1, MoveTitles, JumpTitles, Selections
        DEF Stands, Nibble, I_JMP, C_YES, C_LE, C_L, C_E, C_NE, C_GE, C_G

LEMMA AlusStand ==
  /\ Stands("addq", I_ALU, A_ADD, 2, "alu", "add")
  /\ Stands("subq", I_ALU, A_SUB, 2, "alu", "sub")
  /\ Stands("andq", I_ALU, A_AND, 2, "alu", "and")
  /\ Stands("xorq", I_ALU, A_XOR, 2, "alu", "xor")
BY Widths DEF Stands, Title, Chosen, Cmovs, Jumps, Alus, Nibble, ISA!Name, ISA!Names, ISA!Select,
   ISA!Ops, ISA!Size, ISA!WithRegs, ISA!WithImm, I_ALU, A_ADD, A_SUB, A_AND, A_XOR

LEMMA OthersStand ==
  /\ Stands("nop", I_NOP, 0, 1, "nop", "none")
  /\ Stands("halt", I_HALT, 0, 1, "halt", "none")
  /\ Stands("irmovq", I_IRMOVQ, 0, LONG + 2, "irmovq", "none")
  /\ Stands("rmmovq", I_RMMOVQ, 0, LONG + 2, "rmmovq", "none")
  /\ Stands("mrmovq", I_MRMOVQ, 0, LONG + 2, "mrmovq", "none")
  /\ Stands("call", I_CALL, 0, LONG + 1, "call", "none")
  /\ Stands("ret", I_RET, 0, 1, "ret", "none")
  /\ Stands("pushq", I_PUSHQ, 0, 2, "pushq", "none")
  /\ Stands("popq", I_POPQ, 0, 2, "popq", "none")
BY Widths DEF Stands, Title, Chosen, Cmovs, Jumps, Alus, Nibble, ISA!Name, ISA!Names, ISA!Select,
   ISA!Size, ISA!WithRegs, ISA!WithImm, I_NOP, I_HALT, I_IRMOVQ, I_RMMOVQ, I_MRMOVQ, I_CALL,
   I_RET, I_PUSHQ, I_POPQ

\* What an entry of the table is, by its name
IsDatum(i) == IsData(i) /\ i.name \in DOMAIN DATA_BYTES /\ i.bytes = DATA_BYTES[i.name]
IsPlacing(i) == IsDirective(i) /\ ~IsData(i) /\ i.name \in {".pos", ".align"} /\ i.bytes = 0
IsInstr(i) ==
  /\ i.name \notin {".byte", ".word", ".long", ".quad", ".pos", ".align"}
  /\ i.code \in Byte /\ HIGH(i.code) \in 0 .. 11 /\ LOW(i.code) \in Nibble
  /\ ISA!Name(HIGH(i.code)) = Title(i.name)
  /\ ISA!Select(Title(i.name), LOW(i.code)) = Chosen(i.name)
  /\ ISA!Size(Title(i.name)) = i.bytes

LEMMA PackParts ==
  ASSUME NEW x \in Nibble, NEW y \in Nibble
  PROVE  HIGH(HPACK(x, y)) = x /\ LOW(HPACK(x, y)) = y
BY DEF Nibble, HPACK, HIGH, LOW

LEMMA InstrStands ==
  ASSUME NEW w, NEW hi, NEW lo, NEW b, NEW n, NEW s, Stands(w, hi, lo, b, n, s)
  PROVE  IsInstr(Ins(w, hi, lo, b))
<1>1. hi \in Nibble /\ lo \in Nibble
  BY DEF Stands, Nibble
<1>2. HPACK(hi, lo) \in Byte /\ HIGH(HPACK(hi, lo)) = hi /\ LOW(HPACK(hi, lo)) = lo
  BY <1>1, PackType, PackParts
<1> QED BY <1>1, <1>2 DEF Stands, IsInstr, Ins

LEMMA TableMeans == \A i \in instr_set : IsDatum(i) \/ IsPlacing(i) \/ IsInstr(i)
<1>1. IsPlacing(Ins(".pos", I_DIRECTIVE, 1, 0)) /\ IsPlacing(Ins(".align", I_DIRECTIVE, 2, 0))
  BY DEF IsPlacing, Ins, IsDirective, IsData, HIGH, HPACK, I_DIRECTIVE
<1>2. \A d \in DOMAIN DATA_BYTES : IsDatum(Ins(d, I_DIRECTIVE, 0, DATA_BYTES[d]))
  BY DEF IsDatum, Ins, IsData
<1>3. /\ IsInstr(Ins("rrmovq", I_RRMOVQ, 0, 2)) /\ IsInstr(Ins("cmovle", I_RRMOVQ, C_LE, 2))
      /\ IsInstr(Ins("cmovl", I_RRMOVQ, C_L, 2)) /\ IsInstr(Ins("cmove", I_RRMOVQ, C_E, 2))
      /\ IsInstr(Ins("cmovne", I_RRMOVQ, C_NE, 2)) /\ IsInstr(Ins("cmovge", I_RRMOVQ, C_GE, 2))
      /\ IsInstr(Ins("cmovg", I_RRMOVQ, C_G, 2))
  BY MovesStand, InstrStands
<1>4. /\ IsInstr(Ins("jmp", I_JMP, C_YES, LONG + 1)) /\ IsInstr(Ins("jle", I_JMP, C_LE, LONG + 1))
      /\ IsInstr(Ins("jl", I_JMP, C_L, LONG + 1)) /\ IsInstr(Ins("je", I_JMP, C_E, LONG + 1))
      /\ IsInstr(Ins("jne", I_JMP, C_NE, LONG + 1)) /\ IsInstr(Ins("jge", I_JMP, C_GE, LONG + 1))
      /\ IsInstr(Ins("jg", I_JMP, C_G, LONG + 1))
  BY JumpsStand, InstrStands
<1>5. /\ IsInstr(Ins("addq", I_ALU, A_ADD, 2)) /\ IsInstr(Ins("subq", I_ALU, A_SUB, 2))
      /\ IsInstr(Ins("andq", I_ALU, A_AND, 2)) /\ IsInstr(Ins("xorq", I_ALU, A_XOR, 2))
  BY AlusStand, InstrStands
<1>6. /\ IsInstr(Ins("nop", I_NOP, 0, 1)) /\ IsInstr(Ins("halt", I_HALT, 0, 1))
      /\ IsInstr(Ins("irmovq", I_IRMOVQ, 0, LONG + 2)) /\ IsInstr(Ins("rmmovq", I_RMMOVQ, 0, LONG + 2))
      /\ IsInstr(Ins("mrmovq", I_MRMOVQ, 0, LONG + 2)) /\ IsInstr(Ins("call", I_CALL, 0, LONG + 1))
      /\ IsInstr(Ins("ret", I_RET, 0, 1)) /\ IsInstr(Ins("pushq", I_PUSHQ, 0, 2))
      /\ IsInstr(Ins("popq", I_POPQ, 0, 2))
  BY OthersStand, InstrStands
<1> QED BY <1>1, <1>2, <1>3, <1>4, <1>5, <1>6 DEF instr_set

-----------------------------------------------------------------------------
(* The image holds the program: the code of an instruction.                *)

\* The bytes that parse_line makes of instruction i and number v, as far as
\* they are written to the file.
CodesAre(codes, i, args, v) ==
  IF IsData(i) THEN \A k \in 0 .. (i.bytes - 1) : codes[k] = ByteOf(v, k)
  ELSE /\ codes[0] = i.code
       /\ HasRegsByte(i) => codes[1] = RegsByte(i, args)
       /\ HasImm(HIGH(i.code)) =>
            \A k \in 0 .. (LONG - 1) : codes[i.bytes - LONG + k] = ByteOf(v, k)

LEMMA InstrSizes ==
  ASSUME NEW i, IsInstr(i)
  PROVE  /\ ~IsData(i) /\ ~IsDirective(i)
         /\ HasRegsByte(i) <=> HasRegs(HIGH(i.code))
         /\ i.bytes = 1 + (IF HasRegsByte(i) THEN 1 ELSE 0)
                        + (IF HasImm(HIGH(i.code)) THEN LONG ELSE 0)
<1> DEFINE c == HIGH(i.code)
<1>1. c \in 0 .. 11 /\ ISA!Name(c) = Title(i.name) /\ ISA!Size(Title(i.name)) = i.bytes
  BY DEF IsInstr
<1>2. ~IsDirective(i)
  BY <1>1 DEF IsDirective, I_DIRECTIVE
<1>3. ~IsData(i)
  BY <1>2, DataIsDirective DEF IsDirective
<1> HIDE DEF c
<1>4. HasRegsByte(i) <=> HasRegs(c)
  BY <1>1 DEF HasRegsByte, HasRegs, c, I_HALT, I_NOP, I_RRMOVQ, I_IRMOVQ, I_RMMOVQ, I_MRMOVQ,
     I_ALU, I_JMP, I_CALL, I_RET, I_PUSHQ, I_POPQ
<1>5. c \in Nibble
  BY <1>1 DEF Nibble
<1>6. i.bytes = 1 + (IF HasRegs(c) THEN 1 ELSE 0) + (IF HasImm(c) THEN LONG ELSE 0)
  BY <1>1, <1>5, Sizes
<1> QED BY <1>2, <1>3, <1>4, <1>6 DEF c

LEMMA AddressCopied ==
  ASSUME NEW codes \in [CodeIndex -> Byte], NEW n \in {0, 1, 2}, NEW v, NEW b \in 0 .. LONG
  PROVE  /\ \A k \in 0 .. (b - 1) : addressMemory(codes, n, v, b)[n + k] = ByteOf(v, k)
         /\ \A k \in 0 .. (n - 1) : addressMemory(codes, n, v, b)[k] = codes[k]
<1>1. LONG \in Nat /\ b \in Nat /\ b <= LONG
  BY Widths
<1>2. ASSUME NEW k \in 0 .. (b - 1)
      PROVE  addressMemory(codes, n, v, b)[n + k] = ByteOf(v, k)
  <2>1. n + k \in CodeIndex /\ n + k \in n .. (n + b - 1) /\ (n + k) - n = k
    BY <1>1 DEF CodeIndex
  <2>2. addressMemory(codes, n, v, b)[n + k] = ByteOf(v, (n + k) - n)
    BY <2>1 DEF addressMemory
  <2> QED BY <2>1, <2>2
<1>3. ASSUME NEW k \in 0 .. (n - 1)
      PROVE  addressMemory(codes, n, v, b)[k] = codes[k]
  <2>1. k \in CodeIndex /\ k \notin n .. (n + b - 1)
    BY <1>1 DEF CodeIndex
  <2> QED BY <2>1 DEF addressMemory
<1> QED BY <1>2, <1>3

LEMMA CodesMade ==
  ASSUME NEW old \in [CodeIndex -> Byte], NEW i \in instr_set, ~IsPlacing(i),
         NEW args \in Seq(Token), Len(args) = Len(Operands(i)), NEW v
  PROVE  CodesAre(Codes(old, i, args, v), i, args, v)
<1> DEFINE head == [old EXCEPT ![0] = i.code,
                               ![1] = IF HasRegsByte(i) THEN RegsByte(i, args) ELSE @]
           c == HIGH(i.code)
<1>1. i.code \in Byte /\ i.bytes \in 0 .. (LONG + 2) /\ (IsData(i) => i.bytes \in 1 .. LONG)
  BY TableTypes
<1>2. /\ head \in [CodeIndex -> Byte] /\ head[0] = i.code
      /\ HasRegsByte(i) => head[1] = RegsByte(i, args)
  BY <1>1, RegsByteType, Widths DEF CodeIndex
<1>3. IsDatum(i) \/ IsInstr(i)
  BY TableMeans
<1> HIDE DEF head
<1>4. CASE IsDatum(i)
  <2>1. IsData(i) /\ HIGH(i.code) = I_DIRECTIVE
    BY <1>4, DataIsDirective DEF IsDatum
  <2>2. Codes(old, i, args, v) = addressMemory(head, 0, v, i.bytes)
    BY <2>1 DEF Codes, head, I_IRMOVQ, I_RMMOVQ, I_MRMOVQ, I_JMP, I_CALL, I_DIRECTIVE
  <2>3. i.bytes \in 0 .. LONG
    BY <1>1, <2>1, Widths
  <2>4. \A k \in 0 .. (i.bytes - 1) : addressMemory(head, 0, v, i.bytes)[0 + k] = ByteOf(v, k)
    BY <1>2, <2>3, AddressCopied
  <2>5. \A k \in 0 .. (i.bytes - 1) : 0 + k = k
    OBVIOUS
  <2> QED BY <2>1, <2>2, <2>4, <2>5 DEF CodesAre
<1>5. CASE IsInstr(i)
  <2>1. /\ ~IsData(i) /\ c \in 0 .. 11
        /\ i.bytes = 1 + (IF HasRegsByte(i) THEN 1 ELSE 0) + (IF HasImm(c) THEN LONG ELSE 0)
    BY <1>5, InstrSizes DEF IsInstr
  <2>2. LONG \in 0 .. LONG /\ LONG \in Nat /\ 0 \in 0 .. 0 /\ 0 \in 0 .. 1 /\ 1 \in 0 .. 1
    BY Widths
  <2> HIDE DEF c
  <2>3. CASE c \in {I_IRMOVQ, I_RMMOVQ, I_MRMOVQ}
    <3>1. Codes(old, i, args, v) = addressMemory(head, 2, v, LONG)
      <4>1. HIGH(i.code) \in {I_IRMOVQ, I_RMMOVQ, I_MRMOVQ}
        BY <2>3 DEF c
      <4> QED BY <4>1, DataIsDirective DEF Codes, head, I_IRMOVQ, I_RMMOVQ, I_MRMOVQ, I_JMP,
              I_CALL, I_DIRECTIVE
    <3>2. HasRegsByte(i) /\ HasImm(c)
      BY <2>3 DEF HasRegsByte, HasImm, c
    <3>3. i.bytes - LONG = 2
      BY <2>1, <2>2, <3>2
    <3>4. /\ \A k \in 0 .. (LONG - 1) : addressMemory(head, 2, v, LONG)[2 + k] = ByteOf(v, k)
          /\ \A k \in 0 .. (2 - 1) : addressMemory(head, 2, v, LONG)[k] = head[k]
      BY <1>2, <2>2, AddressCopied
    <3>5. addressMemory(head, 2, v, LONG)[0] = head[0] /\ addressMemory(head, 2, v, LONG)[1] = head[1]
      BY <3>4
    <3> QED BY <1>2, <2>1, <3>1, <3>2, <3>3, <3>4, <3>5 DEF CodesAre, c
  <2>4. CASE c \in {I_JMP, I_CALL}
    <3>1. Codes(old, i, args, v) = addressMemory(head, 1, v, LONG)
      BY <2>1, <2>4 DEF Codes, head, c, I_IRMOVQ, I_RMMOVQ, I_MRMOVQ, I_JMP, I_CALL
    <3>2. ~HasRegsByte(i) /\ HasImm(c)
      BY <2>4 DEF HasRegsByte, HasImm, c, I_RRMOVQ, I_IRMOVQ, I_RMMOVQ, I_MRMOVQ, I_ALU, I_JMP,
         I_CALL, I_PUSHQ, I_POPQ
    <3>3. i.bytes - LONG = 1
      BY <2>1, <2>2, <3>2
    <3>4. /\ \A k \in 0 .. (LONG - 1) : addressMemory(head, 1, v, LONG)[1 + k] = ByteOf(v, k)
          /\ \A k \in 0 .. (1 - 1) : addressMemory(head, 1, v, LONG)[k] = head[k]
      BY <1>2, <2>2, AddressCopied
    <3>5. addressMemory(head, 1, v, LONG)[0] = head[0]
      BY <3>4
    <3> QED BY <1>2, <2>1, <3>1, <3>2, <3>3, <3>4, <3>5 DEF CodesAre, c
  <2>5. CASE c \notin {I_IRMOVQ, I_RMMOVQ, I_MRMOVQ, I_JMP, I_CALL}
    <3>1. Codes(old, i, args, v) = head
      BY <2>1, <2>5 DEF Codes, head, c
    <3>2. ~HasImm(c)
      BY <2>5 DEF HasImm
    <3> QED BY <1>2, <2>1, <3>1, <3>2 DEF CodesAre, c
  <2> QED BY <2>3, <2>4, <2>5
<1> QED BY <1>3, <1>4, <1>5

\* The instructions that may name a label
LEMMA SymOperand ==
  ASSUME NEW i, IsInstr(i), NEW k \in DOMAIN Operands(i), "sym" \in Operands(i)[k]
  PROVE  HIGH(i.code) \in {I_IRMOVQ, I_JMP, I_CALL}
<1> DEFINE c == HIGH(i.code)
<1>1. c \in 0 .. 11 /\ ~IsData(i)
  BY InstrSizes DEF IsInstr
<1> USE DEF I_HALT, I_NOP, I_RRMOVQ, I_IRMOVQ, I_RMMOVQ, I_MRMOVQ, I_ALU, I_JMP, I_CALL,
            I_RET, I_PUSHQ, I_POPQ, parse_delim, parse_reg, parse_mem
<1>2. CASE c \in {I_NOP, I_HALT, I_RET}
  <2>1. Operands(i) = <<>>
    BY <1>1, <1>2 DEF Operands
  <2> QED BY <2>1
<1>3. CASE c = I_RMMOVQ
  <2>1. Operands(i) = <<parse_reg, parse_delim, parse_mem>>
    BY <1>1, <1>3 DEF Operands
  <2> QED BY <2>1
<1>4. CASE c = I_MRMOVQ
  <2>1. Operands(i) = <<parse_mem, parse_delim, parse_reg>>
    BY <1>1, <1>4 DEF Operands
  <2> QED BY <2>1
<1>5. CASE c \in {I_RRMOVQ, I_ALU}
  <2>1. Operands(i) = <<parse_reg, parse_delim, parse_reg>>
    BY <1>1, <1>5 DEF Operands
  <2> QED BY <2>1
<1>6. CASE c \in {I_PUSHQ, I_POPQ}
  <2>1. Operands(i) = <<parse_reg>>
    BY <1>1, <1>6 DEF Operands
  <2> QED BY <2>1
<1> QED BY <1>1, <1>2, <1>3, <1>4, <1>5, <1>6

\* relocate puts a number where parse_line left room for it.
LEMMA CodesPatched ==
  ASSUME NEW codes \in [CodeIndex -> Byte], NEW i \in instr_set, ~IsPlacing(i),
         NEW args, CodesAre(codes, i, args, 0), NEW v,
         NEW k \in DOMAIN Operands(i), "sym" \in Operands(i)[k]
  PROVE  CodesAre(addressMemory(codes, RelocIndex(codes), v, LONG), i, args, v)
<1> DEFINE c == HIGH(i.code)
           new == addressMemory(codes, RelocIndex(codes), v, LONG)
<1>1. IsDatum(i) \/ IsInstr(i)
  BY TableMeans
<1>2. LONG \in 0 .. LONG /\ LONG \in Nat \ {0} /\ 0 \in 0 .. 0 /\ 0 \in 0 .. 1 /\ 1 \in 0 .. 1
  BY Widths
<1>3. CASE IsDatum(i)
  <2>1. IsData(i) /\ i.bytes \in 1 .. LONG
    BY <1>3, TableTypes DEF IsDatum
  <2>2. codes[0] = 0
    <3>1. 0 \in 0 .. (i.bytes - 1)
      BY <1>2, <2>1
    <3>2. codes[0] = ByteOf(0, 0)
      BY <2>1, <3>1 DEF CodesAre
    <3>3. 256 ^ 0 = 1
      BY PowerAssumption
    <3>4. ByteOf(0, 0) = (0 \div 1) % 256
      BY <3>3 DEF ByteOf
    <3> QED BY <3>2, <3>4
  <2>3. RelocIndex(codes) = 0
    BY <2>2 DEF RelocIndex, HIGH, I_IRMOVQ, I_CALL, I_JMP
  <2>4. \A j \in 0 .. (LONG - 1) : addressMemory(codes, 0, v, LONG)[0 + j] = ByteOf(v, j)
    BY <1>2, AddressCopied
  <2>5. \A j \in 0 .. (i.bytes - 1) : j \in 0 .. (LONG - 1) /\ 0 + j = j
    BY <1>2, <2>1
  <2> QED BY <2>1, <2>3, <2>4, <2>5 DEF CodesAre
<1>4. CASE IsInstr(i)
  <2>1. /\ ~IsData(i) /\ c \in 0 .. 11
        /\ i.bytes = 1 + (IF HasRegsByte(i) THEN 1 ELSE 0) + (IF HasImm(c) THEN LONG ELSE 0)
    BY <1>4, InstrSizes DEF IsInstr
  <2>2. codes[0] = i.code /\ (HasRegsByte(i) => codes[1] = RegsByte(i, args))
    BY <2>1 DEF CodesAre
  <2>3. HIGH(codes[0]) = c
    BY <2>2
  <2>4. c \in {I_IRMOVQ, I_JMP, I_CALL}
    BY <1>4, SymOperand
  <2> HIDE DEF c
  <2>5. CASE c = I_IRMOVQ
    <3>1. RelocIndex(codes) = 2 /\ HasRegsByte(i) /\ HasImm(c)
      <4>1. RelocIndex(codes) = 2
        <5>1. HIGH(codes[0]) = I_IRMOVQ
          BY <2>3, <2>5
        <5> QED BY <5>1 DEF RelocIndex, I_IRMOVQ, I_CALL, I_JMP
      <4>2. HasRegsByte(i)
        BY <2>5 DEF HasRegsByte, c
      <4>3. HasImm(c)
        BY <2>5 DEF HasImm
      <4> QED BY <4>1, <4>2, <4>3
    <3>2. i.bytes - LONG = 2
      BY <1>2, <2>1, <3>1
    <3>3. /\ \A j \in 0 .. (LONG - 1) : addressMemory(codes, 2, v, LONG)[2 + j] = ByteOf(v, j)
          /\ \A j \in 0 .. (2 - 1) : addressMemory(codes, 2, v, LONG)[j] = codes[j]
      BY <1>2, AddressCopied
    <3>4. new[0] = codes[0] /\ new[1] = codes[1]
      BY <3>1, <3>3
    <3> QED BY <2>1, <2>2, <3>1, <3>2, <3>3, <3>4 DEF CodesAre, c
  <2>6. CASE c \in {I_JMP, I_CALL}
    <3>1. RelocIndex(codes) = 1 /\ ~HasRegsByte(i) /\ HasImm(c)
      BY <2>3, <2>6 DEF RelocIndex, HasRegsByte, HasImm, c, I_RRMOVQ, I_IRMOVQ, I_RMMOVQ,
         I_MRMOVQ, I_ALU, I_JMP, I_CALL, I_PUSHQ, I_POPQ
    <3>2. i.bytes - LONG = 1
      BY <1>2, <2>1, <3>1
    <3>3. /\ \A j \in 0 .. (LONG - 1) : addressMemory(codes, 1, v, LONG)[1 + j] = ByteOf(v, j)
          /\ \A j \in 0 .. (1 - 1) : addressMemory(codes, 1, v, LONG)[j] = codes[j]
      BY <1>2, AddressCopied
    <3>4. new[0] = codes[0]
      BY <3>1, <3>3
    <3> QED BY <2>1, <2>2, <3>1, <3>2, <3>3, <3>4 DEF CodesAre, c
  <2> QED BY <2>4, <2>5, <2>6
<1> QED BY <1>1, <1>3, <1>4

-----------------------------------------------------------------------------
(* The image holds the program: what parse_line and relocate keep.         *)

InstrOf(k) == find_instr(Mnemonic(k))
InsRead(k) == HasIns(k) /\ Read(k, InsPos(k))

\* The operands of the instruction on line k.
IsArgs(k, args) ==
  /\ args \in Seq(Token) /\ Len(args) = Len(Operands(InstrOf(k)))
  /\ \A j \in DOMAIN args :
       /\ args[j].kind \in Operands(InstrOf(k))[j]
       /\ Arg(k, j) = args[j]

\* What relocate has put for an entry of the relocation table
Relocated(e) == phase \in {"binfile", "done"} \/ (phase = "relocate" /\ e < at)
Addend(e) == IF Relocated(e) THEN symtab[reltab[e].name] ELSE 0
EntryFor(e, k, args) ==
  reltab[e].line = k /\ \E j \in parse_symbol(args) : args[j].name = reltab[e].name

\* The number in the code of line k
NumberFor(k, args, v) ==
  IF parse_symbol(args) = {} THEN v = Number(args, 0)
  ELSE \E e \in DOMAIN reltab : EntryFor(e, k, args) /\ v = Addend(e)

CodeRight(k) ==
  \E args : IsArgs(k, args) /\ \E v :
    NumberFor(k, args, v) /\ CodesAre(lines[k].codes, InstrOf(k), args, v)
LineRight(k) ==
  /\ lines[k].bytes = IF InsRead(k) THEN BytesOf(k) ELSE 0
  /\ InsRead(k) => lines[k].type = "INS"
  /\ InsRead(k) /\ Coded(k) => lines[k].addr = Place[k] /\ CodeRight(k)

\* Where parse_line is
NowAt ==
  IF lines = <<>> THEN vmaddr = 0
  ELSE vmaddr = IF InsRead(Len(lines)) THEN Place[Len(lines) + 1] ELSE Place[Len(lines)]
NoNumber == lines # <<>> /\ ~InsRead(Len(lines)) => value = 0

SymbolRight(n) ==
  \E l \in DOMAIN source : \E x \in DOMAIN source[l] :
    Read(l, x) /\ Is(l, x, "label", n) /\ symtab[n] = Place[l]
HasSymbol(k) == \E j \in DOMAIN Operands(InstrOf(k)) : Arg(k, j).kind = "sym"
EntryRight(e) ==
  /\ InsRead(reltab[e].line) /\ HasSymbol(reltab[e].line)
  /\ \A f \in DOMAIN reltab : reltab[f].line = reltab[e].line => f = e

LayoutInv ==
  /\ \A k \in DOMAIN lines : LineRight(k)
  /\ NowAt /\ NoNumber
  /\ \A n \in DOMAIN symtab : SymbolRight(n)
  /\ \A e \in DOMAIN reltab : EntryRight(e)
Laid == (\A i \in DOMAIN source : Plain(i)) /\ Fits /\ phase \notin {"failed", "crash"}
ImageInv == Laid => LayoutInv

LEMMA SameSource ==
  ASSUME source' = source
  PROVE  /\ Place' = Place /\ Fits' = Fits
         /\ \A k : /\ HasIns(k)' = HasIns(k) /\ InsPos(k)' = InsPos(k)
                  /\ Coded(k)' = Coded(k) /\ BytesOf(k)' = BytesOf(k)
                  /\ InstrOf(k)' = InstrOf(k) /\ Plain(k)' = Plain(k)
         /\ \A k, j : Arg(k, j)' = Arg(k, j)
<1>1. \A k : Tokens(k)' = Tokens(k)
  BY DEF Tokens
<1>2. \A k : InsAt(k)' = InsAt(k)
  BY <1>1 DEF InsAt
<1>3. \A k : HasIns(k)' = HasIns(k) /\ InsPos(k)' = InsPos(k) /\ Plain(k)' = Plain(k)
  BY <1>1, <1>2 DEF HasIns, InsPos, Plain
<1>4. \A k : Mnemonic(k)' = Mnemonic(k)
  BY <1>1, <1>3 DEF Mnemonic
<1>5. \A k, j : Arg(k, j)' = Arg(k, j)
  BY <1>1, <1>3 DEF Arg
<1>6. \A k : Coded(k)' = Coded(k) /\ Datum(k)' = Datum(k) /\ NameOf(k)' = NameOf(k)
           /\ InstrOf(k)' = InstrOf(k)
  BY <1>4 DEF Coded, Datum, NameOf, InstrOf
<1>7. \A k : BytesOf(k)' = BytesOf(k)
  BY <1>3, <1>4, <1>6 DEF BytesOf
<1>8. Place' = Place
  BY <1>3, <1>4, <1>5, <1>6, <1>7 DEF Place
<1>9. Fits' = Fits
  BY <1>3, <1>4, <1>5, <1>8 DEF Fits
<1> QED BY <1>3, <1>5, <1>6, <1>7, <1>8, <1>9

\* The only instruction of a line, in its source.
LEMMA TheIns ==
  ASSUME source \in Source, NEW k \in DOMAIN source, Plain(k),
         NEW x, Live(k, x), source[k][x].kind = "ins"
  PROVE  /\ HasIns(k) /\ InsPos(k) = x /\ Mnemonic(k) = source[k][x].name
         /\ InstrOf(k) \in instr_set /\ InstrOf(k).name = Mnemonic(k)
         /\ \A j : Live(k, x + j) => Arg(k, j) = source[k][x + j]
<1>1. x \in DOMAIN Tokens(k) /\ Tokens(k)[x] = source[k][x]
  BY TokensLive
<1>2. x \in InsAt(k)
  BY <1>1 DEF InsAt
<1>3. \A y \in InsAt(k) : y = x
  <2> TAKE y \in InsAt(k)
  <2>1. y \in DOMAIN Tokens(k) /\ Tokens(k)[y].kind = "ins" /\ Tokens(k)[x].kind = "ins"
    BY <1>2 DEF InsAt
  <2>2. ~(y > x) /\ ~(x > y)
    BY <1>1, <1>2, <2>1 DEF Plain
  <2>3. source[k] \in Seq(Token)
    BY SourceType
  <2>4. x \in Nat /\ y \in Nat
    BY <1>1, <2>1, <2>3, TokensLive DEF Live
  <2> QED BY <2>2, <2>4
<1>4. HasIns(k) /\ InsPos(k) = x
  BY <1>2, <1>3 DEF HasIns, InsPos
<1>5. Mnemonic(k) = source[k][x].name
  BY <1>1, <1>4 DEF Mnemonic
<1>6. \E i \in instr_set : i.name = source[k][x].name
  BY SourceType DEF KnownNames, Live
<1>7. InstrOf(k) \in instr_set /\ InstrOf(k).name = Mnemonic(k)
  BY <1>5, <1>6, FindType DEF InstrOf
<1>8. \A j : Live(k, x + j) => Arg(k, j) = source[k][x + j]
  BY <1>4, TokensLive DEF Arg
<1> QED BY <1>4, <1>5, <1>7, <1>8

\* The instruction of a line of which some is read
LEMMA ReadIns ==
  ASSUME source \in Source, NEW k \in DOMAIN source, Plain(k), HasIns(k)
  PROVE  /\ Live(k, InsPos(k)) /\ source[k][InsPos(k)].kind = "ins"
         /\ InstrOf(k) \in instr_set /\ InstrOf(k).name = Mnemonic(k)
<1>1. InsPos(k) \in InsAt(k)
  BY DEF HasIns, InsPos
<1>2. Live(k, InsPos(k)) /\ source[k][InsPos(k)].kind = "ins"
  BY <1>1, TokensLive DEF InsAt
<1> QED BY <1>2, TheIns

\* The size of an instruction, and what follows from its name
LEMMA InstrBytes ==
  ASSUME NEW k, HasIns(k), InstrOf(k) \in instr_set, InstrOf(k).name = Mnemonic(k)
  PROVE  /\ Coded(k) <=> ~IsPlacing(InstrOf(k))
         /\ Datum(k) <=> IsDatum(InstrOf(k))
         /\ Coded(k) => IsDatum(InstrOf(k)) \/ IsInstr(InstrOf(k))
         /\ BytesOf(k) = InstrOf(k).bytes
<1> PICK i : i = InstrOf(k)
  OBVIOUS
<1>1. DOMAIN DATA_BYTES \subseteq {".byte", ".word", ".long", ".quad"}
  BY SourceAssumption
<1>2. NameOf(k) = Title(i.name)
  BY DEF NameOf, Title
<1>3. CASE IsDatum(i)
  <2>1. Datum(k) /\ Coded(k) /\ ~IsPlacing(i)
    BY <1>1, <1>3 DEF IsDatum, IsPlacing, Datum, Coded
  <2> QED BY <1>3, <2>1 DEF BytesOf, IsDatum
<1>4. CASE IsPlacing(i)
  <2>1. ~Coded(k) /\ i.bytes = 0 /\ ~IsDatum(i) /\ ~Datum(k)
    BY <1>1, <1>4 DEF IsPlacing, IsDatum, Coded, Datum
  <2> QED BY <1>4, <2>1 DEF BytesOf
<1>5. CASE IsInstr(i)
  <2>1. Coded(k) /\ ~Datum(k) /\ ~IsPlacing(i) /\ ~IsDatum(i)
    BY <1>1, <1>5 DEF IsInstr, IsPlacing, IsDatum, Coded, Datum
  <2> QED BY <1>2, <1>5, <2>1 DEF BytesOf, IsInstr
<1> QED BY <1>3, <1>4, <1>5, TableMeans

LEMMA KeptLine ==
  ASSUME source' = source, NEW k, LineRight(k), lines'[k] = lines[k], (InsRead(k)' <=> InsRead(k)),
         \A e \in DOMAIN reltab : reltab[e].line = k =>
           \E f \in DOMAIN reltab' : reltab'[f] = reltab[e] /\ Addend(f)' = Addend(e)
  PROVE  LineRight(k)'
<1>1. /\ Place' = Place /\ BytesOf(k)' = BytesOf(k) /\ Coded(k)' = Coded(k)
      /\ InstrOf(k)' = InstrOf(k) /\ \A j : Arg(k, j)' = Arg(k, j)
  BY SameSource
<1>2. \A args : IsArgs(k, args)' = IsArgs(k, args)
  BY <1>1 DEF IsArgs
<1>3. ASSUME NEW args, NEW v, NumberFor(k, args, v)
      PROVE  NumberFor(k, args, v)'
  <2>1. CASE parse_symbol(args) = {}
    BY <1>3, <2>1 DEF NumberFor
  <2>2. CASE parse_symbol(args) # {}
    <3>1. PICK e \in DOMAIN reltab : EntryFor(e, k, args) /\ v = Addend(e)
      BY <1>3, <2>2 DEF NumberFor
    <3>2. PICK f \in DOMAIN reltab' : reltab'[f] = reltab[e] /\ Addend(f)' = Addend(e)
      BY <3>1 DEF EntryFor
    <3>3. EntryFor(f, k, args)'
      BY <3>1, <3>2 DEF EntryFor
    <3> QED BY <2>2, <3>1, <3>2, <3>3 DEF NumberFor
  <2> QED BY <2>1, <2>2
<1>4. ASSUME CodeRight(k) PROVE CodeRight(k)'
  <2>1. PICK args : IsArgs(k, args) /\ \E v :
          NumberFor(k, args, v) /\ CodesAre(lines[k].codes, InstrOf(k), args, v)
    BY <1>4 DEF CodeRight
  <2>2. PICK v : NumberFor(k, args, v) /\ CodesAre(lines[k].codes, InstrOf(k), args, v)
    BY <2>1
  <2>3. IsArgs(k, args)' /\ NumberFor(k, args, v)'
    BY <1>2, <1>3, <2>1, <2>2
  <2>4. CodesAre(lines[k].codes, InstrOf(k), args, v)'
    BY <1>1, <2>2 DEF CodesAre
  <2> QED BY <2>3, <2>4 DEF CodeRight
<1> QED BY <1>1, <1>4 DEF LineRight

LEMMA SameRead ==
  ASSUME source' = source, ptr' = ptr, Len(lines') = Len(lines)
  PROVE  \A k : (InsRead(k)' <=> InsRead(k)) /\ \A x : Read(k, x)' = Read(k, x)
<1>1. Taken' = Taken
  BY DEF Taken
<1>2. \A l, x : Read(l, x)' = Read(l, x)
  BY <1>1 DEF Read, Live
<1>3. \A k : HasIns(k)' = HasIns(k) /\ InsPos(k)' = InsPos(k)
  BY SameSource
<1> QED BY <1>2, <1>3 DEF InsRead

LEMMA SameLaid ==
  ASSUME source' = source, phase' \notin {"failed", "crash"} => phase \notin {"failed", "crash"},
         Laid'
  PROVE  Laid
<1>1. Fits' = Fits /\ \A k : Plain(k)' = Plain(k)
  BY SameSource
<1> QED BY <1>1 DEF Laid

\* Symbols and entries stay right when the steps read more.
LEMMA KeptSymbol ==
  ASSUME source' = source, \A l, x : Read(l, x) => Read(l, x)', NEW n, SymbolRight(n),
         symtab'[n] = symtab[n]
  PROVE  SymbolRight(n)'
<1>1. Place' = Place
  BY SameSource
<1> QED BY <1>1 DEF SymbolRight, Is

LEMMA KeptEntry ==
  ASSUME source' = source, reltab' = reltab, \A l, x : Read(l, x) => Read(l, x)',
         NEW e, EntryRight(e)
  PROVE  EntryRight(e)'
<1>1. \A k : /\ HasIns(k)' = HasIns(k) /\ InsPos(k)' = InsPos(k) /\ InstrOf(k)' = InstrOf(k)
            /\ \A j : Arg(k, j)' = Arg(k, j)
  BY SameSource
<1>2. \A k : HasSymbol(k)' = HasSymbol(k) /\ (InsRead(k) => InsRead(k)')
  BY <1>1 DEF HasSymbol, InsRead
<1> QED BY <1>2 DEF EntryRight

\* Steps that change no more than the phase, the place or the file.
LEMMA QuietImage ==
  ASSUME ImageInv, UNCHANGED <<source, lines, ptr, value, vmaddr, symtab, reltab>>,
         phase' \notin {"failed", "crash"} =>
           /\ phase \notin {"failed", "crash"}
           /\ \A e \in DOMAIN reltab : Relocated(e)' = Relocated(e)
  PROVE  ImageInv'
<1> SUFFICES ASSUME Laid' PROVE LayoutInv'
  BY DEF ImageInv
<1>1. LayoutInv
  BY SameLaid DEF ImageInv
<1>2. phase' \notin {"failed", "crash"}
  BY DEF Laid
<1>3. \A k : (InsRead(k)' <=> InsRead(k)) /\ \A x : Read(k, x)' = Read(k, x)
  BY SameRead
<1>4. \A e \in DOMAIN reltab : Addend(e)' = Addend(e)
  BY <1>2 DEF Addend
<1>5. ASSUME NEW k \in DOMAIN lines' PROVE LineRight(k)'
  <2>1. LineRight(k)
    BY <1>1 DEF LayoutInv
  <2> QED BY <1>3, <1>4, <2>1, KeptLine
<1>6. NowAt' /\ NoNumber'
  <2>1. Place' = Place
    BY SameSource
  <2> QED BY <1>1, <1>3, <2>1 DEF LayoutInv, NowAt, NoNumber
<1>7. ASSUME NEW n \in DOMAIN symtab' PROVE SymbolRight(n)'
  <2>1. SymbolRight(n)
    BY <1>1 DEF LayoutInv
  <2> QED BY <1>3, <2>1, KeptSymbol
<1>8. ASSUME NEW e \in DOMAIN reltab' PROVE EntryRight(e)'
  <2>1. EntryRight(e)
    BY <1>1 DEF LayoutInv
  <2> QED BY <1>3, <2>1, KeptEntry
<1> QED BY <1>5, <1>6, <1>7, <1>8 DEF LayoutInv

LEMMA OtherImage ==
  ASSUME AsmInv, ImageInv,
         \/ Start \/ EndOfLine \/ AlignTraps \/ LineError \/ EndOfSource \/ UnknownSymbol
         \/ OpenOut \/ WriteLine \/ SeekError \/ Finish
  PROVE  ImageInv'
<1> USE DEF parser, tables
<1>1. CASE AlignTraps \/ LineError \/ UnknownSymbol \/ SeekError
  <2>1. phase' \in {"failed", "crash"}
    BY <1>1 DEF AlignTraps, LineError, UnknownSymbol, SeekError
  <2> QED BY <2>1 DEF ImageInv, Laid
<1>2. reltab \in Seq(Entry) /\ at \in Nat \ {0}
  BY DEF AsmInv, AsmTypeOK, Entry
<1>3. CASE Start \/ EndOfLine
  BY <1>3, QuietImage DEF Start, EndOfLine, Relocated
<1>4. CASE EndOfSource
  <2>1. \A e \in DOMAIN reltab : ~(e < 1)
    BY <1>2
  <2> QED BY <1>4, <2>1, QuietImage DEF EndOfSource, Relocated
<1>5. CASE OpenOut
  <2>1. \A e \in DOMAIN reltab : e < at
    BY <1>2, <1>5 DEF OpenOut
  <2> QED BY <1>5, <2>1, QuietImage DEF OpenOut, Relocated
<1>6. CASE WriteLine \/ Finish
  BY <1>6, QuietImage DEF WriteLine, Finish, Relocated
<1> QED BY <1>1, <1>3, <1>4, <1>5, <1>6

LEMMA NextLineImage ==
  ASSUME AsmInv, SymInv, ImageInv, NextLine
  PROVE  ImageInv'
<1>1. /\ phase = "assemble" /\ Len(lines) < Len(source)
      /\ lines' = Append(lines, Blank) /\ value' = 0 /\ phase' = "parse"
      /\ UNCHANGED <<source, vmaddr, symtab, reltab>>
  BY DEF NextLine, tables
<1> SUFFICES ASSUME Laid' PROVE LayoutInv'
  BY DEF ImageInv
<1>2. LayoutInv /\ Laid
  BY <1>1, SameLaid DEF ImageInv
<1>3. Finished /\ \A l, x : Read(l, x)' <=> Read(l, x)
  BY NextLineRead
<1>4. /\ lines \in Seq(Line) /\ source \in Source /\ source \in Seq(Seq(Token))
      /\ Len(lines) \in Nat /\ vmaddr \in Int /\ LineInv
  BY SourceType, Widths DEF AsmInv, AsmTypeOK, SymInv, Long
<1> DEFINE N == Len(lines) + 1
<1>5. /\ Len(lines') = N /\ DOMAIN lines' = 1 .. N /\ lines' # <<>> /\ lines'[N] = Blank
      /\ \A k \in DOMAIN lines : lines'[k] = lines[k]
      /\ \A k \in DOMAIN lines' : k \in DOMAIN lines \/ k = N
  <2>1. Blank \in Line
    BY Widths DEF Blank, Line, Long, Byte
  <2>2. /\ lines' \in Seq(Line) /\ Len(lines') = N /\ lines'[N] = Blank
        /\ \A k \in 1 .. Len(lines) : lines'[k] = lines[k]
    BY <1>1, <1>4, <2>1
  <2>3. DOMAIN lines = 1 .. Len(lines) /\ DOMAIN lines' = 1 .. N /\ N \in 1 .. N
    BY <1>4, <2>2
  <2>4. lines' # <<>>
    BY <1>4, <2>2
  <2>5. \A k \in 1 .. N : k \in 1 .. Len(lines) \/ k = N
    BY <1>4
  <2> QED BY <2>2, <2>3, <2>4, <2>5
<1>6. \A k : (InsRead(k)' <=> InsRead(k))
  <2>1. \A k : HasIns(k)' = HasIns(k) /\ InsPos(k)' = InsPos(k)
    BY <1>1, SameSource
  <2> QED BY <1>3, <2>1 DEF InsRead
<1>7. ~InsRead(N)
  <2>1. ~(N <= Len(lines))
    BY <1>4
  <2> QED BY <2>1 DEF InsRead, Read
<1>8. \A e \in DOMAIN reltab : Addend(e)' = Addend(e)
  BY <1>1 DEF Addend, Relocated
<1>9. ASSUME NEW k \in DOMAIN lines' PROVE LineRight(k)'
  <2>1. CASE k \in DOMAIN lines
    <3>1. LineRight(k)
      BY <1>2, <2>1 DEF LayoutInv
    <3> QED BY <1>1, <1>5, <1>6, <1>8, <2>1, <3>1, KeptLine
  <2>2. CASE k = N
    <3>1. lines'[k].bytes = 0 /\ ~InsRead(k)'
      BY <1>5, <1>6, <1>7, <2>2 DEF Blank
    <3> QED BY <3>1 DEF LineRight
  <2> QED BY <1>5, <2>1, <2>2
<1>10. vmaddr = Place[N]
  <2>1. CASE lines = <<>>
    <3>1. N = 1
      BY <2>1
    <3> QED BY <1>2, <1>4, <2>1, <3>1, PlaceSteps DEF LayoutInv, NowAt
  <2>2. CASE lines # <<>>
    <3>1. Len(lines) \in DOMAIN source /\ Plain(Len(lines))
      <4>1. Len(lines) \in DOMAIN source
        BY <1>1, <1>4, <2>2
      <4> QED BY <1>2, <4>1 DEF Laid
    <3>2. CASE HasIns(Len(lines))
      <4>1. Live(Len(lines), InsPos(Len(lines)))
        BY <1>4, <3>1, <3>2, ReadIns
      <4>2. Read(Len(lines), InsPos(Len(lines)))
        BY <1>1, <1>3, <1>4, <4>1, FinishedRead
      <4> QED BY <1>2, <2>2, <3>2, <4>2 DEF LayoutInv, NowAt, InsRead
    <3>3. CASE ~HasIns(Len(lines))
      <4>1. vmaddr = Place[Len(lines)]
        BY <1>2, <2>2, <3>3 DEF LayoutInv, NowAt, InsRead
      <4>2. Place[N] = After(Len(lines), Place[Len(lines)])
        BY <1>4, <3>1, PlaceSteps
      <4>3. Place[N] = Place[Len(lines)] + 0
        BY <3>3, <4>2 DEF After, BytesOf
      <4> QED BY <1>4, <4>1, <4>3
    <3> QED BY <3>2, <3>3
  <2> QED BY <2>1, <2>2
<1>11. NowAt' /\ NoNumber'
  <2>1. Place' = Place
    BY <1>1, SameSource
  <2> QED BY <1>1, <1>5, <1>6, <1>7, <1>10, <2>1 DEF NowAt, NoNumber
<1>12. ASSUME NEW n \in DOMAIN symtab' PROVE SymbolRight(n)'
  <2>1. SymbolRight(n)
    BY <1>1, <1>2 DEF LayoutInv
  <2> QED BY <1>1, <1>3, <2>1, KeptSymbol
<1>13. ASSUME NEW e \in DOMAIN reltab' PROVE EntryRight(e)'
  <2>1. EntryRight(e)
    BY <1>1, <1>2 DEF LayoutInv
  <2> QED BY <1>1, <1>3, <2>1, KeptEntry
<1> QED BY <1>9, <1>11, <1>12, <1>13 DEF LayoutInv

\* A step that reads d tokens of line L, a label or an instruction first:
\* no instruction of the line was read before.
StepReads(line, L, d) ==
  /\ L \in DOMAIN source /\ L \in DOMAIN lines /\ ~InsRead(L)
  /\ vmaddr = Place[L] /\ value = 0 /\ lines[L].bytes = 0
  /\ ptr[1].kind = "ins" =>
       /\ HasIns(L) /\ InsRead(L)' /\ Mnemonic(L) = ptr[1].name
       /\ InstrOf(L) \in instr_set /\ InstrOf(L).name = Mnemonic(L)
       /\ \A j \in 1 .. (d - 1) : Arg(L, j) = ptr[j + 1]
  /\ ptr[1].kind = "label" /\ d = 1 =>
       ~InsRead(L)' /\ \E x \in DOMAIN source[L] : Read(L, x)' /\ source[L][x] = ptr[1]
  /\ \A l, x : Read(l, x) => Read(l, x)'
  /\ \A k : (InsRead(k) => InsRead(k)') /\ (k # L => (InsRead(k)' <=> InsRead(k)))
  /\ Len(lines') = L /\ DOMAIN lines' = DOMAIN lines /\ lines' # <<>>
  /\ lines'[L] = line /\ \A k \in DOMAIN lines : k # L => lines'[k] = lines[k]

LEMMA ParseRead ==
  ASSUME AsmInv, SymInv, Laid, LayoutInv, phase = "parse", source' = source,
         NEW line, Edit(line), NEW L, L = Len(lines),
         NEW d \in 1 .. Len(ptr), ptr' = SubSeq(ptr, d + 1, Len(ptr)),
         ptr[1].kind \in {"ins", "label"}, \A k \in 1 .. d : ptr[k].kind # "comment"
  PROVE  StepReads(line, L, d)
<1>1. lines # <<>> /\ lines \in Seq(Line) /\ ptr \in Seq(Token) /\ source \in Source
  BY DEF AsmInv, AsmTypeOK
<1>2. L \in DOMAIN lines /\ DOMAIN lines = 1 .. L /\ L \in Nat
  BY <1>1
<1>3. /\ Len(lines') = L /\ DOMAIN lines' = DOMAIN lines /\ lines' # <<>>
      /\ lines'[L] = line /\ \A k \in DOMAIN lines : k # L => lines'[k] = lines[k]
  <2>1. lines' = [lines EXCEPT ![L] = line]
    BY DEF Edit
  <2> QED BY <1>1, <1>2, <2>1
<1>4. /\ Taken \in Nat /\ L \in DOMAIN source
      /\ \A k \in 1 .. d : Live(L, Taken + k) /\ source[L][Taken + k] = ptr[k]
      /\ \A l, x : Read(l, x)' <=>
           Read(l, x) \/ (l = L /\ \E k \in 1 .. d : x = Taken + k)
  <2>1. Len(lines') = Len(lines)
    BY <1>3
  <2> HIDE DEF Taken, Live, Read
  <2>2. /\ Taken \in Nat /\ Len(lines) \in DOMAIN source
        /\ \A k \in 1 .. d : Live(Len(lines), Taken + k) /\ source[Len(lines)][Taken + k] = ptr[k]
        /\ \A l, x : Read(l, x)' <=>
             Read(l, x) \/ (l = Len(lines) /\ \E k \in 1 .. d : x = Taken + k)
    BY <1>1, <1>3, <2>1, TokensRead
  <2> QED BY <2>2
<1> PICK X : X = Taken + 1
  OBVIOUS
<1>5. Live(L, X) /\ source[L][X] = ptr[1] /\ X \in DOMAIN source[L] /\ X > Taken
  BY <1>4 DEF Live
<1>6. Plain(L)
  BY <1>4 DEF Laid
<1>7. ~InsRead(L)
  <2> SUFFICES ASSUME InsRead(L) PROVE FALSE
    OBVIOUS
  <2>1. InsPos(L) \in InsAt(L) /\ Live(L, InsPos(L)) /\ InsPos(L) <= Taken
    BY DEF InsRead, HasIns, InsPos, Read
  <2>2. X \in DOMAIN Tokens(L) /\ Tokens(L)[X] = ptr[1]
    BY <1>1, <1>4, <1>5, TokensLive
  <2>3. InsPos(L) \in Nat
    <3>1. source[L] \in Seq(Token)
      BY <1>1, <1>4, SourceType
    <3> QED BY <2>1, <3>1 DEF Live
  <2>4. X > InsPos(L)
    BY <1>4, <1>5, <2>1, <2>3
  <2>5. Tokens(L)[X].kind \notin {"ins", "label"}
    BY <1>6, <2>1, <2>2, <2>4 DEF Plain
  <2> QED BY <2>2, <2>5
<1>8. vmaddr = Place[L] /\ value = 0 /\ lines[L].bytes = 0
  BY <1>1, <1>2, <1>7 DEF LayoutInv, NowAt, NoNumber, LineRight
<1>9. \A k : HasIns(k)' = HasIns(k) /\ InsPos(k)' = InsPos(k)
  BY SameSource
<1>10. /\ \A l, x : Read(l, x) => Read(l, x)'
       /\ \A k : (InsRead(k) => InsRead(k)') /\ (k # L => (InsRead(k)' <=> InsRead(k)))
  BY <1>4, <1>9 DEF InsRead
<1>11. ASSUME ptr[1].kind = "ins"
       PROVE  /\ HasIns(L) /\ InsRead(L)' /\ Mnemonic(L) = ptr[1].name
              /\ InstrOf(L) \in instr_set /\ InstrOf(L).name = Mnemonic(L)
              /\ \A j \in 1 .. (d - 1) : Arg(L, j) = ptr[j + 1]
  <2>1. /\ HasIns(L) /\ InsPos(L) = X /\ Mnemonic(L) = ptr[1].name
        /\ InstrOf(L) \in instr_set /\ InstrOf(L).name = Mnemonic(L)
        /\ \A j : Live(L, X + j) => Arg(L, j) = source[L][X + j]
    BY <1>1, <1>4, <1>5, <1>6, <1>11, TheIns
  <2>2. Read(L, X)'
    <3>1. 1 \in 1 .. d
      OBVIOUS
    <3> QED BY <1>4, <3>1
  <2>3. \A j \in 1 .. (d - 1) : j + 1 \in 1 .. d /\ Taken + (j + 1) = X + j
    BY <1>4
  <2> QED BY <1>4, <1>9, <2>1, <2>2, <2>3 DEF InsRead
<1>12. ASSUME ptr[1].kind = "label", d = 1
       PROVE  ~InsRead(L)' /\ Read(L, X)'
  <2>1. Read(L, X)' /\ \A x : Read(L, x)' => Read(L, x) \/ x = X
    <3>1. \A k \in 1 .. d : k = 1
      BY <1>12
    <3>2. 1 \in 1 .. d
      OBVIOUS
    <3> QED BY <1>4, <3>1, <3>2
  <2>2. HasIns(L) => InsPos(L) # X
    <3>1. HasIns(L) => source[L][InsPos(L)].kind = "ins"
      BY <1>1, <1>4, <1>6, ReadIns
    <3> QED BY <1>5, <1>12, <3>1
  <2>3. ASSUME InsRead(L)' PROVE FALSE
    <3> PICK p : p = InsPos(L)
      OBVIOUS
    <3>1. HasIns(L) /\ Read(L, p)'
      BY <1>9, <2>3 DEF InsRead
    <3>2. Read(L, p)
      BY <2>1, <2>2, <3>1
    <3> QED BY <1>7, <3>1, <3>2 DEF InsRead
  <2> QED BY <2>1, <2>3
<1> QED BY <1>2, <1>3, <1>4, <1>5, <1>7, <1>8, <1>10, <1>11, <1>12 DEF StepReads

LEMMA LabelImage ==
  ASSUME AsmInv, SymInv, ImageInv, Label
  PROVE  ImageInv'
<1> DEFINE line == [Current EXCEPT !.type = "INS", !.addr = vmaddr]
<1> PICK L, n : L = Len(lines) /\ n = Head(ptr).name
  OBVIOUS
<1>1. /\ phase = "parse" /\ ptr # <<>> /\ Head(ptr).kind = "label" /\ n \notin DOMAIN symtab
      /\ symtab' = [x \in DOMAIN symtab \cup {n} |-> IF x = n THEN vmaddr ELSE symtab[x]]
      /\ Edit(line) /\ ptr' = Tail(ptr)
      /\ UNCHANGED <<source, phase, value, vmaddr, reltab>>
  BY DEF Label, parse_label, Parsing, add_symbol, find_symbol
<1> SUFFICES ASSUME Laid' PROVE LayoutInv'
  BY DEF ImageInv
<1>2. LayoutInv /\ Laid
  BY <1>1, SameLaid DEF ImageInv
<1>3. ptr \in Seq(Token) /\ lines \in Seq(Line) /\ lines # <<>>
  BY <1>1 DEF AsmInv, AsmTypeOK
<1>4. 1 \in 1 .. Len(ptr) /\ ptr' = SubSeq(ptr, 1 + 1, Len(ptr)) /\ ptr[1] = Head(ptr)
  BY <1>1, <1>3
<1>5. \A k \in 1 .. 1 : ptr[k].kind # "comment"
  BY <1>1, <1>4
<1>6. line.bytes = Current.bytes
  <2>1. Current \in Line
    BY <1>3, CurrentType
  <2> QED BY <2>1 DEF Line
<1> HIDE DEF line
<1>7. /\ L \in DOMAIN source /\ L \in DOMAIN lines /\ ~InsRead(L)
      /\ vmaddr = Place[L] /\ value = 0 /\ lines[L].bytes = 0
      /\ ~InsRead(L)' /\ \E x \in DOMAIN source[L] : Read(L, x)' /\ source[L][x] = ptr[1]
      /\ \A l, x : Read(l, x) => Read(l, x)'
      /\ \A k : (InsRead(k)' <=> InsRead(k))
      /\ Len(lines') = L /\ DOMAIN lines' = DOMAIN lines /\ lines' # <<>>
      /\ lines'[L] = line /\ \A k \in DOMAIN lines : k # L => lines'[k] = lines[k]
  <2>1. ptr[1].kind \in {"ins", "label"} /\ source' = source
    BY <1>1, <1>4
  <2>2. StepReads(line, L, 1)
    BY <1>1, <1>2, <1>4, <1>5, <2>1, ParseRead
  <2> QED BY <1>1, <1>4, <2>2 DEF StepReads
<1>8. ASSUME NEW k \in DOMAIN lines' PROVE LineRight(k)'
  <2>1. CASE k # L
    <3>1. LineRight(k)
      BY <1>2, <1>7 DEF LayoutInv
    <3>2. \A e \in DOMAIN reltab : reltab'[e] = reltab[e] /\ Addend(e)' = Addend(e)
      BY <1>1 DEF Addend, Relocated
    <3>3. DOMAIN reltab' = DOMAIN reltab
      BY <1>1
    <3>4. lines'[k] = lines[k]
      BY <1>7, <2>1
    <3> QED BY <1>1, <1>7, <3>1, <3>2, <3>3, <3>4, KeptLine
  <2>2. CASE k = L
    <3>1. lines'[k].bytes = 0 /\ ~InsRead(k)'
      BY <1>6, <1>7, <2>2 DEF Current
    <3> QED BY <3>1 DEF LineRight
  <2> QED BY <2>1, <2>2
<1>9. Place' = Place
  BY <1>1, SameSource
<1>10. NowAt' /\ NoNumber'
  BY <1>1, <1>7, <1>9 DEF NowAt, NoNumber
<1>11. ASSUME NEW w \in DOMAIN symtab' PROVE SymbolRight(w)'
  <2>1. CASE w = n
    <3>1. symtab'[w] = Place[L]
      BY <1>1, <1>7, <2>1
    <3> PICK X \in DOMAIN source[L] : Read(L, X)' /\ source[L][X] = ptr[1]
      BY <1>7
    <3>2. Is(L, X, "label", w)
      BY <1>1, <1>4, <2>1 DEF Is
    <3> QED BY <1>1, <1>7, <1>9, <3>1, <3>2 DEF SymbolRight, Is
  <2>2. CASE w # n
    <3>1. w \in DOMAIN symtab /\ symtab'[w] = symtab[w]
      BY <1>1, <2>2
    <3>2. SymbolRight(w)
      BY <1>2, <3>1 DEF LayoutInv
    <3> QED BY <1>1, <1>7, <3>1, <3>2, KeptSymbol
  <2> QED BY <2>1, <2>2
<1>12. ASSUME NEW e \in DOMAIN reltab' PROVE EntryRight(e)'
  <2>1. EntryRight(e)
    BY <1>1, <1>2 DEF LayoutInv
  <2> QED BY <1>1, <1>7, <2>1, KeptEntry
<1> QED BY <1>8, <1>10, <1>11, <1>12 DEF LayoutInv

\* Alignment goes up to the next multiple.
LEMMA AlignUp ==
  ASSUME NEW v \in Nat, NEW n \in Nat \ {0}, v + n <= LongHalf
  PROVE  Aligned(v, n) = v + ((-v) % n)
<1>1. LongHalf \in Nat \ {0}
  BY Widths
<1> DEFINE a == v + n - 1
           q == a \div n
           w == a % n
<1>2. a \in Long /\ a \in Nat /\ ~(a < 0) /\ ~(n < 0)
  BY <1>1 DEF Long
<1>3. ToLong(v + n - 1) = a
  BY <1>2, ToLongExact
<1>4. q \in Int /\ w \in 0 .. (n - 1) /\ a = n * q + w
  BY <1>2, DivIs
<1>5. Quotient(a, n) = q
  BY <1>2 DEF Quotient
<1> HIDE DEF q, w
<1>6. q * n = a - w /\ q * n \in Int
  BY <1>2, <1>4
<1>7. q * n \in Long
  BY <1>1, <1>2, <1>4, <1>6 DEF Long
<1>8. Aligned(v, n) = q * n
  <2>1. Aligned(v, n) = ToLong(Quotient(a, n) * n)
    BY <1>3 DEF Aligned
  <2> HIDE DEF a
  <2> QED BY <1>5, <1>7, <2>1, ToLongExact
<1>9. (-v) % n = n - 1 - w
  <2> PICK s : s = n - 1 - w
    OBVIOUS
  <2>1. s \in Int /\ 0 <= s /\ s < n
    BY <1>4
  <2> PICK z \in Int : z = -q
    BY <1>4
  <2>2. -v = n * z + s
    <3>1. n * z = -(q * n)
      BY <1>4
    <3> QED BY <1>2, <1>4, <1>6, <3>1
  <2>3. (n * z + s) % n = s
    BY <2>1, Remainder
  <2> QED BY <2>2, <2>3
<1> QED BY <1>2, <1>4, <1>6, <1>8, <1>9

LEMMA DirectiveImage ==
  ASSUME AsmInv, SymInv, ImageInv, Directive
  PROVE  ImageInv'
<1> DEFINE i == find_instr(Head(ptr).name)
           n == ptr[2].num
           line == [Current EXCEPT !.type = "INS", !.addr = vmaddr', !.bytes = 0,
                                   !.codes = [@ EXCEPT ![0] = i.code]]
<1> PICK L : L = Len(lines)
  OBVIOUS
<1>1. /\ phase = "parse" /\ ptr # <<>> /\ Head(ptr).kind = "ins"
      /\ UNCHANGED <<source, phase, symtab, reltab>>
      /\ IsDirective(i) /\ ~IsData(i) /\ Parses(i, Tail(ptr))
      /\ i.name = ".align" => ~DivisionTraps(vmaddr, n)
      /\ vmaddr' = (IF i.name = ".pos" THEN n ELSE Aligned(vmaddr, n))
      /\ Edit(line) /\ ptr' = SubSeq(ptr, 3, Len(ptr))
  BY DEF Directive, parse_instr, Parsing, tables
<1> SUFFICES ASSUME Laid' PROVE LayoutInv'
  BY DEF ImageInv
<1>2. LayoutInv /\ Laid
  BY <1>1, SameLaid DEF ImageInv
<1>3. ptr \in Seq(Token) /\ lines \in Seq(Line) /\ lines # <<>> /\ source \in Source
  BY <1>1 DEF AsmInv, AsmTypeOK
<1>4. line.bytes = 0 /\ line.type = "INS"
  <2>1. Current \in Line
    BY <1>3, CurrentType
  <2> QED BY <2>1 DEF Line
<1> HIDE DEF i, line
<1>5. /\ 2 \in 1 .. Len(ptr) /\ 1 \in 1 .. Len(ptr) /\ ptr' = SubSeq(ptr, 2 + 1, Len(ptr))
      /\ ptr[1] = Head(ptr) /\ \A k \in 1 .. 2 : ptr[k].kind # "comment"
  <2>1. Len(Tail(ptr)) = Len(ptr) - 1 /\ \A k \in 1 .. Len(Tail(ptr)) : Tail(ptr)[k] = ptr[k + 1]
    BY <1>1, <1>3
  <2>2. Operands(i) = <<parse_digit>>
    BY <1>1 DEF Operands, IsDirective, I_HALT, I_NOP, I_RRMOVQ, I_IRMOVQ, I_RMMOVQ, I_MRMOVQ,
       I_ALU, I_JMP, I_CALL, I_RET, I_PUSHQ, I_POPQ, I_DIRECTIVE
  <2>3. 1 <= Len(Tail(ptr)) /\ Tail(ptr)[1].kind = "num"
    BY <1>1, <2>2 DEF Parses, parse_digit
  <2>4. 2 \in 1 .. Len(ptr) /\ 1 \in 1 .. Len(ptr) /\ ptr[1] = Head(ptr)
    BY <1>1, <1>3, <2>1, <2>3
  <2>5. ptr[2].kind = "num"
    BY <1>3, <2>1, <2>3
  <2> QED BY <1>1, <2>4, <2>5
<1>6. StepReads(line, L, 2)
  <2>1. ptr[1].kind \in {"ins", "label"} /\ source' = source
    BY <1>1, <1>5
  <2> QED BY <1>1, <1>2, <1>5, <2>1, ParseRead
<1>7. /\ L \in DOMAIN source /\ L \in DOMAIN lines /\ ~InsRead(L)
      /\ vmaddr = Place[L]
      /\ HasIns(L) /\ InsRead(L)' /\ Mnemonic(L) = Head(ptr).name
      /\ InstrOf(L) \in instr_set /\ InstrOf(L).name = Mnemonic(L)
      /\ Arg(L, 1) = ptr[2]
  BY <1>1, <1>5, <1>6 DEF StepReads
<1>8. /\ \A l, x : Read(l, x) => Read(l, x)'
      /\ \A k : k # L => (InsRead(k)' <=> InsRead(k))
      /\ Len(lines') = L /\ DOMAIN lines' = DOMAIN lines /\ lines' # <<>>
      /\ lines'[L] = line /\ \A k \in DOMAIN lines : k # L => lines'[k] = lines[k]
  BY <1>6 DEF StepReads
<1>9. i = InstrOf(L) /\ i \in instr_set /\ i.name = Mnemonic(L)
  BY <1>7 DEF InstrOf, i
<1>10. ~Coded(L) /\ BytesOf(L) = 0 /\ Mnemonic(L) \in {".pos", ".align"}
  <2>1. i.name \in {".pos", ".align"}
    BY <1>1, <1>9, DirectiveNames
  <2> QED BY <1>9, <2>1 DEF Coded, BytesOf
<1>11. /\ Place' = Place /\ BytesOf(L)' = BytesOf(L) /\ Coded(L)' = Coded(L)
  BY <1>1, SameSource
<1>12. ASSUME NEW k \in DOMAIN lines' PROVE LineRight(k)'
  <2>1. CASE k # L
    <3>1. LineRight(k)
      BY <1>2, <1>8 DEF LayoutInv
    <3>2. \A e \in DOMAIN reltab : reltab'[e] = reltab[e] /\ Addend(e)' = Addend(e)
      BY <1>1 DEF Addend, Relocated
    <3>3. DOMAIN reltab' = DOMAIN reltab
      BY <1>1
    <3>4. lines'[k] = lines[k] /\ (InsRead(k)' <=> InsRead(k))
      BY <1>8, <2>1
    <3> QED BY <1>1, <3>1, <3>2, <3>3, <3>4, KeptLine
  <2>2. CASE k = L
    <3>1. lines'[k].bytes = 0 /\ lines'[k].type = "INS" /\ BytesOf(k)' = 0 /\ ~Coded(k)'
      BY <1>4, <1>8, <1>10, <1>11, <2>2
    <3> QED BY <3>1 DEF LineRight
  <2> QED BY <2>1, <2>2
<1>13. vmaddr' = Place[L + 1]
  <2>1. Place[L + 1] = After(L, Place[L]) /\ Place[L] >= 0
    BY <1>2, <1>3, <1>7, PlaceSteps DEF Laid, Fits
  <2>2. CASE i.name = ".pos"
    <3>1. Place[L + 1] = n
      BY <1>7, <1>9, <1>10, <2>1, <2>2 DEF After
    <3> QED BY <1>1, <2>2, <3>1
  <2>3. CASE i.name = ".align"
    <3>1. n > 0 /\ Place[L] + n <= LongHalf
      BY <1>2, <1>7, <1>9, <2>3 DEF Laid, Fits
    <3>2. n \in Long /\ vmaddr \in Long
      BY <1>3, <1>5, TokenFields DEF AsmInv, AsmTypeOK
    <3>3. n \in Nat \ {0} /\ vmaddr \in Nat
      BY <1>7, <2>1, <3>1, <3>2, Widths DEF Long
    <3>4. Place[L + 1] = vmaddr + ((-vmaddr) % n)
      BY <1>7, <1>9, <1>10, <2>1, <2>3 DEF After
    <3> HIDE DEF n
    <3>5. Aligned(vmaddr, n) = vmaddr + ((-vmaddr) % n)
      BY <1>7, <3>1, <3>3, AlignUp
    <3> QED BY <1>1, <2>3, <3>4, <3>5
  <2> QED BY <1>9, <1>10, <2>2, <2>3
<1>14. NowAt' /\ NoNumber'
  BY <1>7, <1>8, <1>11, <1>13 DEF NowAt, NoNumber
<1>15. ASSUME NEW w \in DOMAIN symtab' PROVE SymbolRight(w)'
  <2>1. SymbolRight(w)
    BY <1>1, <1>2 DEF LayoutInv
  <2> QED BY <1>1, <1>8, <2>1, KeptSymbol
<1>16. ASSUME NEW e \in DOMAIN reltab' PROVE EntryRight(e)'
  <2>1. EntryRight(e)
    BY <1>1, <1>2 DEF LayoutInv
  <2> QED BY <1>1, <1>8, <2>1, KeptEntry
<1> QED BY <1>12, <1>14, <1>15, <1>16 DEF LayoutInv

\* The number of an instruction is that of its only operand with a number.
LEMMA NumberOnce ==
  ASSUME NEW i, NEW args \in Seq(Token), Len(args) = Len(Operands(i)),
         \A j \in DOMAIN args : args[j].kind \in Operands(i)[j]
  PROVE  /\ parse_symbol(args) # {} => Number(args, 0) = 0
         /\ \A j \in DOMAIN args :
              /\ args[j].kind \in {"imm", "num", "dmem"} => Number(args, 0) = args[j].num
              /\ args[j].kind = "mem" => Number(args, 0) = 0
              /\ args[j].kind \in {"imm", "num", "dmem", "mem"} => parse_symbol(args) = {}
         /\ \A j, k \in parse_symbol(args) : j = k
<1> DEFINE numbers == {k \in DOMAIN args : args[k].kind \in {"imm", "num", "dmem"}}
<1>1. DOMAIN args = DOMAIN Operands(i)
  BY OperandsLen
<1>2. \A j, k \in DOMAIN args :
        args[j].kind \notin {"reg", "comma"} /\ args[k].kind \notin {"reg", "comma"} => j = k
  BY <1>1, OneSymbol
<1>3. \A j, k \in parse_symbol(args) : j = k
  BY <1>2 DEF parse_symbol
<1>4. ASSUME NEW j \in DOMAIN args, args[j].kind \in {"sym", "mem"} PROVE Number(args, 0) = 0
  <2>1. numbers = {}
    BY <1>2, <1>4
  <2> QED BY <2>1 DEF Number
<1>5. ASSUME NEW j \in DOMAIN args, args[j].kind \in {"imm", "num", "dmem"}
      PROVE  Number(args, 0) = args[j].num
  <2>1. numbers = {j}
    BY <1>2, <1>5
  <2> QED BY <2>1 DEF Number
<1>6. ASSUME NEW j \in DOMAIN args, args[j].kind \in {"imm", "num", "dmem", "mem"}
      PROVE  parse_symbol(args) = {}
  BY <1>2, <1>6 DEF parse_symbol
<1> QED BY <1>3, <1>4, <1>5, <1>6 DEF parse_symbol

LEMMA Prepended ==
  ASSUME NEW S, NEW s \in Seq(S), NEW e \in S, NEW t, t = <<e>> \o s
  PROVE  /\ 1 \in DOMAIN t /\ t[1] = e
         /\ \A j \in DOMAIN s : j + 1 \in DOMAIN t /\ t[j + 1] = s[j]
         /\ \A f \in DOMAIN t : f = 1 \/ (f - 1 \in DOMAIN s /\ t[f] = s[f - 1] /\ f = (f - 1) + 1)
<1>1. t \in Seq(S) /\ Len(t) = Len(s) + 1 /\ t[1] = e
      /\ \A j \in 1 .. Len(s) : t[j + 1] = s[j]
  OBVIOUS
<1>2. DOMAIN t = 1 .. (Len(s) + 1) /\ DOMAIN s = 1 .. Len(s) /\ Len(s) \in Nat
  BY <1>1
<1> QED BY <1>1, <1>2

LEMMA InstructionImage ==
  ASSUME AsmInv, SymInv, ImageInv, Instruction
  PROVE  ImageInv'
<1> PICK L, i : L = Len(lines) /\ i = find_instr(Head(ptr).name)
  OBVIOUS
<1> PICK args : args = SubSeq(Tail(ptr), 1, Len(Operands(i)))
  OBVIOUS
<1> PICK line : line = [type |-> "INS", addr |-> vmaddr, bytes |-> i.bytes,
                        codes |-> Codes(Current.codes, i, args, value')]
  OBVIOUS
<1> DEFINE d == Len(args) + 1
<1>1. /\ phase = "parse" /\ ptr # <<>> /\ Head(ptr).kind = "ins"
      /\ UNCHANGED <<source, phase, symtab>>
      /\ Parses(i, Tail(ptr)) /\ (IsDirective(i) => IsData(i))
      /\ value' = Number(args, value) /\ Edit(line) /\ add_reloc(args)
      /\ vmaddr' = ToLong(vmaddr + i.bytes)
      /\ ptr' = SubSeq(ptr, Len(args) + 2, Len(ptr))
  BY DEF Instruction, parse_instr, Parsing
<1> SUFFICES ASSUME Laid' PROVE LayoutInv'
  BY DEF ImageInv
<1>2. LayoutInv /\ Laid
  BY <1>1, SameLaid DEF ImageInv
<1>3. ptr \in Seq(Token) /\ lines \in Seq(Line) /\ lines # <<>> /\ source \in Source
      /\ reltab \in Seq(Entry) /\ Len(lines) \in DOMAIN lines
  BY <1>1 DEF AsmInv, AsmTypeOK, Entry
<1>4. line.bytes = i.bytes /\ line.type = "INS" /\ line.addr = vmaddr
      /\ line.codes = Codes(Current.codes, i, args, value')
  OBVIOUS
<1>5. args \in Seq(Token) /\ Len(args) = Len(Operands(i)) /\ Len(args) \in 0 .. 3
      /\ Len(args) <= Len(ptr) - 1
  BY <1>1, ArgsRead
<1>6. \A k \in DOMAIN args :
        args[k] = ptr[k + 1] /\ k \in DOMAIN Operands(i) /\ args[k].kind \in Operands(i)[k]
  BY <1>1, ArgsRead
<1>7. /\ d \in 1 .. Len(ptr) /\ ptr' = SubSeq(ptr, d + 1, Len(ptr)) /\ ptr[1] = Head(ptr)
      /\ \A k \in 1 .. d : ptr[k].kind # "comment"
  <2>1. d \in 1 .. Len(ptr) /\ ptr' = SubSeq(ptr, d + 1, Len(ptr)) /\ ptr[1] = Head(ptr)
    BY <1>1, <1>3, <1>5
  <2>2. \A k \in 1 .. d : k = 1 \/ (k - 1 \in DOMAIN args /\ (k - 1) + 1 = k)
    BY <1>5
  <2>3. \A k \in DOMAIN Operands(i) : "comment" \notin Operands(i)[k]
    BY OneSymbol
  <2>4. \A k \in DOMAIN args : args[k].kind # "comment"
    BY <1>6, <2>3
  <2> HIDE DEF d
  <2> QED BY <1>1, <1>6, <2>1, <2>2, <2>4
<1>8. StepReads(line, L, d)
  <2>1. ptr[1].kind \in {"ins", "label"} /\ source' = source
    BY <1>1, <1>7
  <2> HIDE DEF d
  <2> QED BY <1>1, <1>2, <1>7, <2>1, ParseRead
<1>9. /\ L \in DOMAIN source /\ L \in DOMAIN lines /\ ~InsRead(L)
      /\ vmaddr = Place[L] /\ value = 0
      /\ HasIns(L) /\ InsRead(L)' /\ Mnemonic(L) = Head(ptr).name
      /\ InstrOf(L) \in instr_set /\ InstrOf(L).name = Mnemonic(L)
      /\ \A j \in 1 .. (d - 1) : Arg(L, j) = ptr[j + 1]
  BY <1>1, <1>7, <1>8 DEF StepReads
<1>10. /\ \A l, x : Read(l, x) => Read(l, x)'
       /\ \A k : k # L => (InsRead(k)' <=> InsRead(k))
       /\ \A k : InsRead(k) => InsRead(k)'
       /\ Len(lines') = L /\ DOMAIN lines' = DOMAIN lines /\ lines' # <<>>
       /\ lines'[L] = line /\ \A k \in DOMAIN lines : k # L => lines'[k] = lines[k]
  BY <1>8 DEF StepReads
<1>11. i = InstrOf(L) /\ i \in instr_set /\ i.name = Mnemonic(L)
  BY <1>9 DEF InstrOf
<1>12. Coded(L) /\ ~IsPlacing(i) /\ BytesOf(L) = i.bytes
  <2>1. ~IsPlacing(i)
    BY <1>1 DEF IsPlacing
  <2> QED BY <1>9, <1>11, <2>1, InstrBytes
<1>13. /\ Place' = Place /\ BytesOf(L)' = BytesOf(L) /\ Coded(L)' = Coded(L)
       /\ InstrOf(L)' = InstrOf(L) /\ \A k, j : Arg(k, j)' = Arg(k, j)
  BY <1>1, SameSource
<1>14. IsArgs(L, args) /\ IsArgs(L, args)'
  <2>1. \A j \in DOMAIN args : j \in 1 .. (d - 1)
    BY <1>5
  <2>2. IsArgs(L, args)
    BY <1>5, <1>6, <1>9, <1>11, <2>1 DEF IsArgs
  <2> QED BY <1>13, <2>2 DEF IsArgs
<1>15. parse_symbol(args) # {} =>
         \E k \in parse_symbol(args) :
           reltab' = <<[name |-> args[k].name, line |-> L]>> \o reltab
  BY <1>1 DEF add_reloc
<1>16. \A j, k \in parse_symbol(args) : j = k
  BY <1>5, <1>6, NumberOnce
<1>17. \A e : Addend(e) = 0 /\ Addend(e)' = 0
  BY <1>1 DEF Addend, Relocated
<1>18. \/ parse_symbol(args) = {} /\ reltab' = reltab
       \/ \E k \in parse_symbol(args) :
            /\ 1 \in DOMAIN reltab' /\ reltab'[1].line = L /\ reltab'[1].name = args[k].name
            /\ \A e \in DOMAIN reltab : e + 1 \in DOMAIN reltab' /\ reltab'[e + 1] = reltab[e]
            /\ \A f \in DOMAIN reltab' :
                 f = 1 \/ (f - 1 \in DOMAIN reltab /\ reltab'[f] = reltab[f - 1] /\ f = (f - 1) + 1)
  <2>1. CASE parse_symbol(args) = {}
    BY <1>1, <2>1 DEF add_reloc
  <2>2. CASE parse_symbol(args) # {}
    <3>1. PICK k \in parse_symbol(args) :
            reltab' = <<[name |-> args[k].name, line |-> L]>> \o reltab
      BY <1>15, <2>2
    <3> DEFINE e == [name |-> args[k].name, line |-> L]
    <3>2. k \in DOMAIN args /\ args[k].name \in STRING
      BY <1>5, TokenFields DEF parse_symbol
    <3>3. e \in Entry /\ e.line = L /\ e.name = args[k].name
      BY <1>3, <1>9, <3>2 DEF Entry
    <3>4. reltab' = <<e>> \o reltab
      BY <3>1
    <3> HIDE DEF e
    <3>5. /\ 1 \in DOMAIN reltab' /\ reltab'[1] = e
          /\ \A j \in DOMAIN reltab : j + 1 \in DOMAIN reltab' /\ reltab'[j + 1] = reltab[j]
          /\ \A f \in DOMAIN reltab' :
               f = 1 \/ (f - 1 \in DOMAIN reltab /\ reltab'[f] = reltab[f - 1] /\ f = (f - 1) + 1)
      BY <1>3, <3>3, <3>4, Prepended
    <3> QED BY <3>3, <3>5
  <2> QED BY <2>1, <2>2
<1>19. \A e \in DOMAIN reltab : \E f \in DOMAIN reltab' : reltab'[f] = reltab[e]
  BY <1>18
<1>20. NumberFor(L, args, Number(args, 0))'
  <2>1. CASE parse_symbol(args) = {}
    BY <2>1 DEF NumberFor
  <2>2. CASE parse_symbol(args) # {}
    <3>1. PICK k \in parse_symbol(args) :
            1 \in DOMAIN reltab' /\ reltab'[1].line = L /\ reltab'[1].name = args[k].name
      BY <1>18, <2>2
    <3>2. EntryFor(1, L, args)'
      BY <3>1 DEF EntryFor
    <3>3. Number(args, 0) = 0
      BY <1>5, <1>6, <2>2, NumberOnce
    <3> QED BY <1>17, <2>2, <3>1, <3>2, <3>3 DEF NumberFor
  <2> QED BY <2>1, <2>2
<1>21. CodesAre(line.codes, i, args, Number(args, 0))
  <2>1. Current.codes \in [CodeIndex -> Byte]
    BY <1>3, CurrentType
  <2>2. line.codes = Codes(Current.codes, i, args, Number(args, 0))
    BY <1>1, <1>4, <1>9
  <2> QED BY <1>5, <1>11, <1>12, <2>1, <2>2, CodesMade
<1>22. CodeRight(L)'
  <2>1. CodesAre(lines[L].codes, InstrOf(L), args, Number(args, 0))'
    BY <1>10, <1>11, <1>13, <1>21 DEF CodesAre
  <2> QED BY <1>14, <1>20, <2>1 DEF CodeRight
<1>23. ASSUME NEW k \in DOMAIN lines' PROVE LineRight(k)'
  <2>1. CASE k # L
    <3>1. LineRight(k)
      BY <1>2, <1>10 DEF LayoutInv
    <3>2. lines'[k] = lines[k] /\ (InsRead(k)' <=> InsRead(k))
      BY <1>10, <2>1
    <3> QED BY <1>1, <1>17, <1>19, <3>1, <3>2, KeptLine
  <2>2. CASE k = L
    <3>1. lines'[k].bytes = BytesOf(k)' /\ lines'[k].type = "INS" /\ lines'[k].addr = Place[k]'
      BY <1>4, <1>9, <1>10, <1>12, <1>13, <2>2
    <3> QED BY <1>9, <1>22, <2>2, <3>1 DEF LineRight
  <2> QED BY <2>1, <2>2
<1>24. vmaddr' = Place[L + 1]
  <2>1. Place[L + 1] = vmaddr + i.bytes /\ vmaddr >= 0 /\ Place[L + 1] < LongHalf
    BY <1>2, <1>3, <1>9, <1>12, PlaceSteps DEF Laid, Fits, After
  <2>2. vmaddr \in Int /\ i.bytes \in Nat /\ LongHalf \in Nat
    <3>1. vmaddr \in Long /\ i.bytes \in 0 .. (LONG + 2)
      BY <1>11, TableTypes DEF AsmInv, AsmTypeOK
    <3> QED BY <3>1, Widths DEF Long
  <2>3. vmaddr + i.bytes \in Long
    BY <2>1, <2>2 DEF Long
  <2> QED BY <1>1, <2>1, <2>3, ToLongExact
<1>25. NowAt' /\ NoNumber'
  BY <1>9, <1>10, <1>13, <1>24 DEF NowAt, NoNumber
<1>26. ASSUME NEW w \in DOMAIN symtab' PROVE SymbolRight(w)'
  <2>1. SymbolRight(w)
    BY <1>1, <1>2 DEF LayoutInv
  <2> QED BY <1>1, <1>10, <2>1, KeptSymbol
<1>27. \A k : HasSymbol(k)' <=> HasSymbol(k)
  <2>1. \A k : InstrOf(k)' = InstrOf(k)
    BY <1>1, SameSource
  <2> QED BY <1>13, <2>1 DEF HasSymbol
<1>28. \A e \in DOMAIN reltab : /\ InsRead(reltab[e].line) /\ HasSymbol(reltab[e].line)
                              /\ reltab[e].line # L
                              /\ \A f \in DOMAIN reltab : reltab[f].line = reltab[e].line => f = e
  BY <1>2, <1>9 DEF LayoutInv, EntryRight
<1>29. ASSUME NEW e \in DOMAIN reltab' PROVE EntryRight(e)'
  <2>1. CASE parse_symbol(args) = {} /\ reltab' = reltab
    BY <1>10, <1>27, <1>28, <2>1 DEF EntryRight
  <2>2. CASE ~(parse_symbol(args) = {} /\ reltab' = reltab)
    <3>1. PICK k \in parse_symbol(args) :
            /\ reltab'[1].line = L
            /\ \A f \in DOMAIN reltab' :
                 f = 1 \/ (f - 1 \in DOMAIN reltab /\ reltab'[f] = reltab[f - 1] /\ f = (f - 1) + 1)
      BY <1>18, <2>2
    <3>2. HasSymbol(L)
      <4>1. k \in DOMAIN args /\ k \in DOMAIN Operands(InstrOf(L)) /\ args[k].kind = "sym"
        BY <1>6, <1>11 DEF parse_symbol
      <4>2. Arg(L, k) = args[k]
        BY <1>14, <4>1 DEF IsArgs
      <4> QED BY <4>1, <4>2 DEF HasSymbol
    <3>3. CASE e = 1
      <4>1. \A f \in DOMAIN reltab' : reltab'[f].line = L => f = 1
        BY <1>28, <3>1
      <4> QED BY <1>9, <1>27, <3>1, <3>2, <3>3, <4>1 DEF EntryRight
    <3>4. CASE e # 1
      <4>1. e - 1 \in DOMAIN reltab /\ reltab'[e] = reltab[e - 1]
        BY <3>1, <3>4
      <4>2. \A f \in DOMAIN reltab' : reltab'[f].line = reltab'[e].line => f = e
        <5> TAKE f \in DOMAIN reltab'
        <5> HAVE reltab'[f].line = reltab'[e].line
        <5>1. f # 1
          BY <1>28, <3>1, <4>1
        <5>2. f - 1 = e - 1
          BY <1>28, <3>1, <4>1, <5>1
        <5> QED BY <3>1, <3>4, <5>1, <5>2
      <4> QED BY <1>10, <1>27, <1>28, <4>1, <4>2 DEF EntryRight
    <3> QED BY <3>3, <3>4
  <2> QED BY <2>1, <2>2
<1> QED BY <1>23, <1>25, <1>26, <1>29 DEF LayoutInv

LEMMA RelocateImage ==
  ASSUME AsmInv, SymInv, ImageInv, Relocate
  PROVE  ImageInv'
<1> PICK a, L, v : a = at /\ L = reltab[at].line /\ v = symtab[reltab[at].name]
  OBVIOUS
<1> PICK codes : codes = addressMemory(lines[L].codes, RelocIndex(lines[L].codes), v, LONG)
  OBVIOUS
<1>1. /\ phase = "relocate" /\ at <= Len(reltab) /\ at' = at + 1
      /\ lines' = [lines EXCEPT ![L].codes = codes]
      /\ UNCHANGED <<source, phase, ptr, value, vmaddr, symtab, reltab>>
  BY DEF Relocate, parser, tables
<1> SUFFICES ASSUME Laid' PROVE LayoutInv'
  BY DEF ImageInv
<1>2. LayoutInv /\ Laid
  BY <1>1, SameLaid DEF ImageInv
<1>3. /\ lines \in Seq(Line) /\ source \in Source /\ reltab \in Seq(Entry)
      /\ at \in Nat \ {0}
  BY DEF AsmInv, AsmTypeOK, Entry
<1>4. a \in DOMAIN reltab /\ L \in DOMAIN lines /\ lines[L] \in Line
  <2>1. at \in DOMAIN reltab
    BY <1>1, <1>3
  <2>2. reltab[at] \in Entry
    BY <1>3, <2>1
  <2>3. L \in DOMAIN lines
    BY <2>2 DEF Entry
  <2> QED BY <1>3, <2>1, <2>3
<1>5. /\ Len(lines') = Len(lines) /\ DOMAIN lines' = DOMAIN lines
      /\ lines'[L].bytes = lines[L].bytes /\ lines'[L].type = lines[L].type
      /\ lines'[L].addr = lines[L].addr /\ lines'[L].codes = codes
      /\ \A k \in DOMAIN lines : k # L => lines'[k] = lines[k]
  BY <1>1, <1>3, <1>4 DEF Line
<1>6. \A k : (InsRead(k)' <=> InsRead(k)) /\ \A x : Read(k, x)' = Read(k, x)
  BY <1>1, <1>5, SameRead
<1>7. /\ Place' = Place /\ BytesOf(L)' = BytesOf(L) /\ Coded(L)' = Coded(L)
      /\ InstrOf(L)' = InstrOf(L) /\ \A k, j : Arg(k, j)' = Arg(k, j)
  BY <1>1, SameSource
<1>8. /\ Addend(a) = 0 /\ Addend(a)' = v
      /\ \A e \in DOMAIN reltab : e # a => Addend(e)' = Addend(e)
  <2>1. ~(a < at) /\ a < at'
    BY <1>1, <1>3
  <2>2. \A e \in DOMAIN reltab : e # a => (e < at' <=> e < at)
    BY <1>1, <1>3
  <2> QED BY <1>1, <2>1, <2>2 DEF Addend, Relocated
<1>9. InsRead(L) /\ HasSymbol(L) /\ \A f \in DOMAIN reltab : reltab[f].line = L => f = a
  BY <1>2, <1>4 DEF LayoutInv, EntryRight
<1>10. ASSUME Coded(L) PROVE CodeRight(L)'
  <2>1. CodeRight(L)
    BY <1>2, <1>4, <1>9, <1>10 DEF LayoutInv, LineRight
  <2>2. PICK args, w : /\ IsArgs(L, args) /\ NumberFor(L, args, w)
                      /\ CodesAre(lines[L].codes, InstrOf(L), args, w)
    BY <2>1 DEF CodeRight
  <2>3. PICK j \in DOMAIN Operands(InstrOf(L)) : Arg(L, j).kind = "sym"
    BY <1>9 DEF HasSymbol
  <2>4. j \in DOMAIN args /\ j \in parse_symbol(args) /\ "sym" \in Operands(InstrOf(L))[j]
    <3>1. DOMAIN args = DOMAIN Operands(InstrOf(L))
      BY <2>2, OperandsLen DEF IsArgs
    <3> QED BY <2>2, <2>3, <3>1 DEF IsArgs, parse_symbol
  <2>5. EntryFor(a, L, args) /\ w = 0
    <3>1. PICK e \in DOMAIN reltab : EntryFor(e, L, args) /\ w = Addend(e)
      BY <2>2, <2>4 DEF NumberFor
    <3>2. e = a
      BY <1>9, <3>1 DEF EntryFor
    <3> QED BY <1>8, <3>1, <3>2
  <2>6. InstrOf(L) \in instr_set /\ ~IsPlacing(InstrOf(L))
    <3>1. L \in DOMAIN source /\ HasIns(L)
      BY <1>9 DEF InsRead, Read, Live
    <3>2. InstrOf(L) \in instr_set /\ InstrOf(L).name = Mnemonic(L)
      BY <1>2, <1>3, <3>1, ReadIns DEF Laid
    <3> QED BY <1>10, <3>1, <3>2, InstrBytes
  <2>7. CodesAre(codes, InstrOf(L), args, v)
    <3>1. lines[L].codes \in [CodeIndex -> Byte]
      BY <1>4 DEF Line
    <3> QED BY <2>2, <2>3, <2>4, <2>5, <2>6, <3>1, CodesPatched
  <2>8. IsArgs(L, args)' /\ CodesAre(lines[L].codes, InstrOf(L), args, v)'
    BY <1>5, <1>7, <2>2, <2>7 DEF IsArgs, CodesAre
  <2>9. NumberFor(L, args, v)'
    <3>1. EntryFor(a, L, args)' /\ a \in DOMAIN reltab'
      BY <1>1, <1>4, <2>5 DEF EntryFor
    <3> QED BY <1>8, <2>4, <3>1 DEF NumberFor
  <2> QED BY <2>8, <2>9 DEF CodeRight
<1>11. ASSUME NEW k \in DOMAIN lines' PROVE LineRight(k)'
  <2>1. LineRight(k) /\ k \in DOMAIN lines
    BY <1>2, <1>5 DEF LayoutInv
  <2>2. CASE k # L
    <3>1. \A e \in DOMAIN reltab : reltab[e].line = k =>
            reltab'[e] = reltab[e] /\ Addend(e)' = Addend(e)
      BY <1>1, <1>4, <1>8, <2>2
    <3>2. lines'[k] = lines[k]
      BY <1>5, <2>1, <2>2
    <3> QED BY <1>1, <1>6, <2>1, <3>1, <3>2, KeptLine
  <2>3. CASE k = L
    BY <1>5, <1>6, <1>7, <1>9, <1>10, <2>1, <2>3 DEF LineRight
  <2> QED BY <2>2, <2>3
<1>12. NowAt' /\ NoNumber'
  <2>1. lines' = <<>> <=> lines = <<>>
    BY <1>4, <1>5
  <2> QED BY <1>1, <1>2, <1>5, <1>6, <1>7, <2>1 DEF LayoutInv, NowAt, NoNumber
<1>13. ASSUME NEW n \in DOMAIN symtab' PROVE SymbolRight(n)'
  <2>1. SymbolRight(n)
    BY <1>1, <1>2 DEF LayoutInv
  <2> QED BY <1>1, <1>6, <2>1, KeptSymbol
<1>14. ASSUME NEW e \in DOMAIN reltab' PROVE EntryRight(e)'
  <2>1. EntryRight(e)
    BY <1>1, <1>2 DEF LayoutInv
  <2> QED BY <1>1, <1>6, <2>1, KeptEntry
<1> QED BY <1>11, <1>12, <1>13, <1>14 DEF LayoutInv

LEMMA ImageInit == AsmInit => ImageInv
<1> SUFFICES ASSUME AsmInit PROVE LayoutInv
  BY DEF ImageInv
<1>1. lines = <<>> /\ vmaddr = 0 /\ DOMAIN symtab = {} /\ reltab = <<>>
  BY DEF AsmInit
<1> QED BY <1>1 DEF LayoutInv, NowAt, NoNumber

LEMMA ImageStep == AsmInv /\ SymInv /\ ImageInv /\ [AsmNext]_asmvars => ImageInv'
<1> SUFFICES ASSUME AsmInv, SymInv, ImageInv, [AsmNext]_asmvars PROVE ImageInv'
  OBVIOUS
<1>1. CASE UNCHANGED asmvars
  BY <1>1, QuietImage DEF asmvars, parser, tables, Relocated
<1>2. CASE AsmNext
  BY <1>2, OtherImage, NextLineImage, LabelImage, InstructionImage, DirectiveImage,
     RelocateImage DEF AsmNext
<1> QED BY <1>1, <1>2

LEMMA LayoutKept == Spec => []ImageInv
<1>1. Init => ImageInv
  BY ImageInit DEF Init
<1>2. Y64Inv /\ ImageInv /\ [Next]_vars => ImageInv'
  BY ImageStep DEF Y64Inv, Next, Assemble, Simulate, vars
<1> QED BY <1>1, <1>2, Inductive, PTL DEF Spec

-----------------------------------------------------------------------------
(* The image holds the program: reading it back.                           *)

\* What the decoder should make of instruction i with operands args and number v
Reading(i, args, v) ==
  [name |-> Title(i.name), sel |-> Chosen(i.name),
   ra |-> IF HasRegsByte(i) THEN HIGH(RegsByte(i, args)) ELSE REG_NONE,
   rb |-> IF HasRegsByte(i) THEN LOW(RegsByte(i, args)) ELSE REG_NONE,
   imm |-> IF HasImm(HIGH(i.code)) THEN v ELSE 0]
Stored(mm, a, codes, bytes) == \A k \in 0 .. (bytes - 1) : mm[a + k] = codes[k]

\* The bytes of an instruction decode to what stands in the table and in them.
LEMMA CodeDecodes ==
  ASSUME NEW mm, NEW a \in Nat, NEW n \in Int, NEW i, IsInstr(i), i.bytes <= n,
         NEW args, NEW v \in Long, NEW codes, CodesAre(codes, i, args, v),
         Stored(mm, a, codes, i.bytes)
  PROVE  ISA!Decode(mm, a, n) = Reading(i, args, v)
<1> USE DEF Stored
<1> PICK c : c = HIGH(i.code)
  OBVIOUS
<1>1. /\ c \in Nibble /\ ISA!Name(c) = Title(i.name) /\ ISA!Size(Title(i.name)) = i.bytes
      /\ ISA!Select(Title(i.name), LOW(i.code)) = Chosen(i.name)
  BY DEF IsInstr, Nibble
<1>2. /\ ~IsData(i) /\ (HasRegsByte(i) <=> HasRegs(c)) /\ LONG \in Nat \ {0}
      /\ i.bytes = 1 + (IF HasRegs(c) THEN 1 ELSE 0) + (IF HasImm(c) THEN LONG ELSE 0)
  BY InstrSizes, Widths
<1>3. /\ codes[0] = i.code
      /\ HasRegs(c) => codes[1] = RegsByte(i, args)
      /\ HasImm(c) => \A k \in 0 .. (LONG - 1) : codes[i.bytes - LONG + k] = ByteOf(v, k)
  BY <1>2 DEF CodesAre
<1>4. mm[a] = i.code
  <2>1. 0 \in 0 .. (i.bytes - 1) /\ a + 0 = a
    BY <1>2
  <2> QED BY <1>3, <2>1
<1>5. HasRegs(c) => mm[a + 1] = RegsByte(i, args)
  <2>1. HasRegs(c) => 1 \in 0 .. (i.bytes - 1)
    BY <1>2
  <2> QED BY <1>3, <2>1
<1>6. HasImm(c) => ISA!Number64(mm, a + i.bytes - LONG) = v
  <2> SUFFICES ASSUME HasImm(c) PROVE ISA!Number64(mm, a + i.bytes - LONG) = v
    OBVIOUS
  <2> PICK x : x = a + i.bytes - LONG
    OBVIOUS
  <2> DEFINE b == [k \in 0 .. (LONG - 1) |-> mm[x + k]]
  <2>1. x \in Int
    BY <1>2
  <2>2. \A k \in 0 .. (LONG - 1) : mm[x + k] = ByteOf(v, k)
    <3> TAKE k \in 0 .. (LONG - 1)
    <3> PICK y : y = i.bytes - LONG + k
      OBVIOUS
    <3>1. y \in 0 .. (i.bytes - 1) /\ a + y = x + k
      BY <1>2
    <3>2. mm[a + y] = codes[y]
      BY <3>1
    <3> QED BY <1>3, <3>1, <3>2
  <2>3. \A k \in 0 .. (LONG - 1) : ByteOf(v, k) \in Byte
    <3>1. v \in Int /\ \A k \in 0 .. (LONG - 1) : k \in 0 .. LONG
      BY Widths DEF Long
    <3> QED BY <3>1, ByteOfType
  <2>4. ISA!Number64(mm, x) = LongAt(mm, x)
    BY <2>1, <2>2, <2>3, NumberOfBytes
  <2>5. \A k \in 0 .. (LONG - 1) : b[k] = ByteOf(v, k)
    BY <2>2
  <2>6. LongAt(mm, x) = FromBytes(b)
    BY DEF LongAt
  <2> HIDE DEF b
  <2>7. FromBytes(b) = v
    BY <2>5, LongBack
  <2> QED BY <2>4, <2>6, <2>7
<1> DEFINE name == ISA!Name(mm[a] \div 16)
           sel == ISA!Select(name, mm[a] % 16)
           ra == IF ISA!WithRegs(name) THEN mm[a + 1] \div 16 ELSE REG_NONE
           rb == IF ISA!WithRegs(name) THEN mm[a + 1] % 16 ELSE REG_NONE
           imm == IF ISA!WithImm(name) THEN ISA!Number64(mm, a + ISA!Size(name) - LONG) ELSE 0
<1>7. name = ISA!Name(c) /\ sel = ISA!Select(name, LOW(i.code))
  BY <1>4 DEF HIGH, LOW
<1>8. ~(ISA!Size(name) > n)
  <2>1. ISA!Size(name) = i.bytes
    BY <1>1, <1>7
  <2> HIDE DEF name
  <2> QED BY <1>2, <2>1
<1>9. ISA!Decode(mm, a, n) = [name |-> name, sel |-> sel, ra |-> ra, rb |-> rb, imm |-> imm]
  BY <1>8, SameNames DEF ISA!Decode
<1>10. (ISA!WithRegs(name) <=> HasRegs(c)) /\ (ISA!WithImm(name) <=> HasImm(c))
  <2> HIDE DEF name
  <2> QED BY <1>1, <1>7, Shapes
<1>11. /\ ra = IF HasRegsByte(i) THEN HIGH(RegsByte(i, args)) ELSE REG_NONE
       /\ rb = IF HasRegsByte(i) THEN LOW(RegsByte(i, args)) ELSE REG_NONE
  BY <1>2, <1>5, <1>10 DEF HIGH, LOW
<1>12. imm = IF HasImm(c) THEN v ELSE 0
  <2>1. ISA!Size(name) = i.bytes
    BY <1>1, <1>7
  <2> HIDE DEF name
  <2> QED BY <1>6, <1>10, <2>1
<1> HIDE DEF name, sel, ra, rb, imm
<1> QED BY <1>1, <1>7, <1>9, <1>11, <1>12 DEF Reading

\* v is the number that the operands of line k stand for.
Meant(k, args, v) ==
  \A j \in DOMAIN args :
    args[j].kind \in {"imm", "num", "dmem", "mem", "sym"} => v = Operand(Arg(k, j))

LEMMA MeaningIs ==
  ASSUME NEW k, NEW i, i = InstrOf(k), IsInstr(i), i.name = Mnemonic(k),
         NEW args, IsArgs(k, args), NEW v, Meant(k, args, v)
  PROVE  Meaning(k) = Reading(i, args, v)
<1> PICK c, n : c = HIGH(i.code) /\ n = Title(i.name)
  OBVIOUS
<1> DEFINE ra == IF HasRegsByte(i) THEN HIGH(RegsByte(i, args)) ELSE REG_NONE
           rb == IF HasRegsByte(i) THEN LOW(RegsByte(i, args)) ELSE REG_NONE
           imm == IF HasImm(c) THEN v ELSE 0
<1>1. c \in 0 .. 11 /\ c \in Nibble /\ n = ISA!Name(c) /\ ~IsData(i)
  BY InstrSizes DEF IsInstr, Nibble
<1>2. NameOf(k) = n /\ SelOf(k) = Chosen(i.name)
  <2>1. NameOf(k) = n
    BY DEF NameOf, Title
  <2> QED BY <2>1 DEF SelOf, Chosen
<1>3. /\ args \in Seq(Token) /\ DOMAIN args = DOMAIN Operands(i)
      /\ \A j \in DOMAIN args : args[j].kind \in Operands(i)[j] /\ Arg(k, j) = args[j]
  BY OperandsLen DEF IsArgs
<1>4. \A j \in DOMAIN args : args[j].reg \in Nibble /\ 15 \in Nibble
  BY <1>3, TokenFields DEF Nibble
<1> USE DEF I_HALT, I_NOP, I_RRMOVQ, I_IRMOVQ, I_RMMOVQ, I_MRMOVQ, I_ALU, I_JMP, I_CALL,
            I_RET, I_PUSHQ, I_POPQ
<1>5. /\ c \in {I_HALT, I_NOP, I_RET} => n \in {"halt", "nop", "ret"}
      /\ c \in {I_RRMOVQ, I_ALU} => n \in {"cmov", "alu"}
      /\ c = I_IRMOVQ => n = "irmovq"
      /\ c = I_RMMOVQ => n = "rmmovq"
      /\ c = I_MRMOVQ => n = "mrmovq"
      /\ c \in {I_JMP, I_CALL} => n \in {"jump", "call"}
      /\ c \in {I_PUSHQ, I_POPQ} => n \in {"pushq", "popq"}
  BY <1>1, Shapes
<1>6. /\ c \in {I_RRMOVQ, I_ALU} => Operands(i) = <<parse_reg, parse_delim, parse_reg>>
      /\ c = I_IRMOVQ => Operands(i) = <<parse_imm, parse_delim, parse_reg>>
      /\ c = I_RMMOVQ => Operands(i) = <<parse_reg, parse_delim, parse_mem>>
      /\ c = I_MRMOVQ => Operands(i) = <<parse_mem, parse_delim, parse_reg>>
      /\ c \in {I_JMP, I_CALL} => Operands(i) = <<parse_imm>>
      /\ c \in {I_PUSHQ, I_POPQ} => Operands(i) = <<parse_reg>>
  BY <1>1 DEF Operands
<1>7. CASE c \in {I_HALT, I_NOP, I_RET}
  <2>1. n \in {"halt", "nop", "ret"}
    BY <1>5, <1>7
  <2>2. Meaning(k) = [name |-> n, sel |-> Chosen(i.name), ra |-> REG_NONE,
                     rb |-> REG_NONE, imm |-> 0]
    BY <1>2, <2>1 DEF Meaning
  <2>5. ra = REG_NONE /\ rb = REG_NONE
    BY <1>7 DEF HasRegsByte
  <2>7. imm = 0
    BY <1>7 DEF HasImm
  <2> HIDE DEF ra, rb, imm
  <2>8. Meaning(k) = [name |-> n, sel |-> Chosen(i.name), ra |-> ra, rb |-> rb, imm |-> imm]
    BY <2>2, <2>5, <2>7
  <2> QED BY <2>8 DEF ra, rb, imm, Reading
<1>8. CASE c \in {I_RRMOVQ, I_ALU}
  <2>1. n \in {"cmov", "alu"}
    BY <1>5, <1>8
  <2>2. Meaning(k) = [name |-> n, sel |-> Chosen(i.name), ra |-> Arg(k, 1).reg,
                     rb |-> Arg(k, 3).reg, imm |-> 0]
    BY <1>2, <2>1 DEF Meaning
  <2>3. \A j \in {1, 3} : j \in DOMAIN args /\ Arg(k, j) = args[j]
    BY <1>3, <1>6, <1>8
  <2>4. HasRegsByte(i) /\ RegsByte(i, args) = HPACK(args[1].reg, args[3].reg)
    BY <1>8 DEF HasRegsByte, RegsByte
  <2>5. ra = Arg(k, 1).reg /\ rb = Arg(k, 3).reg
    BY <1>4, <2>3, <2>4, PackParts DEF REG_NONE
  <2>7. imm = 0
    BY <1>8 DEF HasImm
  <2> HIDE DEF ra, rb, imm
  <2>8. Meaning(k) = [name |-> n, sel |-> Chosen(i.name), ra |-> ra, rb |-> rb, imm |-> imm]
    BY <2>2, <2>5, <2>7
  <2> QED BY <2>8 DEF ra, rb, imm, Reading
<1>9. CASE c = I_IRMOVQ
  <2>1. n \in {"irmovq"}
    BY <1>5, <1>9
  <2>2. Meaning(k) = [name |-> n, sel |-> Chosen(i.name), ra |-> REG_NONE,
                     rb |-> Arg(k, 3).reg, imm |-> Operand(Arg(k, 1))]
    BY <1>2, <2>1 DEF Meaning
  <2>3. \A j \in {1, 3} : j \in DOMAIN args /\ Arg(k, j) = args[j]
    BY <1>3, <1>6, <1>9
  <2>4. HasRegsByte(i) /\ RegsByte(i, args) = HPACK(15, args[3].reg)
    BY <1>9 DEF HasRegsByte, RegsByte
  <2>5. ra = REG_NONE /\ rb = Arg(k, 3).reg
    BY <1>4, <2>3, <2>4, PackParts DEF REG_NONE
  <2>6. 1 \in DOMAIN args /\ args[1].kind \in parse_imm
    BY <1>3, <1>6, <1>9
  <2>7. imm = Operand(Arg(k, 1))
    BY <1>9, <2>6 DEF HasImm, Meant, parse_imm
  <2> HIDE DEF ra, rb, imm
  <2>8. Meaning(k) = [name |-> n, sel |-> Chosen(i.name), ra |-> ra, rb |-> rb, imm |-> imm]
    BY <2>2, <2>5, <2>7
  <2> QED BY <2>8 DEF ra, rb, imm, Reading
<1>10. CASE c = I_RMMOVQ
  <2>1. n \in {"rmmovq"}
    BY <1>5, <1>10
  <2>2. Meaning(k) = [name |-> n, sel |-> Chosen(i.name), ra |-> Arg(k, 1).reg,
                     rb |-> Arg(k, 3).reg, imm |-> Operand(Arg(k, 3))]
    BY <1>2, <2>1 DEF Meaning
  <2>3. \A j \in {1, 3} : j \in DOMAIN args /\ Arg(k, j) = args[j]
    BY <1>3, <1>6, <1>10
  <2>4. HasRegsByte(i) /\ RegsByte(i, args) = HPACK(args[1].reg, args[3].reg)
    BY <1>10 DEF HasRegsByte, RegsByte
  <2>5. ra = Arg(k, 1).reg /\ rb = Arg(k, 3).reg
    BY <1>4, <2>3, <2>4, PackParts DEF REG_NONE
  <2>6. 3 \in DOMAIN args /\ args[3].kind \in parse_mem
    BY <1>3, <1>6, <1>10
  <2>7. imm = Operand(Arg(k, 3))
    BY <1>10, <2>6 DEF HasImm, Meant, parse_mem
  <2> HIDE DEF ra, rb, imm
  <2>8. Meaning(k) = [name |-> n, sel |-> Chosen(i.name), ra |-> ra, rb |-> rb, imm |-> imm]
    BY <2>2, <2>5, <2>7
  <2> QED BY <2>8 DEF ra, rb, imm, Reading
<1>11. CASE c = I_MRMOVQ
  <2>1. n \in {"mrmovq"}
    BY <1>5, <1>11
  <2>2. Meaning(k) = [name |-> n, sel |-> Chosen(i.name), ra |-> Arg(k, 3).reg,
                     rb |-> Arg(k, 1).reg, imm |-> Operand(Arg(k, 1))]
    BY <1>2, <2>1 DEF Meaning
  <2>3. \A j \in {1, 3} : j \in DOMAIN args /\ Arg(k, j) = args[j]
    BY <1>3, <1>6, <1>11
  <2>4. HasRegsByte(i) /\ RegsByte(i, args) = HPACK(args[3].reg, args[1].reg)
    BY <1>11 DEF HasRegsByte, RegsByte
  <2>5. ra = Arg(k, 3).reg /\ rb = Arg(k, 1).reg
    BY <1>4, <2>3, <2>4, PackParts DEF REG_NONE
  <2>6. 1 \in DOMAIN args /\ args[1].kind \in parse_mem
    BY <1>3, <1>6, <1>11
  <2>7. imm = Operand(Arg(k, 1))
    BY <1>11, <2>6 DEF HasImm, Meant, parse_mem
  <2> HIDE DEF ra, rb, imm
  <2>8. Meaning(k) = [name |-> n, sel |-> Chosen(i.name), ra |-> ra, rb |-> rb, imm |-> imm]
    BY <2>2, <2>5, <2>7
  <2> QED BY <2>8 DEF ra, rb, imm, Reading
<1>12. CASE c \in {I_JMP, I_CALL}
  <2>1. n \in {"jump", "call"}
    BY <1>5, <1>12
  <2>2. Meaning(k) = [name |-> n, sel |-> Chosen(i.name), ra |-> REG_NONE,
                     rb |-> REG_NONE, imm |-> Operand(Arg(k, 1))]
    BY <1>2, <2>1 DEF Meaning
  <2>5. ra = REG_NONE /\ rb = REG_NONE
    BY <1>12 DEF HasRegsByte
  <2>6. 1 \in DOMAIN args /\ args[1].kind \in parse_imm
    BY <1>3, <1>6, <1>12
  <2>7. imm = Operand(Arg(k, 1))
    BY <1>12, <2>6 DEF HasImm, Meant, parse_imm
  <2> HIDE DEF ra, rb, imm
  <2>8. Meaning(k) = [name |-> n, sel |-> Chosen(i.name), ra |-> ra, rb |-> rb, imm |-> imm]
    BY <2>2, <2>5, <2>7
  <2> QED BY <2>8 DEF ra, rb, imm, Reading
<1>13. CASE c \in {I_PUSHQ, I_POPQ}
  <2>1. n \in {"pushq", "popq"}
    BY <1>5, <1>13
  <2>2. Meaning(k) = [name |-> n, sel |-> Chosen(i.name), ra |-> Arg(k, 1).reg,
                     rb |-> REG_NONE, imm |-> 0]
    BY <1>2, <2>1 DEF Meaning
  <2>3. \A j \in {1} : j \in DOMAIN args /\ Arg(k, j) = args[j]
    BY <1>3, <1>6, <1>13
  <2>4. HasRegsByte(i) /\ RegsByte(i, args) = HPACK(args[1].reg, 15)
    BY <1>13 DEF HasRegsByte, RegsByte
  <2>5. ra = Arg(k, 1).reg /\ rb = REG_NONE
    BY <1>4, <2>3, <2>4, PackParts DEF REG_NONE
  <2>7. imm = 0
    BY <1>13 DEF HasImm
  <2> HIDE DEF ra, rb, imm
  <2>8. Meaning(k) = [name |-> n, sel |-> Chosen(i.name), ra |-> ra, rb |-> rb, imm |-> imm]
    BY <2>2, <2>5, <2>7
  <2> QED BY <2>8 DEF ra, rb, imm, Reading
<1>14. c \in {I_HALT, I_NOP, I_RET, I_RRMOVQ, I_ALU, I_IRMOVQ, I_RMMOVQ, I_MRMOVQ, I_JMP,
                    I_CALL, I_PUSHQ, I_POPQ}
  BY <1>1
<1> HIDE DEF I_HALT, I_NOP, I_RRMOVQ, I_IRMOVQ, I_RMMOVQ, I_MRMOVQ, I_ALU, I_JMP, I_CALL,
            I_RET, I_PUSHQ, I_POPQ
<1> QED BY <1>7, <1>8, <1>9, <1>10, <1>11, <1>12, <1>13, <1>14

\* At the end, a symbol stands for the address of the only line with its label.
LEMMA SymbolIs ==
  ASSUME source \in Source, NEW n, SymbolRight(n), OneLabel(n),
         \A l, x : l \in DOMAIN source /\ Live(l, x) => Read(l, x)
  PROVE  SymbolAt(n) = symtab[n]
<1>1. PICK l \in DOMAIN source : \E x \in DOMAIN source[l] :
        Read(l, x) /\ Is(l, x, "label", n) /\ symtab[n] = Place[l]
  BY DEF SymbolRight
<1>2. PICK x \in DOMAIN source[l] :
        Read(l, x) /\ Is(l, x, "label", n) /\ symtab[n] = Place[l]
  BY <1>1
<1>3. l \in LabelledLines(n)
  <2>1. x \in DOMAIN Tokens(l) /\ Tokens(l)[x] = source[l][x]
    BY <1>2, TokensLive DEF Read
  <2> QED BY <1>2, <2>1 DEF LabelledLines, Is
<1>4. ASSUME NEW j \in LabelledLines(n) PROVE j = l
  <2>1. PICK y \in DOMAIN Tokens(j) :
          j \in DOMAIN source /\ Tokens(j)[y].kind = "label" /\ Tokens(j)[y].name = n
    BY DEF LabelledLines
  <2>2. Live(j, y) /\ Tokens(j)[y] = source[j][y]
    BY <2>1, TokensLive
  <2>3. Read(j, y) /\ Is(j, y, "label", n) /\ y \in DOMAIN source[j]
    BY <2>1, <2>2 DEF Is, Live
  <2> QED BY <1>2, <2>1, <2>3 DEF OneLabel
<1> QED BY <1>2, <1>3, <1>4 DEF SymbolAt

\* Two lines that put bytes at the same place have addresses in common.
LEMMA SpansMeet ==
  ASSUME NEW a \in Int, NEW b \in Int, NEW p \in Nat \ {0}, NEW q \in Nat \ {0},
         a < b + q, b < a + p
  PROVE  (a .. (a + p - 1)) \cap (b .. (b + q - 1)) # {}
<1>1. CASE a <= b
  <2>1. b \in a .. (a + p - 1) /\ b \in b .. (b + q - 1)
    BY <1>1
  <2> QED BY <2>1
<1>2. CASE b <= a
  <2>1. a \in a .. (a + p - 1) /\ a \in b .. (b + q - 1)
    BY <1>2
  <2> QED BY <2>1
<1> QED BY <1>1, <1>2

\* A line in a source that is done is in the file as the code of its instruction.
LEMMA LineInFile ==
  ASSUME Y64Inv, ImageInv, phase = "done", \A k \in DOMAIN source : Plain(k), Fits,
         NEW i \in DOMAIN source, BytesOf(i) > 0, Visible(i)
  PROVE  /\ HasIns(i) /\ Coded(i) /\ Place[i] \in Nat /\ i \in DOMAIN lines
         /\ lines[i].bytes = BytesOf(i) /\ CodeRight(i)
         /\ \A k \in 0 .. (BytesOf(i) - 1) :
              /\ Place[i] + k + 1 \in DOMAIN file
              /\ file[Place[i] + k + 1] = lines[i].codes[k]
         /\ \A n \in DOMAIN symtab : SymbolAt(n) = symtab[n]
<1>1. LayoutInv
  BY DEF ImageInv, Laid
<1>2. /\ source \in Source /\ source \in Seq(Seq(Token)) /\ lines \in Seq(Line)
      /\ Len(lines) = Len(source) /\ Finished /\ LineInv /\ at > Len(lines) /\ at \in Nat
  BY SourceType DEF Y64Inv, AsmInv, AsmTypeOK, SymInv, PhaseInv, FileInv
<1>3. DOMAIN lines = DOMAIN source /\ DOMAIN source = 1 .. Len(source)
  BY <1>2
<1>4. \A l, x : l \in DOMAIN source /\ Live(l, x) => Read(l, x)
  <2> TAKE l, x
  <2> HAVE l \in DOMAIN source /\ Live(l, x)
  <2>1. l <= Len(lines) /\ Len(lines) <= Len(source)
    BY <1>2, <1>3
  <2> QED BY <1>2, <2>1, FinishedRead
<1>5. \A k \in DOMAIN source : HasIns(k) => InsRead(k)
  BY <1>2, <1>4, ReadIns DEF InsRead
<1>6. \A k \in DOMAIN lines :
        /\ lines[k].addr \in Int /\ lines[k].bytes \in Nat /\ LineRight(k) /\ k < at
  <2> TAKE k \in DOMAIN lines
  <2>1. lines[k] \in Line /\ k < at
    BY <1>2
  <2> QED BY <1>1, <2>1, Widths DEF LayoutInv, Line, Long
<1>7. HasIns(i) /\ Coded(i) /\ InsRead(i)
  BY <1>5 DEF BytesOf
<1>8. /\ lines[i].bytes = BytesOf(i) /\ lines[i].type = "INS" /\ lines[i].addr = Place[i]
      /\ CodeRight(i)
  BY <1>3, <1>6, <1>7 DEF LineRight
<1>9. ~CoveredBefore(i, at)
  <2> SUFFICES ASSUME NEW j \in DOMAIN lines, j > i, Overlap(j, i) PROVE FALSE
    BY DEF CoveredBefore
  <2>1. lines[j].bytes > 0
    BY DEF Overlap
  <2>2. InsRead(j) /\ lines[j].bytes = BytesOf(j) /\ Coded(j)
    BY <1>6, <2>1 DEF LineRight, BytesOf
  <2>3. lines[j].addr = Place[j]
    BY <1>6, <2>2 DEF LineRight
  <2>4. /\ Place[i] \in Int /\ Place[j] \in Int /\ BytesOf(i) \in Nat \ {0}
        /\ BytesOf(j) \in Nat \ {0}
        /\ Place[i] < Place[j] + BytesOf(j) /\ Place[j] < Place[i] + BytesOf(i)
    <3>1. /\ lines[i].addr \in Int /\ lines[j].addr \in Int /\ lines[i].bytes \in Nat
          /\ lines[j].bytes \in Nat
      BY <1>3, <1>6
    <3> QED BY <1>8, <2>1, <2>2, <2>3, <3>1 DEF Overlap
  <2>5. Span(i) \cap Span(j) # {}
    BY <2>4, SpansMeet DEF Span
  <2> QED BY <1>3, <2>5 DEF Visible
<1>10. Place[i] >= 0 /\ InFile(i)
  BY <1>3, <1>6, <1>8, <1>9 DEF Y64Inv, FileInv
<1>11. \A k \in 0 .. (BytesOf(i) - 1) :
         /\ Place[i] + k + 1 \in DOMAIN file
         /\ file[Place[i] + k + 1] = lines[i].codes[k]
  BY <1>8, <1>10 DEF InFile
<1>12. Place[i] \in Nat
  BY <1>3, <1>6, <1>8, <1>10
<1>13. \A n \in DOMAIN symtab : SymbolAt(n) = symtab[n]
  BY <1>1, <1>2, <1>4, SymbolIs DEF LayoutInv, Y64Inv, SymInv, TablesInv
<1> QED BY <1>3, <1>7, <1>8, <1>11, <1>12, <1>13

LEMMA NumberMeant ==
  ASSUME AsmTypeOK, phase = "done", NEW k, NEW args, IsArgs(k, args), NEW v, NumberFor(k, args, v),
         \A n \in DOMAIN symtab : SymbolAt(n) = symtab[n],
         \A e \in DOMAIN reltab : Resolved(e)
  PROVE  Meant(k, args, v) /\ v \in Long
<1>1. /\ args \in Seq(Token) /\ Len(args) = Len(Operands(InstrOf(k)))
      /\ \A j \in DOMAIN args :
           args[j].kind \in Operands(InstrOf(k))[j] /\ Arg(k, j) = args[j]
  BY DEF IsArgs
<1>2. /\ \A j \in DOMAIN args :
           /\ args[j].kind \in {"imm", "num", "dmem"} => Number(args, 0) = args[j].num
           /\ args[j].kind = "mem" => Number(args, 0) = 0
           /\ args[j].kind \in {"imm", "num", "dmem", "mem"} => parse_symbol(args) = {}
      /\ \A j, x \in parse_symbol(args) : j = x
  BY <1>1, NumberOnce
<1>3. CASE parse_symbol(args) = {}
  <2>1. v = Number(args, 0)
    BY <1>3 DEF NumberFor
  <2>2. v \in Long
    <3>1. 0 \in Long
      BY Widths DEF Long
    <3> QED BY <1>1, <2>1, <3>1, NumberType
  <2>3. ASSUME NEW j \in DOMAIN args, args[j].kind \in {"imm", "num", "dmem", "mem", "sym"}
        PROVE  v = Operand(Arg(k, j))
    <3>1. args[j].kind # "sym"
      BY <1>3 DEF parse_symbol
    <3>2. CASE args[j].kind \in {"imm", "num", "dmem"}
      BY <1>1, <1>2, <2>1, <3>2 DEF Operand
    <3>3. CASE args[j].kind = "mem"
      BY <1>1, <1>2, <2>1, <3>3 DEF Operand
    <3> QED BY <2>3, <3>1, <3>2, <3>3
  <2> QED BY <2>2, <2>3 DEF Meant
<1>4. CASE parse_symbol(args) # {}
  <2>1. PICK e \in DOMAIN reltab : EntryFor(e, k, args) /\ v = Addend(e)
    BY <1>4 DEF NumberFor
  <2>2. PICK x \in parse_symbol(args) : args[x].name = reltab[e].name
    BY <2>1 DEF EntryFor
  <2>3. reltab[e].name \in DOMAIN symtab /\ v = symtab[reltab[e].name]
    BY <2>1 DEF Resolved, Addend, Relocated
  <2>4. v \in Long
    BY <2>3 DEF AsmTypeOK
  <2>5. ASSUME NEW j \in DOMAIN args, args[j].kind \in {"imm", "num", "dmem", "mem", "sym"}
        PROVE  v = Operand(Arg(k, j))
    <3>1. args[j].kind = "sym"
      BY <1>2, <1>4, <2>5
    <3>2. j = x
      BY <1>2, <3>1 DEF parse_symbol
    <3>3. Operand(Arg(k, j)) = SymbolAt(args[j].name)
      BY <1>1, <3>1 DEF Operand
    <3> QED BY <2>2, <2>3, <3>2, <3>3
  <2> QED BY <2>4, <2>5 DEF Meant
<1> QED BY <1>3, <1>4

LEMMA ImageRight ==
  ASSUME Y64Inv, ImageInv
  PROVE  AssembledRight
<1> SUFFICES ASSUME phase = "done", \A k \in DOMAIN source : Plain(k), Fits,
                    NEW i \in DOMAIN source, BytesOf(i) > 0, Visible(i)
             PROVE  IF Datum(i)
                    THEN \A k \in 0 .. (BytesOf(i) - 1) :
                           file[Place[i] + k + 1] = ByteOf(Operand(Arg(i, 1)), k)
                    ELSE ISA!Decode([a \in 0 .. (Len(file) - 1) |-> file[a + 1]], Place[i],
                                    Len(file) - Place[i]) = Meaning(i)
  BY DEF AssembledRight
<1>1. /\ HasIns(i) /\ Coded(i) /\ Place[i] \in Nat /\ i \in DOMAIN lines
      /\ lines[i].bytes = BytesOf(i) /\ CodeRight(i)
      /\ \A k \in 0 .. (BytesOf(i) - 1) :
           /\ Place[i] + k + 1 \in DOMAIN file
           /\ file[Place[i] + k + 1] = lines[i].codes[k]
      /\ \A n \in DOMAIN symtab : SymbolAt(n) = symtab[n]
  BY LineInFile
<1>2. source \in Source /\ lines[i] \in Line /\ AsmTypeOK
  BY <1>1 DEF Y64Inv, AsmInv, AsmTypeOK
<1> PICK w, p : w = InstrOf(i) /\ p = Place[i]
  OBVIOUS
<1>3. /\ w.name = Mnemonic(i) /\ w.bytes = BytesOf(i) /\ (Datum(i) <=> IsDatum(w))
      /\ IsDatum(w) \/ IsInstr(w)
  BY <1>1, <1>2, ReadIns, InstrBytes
<1>4. PICK args, v : /\ IsArgs(i, args) /\ NumberFor(i, args, v)
                    /\ CodesAre(lines[i].codes, w, args, v)
  BY <1>1 DEF CodeRight
<1>5. BytesOf(i) \in Nat \ {0}
  <2>1. lines[i].bytes \in Nat
    BY <1>2, Widths DEF Line
  <2> QED BY <1>1, <2>1
<1>6. file \in Seq(Byte) /\ file # NoFile
  <2> SUFFICES file # NoFile
    BY <1>2 DEF AsmTypeOK
  <2>1. p + 0 + 1 \in DOMAIN file /\ file[p + 0 + 1] = lines[i].codes[0]
    BY <1>1, <1>5
  <2>2. lines[i].codes[0] \in Byte
    <3>1. 0 \in CodeIndex /\ lines[i].codes \in [CodeIndex -> Byte]
      BY <1>2, Widths DEF Line, CodeIndex
    <3> QED BY <3>1
  <2>3. ASSUME file = NoFile PROVE FALSE
    <3>1. DOMAIN file = {1} /\ file[1] = -1
      BY <2>3 DEF NoFile
    <3> QED BY <2>1, <2>2, <3>1 DEF Byte
  <2> QED BY <2>3
<1>7. Meant(i, args, v) /\ v \in Long
  <2>1. \A e \in DOMAIN reltab : Resolved(e)
    BY <1>6 DEF Y64Inv, SymInv, PhaseInv
  <2> QED BY <1>1, <1>2, <1>4, <2>1, NumberMeant
<1>8. CASE Datum(i)
  <2>1. IsData(w) /\ \A k \in 0 .. (BytesOf(i) - 1) : lines[i].codes[k] = ByteOf(v, k)
    BY <1>3, <1>4, <1>8 DEF IsDatum, CodesAre
  <2>2. Operands(w) = <<parse_data>>
    BY <2>1, DataIsDirective DEF Operands, I_HALT, I_NOP, I_RRMOVQ, I_IRMOVQ, I_RMMOVQ,
       I_MRMOVQ, I_ALU, I_JMP, I_CALL, I_RET, I_PUSHQ, I_POPQ, I_DIRECTIVE
  <2>3. 1 \in DOMAIN args /\ args[1].kind \in parse_data
    BY <1>4, <2>2 DEF IsArgs
  <2>4. v = Operand(Arg(i, 1))
    BY <1>7, <2>3 DEF Meant, parse_data
  <2> QED BY <1>1, <1>8, <2>1, <2>4
<1>9. CASE ~Datum(i)
  <2> PICK mm, n : mm = [a \in 0 .. (Len(file) - 1) |-> file[a + 1]] /\ n = Len(file)
    OBVIOUS
  <2>1. IsInstr(w) /\ n \in Nat /\ DOMAIN file = 1 .. n /\ p \in Nat
    BY <1>1, <1>3, <1>6, <1>9
  <2>2. p + w.bytes <= n
    <3>1. BytesOf(i) - 1 \in 0 .. (BytesOf(i) - 1)
      BY <1>5
    <3>2. p + (BytesOf(i) - 1) + 1 \in DOMAIN file
      BY <1>1, <3>1
    <3> QED BY <1>3, <1>5, <2>1, <3>2
  <2>3. \A k \in 0 .. (w.bytes - 1) : mm[p + k] = lines[i].codes[k]
    <3> TAKE k \in 0 .. (w.bytes - 1)
    <3>1. p + k + 1 \in DOMAIN file /\ file[p + k + 1] = lines[i].codes[k]
      BY <1>1, <1>3
    <3>2. p + k \in 0 .. (Len(file) - 1)
      BY <1>3, <1>5, <2>1, <3>1
    <3> QED BY <3>1, <3>2
  <2>4. ISA!Decode(mm, p, n - p) = Reading(w, args, v)
    <3> PICK codes, size : codes = lines[i].codes /\ size = n - p
      OBVIOUS
    <3>1. CodesAre(codes, w, args, v) /\ Stored(mm, p, codes, w.bytes)
      BY <1>4, <2>3 DEF Stored
    <3>2. size \in Int /\ w.bytes <= size
      BY <1>3, <1>5, <2>1, <2>2
    <3>3. ISA!Decode(mm, p, size) = Reading(w, args, v)
      BY <1>7, <2>1, <3>1, <3>2, CodeDecodes
    <3> QED BY <3>3
  <2>5. Meaning(i) = Reading(w, args, v)
    BY <1>3, <1>4, <1>7, <2>1, MeaningIs
  <2> QED BY <1>9, <2>4, <2>5
<1> QED BY <1>8, <1>9

(***************************************************************************)
(* The image holds the program, whatever the source and the width of a     *)
(* long: in a source with at most one instruction a line and no label      *)
(* behind it, whose addresses fit a long, every line that no later line    *)
(* covers is in the file at its address, decodes to the instruction that   *)
(* was written, and has the addresses of the labels it names (parse_line,  *)
(* relocate and binfile).                                                  *)
(***************************************************************************)
THEOREM ImagesHoldPrograms == Spec => []AssembledRight
<1>1. Y64Inv /\ ImageInv => AssembledRight
  BY ImageRight
<1> QED BY <1>1, Inductive, LayoutKept, PTL
=============================================================================
