---------------------------------- MODULE Y64 ----------------------------------
(***************************************************************************)
(* What lab4/y64sim.h and lab5/y64asm.h share: the long of the machine as  *)
(* a two's complement number and as bytes, the packing of two nibbles, the *)
(* codes of instructions and the numbers of registers.  A long has LONG    *)
(* bytes and an int has INT; in the code these are 8 and 4.  AndByte and   *)
(* XorByte are & and ^ of two bytes.                                       *)
(***************************************************************************)
EXTENDS Integers, Sequences

CONSTANTS LONG, INT, AndByte(_, _), XorByte(_, _)

\* Half the number of values of a long and of an int.
LongHalf == 128 * 256 ^ (LONG - 1)
IntHalf == 128 * 256 ^ (INT - 1)

Byte == 0 .. 255
Long == (-LongHalf) .. (LongHalf - 1)
Int32 == (-IntHalf) .. (IntHalf - 1)   \* the values of an int

\* An int is shorter than a long.
ASSUME WidthAssumption ==
  /\ LONG \in 1 .. 8 /\ INT \in 1 .. (LONG - 1)
  /\ \A i \in 0 .. LONG : 256 ^ i \in Nat \ {0}
  /\ LongHalf \in Nat \ {0} /\ IntHalf \in Nat \ {0}
  /\ 4 * IntHalf <= LongHalf
\* The law of powers, which the provers do not know.
ASSUME PowerAssumption ==
  256 ^ 0 = 1 /\ \A i \in 0 .. LONG : 256 ^ (i + 1) = 256 * 256 ^ i
\* & and ^ work on the top bit by itself, as on every other.
ASSUME BitsAssumption ==
  \A x, y \in Byte :
    /\ AndByte(x, y) \in Byte /\ XorByte(x, y) \in Byte
    /\ AndByte(x, y) >= 128 <=> x >= 128 /\ y >= 128
    /\ XorByte(x, y) >= 128 <=> (x >= 128) # (y >= 128)

\* Arithmetic of longs wraps; the cast (int) keeps the low half.
ToLong_NoWrap(x) == x
ToLong(x) == ((x + LongHalf) % (2 * LongHalf)) - LongHalf
ToInt(x) == ((x + IntHalf) % (2 * IntHalf)) - IntHalf

\* Byte i of a long, the lowest first (\div rounds down, as >> does).
ByteOf(v, i) == (v \div 256 ^ i) % 256

\* The long of the bytes b[0], b[1], ... (a long has at most 8).
Horner(b, i, rest) == IF i < LONG THEN b[i] + 256 * rest ELSE 0
FromBytes(b) ==
  ToLong(Horner(b, 0, Horner(b, 1, Horner(b, 2, Horner(b, 3,
         Horner(b, 4, Horner(b, 5, Horner(b, 6, Horner(b, 7, 0)))))))))

BytesAnd(x, y) == FromBytes([i \in 0 .. (LONG - 1) |-> AndByte(ByteOf(x, i), ByteOf(y, i))])
BytesXor(x, y) == FromBytes([i \in 0 .. (LONG - 1) |-> XorByte(ByteOf(x, i), ByteOf(y, i))])

HPACK(hi, lo) == hi * 16 + lo
HIGH(pack) == pack \div 16
LOW(pack) == pack % 16

I_HALT == 0
I_NOP == 1
I_RRMOVQ == 2
I_IRMOVQ == 3
I_RMMOVQ == 4
I_MRMOVQ == 5
I_ALU == 6
I_JMP == 7
I_CALL == 8
I_RET == 9
I_PUSHQ == 10
I_POPQ == 11
I_DIRECTIVE == 12

A_ADD == 0
A_SUB == 1
A_AND == 2
A_XOR == 3
A_NONE == 4

C_YES == 0
C_LE == 1
C_L == 2
C_E == 3
C_NE == 4
C_GE == 5
C_G == 6

REG_RSP == 4
REG_NONE == 15
RegId == 0 .. (REG_NONE - 1)
=============================================================================
