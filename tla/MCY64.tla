--------------------------------- MODULE MCY64 ---------------------------------
(* An instance of Y64Tools for TLC: the source files. *)
EXTENDS Y64Props, Bitwise

MCAnd(x, y) == x & y
MCXor(x, y) == x ^^ y
MCDataBytes == [d \in {".byte", ".quad"} |-> IF d = ".byte" THEN 1 ELSE LONG]

Tok(kind, name, num, reg) == [kind |-> kind, name |-> name, num |-> num, reg |-> reg]
RAX == Tok("reg", "", 0, 0)
RCX == Tok("reg", "", 0, 1)
RSP == Tok("reg", "", 0, 4)
Comma == Tok("comma", "", 0, 0)
Comment == Tok("comment", "", 0, 0)
Junk == Tok("junk", "", 0, 0)
Ins1(n) == Tok("ins", n, 0, 0)
Sym(n) == Tok("sym", n, 0, 0)
L(n) == Tok("label", n, 0, 0)
Num(v) == Tok("num", "", v, 0)
Imm(v) == Tok("imm", "", v, 0)
Mem(reg) == Tok("mem", "", 0, reg)
DMem(v, reg) == Tok("dmem", "", v, reg)

HaltLine == <<Ins1("halt")>>
Irmovq2(v, reg) == <<Ins1("irmovq"), Imm(v), Comma, reg>>

\* Operands around the ends of an int and of a long, every operation and a jump
\* on every condition, and after a subtraction a move on every condition.
Edges == {-32768, -128, -1, 0, 1, 127, 128, 32767}
Branches == {<<Ins1(j), Sym("E")>> :
               j \in {"jmp", "jle", "jl", "je", "jne", "jge", "jg"}}
Cmoves == {<<Ins1(c), RSP, Comma, RAX>> :
             c \in {"rrmovq", "cmovle", "cmovl", "cmove", "cmovne", "cmovge", "cmovg"}}
Arithmetic ==
  {<<Irmovq2(a, RAX), Irmovq2(b, RCX), <<Ins1(oc[1]), RAX, Comma, RCX>>, oc[2],
     <<L("E"), Ins1("halt")>>>> :
     a \in Edges, b \in Edges,
     oc \in ({"addq", "subq", "andq", "xorq"} \X Branches) \cup ({"subq"} \X Cmoves)}

\* A stack that is below, above, across the end of, or over the program.
Stacks == {-32768, -1, 0, 1, 2, 6, 8, 21, 22, 23, 24, 32766, 32767}
StackOps ==
  { <<Ins1("pushq"), RSP>>, <<Ins1("pushq"), RAX>>, <<Ins1("popq"), RSP>>,
    <<Ins1("popq"), RAX>>, <<Ins1("ret")>>, <<Ins1("call"), Sym("F")>>,
    <<Ins1("rmmovq"), RSP, Comma, Mem(4)>>,
    <<Ins1("mrmovq"), DMem(2, 4), Comma, RSP>> }
Stack ==
  {<<Irmovq2(s, RSP), x, y, HaltLine, <<Ins1(".pos"), Num(16)>>,
     <<L("F"), Ins1("ret"), Comment>>>> : s \in Stacks, x \in StackOps, y \in StackOps}

\* Lines of every kind, right and wrong, in every order.
SomeLines ==
  { <<L("A"), Ins1("nop")>>, <<L("B")>>, <<Ins1("jmp"), Sym("A")>>,
    <<Ins1("call"), Sym("B")>>, <<Ins1("irmovq"), Sym("A"), Comma, RAX>>,
    <<Ins1(".byte"), Num(-1)>>, <<Ins1(".byte"), Sym("B")>>, <<L("A"), Ins1(".quad"), Sym("A")>>,
    <<Ins1(".pos"), Num(5)>>, <<Ins1(".pos"), Num(22)>>, <<Ins1(".pos"), Num(-3)>>,
    <<Ins1(".align"), Num(4)>>, <<Ins1(".align"), Num(0)>>,
    <<Ins1("mrmovq"), DMem(0, 3), Comma, RCX, Ins1("mrmovq"), Mem(0), Comma, RCX>>,
    <<Ins1("nop"), Ins1("jmp"), Sym("B"), Comment, Junk>>,
    <<Comment>>, <<Ins1("rrmovq"), RSP, RAX>>, <<Junk>> }
Mixed == {<<x, y>> : x \in SomeLines, y \in SomeLines}
         \cup {<<x, y, z>> : x \in SomeLines, y \in SomeLines, z \in SomeLines}

\* Any byte as an instruction, with room for its operands or cut off by the end.
OpCodes == {HPACK(i, f) : i \in 0 .. 15, f \in {0, 3, 4, 6, 7, 15}}
Raw ==
  {<<<<Ins1("jmp"), Sym("X")>>, <<Ins1(".pos"), Num(p)>>, <<L("X"), Ins1(".byte"), Num(o)>>,
     <<Ins1(".byte"), Num(b)>>>> :
     p \in {4, 19, 21}, o \in OpCodes, b \in {1, 244, 255}}

\* One instruction with an invalid data address, stack address, register id or
\* condition.
Invalids ==
  { <<<<Ins1("rmmovq"), RAX, Comma, DMem(-1, 0)>>>>, <<<<Ins1("pushq"), RAX>>>>,
    <<<<Ins1(".byte"), Num(32)>>, <<Ins1(".byte"), Num(255)>>>>,
    <<<<Ins1(".byte"), Num(39)>>, <<Ins1(".byte"), Num(1)>>>> }

\* The least long is divided by -1.
Traps == {<<<<Ins1(".pos"), Num(-32766)>>, <<Ins1(".align"), Num(-1)>>>>}

Files == Arithmetic \cup Stack \cup Mixed \cup Raw \cup Traps
=============================================================================
