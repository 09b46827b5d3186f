--------------------------------- MODULE Y64Asm ---------------------------------
(***************************************************************************)
(* The assembler lab5/y64asm.c.  assemble parses the source line by line   *)
(* into binary code, a symbol table and a relocation table; relocate puts  *)
(* the addresses of symbols where they are used; binfile writes the code   *)
(* of every line at its address.  A line of the source is a sequence of    *)
(* tokens.                                                                 *)
(***************************************************************************)
EXTENDS Y64

CONSTANTS
  Source,        \* the source files: sequences of sequences of tokens
  DATA_BYTES,    \* [".byte" ... ".quad" -> the size of the datum]
  LISTING        \* 16 ^ 3, what the address of a listing can tell apart

(***************************************************************************)
(* A token has the fields that its kind uses: "label" is n: for a name n,  *)
(* "ins" an instruction or a directive, "reg" a register, "imm" is $num,   *)
(* "num" a bare number, "sym" a name, "mem" is (reg) and "dmem" num(reg).  *)
(***************************************************************************)
Token == [kind : {"label", "ins", "reg", "imm", "num", "sym", "mem", "dmem",
                  "comma", "comment", "junk"},
          name : STRING, num : Long, reg : RegId]

VARIABLES
  source,       \* the file being read
  phase,        \* where main is
  lines,        \* the list of line_t
  ptr, value,   \* locals of parse_line: the tokens left, and the number read
  vmaddr, symtab, reltab,
  at,           \* the entry of reltab, or the line, that is next
  file          \* the .bin file, once it is open

tables == <<symtab, reltab>>
parser == <<ptr, value, vmaddr>>
asmvars == <<source, phase, lines, parser, tables, at, file>>

NoFile == <<-1>>
CodeIndex == 0 .. (LONG + 1)   \* byte_t codes[10]
Line == [type : {"COMM", "INS", "ERR"}, addr : Long,
         codes : [CodeIndex -> Byte], bytes : 0 .. (LONG + 2)]
Blank == [type |-> "COMM", addr |-> 0, codes |-> [i \in CodeIndex |-> 0], bytes |-> 0]

Phase == {"start", "assemble", "parse", "relocate", "binfile", "done",
          "failed", "crash"}

AsmTypeOK ==
  /\ phase \in Phase
  /\ lines \in Seq(Line)
  /\ ptr \in Seq(Token) /\ value \in Long /\ vmaddr \in Long
  /\ \A n \in DOMAIN symtab : symtab[n] \in Long
  /\ reltab \in Seq([name : STRING, line : DOMAIN lines])
  /\ at \in Nat \ {0}
  /\ file = NoFile \/ file \in Seq(Byte)

AsmInit ==
  /\ source \in Source
  /\ phase = "start" /\ lines = <<>> /\ ptr = <<>> /\ value = 0 /\ vmaddr = 0
  /\ symtab = [n \in {} |-> 0] /\ reltab = <<>> /\ at = 1
  /\ file = NoFile

-----------------------------------------------------------------------------
(* The instruction set: name, code and size; and the operands.             *)

Ins(n, hi, lo, b) == [name |-> n, code |-> HPACK(hi, lo), bytes |-> b]

instr_set ==
  { Ins("nop", I_NOP, 0, 1), Ins("halt", I_HALT, 0, 1),
    Ins("rrmovq", I_RRMOVQ, 0, 2), Ins("cmovle", I_RRMOVQ, C_LE, 2),
    Ins("cmovl", I_RRMOVQ, C_L, 2), Ins("cmove", I_RRMOVQ, C_E, 2),
    Ins("cmovne", I_RRMOVQ, C_NE, 2), Ins("cmovge", I_RRMOVQ, C_GE, 2),
    Ins("cmovg", I_RRMOVQ, C_G, 2), Ins("irmovq", I_IRMOVQ, 0, LONG + 2),
    Ins("rmmovq", I_RMMOVQ, 0, LONG + 2), Ins("mrmovq", I_MRMOVQ, 0, LONG + 2),
    Ins("addq", I_ALU, A_ADD, 2), Ins("subq", I_ALU, A_SUB, 2),
    Ins("andq", I_ALU, A_AND, 2), Ins("xorq", I_ALU, A_XOR, 2),
    Ins("jmp", I_JMP, C_YES, LONG + 1), Ins("jle", I_JMP, C_LE, LONG + 1),
    Ins("jl", I_JMP, C_L, LONG + 1), Ins("je", I_JMP, C_E, LONG + 1),
    Ins("jne", I_JMP, C_NE, LONG + 1), Ins("jge", I_JMP, C_GE, LONG + 1),
    Ins("jg", I_JMP, C_G, LONG + 1), Ins("call", I_CALL, 0, LONG + 1),
    Ins("ret", I_RET, 0, 1), Ins("pushq", I_PUSHQ, 0, 2), Ins("popq", I_POPQ, 0, 2),
    Ins(".pos", I_DIRECTIVE, 1, 0), Ins(".align", I_DIRECTIVE, 2, 0) }
  \cup { Ins(d, I_DIRECTIVE, 0, DATA_BYTES[d]) : d \in DOMAIN DATA_BYTES }

ASSUME SourceAssumption ==
  /\ LISTING \in Nat
  /\ DOMAIN DATA_BYTES \subseteq {".byte", ".word", ".long", ".quad"}
  /\ DATA_BYTES \in [DOMAIN DATA_BYTES -> 1 .. LONG]
  /\ \A s \in Source : s \in Seq(Seq(Token))
  /\ \A s \in Source : \A l \in DOMAIN s : \A k \in DOMAIN s[l] :
       s[l][k].kind = "ins" => \E i \in instr_set : i.name = s[l][k].name

find_instr(n) == CHOOSE i \in instr_set : i.name = n

IsDirective(i) == HIGH(i.code) = I_DIRECTIVE
IsData(i) == i.code = HPACK(I_DIRECTIVE, 0)

\* The tokens a parser of operands takes.
parse_delim == {"comma"}
parse_reg == {"reg"}
parse_digit == {"num"}
parse_imm == {"imm", "sym"}
parse_mem == {"mem", "dmem"}
parse_data == {"num", "sym"}

\* The parsers that parse_line calls after the name.
Operands(i) ==
  LET c == HIGH(i.code) IN
  CASE c \in {I_NOP, I_HALT, I_RET} -> <<>>
    [] c = I_IRMOVQ -> <<parse_imm, parse_delim, parse_reg>>
    [] c = I_RMMOVQ -> <<parse_reg, parse_delim, parse_mem>>
    [] c = I_MRMOVQ -> <<parse_mem, parse_delim, parse_reg>>
    [] c \in {I_RRMOVQ, I_ALU} -> <<parse_reg, parse_delim, parse_reg>>
    [] c \in {I_JMP, I_CALL} -> <<parse_imm>>
    [] c \in {I_PUSHQ, I_POPQ} -> <<parse_reg>>
    [] IsData(i) -> <<parse_data>>
    [] OTHER -> <<parse_digit>>

Parses(i, args) ==
  /\ Len(Operands(i)) <= Len(args)
  /\ \A k \in DOMAIN Operands(i) : args[k].kind \in Operands(i)[k]

\* An operand without a number leaves value as the line had it.
Number(args, old) ==
  LET numbers == {k \in DOMAIN args : args[k].kind \in {"imm", "num", "dmem"}}
  IN  IF numbers = {} THEN old ELSE args[CHOOSE k \in numbers : TRUE].num

parse_symbol(args) == {k \in DOMAIN args : args[k].kind = "sym"}

-----------------------------------------------------------------------------
(* The code of one instruction.                                            *)

\* addressMemory copies the low bytes of a long into codes, from index i on.
addressMemory(codes, i, v, bytes) ==
  [k \in CodeIndex |-> IF k \in i .. (i + bytes - 1) THEN ByteOf(v, k - i) ELSE codes[k]]

RegsByte(i, args) ==
  LET c == HIGH(i.code) IN
  CASE c = I_IRMOVQ -> HPACK(15, args[3].reg)
    [] c = I_MRMOVQ -> HPACK(args[3].reg, args[1].reg)
    [] c \in {I_PUSHQ, I_POPQ} -> HPACK(args[1].reg, 15)
    [] OTHER -> HPACK(args[1].reg, args[3].reg)

HasRegsByte(i) == HIGH(i.code) \in {I_RRMOVQ, I_IRMOVQ, I_RMMOVQ, I_MRMOVQ, I_ALU,
                                     I_PUSHQ, I_POPQ}

\* What is not written keeps what the line had: zeros, or an earlier
\* instruction of the same line.
Codes(old, i, args, v) ==
  LET c == HIGH(i.code)
      head == [old EXCEPT ![0] = i.code,
                          ![1] = IF HasRegsByte(i) THEN RegsByte(i, args) ELSE @]
  IN  CASE c \in {I_IRMOVQ, I_RMMOVQ, I_MRMOVQ} -> addressMemory(head, 2, v, LONG)
        [] c \in {I_JMP, I_CALL} -> addressMemory(head, 1, v, LONG)
        [] IsData(i) -> addressMemory(head, 0, v, i.bytes)
        [] OTHER -> head

\* C divides towards zero.
Quotient(a, b) ==
  LET q == (IF a < 0 THEN -a ELSE a) \div (IF b < 0 THEN -b ELSE b)
  IN  IF (a < 0) = (b < 0) THEN q ELSE -q

Aligned(v, n) == ToLong(Quotient(ToLong(v + n - 1), n) * n)
\* What ends the process instead: 0, and the least long divided by -1.
DivisionTraps(v, n) == n = 0 \/ (n = -1 /\ ToLong(v + n - 1) = -LongHalf)

-----------------------------------------------------------------------------
(* assemble and parse_line: one step for a line, a label, an instruction.  *)

Current == lines[Len(lines)]
Edit(line) == lines' = [lines EXCEPT ![Len(lines)] = line]

Start ==
  /\ phase = "start" /\ phase' \in {"assemble", "failed"}   \* fopen
  /\ UNCHANGED <<source, lines, parser, tables, at, file>>

NextLine ==
  /\ phase = "assemble" /\ Len(lines) < Len(source)
  /\ lines' = Append(lines, Blank)
  /\ ptr' = source[Len(lines) + 1] /\ value' = 0
  /\ phase' = "parse"
  /\ UNCHANGED <<source, vmaddr, tables, at, file>>

EndOfLine ==
  /\ phase = "parse" /\ (ptr # <<>> => Head(ptr).kind = "comment")
  /\ phase' = "assemble"
  /\ UNCHANGED <<source, lines, parser, tables, at, file>>

Parsing(kind) == phase = "parse" /\ ptr # <<>> /\ Head(ptr).kind = kind
parse_label == Parsing("label")
parse_instr == Parsing("ins")

find_symbol(n) == n \in DOMAIN symtab

add_symbol_NoCheck(n) ==
  symtab' = [x \in DOMAIN symtab \cup {n} |-> IF x = n THEN vmaddr ELSE symtab[x]]
add_symbol(n) ==
  /\ ~find_symbol(n)
  /\ symtab' = [x \in DOMAIN symtab \cup {n} |-> IF x = n THEN vmaddr ELSE symtab[x]]

\* A new entry goes in front.
add_reloc(args) ==
  IF parse_symbol(args) = {} THEN reltab' = reltab
  ELSE LET k == CHOOSE k \in parse_symbol(args) : TRUE
       IN  reltab' = <<[name |-> args[k].name, line |-> Len(lines)]>> \o reltab

Label ==
  /\ parse_label /\ add_symbol(Head(ptr).name)
  /\ Edit([Current EXCEPT !.type = "INS", !.addr = vmaddr])
  /\ ptr' = Tail(ptr)
  /\ UNCHANGED <<source, phase, value, vmaddr, reltab, at, file>>

\* An instruction that parses; the directives .pos and .align below have no code.
Instruction ==
  /\ parse_instr
  /\ LET i == find_instr(Head(ptr).name)
         args == SubSeq(Tail(ptr), 1, Len(Operands(i)))
     IN  /\ Parses(i, Tail(ptr)) /\ (IsDirective(i) => IsData(i))
         /\ value' = Number(args, value)
         /\ Edit([type |-> "INS", addr |-> vmaddr, bytes |-> i.bytes,
                  codes |-> Codes(Current.codes, i, args, value')])
         /\ add_reloc(args)
         /\ vmaddr' = ToLong(vmaddr + i.bytes)
         /\ ptr' = SubSeq(ptr, Len(args) + 2, Len(ptr))
  /\ UNCHANGED <<source, phase, symtab, at, file>>

\* .pos n and .align n; an .align of 0 divides by zero.
Directive ==
  /\ parse_instr
  /\ LET i == find_instr(Head(ptr).name)
         n == ptr[2].num
     IN  /\ IsDirective(i) /\ ~IsData(i) /\ Parses(i, Tail(ptr))
         /\ i.name = ".align" => ~DivisionTraps(vmaddr, n)
         /\ vmaddr' = IF i.name = ".pos" THEN n ELSE Aligned(vmaddr, n)
         /\ value' = n
         /\ Edit([Current EXCEPT !.type = "INS", !.addr = vmaddr', !.bytes = 0,
                                 !.codes = [@ EXCEPT ![0] = i.code]])
         /\ ptr' = SubSeq(ptr, 3, Len(ptr))
  /\ UNCHANGED <<source, phase, tables, at, file>>

AlignTraps ==
  /\ parse_instr /\ Head(ptr).name = ".align"
  /\ Parses(find_instr(".align"), Tail(ptr)) /\ DivisionTraps(vmaddr, ptr[2].num)
  /\ phase' = "crash"
  /\ UNCHANGED <<source, lines, parser, tables, at, file>>

\* A duplicate label, or tokens that are no label and no instruction: assemble
\* returns -1 and main ends before it opens the output.
LineError ==
  /\ phase = "parse" /\ ptr # <<>> /\ Head(ptr).kind # "comment"
  /\ CASE Head(ptr).kind = "label" -> find_symbol(Head(ptr).name)
       [] Head(ptr).kind = "ins" -> ~Parses(find_instr(Head(ptr).name), Tail(ptr))
       [] OTHER -> TRUE
  /\ Edit([Current EXCEPT !.type = "ERR"])   \* what else it had set is lost
  /\ phase' = "failed"
  /\ UNCHANGED <<source, parser, tables, at, file>>

EndOfSource ==
  /\ phase = "assemble" /\ Len(lines) = Len(source)
  /\ phase' = "relocate" /\ at' = 1
  /\ UNCHANGED <<source, lines, parser, tables, file>>

-----------------------------------------------------------------------------
(* relocate: the last entry added comes first.                             *)

\* The address goes where the code of the line says, on all bytes of a long.
RelocIndex_NoCall(codes) ==
  CASE HIGH(codes[0]) = I_IRMOVQ -> 2
    [] HIGH(codes[0]) = I_JMP -> 1
    [] OTHER -> 0
RelocIndex(codes) ==
  CASE HIGH(codes[0]) = I_IRMOVQ -> 2
    [] HIGH(codes[0]) \in {I_CALL, I_JMP} -> 1
    [] OTHER -> 0

Relocate_Stuck ==
  /\ phase = "relocate" /\ at <= Len(reltab) /\ find_symbol(reltab[at].name)
  /\ LET l == reltab[at].line
     IN  lines' = [lines EXCEPT ![l].codes =
                     addressMemory(@, RelocIndex(@), symtab[reltab[at].name], LONG)]
  /\ UNCHANGED <<source, phase, parser, tables, at, file>>
Relocate ==
  /\ phase = "relocate" /\ at <= Len(reltab) /\ find_symbol(reltab[at].name)
  /\ LET l == reltab[at].line
     IN  lines' = [lines EXCEPT ![l].codes =
                     addressMemory(@, RelocIndex(@), symtab[reltab[at].name], LONG)]
  /\ at' = at + 1
  /\ UNCHANGED <<source, phase, parser, tables, file>>

UnknownSymbol ==
  /\ phase = "relocate" /\ at <= Len(reltab) /\ ~find_symbol(reltab[at].name)
  /\ phase' = "failed"
  /\ UNCHANGED <<source, lines, parser, tables, at, file>>

\* fopen of the .bin file, which empties it.
OpenOut ==
  /\ phase = "relocate" /\ at > Len(reltab)
  /\ \/ phase' = "binfile" /\ file' = <<>>
     \/ phase' = "failed" /\ file' = file
  /\ at' = 1
  /\ UNCHANGED <<source, lines, parser, tables>>

-----------------------------------------------------------------------------
(* binfile, and the listing of print_screen.                               *)

\* fseek and fwrite: a gap reads as zeros, later bytes replace earlier ones.
Written_NoSeek(f, line) == f \o [k \in 1 .. line.bytes |-> line.codes[k - 1]]
Written(f, line) ==
  LET end == line.addr + line.bytes
  IN  IF line.bytes = 0 THEN f
      ELSE [k \in 1 .. (IF end > Len(f) THEN end ELSE Len(f)) |->
              IF k \in (line.addr + 1) .. end THEN line.codes[k - 1 - line.addr]
              ELSE IF k <= Len(f) THEN f[k] ELSE 0]

WriteLine ==
  /\ phase = "binfile" /\ at <= Len(lines)
  /\ (lines[at].type = "INS" => lines[at].addr >= 0)
  /\ file' = IF lines[at].type = "INS" THEN Written(file, lines[at]) ELSE file
  /\ at' = at + 1
  /\ UNCHANGED <<source, phase, lines, parser, tables>>

\* fseek to a negative address fails, with the lines before it written.
SeekError ==
  /\ phase = "binfile" /\ at <= Len(lines)
  /\ lines[at].type = "INS" /\ lines[at].addr < 0
  /\ phase' = "failed"
  /\ UNCHANGED <<source, lines, parser, tables, at, file>>

Finish ==
  /\ phase = "binfile" /\ at > Len(lines) /\ phase' = "done"
  /\ UNCHANGED <<source, lines, parser, tables, at, file>>

\* print_line: three hexadecimal digits of the address, then the bytes.
Listing ==
  [k \in DOMAIN lines |->
     IF lines[k].type = "INS"
     THEN [addr |-> lines[k].addr % LISTING,
           codes |-> [i \in 0 .. (lines[k].bytes - 1) |-> lines[k].codes[i]]]
     ELSE [addr |-> -1, codes |-> <<>>]]

AsmNext ==
  \/ Start \/ NextLine \/ EndOfLine \/ Label \/ Instruction \/ Directive
  \/ AlignTraps \/ LineError \/ EndOfSource \/ Relocate \/ UnknownSymbol
  \/ OpenOut \/ WriteLine \/ SeekError \/ Finish
=============================================================================
