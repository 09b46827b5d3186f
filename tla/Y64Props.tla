-------------------------------- MODULE Y64Props --------------------------------
(***************************************************************************)
(* The properties of the assembler and the simulator.                      *)
(***************************************************************************)
EXTENDS Y64Tools, FiniteSets

-----------------------------------------------------------------------------
(* What a source file means, read off the file alone.                      *)

Tokens(i) ==   \* of line i, up to the comment
  LET s == source[i]
      cut == {k \in DOMAIN s : s[k].kind = "comment"}
  IN  IF cut = {} THEN s ELSE SubSeq(s, 1, (CHOOSE k \in cut : \A x \in cut : k <= x) - 1)

InsAt(i) == {k \in DOMAIN Tokens(i) : Tokens(i)[k].kind = "ins"}
Plain(i) ==   \* at most one instruction, and no label behind it
  \A k \in InsAt(i) : \A x \in DOMAIN Tokens(i) :
    x > k => Tokens(i)[x].kind \notin {"ins", "label"}
HasIns(i) == InsAt(i) # {}
InsPos(i) == CHOOSE k \in InsAt(i) : TRUE
Mnemonic(i) == Tokens(i)[InsPos(i)].name
Arg(i, k) == Tokens(i)[InsPos(i) + k]

Cmovs == [rrmovq |-> "yes", cmovle |-> "le", cmovl |-> "l", cmove |-> "e",
          cmovne |-> "ne", cmovge |-> "ge", cmovg |-> "g"]
Jumps == [jmp |-> "yes", jle |-> "le", jl |-> "l", je |-> "e", jne |-> "ne",
          jge |-> "ge", jg |-> "g"]
Alus == [addq |-> "add", subq |-> "sub", andq |-> "and", xorq |-> "xor"]

Datum(i) == Mnemonic(i) \in DOMAIN DATA_BYTES
Coded(i) == Mnemonic(i) \notin {".pos", ".align"}

NameOf(i) ==
  CASE Mnemonic(i) \in DOMAIN Cmovs -> "cmov"
    [] Mnemonic(i) \in DOMAIN Jumps -> "jump"
    [] Mnemonic(i) \in DOMAIN Alus -> "alu"
    [] OTHER -> Mnemonic(i)
SelOf(i) ==
  CASE NameOf(i) = "cmov" -> Cmovs[Mnemonic(i)]
    [] NameOf(i) = "jump" -> Jumps[Mnemonic(i)]
    [] NameOf(i) = "alu" -> Alus[Mnemonic(i)]
    [] OTHER -> "none"

-----------------------------------------------------------------------------
(* The simulator's state as the abstract machine sees it.                  *)

ISA == INSTANCE Y64ISA WITH
  MemSize <- MemLen,
  ip <- pc, regs <- r, mem <- m, status <- stat,
  sgn <- IF cc.zf THEN 0 ELSE IF cc.sf # cc.of THEN -1 ELSE 1

BytesOf(i) ==
  IF ~HasIns(i) \/ ~Coded(i) THEN 0
  ELSE IF Datum(i) THEN DATA_BYTES[Mnemonic(i)] ELSE ISA!Size(NameOf(i))

\* The address of every line, and of the end.
Place ==
  LET p[i \in 1 .. (Len(source) + 1)] ==
        IF i = 1 THEN 0
        ELSE IF ~HasIns(i - 1) \/ Coded(i - 1) THEN p[i - 1] + BytesOf(i - 1)
        ELSE IF Mnemonic(i - 1) = ".pos" THEN Arg(i - 1, 1).num
        ELSE LET n == Arg(i - 1, 1).num IN p[i - 1] + ((-p[i - 1]) % n)
  IN  p

\* Alignments are positive, and the addresses stay in the range of a long.
Fits ==
  \A i \in DOMAIN source :
    /\ Place[i] >= 0
    /\ HasIns(i) /\ Mnemonic(i) = ".align" =>
         Arg(i, 1).num > 0 /\ Place[i] + Arg(i, 1).num <= LongHalf
    /\ Place[i + 1] < LongHalf

LabelledLines(n) ==
  {i \in DOMAIN source : \E k \in DOMAIN Tokens(i) :
     Tokens(i)[k].kind = "label" /\ Tokens(i)[k].name = n}
SymbolAt(n) == Place[CHOOSE i \in LabelledLines(n) : TRUE]

\* The number an operand stands for.
Operand(t) ==
  CASE t.kind = "sym" -> SymbolAt(t.name)
    [] t.kind = "mem" -> 0
    [] OTHER -> t.num

Meaning(i) ==
  LET n == NameOf(i) IN
  [name |-> n, sel |-> SelOf(i),
   ra |-> CASE n \in {"cmov", "alu", "rmmovq", "pushq", "popq"} -> Arg(i, 1).reg
            [] n = "mrmovq" -> Arg(i, 3).reg
            [] OTHER -> REG_NONE,
   rb |-> CASE n \in {"cmov", "alu", "irmovq", "rmmovq"} -> Arg(i, 3).reg
            [] n = "mrmovq" -> Arg(i, 1).reg
            [] OTHER -> REG_NONE,
   imm |-> CASE n \in {"irmovq", "mrmovq", "jump", "call"} -> Operand(Arg(i, 1))
             [] n = "rmmovq" -> Operand(Arg(i, 3))
             [] OTHER -> 0]

Span(i) == Place[i] .. (Place[i] + BytesOf(i) - 1)
Visible(i) == \A j \in DOMAIN source : j > i => Span(i) \cap Span(j) = {}

-----------------------------------------------------------------------------
(***************************************************************************)
(* The image the simulator is given holds the program: in a source of at   *)
(* most one instruction a line, with no label behind it, whose addresses   *)
(* fit a long, every line is found at its address (unless a later line was *)
(* put there too), decodes to the instruction that was written, and every  *)
(* name stands for the address of its label, before or after its use       *)
(* (parse_line, relocate and binfile; the .bin file does not change once   *)
(* the assembler is done).                                                 *)
(***************************************************************************)
AssembledRight ==
  phase = "done" /\ stat = "off" /\ (\A i \in DOMAIN source : Plain(i)) /\ Fits =>
    \A i \in DOMAIN source : BytesOf(i) > 0 /\ Visible(i) =>
      IF Datum(i)
      THEN \A k \in 0 .. (BytesOf(i) - 1) :
             file[Place[i] + k + 1] = ByteOf(Operand(Arg(i, 1)), k)
      ELSE ISA!Decode([a \in 0 .. (Len(file) - 1) |-> file[a + 1]], Place[i],
                      Len(file) - Place[i]) = Meaning(i)

(***************************************************************************)
(* No file is opened for a source that is not a program: when there is a   *)
(* .bin file, every name that is used labels exactly one place (add_symbol *)
(* and relocate, and main which ends before fopen).                        *)
(***************************************************************************)
IsLabel(l, x, n) ==
  /\ l \in DOMAIN source /\ x \in DOMAIN Tokens(l)
  /\ Tokens(l)[x].kind = "label" /\ Tokens(l)[x].name = n
IsUse(l, x, n) ==
  /\ l \in DOMAIN source /\ x \in DOMAIN Tokens(l)
  /\ Tokens(l)[x].kind = "sym" /\ Tokens(l)[x].name = n
LabelsOnce(n) ==
  \E l \in DOMAIN source : \E x \in DOMAIN Tokens(l) :
    /\ IsLabel(l, x, n)
    /\ \A j \in DOMAIN source : \A y \in DOMAIN Tokens(j) : IsLabel(j, y, n) => j = l /\ y = x
NoFileUnresolved ==
  file # NoFile =>
    \A l \in DOMAIN source : \A x \in DOMAIN Tokens(l) :
      IsUse(l, x, Tokens(l)[x].name) => LabelsOnce(Tokens(l)[x].name)

(***************************************************************************)
(* The listing of -v shows what is in the file: a line whose address has   *)
(* at most three digits, and that no later line covers, is printed with    *)
(* the bytes the file has at the address printed.                          *)
(***************************************************************************)
Covered(k) == \E j \in DOMAIN lines :
  /\ j > k /\ lines[j].type = "INS"
  /\ lines[j].addr < lines[k].addr + lines[k].bytes
  /\ lines[k].addr < lines[j].addr + lines[j].bytes
ListingMatchesFile ==
  phase = "done" =>
    \A k \in DOMAIN lines :
      lines[k].type = "INS" /\ lines[k].addr < LISTING /\ ~Covered(k) =>
        \A i \in DOMAIN Listing[k].codes :
          /\ Listing[k].addr + i + 1 \in DOMAIN file
          /\ file[Listing[k].addr + i + 1] = Listing[k].codes[i]

(***************************************************************************)
(* The report is complete: the changes that diff_reg and diff_mem print,   *)
(* applied to the state that was saved, give the state at the end.         *)
(***************************************************************************)
ReportTellsAll ==
  report # NoReport =>
    /\ \A i \in RegId : r[i] # 0 <=> \E c \in report.regs : c.at = i /\ c.new = r[i]
    /\ \A x \in Address :
         LET hit == {c \in report.mem : x \in c.at .. (c.at + LONG - 1)}
         IN  /\ Cardinality(hit) <= 1
             /\ m[x] = IF hit = {} THEN savem[x]
                       ELSE LET c == CHOOSE c \in hit : TRUE IN ByteOf(c.new, x - c.at)

(***************************************************************************)
(* An instruction that stops the machine leaves no trace: pc, memory, the  *)
(* condition codes and the registers are those before it, except %rsp,     *)
(* which call and pushq have moved before they find that they cannot       *)
(* write (nexti, lines 510 and 533).                                       *)
(***************************************************************************)
FailedStepIsHarmless ==
  [][stat = "AOK" /\ stat' # "AOK" =>
       /\ pc' = pc /\ m' = m /\ cc' = cc
       /\ \A i \in RegId : r'[i] # r[i] => i = REG_RSP /\ icode \in {I_CALL, I_PUSHQ}]_vars

(***************************************************************************)
(* After subq the six conditions tell how its two operands compare, also   *)
(* when the difference overflows: for any two ints but one pair, and for   *)
(* longs just when the order compute_cc sees, LowLess, is theirs.  That is *)
(* the order of the low halves, except that the least int is taken to be   *)
(* above 0, an overflow the code misses.  So for longs beyond an int the   *)
(* conditions may be wrong, and the property says when (compute_cc and     *)
(* cond_doit, which nexti calls in two steps).                             *)
(***************************************************************************)
Compares(c, B, A) ==
  /\ cond_doit(c, C_LE) <=> B <= A
  /\ cond_doit(c, C_L) <=> B < A
  /\ cond_doit(c, C_E) <=> B = A
  /\ cond_doit(c, C_NE) <=> B # A
  /\ cond_doit(c, C_GE) <=> B >= A
  /\ cond_doit(c, C_G) <=> B > A
LowLess(B, A) ==
  ToInt(B) < ToInt(A) \/ (ToInt(B) = 0 /\ ToInt(A) = -IntHalf)
ConditionsTellOrder ==
  [][Alu /\ ifun = A_SUB =>
       LET A == Reg(raid)
           B == Reg(rbid)
       IN  /\ {A, B} \subseteq Int32 /\ ~(A = -IntHalf /\ B = 0) => Compares(cc', B, A)
           /\ Compares(cc', B, A) <=> (LowLess(B, A) <=> B < A)]_vars

(***************************************************************************)
(* nexti implements the instruction set: every step of the simulator is a  *)
(* step of the abstract machine of Y64ISA or changes nothing it can see.   *)
(***************************************************************************)
ImplementsISA == ISA!ISASpec

(***************************************************************************)
(* What the comment of nexti says of its status (y64sim.c:374-377): ADR    *)
(* for an invalid instruction address and no other, and INS for an invalid *)
(* instruction, register id, data address or stack address.  nexti returns *)
(* ADR for every address, and executes an instruction that names register  *)
(* 15 (get_reg_val and set_reg_val) and a move on a condition there is not *)
(* (cond_doit): the run y64_status finds the comment violated.             *)
(***************************************************************************)
RegFields ==   \* the register ids that the format of the instruction has
  CASE icode \in {I_RRMOVQ, I_RMMOVQ, I_MRMOVQ, I_ALU} -> {raid, rbid}
    [] icode = I_IRMOVQ -> {rbid}
    [] icode \in {I_PUSHQ, I_POPQ} -> {raid}
    [] OTHER -> {}
Uses ==   \* the addresses of the data or the stack that it uses
  CASE icode \in {I_RMMOVQ, I_MRMOVQ} -> {MemAt}
    [] icode \in {I_CALL, I_PUSHQ} -> {Below}
    [] icode \in {I_RET, I_POPQ} -> {Reg(REG_RSP)}
    [] OTHER -> {}
Invalid ==
  \/ icode > I_POPQ
  \/ icode \in {I_RRMOVQ, I_JMP} /\ ifun > C_G
  \/ icode = I_ALU /\ ifun >= A_NONE
  \/ REG_NONE \in RegFields
  \/ \E a \in Uses : ~InMem(a)
StatusAsDocumented ==
  [][nexti => /\ stat' = "ADR" => ~Fetched
              /\ Fetched /\ Invalid => stat' = "INS"]_vars

(***************************************************************************)
(* Every source is assembled or refused, and every image runs to an end,   *)
(* a program that loops too (max_steps).                                   *)
(***************************************************************************)
Over ==
  \/ phase = "crash"
  \/ phase = "failed" /\ file = NoFile
  \/ SimOver
Termination == <>Over
=============================================================================
