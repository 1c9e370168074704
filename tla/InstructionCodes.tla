---------------------------- MODULE InstructionCodes ----------------------------
(***************************************************************************)
(* Which instruction a word is, three times: in the simulator that Nachos  *)
(* runs user programs on (machine/mipssim.h), in the stand-alone simulator *)
(* of the tools (bin/encode.h, bin/execute.c), and in the disassembler,    *)
(* which both the tools and the stand-alone simulator's trace print with   *)
(* (bin/opstrings.c, bin/d.c).                                             *)
(*                                                                         *)
(* A word is the fields that tell the instruction: op (bits 31:26), funct  *)
(* (5:0) and rt (20:16). The tables have eight names a row. The names are  *)
(* written in capitals; "-" stands for a number that names nothing.        *)
(***************************************************************************)
EXTENDS Integers, Sequences

Entry(table, n) == table[(n \div 8) + 1][(n % 8) + 1]

AllOf(name) == [n \in 1..8 |-> name]
HalfOf(first, last) == [n \in 1..8 |-> IF n <= 4 THEN first ELSE last]

-------------------------------------------------------------------------------
(* mipssim.h and Instruction::Decode *)

opTable ==
  << <<"SPECIAL", "BCOND", "J", "JAL", "BEQ", "BNE", "BLEZ", "BGTZ">>,
     <<"ADDI", "ADDIU", "SLTI", "SLTIU", "ANDI", "ORI", "XORI", "LUI">>,
     HalfOf("UNIMP", "RES"), AllOf("RES"),
     <<"LB", "LH", "LWL", "LW", "LBU", "LHU", "LWR", "RES">>,
     <<"SB", "SH", "SWL", "SW", "RES", "RES", "SWR", "RES">>,
     HalfOf("UNIMP", "RES"), HalfOf("UNIMP", "RES") >>

\* The kind of operand that the format of an instruction leaves in extra.
Extra(op) == CASE op = 0 -> "shamt" [] op \in {2, 3} -> "target" [] OTHER -> "immediate"

specialTable ==
  << <<"SLL", "RES", "SRL", "SRA", "SLLV", "RES", "SRLV", "SRAV">>,
     <<"JR", "JALR", "RES", "RES", "SYSCALL", "UNIMP", "RES", "RES">>,
     <<"MFHI", "MTHI", "MFLO", "MTLO", "RES", "RES", "RES", "RES">>,
     <<"MULT", "MULTU", "DIV", "DIVU", "RES", "RES", "RES", "RES">>,
     <<"ADD", "ADDU", "SUB", "SUBU", "AND", "OR", "XOR", "NOR">>,
     <<"RES", "RES", "SLT", "SLTU", "RES", "RES", "RES", "RES">>,
     AllOf("RES"), AllOf("RES") >>

DecodedName(word) ==
  CASE word.op = 0 -> Entry(specialTable, word.funct)
    [] word.op = 1 -> (CASE word.rt = 0 -> "BLTZ" [] word.rt = 1 -> "BGEZ"
                         [] word.rt = 16 -> "BLTZAL" [] word.rt = 17 -> "BGEZAL"
                         [] OTHER -> "UNIMP")
    [] OTHER -> Entry(opTable, word.op)

\* The fields that the trace of the simulator prints of an instruction.
opStrings(name) ==
  CASE name \in {"ADD", "ADDU", "AND", "NOR", "OR", "SLT", "SLTU", "SUB", "SUBU", "XOR"} ->
         {"rd", "rs", "rt"}
    [] name \in {"ADDI", "ADDIU", "ANDI", "BEQ", "BNE", "LB", "LBU", "LH", "LHU", "LW", "LWL", "LWR",
                 "ORI", "SB", "SH", "SLTI", "SLTIU", "SW", "SWL", "SWR", "XORI"} ->
         {"rt", "rs", "extra"}
    [] name \in {"BGEZ", "BGEZAL", "BGTZ", "BLEZ", "BLTZ", "BLTZAL"} -> {"rs", "extra"}
    [] name \in {"DIV", "DIVU", "MULT", "MULTU"} -> {"rs", "rt"}
    [] name \in {"J", "JAL"} -> {"extra"}
    [] name \in {"JALR", "JR"} -> {"rd", "rs"}
    [] name = "LUI" -> {"rt", "extra"}
    [] name \in {"MFHI", "MFLO"} -> {"rd"}
    [] name \in {"MTHI", "MTLO"} -> {"rs"}
    [] name \in {"SLL", "SRA", "SRL"} -> {"rd", "rt", "extra"}
    [] name \in {"SLLV", "SRAV", "SRLV"} -> {"rd", "rt", "rs"}
    [] name \in {"SYSCALL", "UNIMP", "RES"} -> {}

\* The fields that the case of an instruction uses: those printed, but JR.
Used(name) == IF name = "JR" THEN {"rs"} ELSE opStrings(name)

-------------------------------------------------------------------------------
(* encode.h and execute.c *)

NormalCodes ==
  << <<"SPECIAL", "BCOND", "J", "JAL", "BEQ", "BNE", "BLEZ", "BGTZ">>,
     <<"ADDI", "ADDIU", "SLTI", "SLTIU", "ANDI", "ORI", "XORI", "LUI">>,
     <<"COP0", "COP1", "COP2", "COP3", "-", "-", "-", "-">>, AllOf("-"),
     <<"LB", "LH", "LWL", "LW", "LBU", "LHU", "LWR", "-">>,
     <<"SB", "SH", "SWL", "SW", "-", "-", "SWR", "-">>,
     <<"LWC0", "LWC1", "LWC2", "LWC3", "-", "-", "-", "-">>,
     <<"SWC0", "SWC1", "SWC2", "SWC3", "-", "-", "-", "-">> >>

SpecialCodes ==
  << <<"SLL", "-", "SRL", "SRA", "SLLV", "-", "SRLV", "SRAV">>,
     <<"JR", "JALR", "-", "-", "SYSCALL", "BREAK", "-", "-">>,
     <<"MFHI", "MTHI", "MFLO", "MTLO", "-", "-", "-", "-">>,
     <<"MULT", "MULTU", "DIV", "DIVU", "-", "-", "-", "-">>,
     <<"ADD", "ADDU", "SUB", "SUBU", "AND", "OR", "XOR", "NOR">>,
     <<"-", "-", "SLT", "SLTU", "-", "-", "-", "-">>, AllOf("-"), AllOf("-") >>

BranchCodes == [BLTZ |-> 0, BGEZ |-> 1, BLTZAL |-> 16, BGEZAL |-> 17]

Branch(rt) == IF \E name \in DOMAIN BranchCodes : BranchCodes[name] = rt
              THEN CHOOSE name \in DOMAIN BranchCodes : BranchCodes[name] = rt ELSE "-"

Coprocessor ==
  {"COP0", "COP1", "COP2", "COP3", "LWC0", "LWC1", "LWC2", "LWC3", "SWC0", "SWC1", "SWC2", "SWC3"}

\* The case of runprogram that a word reaches; "stop" for the cases that end the
\* simulator. A BREAK is handled as a system call.
CaseOf(word) ==
  LET name == CASE word.op = 0 -> Entry(SpecialCodes, word.funct)
                [] word.op = 1 -> Branch(word.rt)
                [] OTHER -> Entry(NormalCodes, word.op)
  IN  CASE name \in {"-", "SWL", "SWR"} \cup Coprocessor -> "stop"
        [] name = "BREAK" -> "SYSCALL"
        [] OTHER -> name

-------------------------------------------------------------------------------
(* opstrings.c and d.c *)

normalops ==
  << <<"SPECIAL", "BCOND", "J", "JAL", "BEQ", "BNE", "BLEZ", "BGTZ">>,
     <<"ADDI", "ADDIU", "SLTI", "SLTIU", "ANDI", "ORI", "XORI", "LUI">>,
     <<"COP0", "COP1", "COP2", "COP3", "-", "-", "-", "-">>, AllOf("-"),
     <<"LB", "LH", "LWL", "LW", "LBU", "LHU", "LWR", "-">>,
     <<"SB", "SH", "SWL", "SW", "-", "-", "SWR", "-">>,
     <<"LWC0", "LWC1", "LWC2", "LWC3", "-", "-", "-", "-">>,
     <<"SWC0", "SWC1", "SWC2", "SWC3", "-", "-", "-", "-">> >>

specialops ==
  << <<"SLL", "-", "SRL", "SRA", "SLLV", "-", "SRLV", "SRAV">>,
     <<"JR", "JALR", "-", "-", "SYSCALL", "BREAK", "-", "-">>,
     <<"MFHI", "MTHI", "MFLO", "MTLO", "-", "-", "-", "-">>,
     <<"MULT", "MULTU", "DIV", "DIVU", "-", "-", "-", "-">>,
     <<"ADD", "ADDU", "SUB", "SUBU", "AND", "OR", "XOR", "NOR">>,
     <<"-", "-", "SLT", "SLTU", "-", "-", "-", "-">>, AllOf("-"), AllOf("-") >>

\* The name that dump_ascii prints of a word.
Mnemonic(word) ==
  CASE word.op = 0 -> Entry(specialops, word.funct)
    [] word.op = 1 -> (CASE word.rt = 0 -> "BLTZ" [] word.rt = 1 -> "BGEZ"
                         [] word.rt = 16 -> "BLTZAL" [] word.rt = 17 -> "BGEZAL"
                         [] OTHER -> "BCOND")
    [] OTHER -> Entry(normalops, word.op)

\* The fields it prints: of the special instructions, of the branches that rt
\* tells, and of the others.
SpecialFields(name) ==
  CASE name \in {"SLL", "SRL", "SRA"} -> {"rd", "rt", "shamt"}
    [] name \in {"SLLV", "SRLV", "SRAV"} -> {"rd", "rt", "rs"}
    [] name \in {"JR", "JALR", "MFLO", "MTLO"} -> {"rs"}
    [] name \in {"MFHI", "MTHI"} -> {"rd"}
    [] name \in {"MULT", "MULTU", "DIV", "DIVU"} -> {"rs", "rt"}
    [] name \in {"ADD", "ADDU", "SUB", "SUBU", "AND", "OR", "XOR", "NOR", "SLT", "SLTU"} ->
         {"rd", "rs", "rt"}
    [] OTHER -> {}

NormalFields(name) ==
  CASE name \in {"J", "JAL"} -> {"target"}
    [] name = "LUI" -> {"rt", "immediate"}
    [] name \in {"BEQ", "BNE", "ADDI", "ADDIU", "SLTI", "SLTIU", "ANDI", "ORI", "XORI",
                 "LB", "LH", "LWL", "LW", "LBU", "LHU", "LWR", "SB", "SH", "SWL", "SW", "SWR",
                 "LWC0", "LWC1", "LWC2", "LWC3", "SWC0", "SWC1", "SWC2", "SWC3"} ->
         {"rt", "rs", "immediate"}
    [] OTHER -> {}

FieldsPrinted(word) ==
  CASE word.op = 0 -> SpecialFields(Mnemonic(word))
    [] word.op = 1 -> {"rs", "immediate"}
    [] OTHER -> NormalFields(Mnemonic(word))

-------------------------------------------------------------------------------
(* What is right *)

Words == [op : {0}, funct : 0..63, rt : {0}] \cup [op : {1}, funct : {0}, rt : 0..31]
           \cup [op : 2..63, funct : {0}, rt : {0}]

\* The simulators and the disassembler read a word as the same instruction, and
\* the disassembler prints the operands it uses. Known to differ: SWL and SWR,
\* which only one simulator has, and BREAK; the operands of BLEZ and BGTZ, which
\* are not printed, of MFLO and MTHI, which are printed as another register, and
\* of JALR, which lacks one.
CodesAgree(word) ==
  LET name == DecodedName(word)
      used == {IF f = "extra" THEN Extra(word.op) ELSE f : f \in Used(name)}
  IN  IF name \in {"UNIMP", "RES"}
      THEN CaseOf(word) = IF Mnemonic(word) = "BREAK" THEN "SYSCALL" ELSE "stop"
      ELSE /\ Mnemonic(word) = name
           /\ CaseOf(word) = IF name \in {"SWL", "SWR"} THEN "stop" ELSE name
           /\ FieldsPrinted(word) = used <=> name \notin {"BLEZ", "BGTZ", "MFLO", "MTHI", "JALR"}
===============================================================================
