------------------------------- MODULE Processor -------------------------------
(***************************************************************************)
(* One instruction of the MIPS that machine/mipssim.cc simulates, on a set *)
(* of registers and an address space. What an instruction computes is the  *)
(* parameter Alu (module Instructions has it in full), and what word       *)
(* encodes which instruction is the parameter Decode. Memory is made of    *)
(* words, so that an address is the number of a word and 4 is 1 here.      *)
(***************************************************************************)
EXTENDS Integers, FiniteSets

CONSTANTS
  Decode(_),      \* the instruction a word encodes
  Alu(_, _),      \* what the instructions compute from two registers
  Regs,           \* the general registers, 0 among them
  StackReg,       \* the register of the stack pointer
  ResultReg,      \* the register a system call answers in
  StackGap,       \* the words left free above the stack
  PageSize

ASSUME ProcessorAssumption ==
  /\ {0, StackReg, ResultReg} \subseteq Regs
  /\ PageSize \in Nat \ {0}

Page(v) == v \div PageSize
Offset(v) == v % PageSize
Offsets == 0..(PageSize - 1)

\* The registers of a machine that has just been built.
NoRegs == [gp |-> [r \in Regs |-> 0], pc |-> 0, npc |-> 0, load |-> 0, loadv |-> 0]

\* AddrSpace::InitRegisters, for an address space of these pages.
InitRegisters(pages) ==
  [NoRegs EXCEPT !.npc = 1, !.gp[StackReg] = Cardinality(pages) * PageSize - StackGap]

\* Machine::DelayedLoad: the load of the last instruction takes place, after
\* this instruction has written its own register, and the next one is noted.
DelayedLoad(r, nextReg, nextValue) ==
  [r EXCEPT !.gp = [[@ EXCEPT ![r.load] = r.loadv] EXCEPT ![0] = 0],
            !.load = nextReg, !.loadv = nextValue]

\* Machine::Translate of the word at v, by a table of the pages of memory.
Translates(memory, v) == v >= 0 /\ Page(v) \in DOMAIN memory
Word(memory, v) == memory[Page(v)][Offset(v)]

\* The end of OneInstruction.
Advance(r, nextReg, nextValue, pcAfter) ==
  [DelayedLoad(r, nextReg, nextValue) EXCEPT !.pc = r.npc, !.npc = pcAfter]

\* What an instruction comes to: the mode it leaves the machine in, the
\* registers, and the words it stores, each with its page and offset.
Goes(r) == [mode |-> "user", regs |-> r, stores |-> {}]
Stores(r, v, w) ==
  [Goes(r) EXCEPT !.stores = {[page |-> Page(v), offset |-> Offset(v), word |-> w]}]
Traps(r) == [Goes(r) EXCEPT !.mode = "kernel", !.regs = DelayedLoad(r, 0, 0)]
Faults(r) == [Traps(r) EXCEPT !.mode = "halt"]

\* The cases of OneInstruction. JALR writes its link before it reads where it
\* goes to; JR, which has no link register, reads only.
Execute(r, i, memory) ==
  LET Set(reg, w) == [r EXCEPT !.gp[reg] = w]
      after == r.npc + 1
      linked == Set(i.rd, after)
  IN  CASE i.op = "alu" -> Goes(Advance(Set(i.rd, Alu(r.gp[i.rs], r.gp[i.rt])), 0, 0, after))
        [] i.op = "branch" ->
             Goes(Advance(r, 0, 0, IF r.gp[i.rs] = r.gp[i.rt] THEN r.npc + i.extra ELSE after))
        [] i.op = "jump" ->
             Goes(Advance(linked, 0, 0, IF i.rd = 0 THEN r.gp[i.rs] ELSE linked.gp[i.rs]))
        [] i.op = "load" ->
             IF Translates(memory, r.gp[i.rs])
             THEN Goes(Advance(r, i.rt, Word(memory, r.gp[i.rs]), after))
             ELSE Faults(r)
        [] i.op = "store" ->
             IF Translates(memory, r.gp[i.rs])
             THEN Stores(Advance(r, 0, 0, after), r.gp[i.rs], r.gp[i.rt])
             ELSE Faults(r)
        [] i.op = "syscall" -> Traps(r)
        [] OTHER -> Faults(r)

\* Machine::OneInstruction: it is fetched from memory, too.
OneInstruction(r, memory) ==
  IF Translates(memory, r.pc) THEN Execute(r, Decode(Word(memory, r.pc)), memory) ELSE Faults(r)

\* What a system call leaves in the registers: its answer, and the next
\* instruction (IncreaseProgramCounterRegs).
Returned(r, w) == [r EXCEPT !.gp[ResultReg] = w, !.pc = r.npc, !.npc = r.npc + 1]

\* System2User of one word, by the kernel on behalf of a process.
CopiesOut(r, memory, v, w) == IF Translates(memory, v) THEN Stores(r, v, w) ELSE Faults(r)
===============================================================================
