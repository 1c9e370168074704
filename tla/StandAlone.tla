------------------------------- MODULE StandAlone -------------------------------
(***************************************************************************)
(* The stand-alone simulator of the tools (bin/main.c, bin/execute.c,      *)
(* bin/system.c): how it reads its command line, loads a program, puts the *)
(* program's arguments on the stack, and runs it; beside the simulator     *)
(* that Nachos runs the same programs on (module Processor).               *)
(***************************************************************************)
EXTENDS Processor, SequencesExt

CONSTANTS
  ArgSlots,     \* the words set aside for pointers to arguments, 8 in the code
  MemSize,      \* MEMSIZE
  BreakUnit     \* what an old break is rounded to, 8192

-------------------------------------------------------------------------------
(* main.c *)

\* The letters of an option; a word is a sequence of letters.
IsOption(word) == word # <<>> /\ word[1] = "-"

\* One letter of an option: m takes the next four words, which have to be there.
ReadLetter(s, letter) ==
  CASE letter \in {"t", "T", "r"} -> [s EXCEPT !.flags = @ \cup {letter}]
    [] letter = "m" -> [s EXCEPT !.flags = @ \cup {letter}, !.argc = @ - 4, !.argv = @ + 4]
    [] OTHER -> s

\* main up to the name of the file: argc counts the words left, the one at argv
\* included. "-m" at the end of the line reads words that are not there.
Options(words) ==
  LET argument(s) == words[s.argv + 1]
      read[n \in 0..Len(words)] ==
        IF n = 0 THEN [argc |-> Len(words) + 1, argv |-> 0, flags |-> {}]
        ELSE LET s == read[n - 1]
             IN  IF s.argc > 1 /\ s.argv < Len(words) /\ IsOption(argument(s))
                 THEN FoldLeft(ReadLetter, [s EXCEPT !.argc = @ - 1, !.argv = @ + 1],
                               Tail(argument(s)))
                 ELSE s
  IN  read[Len(words)]

\* The arguments that runprogram gets: the name of the file first, which is
\* a.out when the line has none.
Arguments(words) ==
  LET s == Options(words)
  IN  IF s.argc >= 2 THEN SubSeq(words, s.argv + 1, s.argv + s.argc - 1) ELSE <<<<"a.out">>>>

\* LOADSECTION: the bytes go into memory, and then their end is looked at.
LoadSection(s, section) ==
  IF ~s.running \/ ~section.inFile THEN s
  ELSE [running |-> section.at + section.size < MemSize,
        written |-> s.written \cup section.at..(section.at + section.size - 1)]

load_program(sections) == FoldLeft(LoadSection, [running |-> TRUE, written |-> {}], sections)

-------------------------------------------------------------------------------
(* runprogram: the stack that the program starts with *)

\* Four bytes of a word, and the bytes of a string; both name what they are of.
StoredWord(at, w) == [c \in at..(at + 3) |-> <<w, c - at>>]
StoredString(at, s) == [c \in at..(at + Len(s)) |-> <<-1, IF c - at < Len(s) THEN s[c - at + 1] ELSE 0>>]

\* The addresses are relative to the stack pointer, which argc is stored at.
\* Each string is copied, and then the pointer to it.
Stack(args) ==
  LET push(s, string) ==
        [memory |-> StoredWord(s.aci, s.ai) @@ (StoredString(s.ai, string) @@ s.memory),
         aci |-> s.aci + 4, ai |-> s.ai + Len(string) + 1]
  IN  FoldLeft(push, [memory |-> StoredWord(0, Len(args)), aci |-> 4, ai |-> 4 + 4 * ArgSlots],
               args).memory

-------------------------------------------------------------------------------
(* runprogram: the instructions *)

Branches(t, i) ==
  IF t.gp[i.rs] = t.gp[i.rt] THEN [t EXCEPT !.npc = t.xpc + 1 + i.extra] ELSE t

\* JALR reads where it goes to before it writes its link.
Jumps(t, i) == [t EXCEPT !.npc = t.gp[i.rs], !.gp[i.rd] = t.xpc + 2]

\* A load is complete at once. Outside of memory the host decides what comes.
LoadsNow(t, i) ==
  IF Translates(t.memory, t.gp[i.rs]) THEN [t EXCEPT !.gp[i.rt] = Word(t.memory, t.gp[i.rs])]
  ELSE [t EXCEPT !.mode = "lost"]

StoresNow(t, i) ==
  LET v == t.gp[i.rs]
  IN  IF Translates(t.memory, v) THEN [t EXCEPT !.memory[Page(v)][Offset(v)] = t.gp[i.rt]]
      ELSE [t EXCEPT !.mode = "lost"]

\* One turn of the loop.
Turn(t) ==
  LET i == Decode(Word(t.memory, t.pc))
      s == [t EXCEPT !.xpc = t.pc, !.pc = t.npc, !.npc = t.npc + 1, !.gp[0] = 0]
  IN  IF ~Translates(t.memory, t.pc) THEN [t EXCEPT !.mode = "lost"]
      ELSE CASE i.op = "alu" -> [s EXCEPT !.gp[i.rd] = Alu(s.gp[i.rs], s.gp[i.rt])]
             [] i.op = "branch" -> Branches(s, i)
             [] i.op = "jump" -> Jumps(s, i)
             [] i.op = "load" -> LoadsNow(s, i)
             [] i.op = "store" -> StoresNow(s, i)
             [] i.op = "syscall" -> [s EXCEPT !.mode = "kernel"]
             [] OTHER -> [s EXCEPT !.mode = "halt"]

\* system_trap of the call number no, with its first argument, where the host
\* answers: what comes into register 1, or the end of the simulator.
Stop == <<"stop">>
system_trap(no, o0, answer) ==
  CASE no \in {"read", "write", "open", "lseek", "fstat", "getpagesize"} -> <<"goes on", answer>>
    [] no \in {"close", "ioctl"} -> <<"goes on", 0>>
    [] no = "break" -> <<"goes on", ((o0 \div BreakUnit) + 1) * BreakUnit>>
    [] OTHER -> Stop

\* ilog2, of the set of the bits that are one: the upper half of each block of
\* twice n bits is kept if it has any.
ilog2(bits) ==
  LET halve(s, n) == LET j == {b \in s.i : (b \div n) % 2 = 1}
                     IN  IF j # {} THEN [i |-> j, l |-> s.l + n] ELSE s
  IN  IF bits = {} THEN 0 ELSE FoldLeft(halve, [i |-> bits, l |-> 1], <<16, 8, 4, 2, 1>>).l

-------------------------------------------------------------------------------
(* What is right *)

\* The count of words and the place on the line agree, whatever options there
\* are, unless the line ends within an option.
LineRead(words) ==
  LET s == Options(words)
  IN  s.argv <= Len(words) =>
        /\ s.argc = Len(words) - s.argv + 1
        /\ s.argc >= 2 => ~IsOption(Arguments(words)[1])

\* A program that is started lies within memory.
ProgramFits(sections) ==
  load_program(sections).running => load_program(sections).written \subseteq 0..(MemSize - 1)

\* The program finds its arguments exactly when there are no more than slots.
ArgumentsFound(args) ==
  LET memory == Stack(args)
      found(j) == \E at \in DOMAIN memory :
                    /\ \A k \in 0..3 : memory[4 * j + k] = <<at, k>>
                    /\ \A c \in 0..Len(args[j]) :
                         memory[at + c] = StoredString(at, args[j])[at + c]
  IN  (\A j \in 1..Len(args) : found(j)) <=> Len(args) <= ArgSlots

\* The place of the highest bit that is one.
BitsCounted(bits) == bits # {} => ilog2(bits) - 1 \in bits /\ \A b \in bits : b < ilog2(bits)

\* A break is behind what was asked for, by no more than one unit.
BreakBehind(o0) == system_trap("break", o0, 0)[2] \in (o0 + 1)..(o0 + BreakUnit)

\* What the makers of the processor ask of programs: no branch behind a branch,
\* no use of a register by the instruction behind its load, no link register
\* that the jump reads.
Touches(i) ==
  CASE i.op = "alu" -> {i.rs, i.rt, i.rd}
    [] i.op \in {"branch", "store", "load"} -> {i.rs, i.rt}
    [] i.op = "jump" -> {i.rs, i.rd}
    [] OTHER -> {}
Obeys(last, i) ==
  /\ ~({last.op, i.op} \subseteq {"branch", "jump"})
  /\ last.op = "load" => last.rt \notin Touches(i) \ {0}
  /\ i.op = "jump" => i.rs # i.rd

\* Both simulators step by step, as long as the program keeps to the rules.
Both(memory, gp, steps) ==
  LET start == [obeyed |-> TRUE, last |-> [op |-> "alu"], mode |-> "user",
                regs |-> [NoRegs EXCEPT !.npc = 1, !.gp = gp], memory |-> memory,
                tool |-> [mode |-> "user", gp |-> gp, pc |-> 0, npc |-> 1, xpc |-> 0,
                          memory |-> memory]]
      changed(m, stores) ==
        [v \in DOMAIN m |-> [o \in Offsets |->
           IF \E s \in stores : s.page = v /\ s.offset = o
           THEN (CHOOSE s \in stores : s.page = v /\ s.offset = o).word ELSE m[v][o]]]
      next(b, n) ==
        LET i == Decode(Word(b.memory, b.regs.pc))
            went == OneInstruction(b.regs, b.memory)
        IN  IF ~b.obeyed \/ b.mode # "user" THEN b
            ELSE IF ~Translates(b.memory, b.regs.pc) \/ ~Obeys(b.last, i)
            THEN [b EXCEPT !.obeyed = FALSE]
            ELSE [obeyed |-> TRUE, last |-> i, mode |-> went.mode, regs |-> went.regs,
                  memory |-> changed(b.memory, went.stores), tool |-> Turn(b.tool)]
  IN  FoldLeft(next, start, [n \in 1..steps |-> n])

\* After any number of steps they agree on where the program is, on its
\* registers, of which one may still be on its way, on its memory and on its end.
SameRun(memory, gp, steps) ==
  LET b == Both(memory, gp, steps)
      loaded == DelayedLoad(b.regs, 0, 0).gp
  IN  /\ b.memory = b.tool.memory
      /\ b.mode = b.tool.mode \/ (b.mode = "halt" /\ b.tool.mode = "lost")
      /\ b.mode = "user" => /\ b.regs.pc = b.tool.pc /\ b.regs.npc = b.tool.npc
                            /\ \A reg \in Regs \ {0} : loaded[reg] = b.tool.gp[reg]
===============================================================================
