----------------------------- MODULE ContextSwitch -----------------------------
(***************************************************************************)
(* The assembly code that switches from one thread to another              *)
(* (threads/switch.c, identical to switch.s) on each of the four hosts,    *)
(* the places of the registers in a Thread object (threads/switch.h), and  *)
(* the first state of a thread (Thread::StackAllocate).                    *)
(*                                                                         *)
(* A pointer is a pair of an object and an offset in bytes. SWITCH and     *)
(* ThreadRoot are sequences of instructions on registers and memory; a     *)
(* procedure that is called keeps the registers the host's convention says *)
(* it keeps, and no other.                                                 *)
(***************************************************************************)
EXTENDS Integers, SequencesExt

Hosts == {"MIPS", "SPARC", "SNAKE", "i386"}

Store(r, base, off) == [op |-> "store", from |-> r, base |-> base, off |-> off]
Load(base, off, r) == [op |-> "load", base |-> base, off |-> off, to |-> r]
Move(r, q) == [op |-> "move", from |-> r, to |-> q]
Push(r) == [op |-> "push", from |-> r]
Call(r) == [op |-> "call", from |-> r]

Stores(registers, slot, base) ==
  [n \in 1..Len(registers) |-> Store(registers[n], base, slot[registers[n]])]
Loads(registers, slot, base) ==
  [n \in 1..Len(registers) |-> Load(base, slot[registers[n]], registers[n])]
Moves(from, to) == [n \in 1..Len(from) |-> Move(from[n], to[n])]
InOrder(registers) ==
  [r \in ToSet(registers) |-> 4 * ((CHOOSE n \in 1..Len(registers) : registers[n] = r) - 1)]

-------------------------------------------------------------------------------
(* DEC MIPS *)

MipsSaved == <<"sp", "s0", "s1", "s2", "s3", "s4", "s5", "s6", "s7", "fp", "ra">>
MipsSlots == InOrder(MipsSaved)
MipsStart == [InitialPC |-> "s0", InitialArg |-> "s1", WhenDonePC |-> "s2",
              StartupPC |-> "s3", PC |-> "ra"]
MipsRoot == <<Call("s3"), Move("s1", "a0"), Call("s0"), Call("s2")>>
MipsSwitch == Stores(MipsSaved, MipsSlots, "a0") \o Loads(MipsSaved, MipsSlots, "a1")

-------------------------------------------------------------------------------
(* SUN SPARC. save and restore move the window: the caller's out registers *)
(* are the in registers of SWITCH, its stack pointer is SWITCH's frame     *)
(* pointer; the caller's other registers are on its stack.                 *)

SparcIns == <<"i0", "i1", "i2", "i3", "i4", "i5", "i7", "fp">>
SparcOuts == <<"o0", "o1", "o2", "o3", "o4", "o5", "o7", "sp">>
SparcSlots == [fp |-> 0, i0 |-> 4, i1 |-> 8, i2 |-> 12, i3 |-> 16, i4 |-> 20, i5 |-> 24, i7 |-> 32]
SparcStart == [InitialPC |-> "i0", InitialArg |-> "i1", WhenDonePC |-> "i2",
               StartupPC |-> "i3", PC |-> "i7"]
SparcRoot ==
  <<Move("o0", "l0"), Move("o1", "l1"), Move("o2", "l2"),
    Call("o3"), Move("l1", "o0"), Call("l0"), Call("l2")>>
SparcSwitch ==
  Moves(SparcOuts, SparcIns)
    \o Stores(<<"fp", "i0", "i1", "i2", "i3", "i4", "i5", "i7">>, SparcSlots, "i0")
    \o <<Move("i1", "l0")>>
    \o Loads(<<"i0", "i1", "i2", "i3", "i4", "i5", "i7", "fp">>, SparcSlots, "l0")
    \o Moves(SparcIns, SparcOuts)

-------------------------------------------------------------------------------
(* HP SNAKE *)

SnakeSaved ==
  <<"sp", "r3", "r4", "r5", "r6", "r7", "r8", "r9", "r10", "r11", "r12", "r13", "r14", "r15",
    "r16", "r17", "r18", "rp">>
SnakeSlots == [InOrder(SnakeSaved) EXCEPT !["rp"] = 68]
SnakeStart == [InitialPC |-> "r3", InitialArg |-> "r4", WhenDonePC |-> "r5",
               StartupPC |-> "r6", PC |-> "rp"]
SnakeRoot == <<Call("r6"), Move("r4", "arg0"), Call("r3"), Call("r5")>>
SnakeSwitch == Stores(SnakeSaved, SnakeSlots, "arg0") \o Loads(SnakeSaved, SnakeSlots, "arg1")

-------------------------------------------------------------------------------
(* i386. The arguments and the return address are on the stack. *)

I386Slots == [esp |-> 0, eax |-> 4, ebx |-> 8, ecx |-> 12, edx |-> 16,
              ebp |-> 20, esi |-> 24, edi |-> 28, pc |-> 32]
I386Start == [InitialPC |-> "esi", InitialArg |-> "edx", WhenDonePC |-> "edi",
              StartupPC |-> "ecx", PC |-> "pc"]
I386Root ==
  <<Push("ebp"), Move("esp", "ebp"), Push("edx"), Call("ecx"), Call("esi"), Call("edi")>>

\* The return address that is copied to 4(esp) is not the one ret takes: that one
\* is where SWITCH's caller, or StackAllocate, put it.
I386Switch ==
  <<Move("eax", "_eax_save"), Load("esp", 4, "eax")>>
    \o Stores(<<"ebx", "ecx", "edx", "esi", "edi", "ebp", "esp">>, I386Slots, "eax")
    \o <<Move("_eax_save", "ebx"), Store("ebx", "eax", I386Slots.eax),
         Load("esp", 0, "ebx"), Store("ebx", "eax", I386Slots.pc),
         Load("esp", 8, "eax"), Load("eax", I386Slots.eax, "ebx"), Move("ebx", "_eax_save")>>
    \o Loads(<<"ebx", "ecx", "edx", "esi", "edi", "ebp", "esp">>, I386Slots, "eax")
    \o <<Load("eax", I386Slots.pc, "eax"), Store("eax", "esp", 4), Move("_eax_save", "eax")>>

-------------------------------------------------------------------------------
(* The four of them *)

Slots(h) == CASE h = "MIPS" -> MipsSlots [] h = "SPARC" -> SparcSlots
              [] h = "SNAKE" -> SnakeSlots [] h = "i386" -> I386Slots
Start(h) == CASE h = "MIPS" -> MipsStart [] h = "SPARC" -> SparcStart
              [] h = "SNAKE" -> SnakeStart [] h = "i386" -> I386Start
ThreadRoot(h) == CASE h = "MIPS" -> MipsRoot [] h = "SPARC" -> SparcRoot
                   [] h = "SNAKE" -> SnakeRoot [] h = "i386" -> I386Root
SWITCH(h) == CASE h = "MIPS" -> MipsSwitch [] h = "SPARC" -> SparcSwitch
               [] h = "SNAKE" -> SnakeSwitch [] h = "i386" -> I386Switch

\* The hosts' conventions: where the stack pointer, the arguments and the return
\* address are, and the registers a procedure leaves as they were.
Convention(h) ==
  CASE h = "MIPS" -> [sp |-> "sp", args |-> <<"a0", "a1">>, return |-> "ra",
                      kept |-> ToSet(MipsSaved) \ {"ra"}]
    [] h = "SPARC" -> [sp |-> "sp", args |-> <<"o0", "o1">>, return |-> "o7",
                       kept |-> {"sp", "l0", "l1", "l2"}]
    [] h = "SNAKE" -> [sp |-> "sp", args |-> <<"arg0", "arg1">>, return |-> "rp",
                       kept |-> ToSet(SnakeSaved) \ {"rp"}]
    [] h = "i386" -> [sp |-> "esp", args |-> <<>>, return |-> "none",
                      kept |-> {"esp", "ebp", "ebx", "esi", "edi"}]

Registers(h) ==
  DOMAIN Slots(h) \cup Convention(h).kept \cup ToSet(Convention(h).args) \cup {"_eax_save", "l0"}
    \cup IF h = "SPARC" THEN ToSet(SparcOuts) ELSE {}

-------------------------------------------------------------------------------
(* Execution *)

Garbage == <<"garbage">>
At(p, off) == IF Len(p) = 2 THEN <<p[1], p[2] + off>> ELSE Garbage
Content(mem, a) == IF a \in DOMAIN mem THEN mem[a] ELSE Garbage

\* A called procedure finds its argument in the first argument register, or on
\* top of the stack.
Argument(h, s) ==
  IF h = "i386" THEN Content(s.mem, s.reg.esp) ELSE s.reg[Convention(h).args[1]]

Execute(h, s, i) ==
  CASE i.op = "store" ->
         [s EXCEPT !.mem = (At(s.reg[i.base], i.off) :> s.reg[i.from]) @@ @]
    [] i.op = "load" -> [s EXCEPT !.reg[i.to] = Content(s.mem, At(s.reg[i.base], i.off))]
    [] i.op = "move" -> [s EXCEPT !.reg[i.to] = s.reg[i.from]]
    [] i.op = "push" ->
         [s EXCEPT !.mem = (At(s.reg.esp, -4) :> s.reg[i.from]) @@ @, !.reg.esp = At(@, -4)]
    [] i.op = "call" ->
         [s EXCEPT !.calls = Append(@, <<s.reg[i.from], Argument(h, s)>>),
                   !.reg = [r \in Registers(h) |->
                              IF r \in Convention(h).kept THEN s.reg[r] ELSE Garbage]]

Executed(h, s, program) == FoldLeft(LAMBDA u, i : Execute(h, u, i), s, program)

\* Thread::StackAllocate: where the values of a new thread's registers go in its
\* object, whose machineState starts behind stackTop. On the i386 ThreadRoot is
\* on the stack as well.
StackAllocate(h, t) ==
  LET stackTop == <<t \o "stack", IF h = "i386" THEN -20 ELSE -16>>
      MachineState(r) == <<t, 4 + 4 * (Slots(h)[r] \div 4 - 1)>>
      start == Start(h)
  IN  (<<t, 0>> :> stackTop)
        @@ (MachineState(start.PC) :> <<"ThreadRoot">>)
        @@ (MachineState(start.StartupPC) :> <<"InterruptEnable">>)
        @@ (MachineState(start.InitialPC) :> <<"func">>)
        @@ (MachineState(start.InitialArg) :> <<"arg">>)
        @@ (MachineState(start.WhenDonePC) :> <<"ThreadFinish">>)
        @@ (IF h = "i386" THEN stackTop :> <<"ThreadRoot">> ELSE <<>>)

\* The registers while thread t executes, before it calls SWITCH.
Running(h, t) ==
  [r \in Registers(h) |-> IF r = Convention(h).sp THEN <<t \o "stack", -400>> ELSE <<t, "value", r>>]

\* Scheduler::Run, executing in thread t, calls SWITCH(t, u): where the
\* processor goes on, and the registers it goes on with.
Switched(h, t, u, mem) ==
  LET own == Running(h, t)
      back == <<t, "behind", "SWITCH">>
      esp == <<t \o "stack", -412>>
      called ==
        IF h = "i386"
        THEN [reg |-> [own EXCEPT !.esp = esp], calls |-> <<>>,
              mem |-> (esp :> back) @@ (At(esp, 4) :> <<t, 0>>) @@ (At(esp, 8) :> <<u, 0>>) @@ mem]
        ELSE [reg |-> [own EXCEPT ![Convention(h).args[1]] = <<t, 0>>,
                                  ![Convention(h).args[2]] = <<u, 0>>,
                                  ![Convention(h).return] = back], calls |-> <<>>, mem |-> mem]
      end == Executed(h, called, SWITCH(h))
  IN  IF h = "i386"
      THEN [end EXCEPT !.reg.esp = At(@, 4)] @@ [pc |-> Content(end.mem, end.reg.esp)]
      ELSE end @@ [pc |-> end.reg[Convention(h).return]]

-------------------------------------------------------------------------------
(* What is right *)

\* A thread that is resumed goes on behind its call of SWITCH, with the registers
\* it counts on; the i386's arguments are still on the stack.
Resumed(h, t, s) ==
  /\ s.pc = <<t, "behind", "SWITCH">>
  /\ \A r \in Convention(h).kept \ {Convention(h).sp, "l0", "l1", "l2"} :
       s.reg[r] = Running(h, t)[r]
  /\ s.reg[Convention(h).sp] = At(Running(h, t)[Convention(h).sp], IF h = "i386" THEN -8 ELSE 0)

\* A new thread starts in ThreadRoot, which enables interrupts, calls the
\* thread's procedure with its argument, and ends the thread.
Started(h, s) ==
  LET calls == Executed(h, s, ThreadRoot(h)).calls
  IN  /\ s.pc = <<"ThreadRoot">>
      /\ [n \in 1..Len(calls) |-> calls[n][1]] =
           <<<<"InterruptEnable">>, <<"func">>, <<"ThreadFinish">>>>
      /\ calls[2][2] = <<"arg">>

\* Thread a switches to the new thread b, b to a, and a to b again.
SwitchesRight(h) ==
  LET first == Switched(h, "a", "b", StackAllocate(h, "b"))
      second == Switched(h, "b", "a", first.mem)
      third == Switched(h, "a", "b", second.mem)
  IN  Started(h, first) /\ Resumed(h, "a", second) /\ Resumed(h, "b", third)
===============================================================================
