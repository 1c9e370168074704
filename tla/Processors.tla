------------------------------ MODULE Processors ------------------------------
(***************************************************************************)
(* What a user program may rely on: a processor and a memory of its own.   *)
(* No step of one process reads or writes what another has, except that a  *)
(* program that faults stops them all.                                     *)
(***************************************************************************)
EXTENDS Processor

CONSTANTS
  Processes,
  Images,     \* the address spaces a process may start with
  Results,    \* what a system call may answer
  CopyTo      \* the addresses at which it may store a result

VARIABLES
  phase,    \* "free", "new", "user" or "kernel"
  regs,     \* the registers of each process
  memory,   \* its address space, page by page
  stopped

pvars == <<phase, regs, memory, stopped>>

NoMemory == [v \in {} |-> 0]

Init ==
  /\ phase = [p \in Processes |-> "free"]
  /\ regs = [p \in Processes |-> NoRegs]
  /\ memory = [p \in Processes |-> NoMemory]
  /\ stopped = FALSE

\* The process gets a copy of an image.
Create(p) ==
  /\ phase[p] = "free"
  /\ \E image \in Images : memory' = [memory EXCEPT ![p] = image]
  /\ phase' = [phase EXCEPT ![p] = "new"]
  /\ UNCHANGED <<regs, stopped>>

Start(p) ==
  /\ phase[p] = "new"
  /\ phase' = [phase EXCEPT ![p] = "user"]
  /\ regs' = [regs EXCEPT ![p] = InitRegisters(DOMAIN memory[p])]
  /\ UNCHANGED <<memory, stopped>>

\* The process comes to outcome.
Becomes(p, mode, outcome) ==
  /\ stopped' = (outcome.mode = "halt")
  /\ phase' = [phase EXCEPT ![p] = mode]
  /\ regs' = [regs EXCEPT ![p] = outcome.regs]
  /\ memory' = [memory EXCEPT ![p] =
       [v \in DOMAIN @ |-> [o \in Offsets |->
          IF \E s \in outcome.stores : s.page = v /\ s.offset = o
          THEN (CHOOSE s \in outcome.stores : s.page = v /\ s.offset = o).word
          ELSE @[v][o]]]]

Step(p) ==
  /\ phase[p] = "user"
  /\ LET outcome == OneInstruction(regs[p], memory[p])
     IN  Becomes(p, IF outcome.mode = "user" THEN "user" ELSE "kernel", outcome)

\* A load in flight may take place before the next instruction.
Settle(p) ==
  /\ phase[p] \in {"user", "kernel"}
  /\ regs' = [regs EXCEPT ![p] = DelayedLoad(@, 0, 0)]
  /\ UNCHANGED <<phase, memory, stopped>>

Answer(p) ==
  /\ phase[p] = "kernel"
  /\ \/ \E v \in CopyTo, w \in Results :
          Becomes(p, "kernel", CopiesOut(regs[p], memory[p], v, w))
     \/ \E w \in Results : Becomes(p, "user", Goes(Returned(regs[p], w)))

End(p) ==
  /\ phase[p] = "kernel"
  /\ phase' = [phase EXCEPT ![p] = "free"]
  /\ regs' = [regs EXCEPT ![p] = NoRegs]
  /\ memory' = [memory EXCEPT ![p] = NoMemory]
  /\ UNCHANGED stopped

Next ==
  /\ ~stopped
  /\ \E p \in Processes : Create(p) \/ Start(p) \/ Step(p) \/ Settle(p)
                           \/ Answer(p) \/ End(p)

Spec == Init /\ [][Next]_pvars
===============================================================================
