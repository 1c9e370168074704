-------------------------------- MODULE Machine --------------------------------
(***************************************************************************)
(* The one simulated machine that all user programs share: its registers   *)
(* and main memory (machine/machine.h), the page table it translates by,   *)
(* the registers each thread keeps while it does not run (Thread::         *)
(* userRegisters) and the frames of each address space                     *)
(* (userprog/addrspace.cc).                                                *)
(*                                                                         *)
(* A thread that is dispatched for the first time starts in ThreadRoot and *)
(* not behind the SWITCH in Scheduler::Run, so its registers and its table *)
(* are not restored; ExecBridge sets them. It may be switched out before.  *)
(***************************************************************************)
EXTENDS Processor

CONSTANTS
  Processes,
  Images,     \* the address spaces the loader makes of executables
  Results,    \* what a system call may answer
  CopyTo,     \* the addresses at which it may store a result
  NumPhysPages

None == "none"

\* An image is a function from pages to functions from offsets to words.
ASSUME MachineAssumption ==
  /\ NumPhysPages \in Nat
  /\ None \notin Processes
  /\ \A image \in Images :
       \E n \in 1..NumPhysPages :
         image = [v \in 0..(n - 1) |-> [o \in Offsets |-> image[v][o]]]

VARIABLES
  registers,     \* machine->registers
  mainMemory,    \* machine->mainMemory, frame by frame
  table,         \* whose page table machine->pageTable is, or None
  current,       \* the process of currentThread, or None
  userRegisters, \* what each thread saved
  frames,        \* the page table of each process
  physPages,     \* gPhysPageBitMap: the frames in use
  status,        \* "free", "new", "starting" (dispatched), "user" or "kernel"
  halted

mvars == <<registers, mainMemory, table, current, userRegisters, frames,
           physPages, status, halted>>

Frames == 0..(NumPhysPages - 1)
NoFrames == [v \in {} |-> 0]
FramesOf(p) == {frames[p][v] : v \in DOMAIN frames[p]}

\* An address space, as the table of its pages shows it.
Space(p) == [v \in DOMAIN frames[p] |-> mainMemory[frames[p][v]]]

Blank == [o \in Offsets |-> 0]

MachineInit ==
  /\ registers = NoRegs
  /\ mainMemory = [f \in Frames |-> Blank]
  /\ table = None /\ current = None
  /\ userRegisters = [p \in Processes |-> NoRegs]
  /\ frames = [p \in Processes |-> NoFrames]
  /\ physPages = {}
  /\ status = [p \in Processes |-> "free"]
  /\ halted = FALSE

-------------------------------------------------------------------------------

\* Find, once for each of n pages: the lowest free frames, in order.
Found(f, n) ==
  /\ \A i, j \in 0..(n - 1) : i < j => f[i] < f[j]
  /\ \A g \in Frames \ physPages : g \in {f[i] : i \in 0..(n - 1)}
                                   \/ \A i \in 0..(n - 1) : f[i] < g

\* AddrSpace's constructor, called by a process in Exec or by the first thread,
\* and the Fork that follows. A process for which memory is short does not
\* come to be.
Load(p) ==
  /\ status[p] = "free"
  /\ current # None => status[current] = "kernel"
  /\ \E image \in Images, n \in 1..NumPhysPages :
       /\ DOMAIN image = 0..(n - 1)
       /\ \E f \in [0..(n - 1) -> Frames \ physPages] :
            /\ Found(f, n)
            /\ frames' = [frames EXCEPT ![p] = f]
            /\ physPages' = physPages \cup {f[v] : v \in 0..(n - 1)}
            /\ mainMemory' = [g \in Frames |->
                 IF \E v \in 0..(n - 1) : f[v] = g
                 THEN image[CHOOSE v \in 0..(n - 1) : f[v] = g] ELSE mainMemory[g]]
  /\ status' = [status EXCEPT ![p] = "new"]
  /\ UNCHANGED <<registers, table, current, userRegisters, halted>>

\* A slip: the machine keeps the table it has.
SwitchKeepsTable(q) ==
  /\ q # current /\ (q # None => status[q] # "free")
  /\ userRegisters' = IF current = None THEN userRegisters
                      ELSE [userRegisters EXCEPT ![current] = registers]
  /\ current' = q
  /\ IF q # None /\ status[q] # "new"
     THEN registers' = userRegisters[q] ELSE UNCHANGED registers
  /\ status' = IF q # None /\ status[q] = "new" THEN [status EXCEPT ![q] = "starting"] ELSE status
  /\ UNCHANGED <<mainMemory, table, frames, physPages, halted>>

\* Scheduler::Run, with SaveUserState, RestoreUserState and RestoreState.
Switch(q) ==
  /\ q # current /\ (q # None => status[q] # "free")
  /\ userRegisters' = IF current = None THEN userRegisters
                      ELSE [userRegisters EXCEPT ![current] = registers]
  /\ current' = q
  /\ IF q # None /\ status[q] # "new"
     THEN registers' = userRegisters[q] /\ table' = q
     ELSE UNCHANGED <<registers, table>>
  /\ status' = IF q # None /\ status[q] = "new" THEN [status EXCEPT ![q] = "starting"] ELSE status
  /\ UNCHANGED <<mainMemory, frames, physPages, halted>>

\* ExecBridge: InitRegisters, RestoreState and Machine::Run.
Begin(p) ==
  /\ current = p /\ status[p] = "starting"
  /\ registers' = InitRegisters(DOMAIN frames[p])
  /\ table' = p
  /\ status' = [status EXCEPT ![p] = "user"]
  /\ UNCHANGED <<mainMemory, current, userRegisters, frames, physPages, halted>>

\* The machine comes to outcome. Every fault of a program ends in
\* Interrupt::Halt (ExceptionHandler).
Take(p, mode, outcome) ==
  /\ registers' = outcome.regs
  /\ mainMemory' = [f \in Frames |-> [o \in Offsets |->
       IF \E s \in outcome.stores : frames[table][s.page] = f /\ s.offset = o
       THEN (CHOOSE s \in outcome.stores : frames[table][s.page] = f /\ s.offset = o).word
       ELSE mainMemory[f][o]]]
  /\ status' = [status EXCEPT ![p] = mode]
  /\ halted' = (outcome.mode = "halt")
  /\ UNCHANGED <<table, current, userRegisters, frames, physPages>>

\* One turn of Machine::Run.
Run(p) ==
  /\ current = p /\ status[p] = "user"
  /\ LET outcome == OneInstruction(registers, Space(table))
     IN  Take(p, IF outcome.mode = "user" THEN "user" ELSE "kernel", outcome)

\* Interrupt::CheckIfDue: before a handler runs, a load in flight takes place,
\* in the registers of whoever is current.
Interrupt(p) ==
  /\ current = p /\ status[p] \in {"starting", "user", "kernel"}
  /\ registers' = DelayedLoad(registers, 0, 0)
  /\ UNCHANGED <<mainMemory, table, current, userRegisters, frames, physPages, status, halted>>

\* A system call stores words of its result, and returns.
Call(p) ==
  /\ current = p /\ status[p] = "kernel"
  /\ \/ \E v \in CopyTo, w \in Results :
          Take(p, "kernel", CopiesOut(registers, Space(table), v, w))
     \/ \E w \in Results : Take(p, "user", Goes(Returned(registers, w)))

\* SC_Exit: ~AddrSpace frees the frames, and the thread finishes. The table that
\* the machine translates by is gone; what the thread saves is not used again.
Exit(p) ==
  /\ current = p /\ status[p] = "kernel"
  /\ physPages' = physPages \ FramesOf(p)
  /\ frames' = [frames EXCEPT ![p] = NoFrames]
  /\ status' = [status EXCEPT ![p] = "free"]
  /\ current' = None /\ table' = None
  /\ UNCHANGED <<registers, mainMemory, userRegisters, halted>>

MachineNext ==
  /\ ~halted
  /\ \/ \E q \in Processes \cup {None} : Switch(q)
     \/ \E p \in Processes : Load(p) \/ Begin(p) \/ Run(p) \/ Interrupt(p)
                               \/ Call(p) \/ Exit(p)

MachineSpec == MachineInit /\ [][MachineNext]_mvars

-------------------------------------------------------------------------------
(* Properties *)

\* The processors and memories that the processes see.
Phase == [p \in Processes |-> IF status[p] = "starting" THEN "new" ELSE status[p]]
SeenRegisters ==
  [p \in Processes |-> IF status[p] \notin {"user", "kernel"} THEN NoRegs
                       ELSE IF p = current THEN registers ELSE userRegisters[p]]
Spaces == [p \in Processes |-> Space(p)]

View == INSTANCE Processors WITH
  phase <- Phase, regs <- SeenRegisters, memory <- Spaces, stopped <- halted

\* Every process runs as if it had a processor and a memory of its own.
RunsAlone == View!Spec
===============================================================================
