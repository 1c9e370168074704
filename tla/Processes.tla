------------------------------- MODULE Processes -------------------------------
(***************************************************************************)
(* User processes: threads/PTable.cc, threads/PCB.cc, the constructor and  *)
(* destructor of userprog/addrspace.cc as far as they take and give back   *)
(* physical pages, and the system calls Exec, Join, Exit and Halt of       *)
(* userprog/exception.cc.  Each step is a step of the kernel (module       *)
(* Kernel) taken at a program counter of this code.                        *)
(*                                                                         *)
(* pc names what the thread does next: "user" is the user program, between *)
(* two system calls; the others are the calls of P, V and Yield where the  *)
(* code can be interrupted or blocked.  The statements between two such    *)
(* calls run alone and are one action with the call they lead to.          *)
(*                                                                         *)
(* A slot of the table is never given back (see Remove), so that a process *)
(* id stands for one PCB and one Thread object as well.                    *)
(***************************************************************************)
EXTENDS Integers, Sequences, FiniteSets

CONSTANTS
    NumProc,    \* MAX_PROCESS, the size of the table
    Names,      \* file names passed to Exec
    Exists,     \* those that name a file and have at most 32 characters
    Pages,      \* Pages[n]: pages of the address space of program n
    MainName,   \* the program NachOS was started with
    NumFrames,  \* NumPhysPages
    MaxFds,     \* file descriptors the host still gives to the simulator
    Codes       \* exit codes

Pids == 0 .. NumProc - 1
Frames == 0 .. NumFrames - 1

ASSUME ProcessAssumption ==
    /\ NumProc \in Nat \ {0}
    /\ NumFrames \in Nat
    /\ MaxFds \in Nat
    /\ Exists \subseteq Names
    /\ Pages \in [Exists -> Nat \ {0}]
    /\ MainName \in Exists
    /\ Pages[MainName] <= NumFrames
    /\ Codes \subseteq Int

Bmsem == <<"bmsem", 0>>
Joinsem(i) == <<"joinsem", i>>
Exitsem(i) == <<"exitsem", i>>
Mutex(i) == <<"mutex", i>>

PSems == {Bmsem} \cup ({"joinsem", "exitsem", "mutex"} \X Pids)

\* The initial values in PTable::PTable and PCB::PCB.
PInitVal == [s \in PSems |-> IF s[1] \in {"bmsem", "mutex"} THEN 1 ELSE 0]

VARIABLES
    current, ready, status, started, finished, toDestroy,
    value, queue, inP, pending, halted,
    stop,       \* why the machine stopped, "no" while it runs, "idle" when
                \* every thread waited
    bm,         \* PTable::bm, the set of marked slots
    parentID,   \* PCB::parentID
    exitcode,   \* PCB::exitcode
    numwait,    \* PCB::numwait
    destroyed,  \* the PCBs whose semaphores ~PCB has deleted
    name,       \* Thread::name, the program it runs ("main" for thread 0)
    frames,     \* the physical pages in the pageTable of Thread::space
    physMap,    \* gPhysPageBitMap, the set of marked pages
    fds,        \* host file descriptors left
    pc,         \* what the thread does next, "none" before it is forked
    arg,        \* the file name Exec was called with, "main" outside Exec
    id,         \* the id Join was called with, or that Exec chose and will
                \* return; -1 outside, and when Exec will return -1
    reg2,       \* register 2, where a system call leaves its result
    joins       \* how often Join was called for a child, 2 for more

kvars == <<current, ready, status, started, finished, toDestroy,
           value, queue, inP, pending, halted>>
tableVars == <<bm, parentID, exitcode, numwait, destroyed>>
spaceVars == <<name, frames, physMap, fds>>
callVars == <<arg, id, reg2, joins>>
pvars == <<kvars, stop, tableVars, spaceVars, pc, callVars>>

K == INSTANCE Kernel
       WITH Threads <- Pids, Main <- 0, Sems <- PSems, InitVal <- PInitVal,
            NoThread <- -1, NoSem <- <<"none", 0>>

\* The lowest n clear bits of gPhysPageBitMap: n calls of BitMap::Find.
FindPages(n) ==
    LET Clear == Frames \ physMap
    IN  {f \in Clear : Cardinality({g \in Clear : g < f}) < n}

-----------------------------------------------------------------------------
(* Thread 0 runs the program it was started with; the rest is empty. *)
PInit ==
    /\ K!Init
    /\ stop = "no"
    /\ bm = {0}
    /\ parentID = [i \in Pids |-> -1]
    /\ exitcode = [i \in Pids |-> 0]
    /\ numwait = [i \in Pids |-> 0]
    /\ destroyed = {}
    /\ name = [i \in Pids |-> "main"]
    /\ frames = [i \in Pids |-> IF i = 0 THEN 0 .. Pages[MainName] - 1 ELSE {}]
    /\ physMap = 0 .. Pages[MainName] - 1
    /\ fds = MaxFds
    /\ pc = [i \in Pids |-> IF i = 0 THEN "user" ELSE "none"]
    /\ arg = [i \in Pids |-> "main"]
    /\ id = [i \in Pids |-> -1]
    /\ reg2 = [i \in Pids |-> 0]
    /\ joins = [i \in Pids |-> 0]

-----------------------------------------------------------------------------
(* Control. *)

At(l) == stop = "no" /\ K!Executing /\ pc[current] = l
Goto(l) == pc' = [pc EXCEPT ![current] = l]

\* A system call returns r; its local variables are gone.
Return(r) ==
    /\ reg2' = [reg2 EXCEPT ![current] = r]
    /\ arg' = [arg EXCEPT ![current] = "main"]
    /\ id' = [id EXCEPT ![current] = -1]

\* s has not been deleted by ~PCB.
Usable(s) == s = Bmsem \/ s[2] \notin destroyed

\* A call of s->P() at label "from": it queues the thread, or it returns.
PStep(s, from, to) ==
    /\ At(from)
    /\ Usable(s)
    /\ \/ K!Wait(s) /\ UNCHANGED pc
       \/ K!Take(s) /\ Goto(to)

\* A call of s->V() at label "from".
VStep(s, from, to) ==
    /\ At(from)
    /\ Usable(s)
    /\ K!V(s)
    /\ Goto(to)

\* The user program executes its next instruction: it has at least one page.
InUserCode == At("user") /\ K!Interruptible /\ frames[current] # {}

\* The time slice, and the dispatch of the next thread.
TimeSlice ==
    /\ stop = "no"
    /\ K!Yield
    /\ UNCHANGED <<stop, tableVars, spaceVars, pc, callVars>>

Dispatch ==
    /\ stop = "no"
    /\ K!Switch
    /\ UNCHANGED <<stop, tableVars, spaceVars, pc, callVars>>

\* Every process waits, and no device will wake one.
Idle ==
    /\ stop = "no"
    /\ K!IdleHalt
    /\ stop' = "idle"
    /\ UNCHANGED <<tableVars, spaceVars, pc, callVars>>

StopMachine(why) ==
    /\ K!Halt
    /\ stop' = why
    /\ UNCHANGED <<tableVars, spaceVars, pc, callVars>>

\* SC_Halt.
CallHalt == InUserCode /\ StopMachine("halt")

\* The first fetch of a process whose AddrSpace got no page raises
\* AddressErrorException, and ExceptionHandler halts the machine.
FirstFetchFaults ==
    /\ At("user")
    /\ K!Interruptible
    /\ frames[current] = {}
    /\ StopMachine("fault")

-----------------------------------------------------------------------------
(* Exec: PTable::ExecUpdate and PCB::Exec. *)

CallExec(n) ==
    /\ InUserCode
    /\ arg' = [arg EXCEPT ![current] = n]
    /\ reg2' = [reg2 EXCEPT ![current] = 0]
    /\ Goto("ExecP")
    /\ UNCHANGED <<kvars, stop, tableVars, spaceVars, id, joins>>

\* A slip: the table is not locked while a program is loaded.
ExecWithoutLock ==
    /\ At("ExecP")
    /\ Goto("ExecCheck")
    /\ UNCHANGED <<kvars, stop, tableVars, spaceVars, callVars>>

ExecP ==
    /\ PStep(Bmsem, "ExecP", "ExecCheck")
    /\ UNCHANGED <<stop, tableVars, spaceVars, callVars>>

\* The name is refused or fileSystem->Open returns NULL.
ExecNoFile ==
    /\ At("ExecCheck")
    /\ arg[current] \notin Exists \/ fds = 0
    /\ Goto("ExecReturn")
    /\ UNCHANGED <<kvars, stop, tableVars, spaceVars, arg, id, reg2, joins>>

\* A slip: what Open returned is not looked at.
ExecRefusedUnchecked ==
    /\ At("ExecCheck")
    /\ arg[current] \in Exists
    /\ arg[current] = name[current] \/ bm = Pids
    /\ fds' = fds - 1
    /\ Goto("ExecReturn")
    /\ UNCHANGED <<kvars, stop, tableVars, name, frames, physMap, arg, id, reg2, joins>>

\* The program is the caller's own, or no slot is free.  The file that was
\* opened to see that it exists stays open.
ExecRefused ==
    /\ At("ExecCheck")
    /\ arg[current] \in Exists /\ fds > 0
    /\ arg[current] = name[current] \/ bm = Pids
    /\ fds' = fds - 1
    /\ Goto("ExecReturn")
    /\ UNCHANGED <<kvars, stop, tableVars, name, frames, physMap, arg, id, reg2, joins>>

\* GetFreeSlot (BitMap::Find marks the lowest clear bit) and new PCB(id).
ExecSlot ==
    /\ At("ExecCheck")
    /\ arg[current] \in Exists /\ fds > 0
    /\ arg[current] # name[current]
    /\ fds' = fds - 1
    /\ \E i \in Pids \ bm :
          /\ \A j \in Pids \ bm : i <= j
          /\ bm' = bm \cup {i}
          /\ parentID' = [parentID EXCEPT ![i] = current]
          /\ exitcode' = [exitcode EXCEPT ![i] = 0]
          /\ numwait' = [numwait EXCEPT ![i] = 0]
          /\ id' = [id EXCEPT ![current] = i]
    /\ Goto("ExecMutex")
    /\ UNCHANGED <<kvars, stop, destroyed, name, frames, physMap, arg, reg2, joins>>

ExecMutex ==
    /\ PStep(Mutex(id[current]), "ExecMutex", "ExecLoad")
    /\ UNCHANGED <<stop, tableVars, spaceVars, callVars>>

\* The second Open of the same file finds no descriptor: PCB::Exec returns -1
\* with the slot marked and its mutex taken.
ExecCannotOpen ==
    /\ At("ExecLoad")
    /\ fds = 0
    /\ id' = [id EXCEPT ![current] = -1]
    /\ Goto("ExecReturn")
    /\ UNCHANGED <<kvars, stop, tableVars, spaceVars, arg, reg2, joins>>

\* ASSERT(numPages <= NumPhysPages) in the constructor of AddrSpace.
ExecTooBig ==
    /\ At("ExecLoad")
    /\ fds > 0
    /\ Pages[arg[current]] > NumFrames
    /\ StopMachine("assert")

\* A slip: the pages found are not marked.
ExecLoadUnmarked ==
    /\ At("ExecLoad")
    /\ fds > 0
    /\ Pages[arg[current]] <= NumFrames
    /\ LET i == id[current] IN
          /\ K!Fork(i)
          /\ frames' = [frames EXCEPT ![i] = FindPages(Pages[arg[current]])]
          /\ name' = [name EXCEPT ![i] = arg[current]]
          /\ pc' = [pc EXCEPT ![i] = "user", ![current] = "ExecYield"]
    /\ UNCHANGED <<stop, tableVars, physMap, fds, arg, id, reg2, joins>>

\* The rest of PCB::Exec up to Fork: the AddrSpace (no pages at all when too
\* few are clear), the Thread, its processID.  The descriptor of the second
\* Open is closed again.
ExecLoad ==
    /\ At("ExecLoad")
    /\ fds > 0
    /\ Pages[arg[current]] <= NumFrames
    /\ LET i == id[current]
           n == Pages[arg[current]]
           got == IF n > Cardinality(Frames \ physMap) THEN {} ELSE FindPages(n)
       IN /\ K!Fork(i)
          /\ frames' = [frames EXCEPT ![i] = got]
          /\ physMap' = physMap \cup got
          /\ name' = [name EXCEPT ![i] = arg[current]]
          /\ pc' = [pc EXCEPT ![i] = "user", ![current] = "ExecYield"]
    /\ UNCHANGED <<stop, tableVars, fds, arg, id, reg2, joins>>

\* currentThread->Yield(), which returns at once when no thread is ready.
ExecYield ==
    /\ At("ExecYield")
    /\ \/ K!Yield
       \/ ready = <<>> /\ UNCHANGED kvars
    /\ Goto("ExecMutexV")
    /\ UNCHANGED <<stop, tableVars, spaceVars, callVars>>

ExecMutexV ==
    /\ VStep(Mutex(id[current]), "ExecMutexV", "ExecReturn")
    /\ UNCHANGED <<stop, tableVars, spaceVars, callVars>>

\* A slip: the semaphore is not released when Exec fails.
ExecReturnLocked ==
    /\ \/ /\ id[current] # -1
          /\ VStep(Bmsem, "ExecReturn", "user")
       \/ /\ id[current] = -1
          /\ At("ExecReturn")
          /\ Goto("user")
          /\ UNCHANGED kvars
    /\ Return(id[current])
    /\ UNCHANGED <<stop, tableVars, spaceVars, joins>>

\* bmsem->V(), and the result goes to register 2.
ExecReturn ==
    /\ VStep(Bmsem, "ExecReturn", "user")
    /\ Return(id[current])
    /\ UNCHANGED <<stop, tableVars, spaceVars, joins>>

-----------------------------------------------------------------------------
(* Exit: PTable::ExitUpdate. *)

\* Process 0 halts the machine.
ExitMain ==
    /\ InUserCode
    /\ current = 0
    /\ StopMachine("halt")

\* A slip: the code is not stored.
ExitForgetsCode(c) ==
    /\ InUserCode
    /\ current # 0
    /\ VStep(Joinsem(current), "user", "ExitWait")
    /\ UNCHANGED <<stop, tableVars, spaceVars, callVars>>

\* A slip: the parent is not released.
ExitForgetsParent(c) ==
    /\ InUserCode
    /\ current # 0
    /\ exitcode' = [exitcode EXCEPT ![current] = c]
    /\ Goto("ExitWait")
    /\ UNCHANGED <<kvars, stop, bm, parentID, numwait, destroyed, spaceVars, callVars>>

\* SetExitCode and JoinRelease.
CallExit(c) ==
    /\ InUserCode
    /\ current # 0
    /\ exitcode' = [exitcode EXCEPT ![current] = c]
    /\ VStep(Joinsem(current), "user", "ExitWait")
    /\ UNCHANGED <<stop, bm, parentID, numwait, destroyed, spaceVars, callVars>>

\* A slip: the child does not wait for its parent to have read the code.
ExitDoesNotWait ==
    /\ At("ExitWait")
    /\ Goto("ExitDec")
    /\ UNCHANGED <<kvars, stop, tableVars, spaceVars, callVars>>

ExitWait ==
    /\ PStep(Exitsem(current), "ExitWait", "ExitDec")
    /\ UNCHANGED <<stop, tableVars, spaceVars, callVars>>

\* A slip: DecNumWait does not take the mutex.
ExitDecUnlocked ==
    /\ At("ExitDec")
    /\ Goto("ExitDecV")
    /\ UNCHANGED <<kvars, stop, tableVars, spaceVars, callVars>>

ExitDec ==
    /\ PStep(Mutex(current), "ExitDec", "ExitDecV")
    /\ UNCHANGED <<stop, tableVars, spaceVars, callVars>>

ExitDecV ==
    /\ VStep(Mutex(current), "ExitDecV", "Remove")
    /\ numwait' = [numwait EXCEPT ![current] = IF @ > 0 THEN @ - 1 ELSE 0]
    /\ UNCHANGED <<stop, bm, parentID, exitcode, destroyed, spaceVars, callVars>>

\* PTable::Remove: ~PCB deletes the three semaphores and the address space
\* (~AddrSpace clears its pages) and calls thread->Finish(), which does not
\* return.  pcb[pid] = NULL and bm->Clear(pid), which follow, are not reached.
Remove ==
    /\ At("Remove")
    /\ destroyed' = destroyed \cup {current}
    /\ physMap' = physMap \ frames[current]
    /\ frames' = [frames EXCEPT ![current] = {}]
    /\ K!Finish
    /\ Goto("gone")
    /\ UNCHANGED <<stop, bm, parentID, exitcode, numwait, name, fds, callVars>>

-----------------------------------------------------------------------------
(* Join: PTable::JoinUpdate. *)

\* The id is out of range, not marked, or not a child of the caller.
JoinRefused(i) ==
    /\ InUserCode
    /\ i \in bm => parentID[i] # current
    /\ Return(-1)
    /\ UNCHANGED <<kvars, stop, tableVars, spaceVars, pc, joins>>

CallJoin(i) ==
    /\ InUserCode
    /\ i \in bm
    /\ parentID[i] = current
    /\ joins' = [joins EXCEPT ![i] = IF @ = 0 THEN 1 ELSE 2]
    /\ id' = [id EXCEPT ![current] = i]
    /\ reg2' = [reg2 EXCEPT ![current] = 0]
    /\ Goto("JoinInc")
    /\ UNCHANGED <<kvars, stop, tableVars, spaceVars, arg>>

JoinInc ==
    /\ PStep(Mutex(id[current]), "JoinInc", "JoinIncV")
    /\ UNCHANGED <<stop, tableVars, spaceVars, callVars>>

\* A slip: IncNumWait leaves the mutex taken.
JoinIncKeepsMutex ==
    /\ At("JoinIncV")
    /\ numwait' = [numwait EXCEPT ![id[current]] = @ + 1]
    /\ Goto("JoinWait")
    /\ UNCHANGED <<kvars, stop, bm, parentID, exitcode, destroyed, spaceVars, callVars>>

JoinIncV ==
    /\ VStep(Mutex(id[current]), "JoinIncV", "JoinWait")
    /\ numwait' = [numwait EXCEPT ![id[current]] = @ + 1]
    /\ UNCHANGED <<stop, bm, parentID, exitcode, destroyed, spaceVars, callVars>>

JoinWait ==
    /\ PStep(Joinsem(id[current]), "JoinWait", "JoinRead")
    /\ UNCHANGED <<stop, tableVars, spaceVars, callVars>>

\* GetExitCode and ExitRelease.
JoinRead ==
    /\ VStep(Exitsem(id[current]), "JoinRead", "user")
    /\ Return(exitcode[id[current]])
    /\ UNCHANGED <<stop, tableVars, spaceVars, joins>>

-----------------------------------------------------------------------------
\* Join touches a semaphore that ~PCB has deleted: anything may follow, and
\* the model does not go on.
UseAfterDestroy ==
    /\ stop = "no"
    /\ K!Executing
    /\ pc[current] \in {"JoinInc", "JoinIncV", "JoinWait", "JoinRead"}
    /\ id[current] \in destroyed
    /\ stop' = "undefined"
    /\ UNCHANGED <<kvars, tableVars, spaceVars, pc, callVars>>

\* The code of the kernel, as opposed to the choices of the user programs.
KernelStep ==
    \/ FirstFetchFaults
    \/ ExecP \/ ExecNoFile \/ ExecRefused \/ ExecSlot \/ ExecMutex
    \/ ExecCannotOpen \/ ExecTooBig \/ ExecLoad \/ ExecYield \/ ExecMutexV
    \/ ExecReturn
    \/ ExitWait \/ ExitDec \/ ExitDecV \/ Remove
    \/ JoinInc \/ JoinIncV \/ JoinWait \/ JoinRead
    \/ UseAfterDestroy

UserStep ==
    \/ CallHalt
    \/ ExitMain
    \/ \E n \in Names : CallExec(n)
    \/ \E c \in Codes : CallExit(c)
    \/ \E i \in Pids : CallJoin(i)
    \/ \E i \in -1 .. NumProc : JoinRefused(i)

PNext == TimeSlice \/ Dispatch \/ Idle \/ KernelStep \/ UserStep

PSpec == PInit /\ [][PNext]_pvars

-----------------------------------------------------------------------------
(* Safety. *)

Labels == {"none", "user", "ExecP", "ExecCheck", "ExecMutex", "ExecLoad",
           "ExecYield", "ExecMutexV", "ExecReturn", "JoinInc", "JoinIncV",
           "JoinWait", "JoinRead", "ExitWait", "ExitDec", "ExitDecV",
           "Remove", "gone"}

PTypeOK ==
    /\ K!TypeOK
    /\ stop \in {"no", "idle", "halt", "fault", "assert", "undefined"}
    /\ bm \subseteq Pids
    /\ parentID \in [Pids -> Pids \cup {-1}]
    /\ exitcode \in [Pids -> Codes \cup {0}]
    /\ numwait \in [Pids -> Nat]
    /\ destroyed \subseteq Pids
    /\ name \in [Pids -> Names \cup {"main"}]
    /\ frames \in [Pids -> SUBSET Frames]
    /\ physMap \subseteq Frames
    /\ fds \in 0 .. MaxFds
    /\ pc \in [Pids -> Labels]
    /\ arg \in [Pids -> Names \cup {"main"}]
    /\ id \in [Pids -> Pids \cup {-1}]
    /\ reg2 \in [Pids -> Pids \cup Codes \cup {-1, 0}]
    /\ joins \in [Pids -> 0 .. 2]

\* Memory protection: no physical page is in the page tables of two
\* processes, and gPhysPageBitMap marks exactly the pages in use, so that a
\* page is neither handed out twice nor lost when its process ends
\* (AddrSpace::AddrSpace and ~AddrSpace; addrLock, which should guard the
\* bitmap, is a Lock whose Acquire does nothing, synch.cc:105).
PagesOwned ==
    /\ \A i, j \in Pids : i # j => frames[i] \cap frames[j] = {}
    /\ physMap = UNION {frames[i] : i \in Pids}

Loading == {p \in Pids : pc[p] \in {"ExecCheck", "ExecMutex", "ExecLoad",
                                    "ExecYield", "ExecMutexV", "ExecReturn"}}

\* Two programs are never loaded at the same time, however Exec is
\* interrupted and although PCB::Exec gives up the CPU in the middle: bmsem
\* is free or exactly one process is between its P and its V
\* (PTable::ExecUpdate; PTable.h:21 names this as what bmsem is for).
LoadExclusive == value[Bmsem] + Cardinality(Loading) = 1

HoldsMutex(i) ==
    {p \in Pids : \/ pc[p] \in {"ExecLoad", "ExecYield", "ExecMutexV", "JoinIncV"}
                      /\ id[p] = i
                  \/ pc[p] = "ExitDecV" /\ p = i}

\* The counter numwait is never changed by parent and child at once: a PCB's
\* mutex is free or at most one process is inside it (PCB::Exec, IncNumWait,
\* DecNumWait).  It is neither when PCB::Exec has failed.
MutexExclusive ==
    \A i \in Pids : value[Mutex(i)] + Cardinality(HoldsMutex(i)) <= 1

\* When Join has passed JoinWait, the child has stored its code and is still
\* held in ExitWait: the parent reads the code of a PCB that exists and that
\* nobody changes any more (PTable::JoinUpdate against ExitUpdate).
JoinReadSafe ==
    \A p \in Pids : pc[p] = "JoinRead" =>
        /\ id[p] \in Pids
        /\ pc[id[p]] = "ExitWait"
        /\ value[Exitsem(id[p])] = 0
        /\ id[p] \notin destroyed

\* "Assume no one is still waiting on the semaphore!" (synch.cc:45-47) holds
\* when ~PCB deletes its three semaphores, ...
NobodyWaits(i) ==
    \A t \in Pids : inP[t] \notin {Joinsem(i), Exitsem(i), Mutex(i)}

\* ... for every child that is joined at most once.
DestroyedUnused ==
    \A i \in Pids : joins[i] < 2 =>
        /\ i \in destroyed => NobodyWaits(i)
        /\ stop = "undefined" => id[current] # i

\* Nobody waits for ever behind somebody who waits: the machine runs out of
\* runnable threads only when a process joins a child a second time, or one
\* that Exec could not load; Exit, Exec and a first Join never wait in a
\* circle, though each P is taken in the middle of another thread's call.
IdleExplained ==
    stop = "idle" =>
        \E p \in Pids :
            /\ pc[p] \in {"JoinInc", "JoinWait"}
            /\ joins[id[p]] = 2 \/ pc[id[p]] = "none"

\* The comment of ~Semaphore for every child, however often it is joined.
NobodyWaitsOnDestroyed == \A i \in destroyed : NobodyWaits(i)

\* PTable::Remove takes the id of a finished process out of the table
\* (PTable.h:32), at the latest when its Thread object is gone.
FinishedIsRemoved == \A i \in Pids : status[i] = "DELETED" => i \notin bm

\* Exec starts no process without memory: for want of memory it prints
\* "Insufficient memory!" and returns -1 (PCB.cc:93-98).
StartedHasMemory == \A i \in Pids : pc[i] = "user" => frames[i] # {}

-----------------------------------------------------------------------------
(* The table implements the life cycle of processes. *)

Life(i) ==
    CASE pc[i] = "none" -> "none"
      [] pc[i] = "ExitWait" /\ value[Exitsem(i)] = 0 -> "exited"
      [] pc[i] = "ExitWait" /\ value[Exitsem(i)] # 0 -> "reaped"
      [] pc[i] \in {"ExitDec", "ExitDecV", "Remove", "gone"} -> "reaped"
      [] OTHER -> "live"

LC == INSTANCE ProcessLifecycle
        WITH Ids <- Pids,
             life <- [i \in Pids |-> Life(i)],
             parentOf <- [i \in Pids |-> IF pc[i] = "none" THEN -1 ELSE parentID[i]],
             codeOf <- exitcode,
             answer <- reg2

\* Exec returns the id of a process that exists and whose parent the caller
\* is; Join returns the code its child exited with, after the exit and to
\* one call only; nothing else changes what they returned.
ImplementsLifecycle == LC!LifeSpec

-----------------------------------------------------------------------------
(* Liveness. *)

\* The machine runs on, the timer (-rs) interrupts, and a thread that gets
\* the CPU executes at least up to the next tick: the timer fires in OneTick
\* only, after an instruction or at the end of a section with interrupts off.
PFairness ==
    /\ WF_pvars(Dispatch)
    /\ WF_pvars(TimeSlice)
    /\ \A p \in Pids : SF_pvars(current = p /\ KernelStep)

PFairSpec == PSpec /\ PFairness

\* The machine stopped for a reason other than that everyone waits.
Stopped == stop \notin {"no", "idle"}

\* A first Join returns once the child has exited, in whatever order the two
\* come (joinsem and exitsem, PTable.cc:88-149).
JoinReturns ==
    \A p \in Pids :
        (/\ pc[p] \in {"JoinInc", "JoinIncV", "JoinWait", "JoinRead"}
         /\ joins[id[p]] = 1
         /\ Life(id[p]) = "exited")
        ~> (pc[p] = "user" \/ Stopped)

\* A child whose parent has its code gives back its pages and its thread
\* finishes (ExitUpdate after ExitWait, Remove).
ReapedIsGone ==
    \A i \in Pids : Life(i) = "reaped" ~> (pc[i] = "gone" \/ Stopped)

\* The lock on the table is always given back, whichever way Exec ends.
LoadEnds == value[Bmsem] = 0 ~> (value[Bmsem] = 1 \/ Stopped)
=============================================================================
