# A TLA+ development of NachOS

The repository holds two copies of a teaching operating system that runs user
programs on a simulated MIPS machine: `nachos-1,2/code`, an earlier stage, and
`nachos-3/code`, which adds processes, a descriptor table per process, named
semaphores and mail. `nachos-3` is what is modelled; `nachos-1,2` is modelled
where it differs (`EarlyFiles`, parts of `IntCalls`, `Executables` and
`UserPrograms`). Most files are the same in both trees, and a definition that
translates one of those may name either copy in `PROJECT.json`. Paths below are
relative to `nachos-3/code` unless they begin with another tree.

## The system and its parts

| Component | State | Operations | Modelled in |
|---|---|---|---|
| Threads (`threads/thread.cc`, `switch.c`) | `status`, stack, registers, `threadToBeDestroyed` | `Fork`, `Yield`, `Sleep`, `Finish`, `SWITCH` | `Kernel`, `ContextSwitch` |
| Scheduler (`threads/scheduler.cc`, `list.cc`) | `readyList`, `currentThread` | `ReadyToRun`, `FindNextToRun`, `Run` | `Kernel`, `LinkedList` |
| Semaphores (`threads/synch.cc`) | `value`, `queue` | `P`, `V` | `Kernel`, `CountingSemaphore` |
| Interrupts and timer (`machine/interrupt.cc`, `timer.cc`) | level, pending list, clock | `SetLevel`, `OneTick`, `CheckIfDue`, `Idle`, `Schedule` | `Kernel`, `DeviceClock` |
| Process table (`threads/PTable.cc`, `PCB.cc`) | `bm`, `pcb[]`, `bmsem`; per PCB three semaphores, exit code, parent | `ExecUpdate`, `ExitUpdate`, `JoinUpdate`, `Remove` | `Processes`, `ProcessLifecycle` |
| Address spaces (`userprog/addrspace.cc`, `bitmap.cc`) | `pageTable`, `gPhysPageBitMap`, main memory | constructor, destructor, `SaveState`, `RestoreState` | `Processes` (pages), `Executables` (bytes), `Machine` (translation), `BitMaps` |
| Calls `Halt`, `Exec`, `Join`, `Exit` (`userprog/exception.cc`) | registers | the four cases | `Processes` |
| File calls (`exception.cc`, `filesys/fdtable.cc`) | `list`, `flags`, the `OpenFile` objects | `CreateF` ... `CloseF` | `FileCalls`, `OpenFile`; `EarlyFiles` |
| Console calls (`exception.cc`) | buffers | `ReadInt`, `PrintInt`, `ReadString`, `PrintString`, `ReadChar`, `PrintChar` | `IntCalls`, `Console` |
| User semaphores (`threads/STable.cc`, `Sem.cc`) | `bm`, `semTab` | `Create`, `Wait`, `Signal` | `UserSemaphores` |
| Synchronous console, lists, disk (`synchcons.cc`, `synchlist.cc`, `synchdisk.cc`) | semaphores, locks that do nothing | `Read`, `Write`; `Append`, `Remove`; `ReadSector`, `WriteSector` | `Console`, `PostOffice`, `Disk` |
| Native file system (`filesys/`) | bitmap, directory, headers, on disk and in memory | `Create`, `Open`, `Remove`, `ReadAt`, `WriteAt` | `FileSystem`, `FileStore`, `OpenFile` |
| Post office (`network/post.cc`) | mailboxes, one send semaphore | `Send`, `Receive`, `PostalDelivery` | `PostOffice` |
| Devices (`machine/console.cc`, `disk.cc`, `network.cc`) | one buffer and one request each | poll, complete | `Console`, `Disk`, `PostOffice` |
| MIPS simulator (`machine/mipssim.cc`, `translate.cc`) | registers, memory, the delayed load | `OneInstruction`, `ReadMem`, `WriteMem` | `Instructions`, `InstructionCodes`, `MemoryAccess`, `Processor`, `Machine` |
| Executable tools (`bin/`) | COFF, NOFF and flat files; a second simulator | `coff2noff`, `coff2flat`, `main`, `runprogram` | `Executables`, `Conversions`, `StandAlone`, `Instructions`, `InstructionCodes` |
| User programs (`test/`) | files they share | the water taps, the sorts | `UserPrograms` |
| Host interface (`machine/sysdep.cc`) | files and sockets of the host | the wrappers, the stub `OpenFile` | `HostFiles`, `PostOffice`, `Console` |
| Start-up and self-tests (`threads/main.cc`, `system.cc`, `filesys/fstest.cc`) | the globals | `Initialize`, `main`, `Cleanup`, the tests | `StartUp` |
| C++ primer (`../c++example`) | stacks | `Push`, `Pop` | `Stacks` |

How they interact. A user program traps into `ExceptionHandler`, which calls the
process table, the file system, the console or the table of semaphores; these
block and release processes with semaphores; a semaphore puts its threads to
sleep and makes them ready; the scheduler picks the next one and switches the
machine's registers and page table; interrupts arrive between instructions, or
while the machine idles, and their handlers call `V` or ask for a time slice.
Everything shares one CPU. What makes the system hard is the order of things:
where a thread may lose the CPU (each `P`, `V`, `Yield`, each user instruction),
what another does meanwhile, who is left to wake whom; for the disk, between
which two writes the machine stops; for mail, what the network loses.

What makes each part correct: a thread is in one place at a time and gets its
turn; a semaphore loses neither a permit nor a waiter; a thread object is deleted
once and never while it can run; a physical page has one owner, and no process
sees another's registers or memory; programs are loaded one at a time and come
into memory as they were linked; `Join` returns the code of its own child, once;
a descriptor reaches its own open file; a sector belongs to one file, also after
a stop; mail arrives in order and once or not at all; an interrupt is neither
lost nor early; a number printed is the number read. `PROJECT.json` lists the
hazards at their lines.

## The modules

An operator whose comment begins with "A slip" is not part of a specification. It
is a definition of the module with the kind of mistake that is easily made at
that place, and shows that the property named with it in `PROJECT.json` does fail
when the code is wrong.

### `Kernel`

Threads, scheduler, semaphores and the interrupts they meet. `Threads`, `Sems`
and `InitVal` are constants without a bound; every property is stated for all
of them. The thread's own program is left open: whoever is `currentThread` may
call any operation, so the module covers every client of the kernel.

The code between `SetLevel(IntOff)` and the end of the section runs alone, save
that it may `Sleep` in the middle; an action is such a section, or the part up to
the `Sleep`.

| Action | Code |
|---|---|
| `Fork(t)` | `Thread::Fork`, with `ReadyToRun` |
| `Yield` | `Thread::Yield`, called by the thread or by `OneTick` for the timer |
| `Finish` | `Thread::Finish` up to the loop of `Sleep` |
| `Switch` | the loop of `Sleep` once a thread is ready: `FindNextToRun`, `Scheduler::Run` |
| `Wait(s)`, `Take(s)` | one turn of the `while` of `P`, and its end |
| `V(s)` | `Semaphore::V` |
| `StartIO(s)`, `Interrupt(s)` | a driver's `Interrupt::Schedule`; the interrupt, whose handler calls `V`, from `OneTick` or from `Idle` |
| `IdleHalt`, `Halt` | `Interrupt::Idle` with nothing to wait for; `Interrupt::Halt` |

Details kept because the properties turn on them: `P` looks at `value` again when
its thread is dispatched, with interrupts off (`inP`), and another thread may
have taken the permit first; what follows `SWITCH` in `Scheduler::Run`, the
deletion of `threadToBeDestroyed`, runs only in a thread that has run before
(`started`), because a new thread begins in `ThreadRoot`; the thread that idles
in `Sleep` may be the one that is woken, and then switches to itself. One thing is
left out: `Idle` fires all interrupts that are due, and in the model those behind the
first that readies a thread come after the switch, as they may in `OneTick`.

`CountingSemaphore` is the promise of `synch.h`: a natural number, an atomic `P`
and `V`, a set of waiting threads. `ImplementsCountingSemaphore` is the refinement.

### `Processes`

Every step is a step of `Kernel` (by `INSTANCE`, with the process ids for the
threads and `bmsem` and three semaphores per PCB for the semaphores) taken at a
program counter of `PTable.cc` and `PCB.cc`. The counter `pc[p]` stops at each
`P`, `V` and `Yield` of the code; the statements in between cannot be
interrupted, since simulated time advances only in user instructions and when
interrupts are turned on again (`Interrupt::SetLevel`, `OneTick`), and are one
action with the call they end in. User programs are any sequence of `Exec`,
`Join`, `Exit` and `Halt`.

Kept as the code has them: `ExecUpdate` opens the file once to see that it exists
and never closes it; `PCB::Exec` opens it again and yields after `Fork` while it
holds both `bmsem` and the PCB's `mutex`; the failure of the second open leaves
the slot marked and the mutex taken; `Lock::Acquire` does nothing; the address
space of a program that does not fit in the free pages has none; `Remove` ends in
`Finish` and its last two statements are unreachable. A call on a semaphore that
`~PCB` has deleted is undefined; the model stops there (`UseAfterDestroy`).

`ProcessLifecycle` is the promise of `syscall.h` with no table, semaphore or
scheduler: a process is created by a parent, leaves with a code, and the parent
is given that code once. `ImplementsLifecycle` is the refinement; it maps a
process to "exited" while it waits in `ExitWait` for its parent.

### `FileSystem`, `FileStore`

The native file system as three things on disk, the bitmap, the directory and the
headers, and the copies of them an operation works on in memory. `Create` and
`Remove` are one action per sector they write (the directory's two sectors
separately: `SplitEntry` is the entry that lies across both), in the order of
`filesys.cc`: header, directory, bitmap for `Create`; bitmap, directory for
`Remove`. `Crash` may come between any two; `Reboot` reads the disk again. A
header is the set of its data sectors. Files stay open while they are removed, and
their sectors go to other files.

A stop is *exposed* when the disk then has a file whose sectors the bitmap has
free: in `Create` between the directory and the bitmap, in `Remove` between the
bitmap and the directory. `sound` is false from an exposed stop on, and from a
write through a removed file that hits sectors in use. A file with more sectors
than a header has room for is written past the header's end; the model stops there
(`wild`: what memory then holds is not known), and the machine at the failing
`ASSERT` of `Deallocate` (`aborted`).

On a damaged disk the sector of an entry may hold the bytes of another file. `Open`
and `Remove` take them for a header all the same (`Fetched`), whatever sectors they
name (`Misread`: any sets of numbers, those of the bitmap's and the directory's
sectors and numbers of no sector among them). `Remove` then clears those bits and
writes the bitmap and the directory back; an open file writes through the numbers it
has. Only when the bitmap's or the directory's own sectors, or their headers, have
been overwritten is the model at an end (`wild`), for every later operation then
reads that. `intact` is false from the first such header on.

A stop while the disk is being formatted is not modelled: `Init` is what the
formatter leaves.

`FileStore` is the promise: files of a fixed size under unique names on a disk of
limited capacity, refused exactly when the name, the entries or the sectors run
out; an operation takes effect as a whole, or a stop during it decides whether it
has. `ImplementsFileStore` is the refinement: the abstract files are those of the
directory an operation started from until its last write is done.

### `OpenFile`, `FileCalls`, `EarlyFiles`

`OpenFile` has `ReadAt` and `WriteAt` as pure operators: the native one, which
reads the first and the last sector before it writes whole ones and never grows a
file, and the stub's, which does what the host does.

`FileCalls` has the six file calls over the descriptor tables, in both builds
(`stub`). An `OpenFile` lives at an address between `new` and `delete`, and an
address may be handed out again; `FDTable::Close` leaves the pointer in the table.
In the native build a write is a step for each sector that `WriteAt` reads and for
each that it writes (`ReadEdge`, `PutSector`), since every one of them blocks, and
`writing` is what the process has in hand meanwhile: request, buffer, sectors to go.
Another process may write the same sector in between, and what it wrote is then
undone: nothing in the code prevents that, so `WritesInPlace` does not say otherwise.
(`stale` is the history of it.) That the lock of `SynchDisk` does nothing matters
before that: two requests that overlap in time stop the machine by the `ASSERT` of
`Disk`, which is module `Disk`'s matter, and the interleavings here include all that
get past it. The other calls are one step each: `ReadF` and `OpenF` use their own
table and offset and the length of a file, which does not change; two `CreateF` at a time, for which
`filesys.cc` (line 33) has no synchronization, are left out.

A use of a pointer to nothing makes the state `wild`, from which nothing is
promised; `sound` records whether a process had misused a descriptor before (a
seek or a `Close` of one it had not opened, or a name `CreateF` refuses, which it
then goes on to use). `SeekF` goes on into `CloseF`, as the code does.

`EarlyFiles` is the table of the stage before: one for all, with an `index` that
only grows and is tested against 10, one more than the last slot.

### `Console`, `Disk`, `PostOffice`, `DeviceClock`, `UserSemaphores`

Each has a device with its poll and completion interrupts, the driver above it and
the threads in the driver; semaphores are counters here, as `Kernel` shows them to
be, and a thread can be switched after each `P` and `V`. They share no state, so
`MCDevices` exercises one of them per behaviour.

- `Console`: `PutChar`, `CheckCharAvail`, `WriteDone`; `SynchConsole::Read` and
  `Write` with their four semaphores; the calls that print, which are sequences of
  `Write`s, and those that read.
- `Disk`: head, track buffer, seek and rotation; `ReadSector` and `WriteSector`
  under a lock that does nothing, so that `overlap` can become true, and then the
  `ASSERT` of the disk can fail or one thread take the other's answer.
- `PostOffice`: several machines, each with a socket, one packet buffer, a postal
  worker and mailboxes that are `SynchList`s; `Condition::Wait` aborts. Packets are
  lost; machines stop and start again, and their sockets are lost with them.
- `DeviceClock`: the list of pending interrupts sorted by time, `OneTick`,
  `CheckIfDue` with `advanceClock`, `Idle`, and the timer that keeps rescheduling
  itself but must not keep the machine awake.
- `UserSemaphores`: `STable` and `Sem`; a name of 32 bytes or more is overwritten
  by the pointer behind it, and the entry then answers to the name, to another that
  agrees with it in 32 characters, or to none.

### `Processors`, `Processor`, `Machine`

`Processor` is `OneInstruction` on registers and an address space: delayed loads
and branches, traps, address errors. What instructions compute (`Alu`) and how
they are encoded (`Decode`) are parameters. `Machine` is the one machine all
processes share: its registers, memory and page table, the user registers each
`Thread` keeps, the frames of each address space; `Switch` saves and restores as
`Scheduler::Run` does, and a new thread sets its registers itself in `ExecBridge`.
`Processors` is the abstraction: every process has a processor and a memory of its
own. `RunsAlone` is the refinement.

### Computations

Operators, checked on each of a set of inputs against a reference definition by
`MCMachine`:

| Module | Computes | Against |
|---|---|---|
| `Instructions` | the arithmetic of `mipssim.cc` and of `bin/execute.c`, on words of `W` bits | arithmetic on integers, and each other |
| `InstructionCodes` | the three tables of opcodes, with the disassembler's operands | each other |
| `MemoryAccess` | byte, half and word accesses, `LWL` ... `SWR` | what was stored is read back |
| `IntCalls` | `ReadInt` and `PrintInt`, of both stages | decimal notation |
| `Executables` | where each byte of a COFF file goes, by `coff2noff`, the constructor of `AddrSpace`, or `coff2flat` | the layout of the sections |
| `Conversions` | the two converters when something fails or they are stopped | no output that only looks whole |
| `StandAlone` | options, loader, arguments and run of the second simulator | `Processor`, and what a program should find |
| `ContextSwitch` | `SWITCH`, `ThreadRoot`, `StackAllocate` on MIPS, SPARC, HP, i386 | each thread goes on with its registers; `ThreadRoot` calls begin, function, finish |
| `LinkedList`, `BitMaps`, `Stacks` | the data structures with their pointers and words | sequences, sets, last-in first-out |
| `HostFiles` | the wrappers of `sysdep.cc`, the stub's `OpenFile`, the disk's file | objects with an offset each; sectors |
| `StartUp` | the two passes over the command line in every build; the self-tests | what the usage note says, and what the tests are for |
| `UserPrograms` | the water taps, the sorts, the matrix product | what they are for |

`Computations` composes those that are proved right for every input
(`Instructions`, `MemoryAccess`, `LinkedList`, `BitMaps`, `IntCalls`, `Executables`,
`Conversions`) and states their invariants; a behaviour is one computation `part` on
one `input`. `MCMachine` extends it with the others and gives the inputs. The
operators on bits of C are constants (`BitAnd`, `BitOr`, `BitXor`): the community
module `Bitwise`, which `MCMachine` has in their place, is `RECURSIVE`, and no
module with a proof may reach it.

## The runs

| Run | Instance | What it shows |
|---|---|---|
| `kernel` | 3 threads, 2 semaphores, values up to 2, one interrupt under way per semaphore | types, placement, wake-ups, destruction, the refinement, and liveness |
| `kernel_reap` | 3 threads, 1 semaphore | a finished thread can be forgotten: found violated |
| `processes` | 3 slots, 3 pages, programs of 1, 2 and 4 pages and a missing one, 3 descriptors, 2 exit codes | memory, locks, Exec/Exit/Join, deadlock, the refinement |
| `processes_live` | 3 slots, one program | `Join` returns, a reaped child goes, `bmsem` is given back |
| `process_slots` | 2 slots | a finished process keeps its slot: found violated |
| `process_join_twice` | 2 slots | a second `Join` waits on a deleted semaphore: found violated |
| `process_memory` | 2 slots, 1 page | `Exec` starts a process without memory: found violated |
| `filesys` | 9 sectors, 2 entries, 3 names, files of 0, 2 and 3 sectors, one open file; bytes taken for a header name a sector of the bitmap, a data sector or none | which stops damage the disk, that no other step does, and the refinement |
| `files` | one process with 4 descriptors (2 beside the console's) in both builds, and two with one file descriptor each in the native one; 2 addresses, files of 3 bytes in sectors of 2; the earlier stage with 2 names | descriptors own their files, writes stay in place although their sectors are read and written one by one, the earlier table is used once |
| `files_seek` | 2 processes | a seek closes a descriptor: found violated |
| `devices` | 2 threads at the console, 2 at a disk of 2 tracks, 2 machines with 2 senders, 3 interrupts to come, 2 processes with a table of 2 semaphores | what the semaphores protect, what the empty lock does not, and that who waits is served |
| `machine` | 2 processes on 3 pages with a word each; and about 400000 inputs | processes run alone; the computations |

The bounds. Three threads are a runner, a sleeper and one more who can take the
permit from under it, or a dying thread, a new one and a third that dies after
it; two semaphores show that the queues do not mix. `MaxValue` and `MaxPending`
are guards of `MCKernel`, not of the kernel: nothing in the code bounds a value.
Three slots give a grandchild, and a table that is full; the pages and programs
give a program that fits, one that fits only alone, one that never fits. The
fourth `Exec` meets the end of the descriptors, the case of the second `Open`.
Five of the nine sectors are the headers of bitmap and directory, the bitmap's
sector and the directory's two; the other four hold a file of two sectors and an
empty one, but not two of two; 3 is a size that no header has room
for. Two addresses are the fewest with which a freed one is handed out again while
another is in use; a process is enough for that, since a table belongs to one
process. Two processes with a descriptor each, on one file of three bytes in two
sectors, are enough for writes to meet in a sector, to start in the middle of one and
to need two (the proofs are for any number). Of two processes that have misused a
pointer, only a write that this has hit is followed further. A
console line of a character with the code of `Eof`, an empty one and one with a
newline or a Ctrl-A are the cases `SynchConsole::Read` distinguishes. Words of 4
bits have each of the cases of sign, carry and overflow, and halves; the immediate
operand is half a word, as in the machine. Words of the bitmaps have 3 bits, so that
maps of up to 5 have a second, shorter word. `MaxInt` is 127 with lines of up to four
characters, so that lines on both sides of the limit occur; three digits are to 127
what ten are to 2^31.

`CHECK_DEADLOCK FALSE`: the machine does stop, by `Halt`, by an exception, by a
failed assertion, or when no thread is ready. In `Processes` the last case is the
action `Idle`, and `IdleExplained` says for which programs that may happen; in the
other modules the bounds on mail, starts, ticks and the like also end behaviours.

The properties worth knowing:

- `ThreadPlacement`: status, ready list and queues agree. Three source files
  keep them in separate calls.
- `NoLostWakeup`: while somebody sleeps in the queue of a semaphore, `value` is
  at most the number of threads woken and not yet dispatched.
- `LoadExclusive`, `PagesOwned`: two loaders never overlap and no page has two
  owners, by `bmsem` alone: `addrLock` protects nothing.
- `JoinReadSafe`: when a parent reads the exit code, its child is held in
  `ExitWait`.
- `DestroyedUnused`, `IdleExplained`: nothing goes wrong with a PCB's semaphores,
  and nobody waits for ever, unless a program joins a child twice or joins the id
  of an `Exec` that failed half-way.
- `ExposedExactly`, `Consistent`, `NeverAborts`: of the stops between two writes,
  exactly those in two short intervals damage the disk. Removal of open files
  leaves bitmap, directory and headers in agreement; a file too large for its
  header, and a write through a removed file over sectors in use, do not.
- `MetadataSafe`: exposed stops and writes through removed files may damage the
  disk, so that files share sectors; but until the bytes of a file are taken for a
  header (or a header is filled past its end) no file is given a sector of the bitmap
  or of the directory, and nothing overwrites one. `NeverAborts` says that on a disk
  that is not damaged no bytes are taken for a header.
- `OpenFilesCurrent`: an open file has the header that is on disk until removed.
- `DescriptorsOwn`: `FDTable::Close` leaves a dangling pointer, and no program that
  keeps to its own descriptors reaches it.
- `WritesInPlace`: a step changes a file only through a descriptor open for writing,
  and only bytes of the request, or bytes of a sector that another process has
  written since this one read it; and no byte becomes what a buffer of the kernel
  happened to hold.
- `EarlySafe`: the earlier table never uses a slot twice.
- `ConsoleSafe`: `PutChar`'s assertion holds, the characters of one `Write` stand
  together, nothing typed is lost or doubled between keyboard and reader.
- `DiskSafe`: threads that do not overlap in the driver get their own answers, and
  the latency computed is that of a disk that turns. (`overlap` is reachable, and
  then nothing is promised: the lock of `SynchDisk` does nothing.)
- `MailSafe`: every sender is answered although senders take each other's answers;
  the buffer is announced exactly while it is full; mail of one sender to one box
  arrives in order and at most once, across losses and restarts.
- `ClockSafe`: interrupts fire in order, once, never early, and late by less than
  a tick of the kernel (the timer by one), and the machine halts for want of work
  only when no device has anything to report.
- `SemaphoresSafe`: names are found, waiters can be signalled, grants are bounded
  by first value and signals.
- `DevicesServe`: a `Write` ends, a thread alone at the disk is answered, a packet
  that is not lost is delivered.
- `RunsAlone`: no process can tell that it shares the machine.
- `ComputationsRight`: every instruction computes what arithmetic defines in both
  simulators, but for the differences of `Differ`; what a store has written, the loads
  of its kind read back, and it changes no other byte (`InstructionsRight`). A list is
  a sequence and a bitmap a set after any calls; `ReadInt` and `PrintInt` are exact, in both stages
  (`LibraryRight`).
- `ImageLoaded`: linker, converters and loaders agree on every byte of a program, and a
  conversion that fails or is stopped leaves nothing that looks whole.
- `ProgramsRight`: the rest of the table of computations above, the programs around
  the kernel (`ToolsRight`) and those that run on it (`ExamplesRight`). Where the code is known to differ from the reference, the property names
  the difference (`Differ`, `CodesAgree`, `ReadAsMeant` and others), so that the
  list is checked to be complete over the inputs.

## Fairness

`Fairness` (`Kernel`) and `PFairness` (`Processes`) assume the simulator runs
(`Switch`, and a `P` that resumes, are weakly fair) and that NachOS was started
with `-rs`, which keeps the timer scheduled (`Timer::TimerExpired`): a running
thread is sent to `Yield` again and again. Without `-rs` a program that loops
keeps the CPU and no thread's progress is promised. Interrupts are strongly fair:
a device interrupt that is due fires on the first tick with interrupts on, and
between two sections with interrupts off there always is one. A process that gets
the CPU inside the kernel executes up to its next `P`, `V` or `Yield` before the
timer can act, and so its kernel steps are strongly fair while it is current.
Nothing is assumed of user programs: no process has to exit, join or halt.

In `MCDevices` the completion of a request, the poll for packets and the steps of
the threads in the drivers are weakly fair: a request schedules its interrupt at
once, `CheckPktAvail` schedules itself again for ever, and a thread in a driver
that can go on stays ready until it is dispatched, since it runs without an end
only through kernel code. Nothing makes anybody type, print, send or start a machine.
After a failed assertion there is no fairness, since there is no machine.

Two things do not hold and are not claimed. A thread in `P` may wait for ever
although permits keep coming, since a running thread may take each one before the
woken thread is dispatched; so an `Exec` may wait for ever behind others.
And a child that nobody joins stays in `ExitWait` for ever.

## What is proved

`KernelProofs` proves, for every finite set of threads, every set of semaphores
and every natural initial value:

- `TypeCorrect`: `Spec => []TypeOK`, so that a value is never negative;
- `PlacementCorrect`: `Spec => []ThreadPlacement`;
- `DestructionSafe`: `Spec => []DestroySafe`;
- `WakeupsKept`: `Spec => []NoLostWakeup`;
- `KernelCorrect`: all of them together, `KernelInv`;
- `SemaphoresImplemented`: `Spec => ImplementsCountingSemaphore`.

The only assumption is `KernelAssumption`. The argument: the invariant is proved
in layers, each by one lemma per action. Types first. Then placement together
with destruction: neither is inductive alone, because `Scheduler::Run` deletes
`threadToBeDestroyed` and placement needs that this thread is on no list, while
destruction needs that a finished thread is nowhere. Lemmas on `Append`, `Head`
and `Tail` say what they do to the range of a sequence without repetitions, and the
rest is about sets. Wake-ups come last: a `V` adds one to `value` and moves one
thread from the queue to `Woken`; a thread that takes a permit leaves `Woken` or
was never in it, and a sleeper joins a queue only when `value` is 0; the
cardinalities use the finiteness of `Threads`. For the refinement, `inP` is the
set of waiting threads seen from the other side (`WaitingUpdate`), and each
action is one abstract step or none.

`ProcessProofs` proves, for every size of the table, number of pages and
descriptors, set of programs and set of exit codes:

- `PTypeCorrect`: `PSpec => []PTypeOK`;
- `ProcessesAreThreads`: `PSpec => K!Spec`, so that the kernel's theorems hold of
  processes;
- `PagesCorrect`: `PSpec => []PagesOwned`;
- `LoadsExclude`: `PSpec => []LoadExclusive`;
- `MutexesExclude`: `PSpec => []MutexExclusive`;
- `JoinReadsSafely`: `PSpec => []JoinReadSafe`;
- `DestructionUnused`: `PSpec => []DestroyedUnused`;
- `IdleIsExplained`: `PSpec => []IdleExplained`;
- `LifecycleImplemented`: `PSpec => ImplementsLifecycle`.

The only assumption is `ProcessAssumption`. The argument: the kernel's type lemmas
are instantiated for processes (`Assumed` shows that process ids and semaphores
satisfy `KernelAssumption`, `SameNext` that both instances of `Kernel` mean the
same). `StepIs` then reduces the thirty actions to what a step does to `pc`, `value`
and `id`, and most invariants are proved over that short list. Types need `IdKnown`:
at each label where the code dereferences `pcb[id]` the id is one. Pages need
`NewIsEmpty`: the thread that `Fork` starts had none. Exclusion by `bmsem` and by a
`mutex` is a sum, the value of the semaphore and the number of processes inside,
which every step keeps (equal to 1 for `bmsem`) or never raises above 1 (for a
`mutex`, since a failed `PCB::Exec` loses it). The hand-shake of `Join` and `Exit` is a token
(`OneToken`): a process in `ExitWait` owns exactly one, which is in its `joinsem`,
then in the hand of one parent in `JoinRead`, then in its `exitsem`; everybody else
owns none. So a parent in `JoinRead` holds it, its child is in `ExitWait`, and by
`DestroyedGone` its PCB is alive. The refinement needs in addition `ChildOf`: the id
that `Exec` returns or `Join` reads is marked and its parent is the caller, and a
slot that is not marked was never used. Then `CallExit` is `Leave`, `JoinRead` is
`Reap`, `ExecLoad` is `Spawn`, a call is `Ask`, a result is `SpawnReturns` or
`Refuse`, and every other step leaves the abstract state as it is (`LifeKept`,
`ParentsKept`, `CodesKept`, `AnswersKept`).

The last two need the kernel and the table at once (`TableInv`). `SleepsAtP` ties
them together: a process sleeps in a `P` only at a label where the code has one, and
in that semaphore (`WaitsFor`). For `DestroyedUnused`, `JoinedOnce` follows the
joins of a child: before the first has come nobody is at any of `Join`'s labels with
its id, after the first at most one is, and once its PCB is deleted none is, unless
there was a second; `NobodyComes` concludes. `IdleExplained` is a proof that there is
no circle. Suppose everybody waits and no join explains it (`NoCircle`). Then nobody
is between a `P` of a `mutex` or of `bmsem` and its `V`, for nothing in between waits,
so all of these are free (`MutexCounted`, for PCBs whose loading has not failed, and
`LoadExclusive`) and nobody waits for one. What is left is `JoinWait` and `ExitWait`.
Process 0 never ends, so it is in `JoinWait`. The child somebody awaits there for the
first time is not in `ExitWait`, for the one token of the two would be in its
`joinsem` (`OneToken`), and it has not been released (`JoinedOnce`); so it is itself
in `JoinWait`. But ids grow from parent to child (`SlotsInOrder`: an id is given out
once, in order), and of those in `JoinWait` the one with the greatest id
(`EndOfChain`) would wait for one with a greater id still.

`FileSystemProofs` proves, for every number of sectors, entries and sectors per
header, every set of names and sizes and wherever the directory's sectors divide it:
`FSTypeCorrect`, `DiskConsistent` (`Consistent`), `ExposureExact`
(`ExposedExactly`), `MetadataKept` (`MetadataSafe`), `NoAborts` (`NeverAborts`)
and `OpenFilesOwn` (`OpenFilesCurrent`). The only assumption is `FSAssumption`.
The argument: `AgreeOn(S, ...)` says that the files of the entries in `S` are
disjoint, have headers, and fill a bitmap; lemmas say what adding an entry, dropping
one and changing things outside do to it. `Consistent` holds only between
operations; the invariant `DiskInv` says what takes its place at each step of one:
while a file is created all *other* files agree with the bitmap on disk, and the new
one is made of sectors it has free (`CreatingOK`); while one is removed the others
agree with the bitmap in memory, which is the one on disk from its write on
(`RemovingOK`); open files have entries nobody is removing (`OpenedOK`). All of it
is conditional on `sound`. `MetadataSafe` is not, but on the weaker `intact`, and
has an invariant of its own (`MetadataInv`), which adds that the copies in memory are
as safe as those on disk. `NoAborts` needs both: what is `sound` is `intact`.

`FileStoreImplemented` (`Spec => ImplementsFileStore`) adds `NameInv`: entries in use
bear names of files, and while one is removed the copy in memory still says which.
From these each action is one step of `FileStore` or none (`StoreStep`): the write of
the last sector is the abstract `Create` or `Remove`, a `Crash` decides whether the
one under way has taken effect, and after an exposed stop the abstract state stays
what it was. That a request is refused only for a reason is a count: the free
entries are those no name has, and the sectors left are those of no file.

`FileCallsProofs` proves, for any processes, names, addresses, size of the table,
bytes and lengths: `FCTypeCorrect`, `OwnershipKept` (`DescriptorsOwn`) and
`WritesStayInPlace` (`WritesInPlace`), from `FCAssumption` and
`SectorSizeAssumption`. Ownership is proved as an invariant that forgets whether
calls were sound (`Owned`): descriptors in use and objects that live correspond one
to one, so that `delete` frees what nobody else has and `new` returns an address
that no descriptor in use holds. A process in the middle of a write keeps its
descriptor (`CallsOpen`) and, while calls are sound, its object (`CallsOwn`). For the
writes themselves the invariant is about buffers (`BuffersTrue`): outside the
request, a byte of a sector that needs no more reading is in the buffer as it is in
the file, unless the sector has been overtaken; a sector that is not read in has no
byte outside the request (`EdgesOutside`). With `NoJunk`, that no file has an unset
byte, each `PutSector` is in place (`PutSectorInPlace`), for any number of processes.
`EarlyIsSafe` (`EarlySafe`) is about the table of the stage before, for either order
in which a compiler may evaluate `Open`'s assignment. Its invariant (`EarlyInv`) says
that the slots ahead of `index` are untouched (`Ahead`) and what those behind it hold
(`Behind`), which depends on that order; a slot is then used once because `index`
only grows.

`DeviceProofs` has the five modules of drivers and devices, each for any threads,
machines, inputs and times, from the assumptions on the constants of its module:

- `ConsoleIsSafe` (`ConsoleSafe`). The invariant `ConsoleInv` counts: the line for
  output is free or one thread has it (`OneWriter`), and while that one waits for its
  character either the interrupt is under way or `writeAvail` is 1, not both, so that
  `PutChar` is never called on a busy device. `LastPut` relates the end of the
  display to what the thread with the line has still to put. On the way in, what was
  typed is what readers took, the character that waits, and what is still to come.
- `DiskIsSafe` (`DiskSafe`). As long as nobody overlapped, one thread is in the driver
  and its request or its answer exists, not both (`AloneInDriver`). `LatencyIsPhysical`
  is arithmetic: the track buffer starts to fill at the beginning of a sector
  (`BufferAligned`), and the lemmas on `\div` and `%` say where the head then is.
- `MailIsSafe` (`MailSafe`). `FlowInOrder`: from socket through buffer to mailbox no
  mail overtakes another, whatever is lost and whoever starts again; so what
  has arrived is ordered, and nothing arrives twice. Who waits for an answer is counted
  against the answers, since senders take each other's.
- `ClockIsSafe` (`ClockSafe`). `ClockInv`: the pending list is in the order of time
  and has one entry for each device that awaits one; `NotLate` bounds how far the
  clock can be ahead of an entry, separately for running, `OneTick`, `CheckIfDue` and
  `Idle`; the lemmas on the sorted insertion carry it through `Schedule`.
- `SemaphoresCorrect` (`SemaphoresSafe`). The account of each semaphore, value = first
  value + signals - grants (`Accounted`), with the fact that a value at least 0 stays
  so (`NeverBelow`), and that no two entries in use have a name in common (`NamesUnique`).

`MachineProofs` proves `ProcessesRunAlone` (`RunsAlone`) for any instruction set
(`Decode` and `Alu` are any operators), any executables, processes and frames, from
`MachineAssumption` and `ProcessorAssumption`. The invariant is that a frame has one
owner and one place in it (`FramesApart`) and that the machine translates by the
table of the process whose instructions it executes (`TableCurrent`); a step of the
running process is then one of its own processor (`TakeRefines`), on the pages that
only it has (`SeenUnchanged`), and everything else is no step of any processor.

`LibraryProofs` proves that what everything else calls does what everything else
takes it to do:

- `ListsAreSequences`: after any calls, of any number and with any keys, a list of
  `list.cc` is the sequence all other modules have in its place. `Holds(l, s)` relates
  `first`, `last` and the chain of elements to a sequence; each call takes a list that
  holds `s` to one that holds what the call makes of `s`, and its result is the same.
- `BitMapsAreSets`: whatever its words held before and whatever is called, a bitmap is
  the set all other modules have in its place, on words of any number of bits. Adding a
  power of two to a number without that bit has no carry (`BitAdded`, from
  `LowerBits` and `HigherBits`), every bit has a place of its own (`BitHasPlace`), so
  `Mark` and `Clear` change one member (`MarkIs`, `ClearIs`); the rest are loops
  (`NewMapIs`, `FindIs`) and counting (`CountIs`).
- `LinesReadExactly` (`ReadsExactly`): `ReadInt` returns the int a line denotes, and 0
  for any other line. The invariant of its loop (`Holding`) is that while the number
  fits, `num` is the number spelled so far and `ele` its number of digits. The
  comparison with a tenth of `INT_MAX` is exact (`TooBigIs`), because the last digit of
  `INT_MAX` is not 9. The one number for which it is not enough, the negation of
  `INT_MIN`, for which `num` has wrapped, has all ten digits, and so the test of `ele`
  refuses another.
- `PrintedReadsBack` (`RoundTrip`): what `PrintInt` displays of any int but the least is
  read back. The remainders of its loop, backwards, are the values of `ReadInt`'s.
- `StagesReadAlike`, `StagesPrintAlike`: both stages agree, and the buffer of the
  earlier one overflows exactly for the numbers that leave no room for a newline.

These are inductions over data. The library's induction theorems take an operator as a
parameter, which the provers cannot instantiate; the proofs use instead that a set
of naturals has a least element (`LeastNatural`, from the well-foundedness of `<`), as a
least counterexample (`UpTo`), and `RecursiveExists` for the function that a recursion
defines.

`ComputationProofs` proves of the computations what `MCMachine` checks on short words,
small pages and few sections. `AnyComputation` is one computation on any input: any
words, any memory of whole words and any address, any calls, any line, sections of any
sizes, any world of failures.

- `InstructionsAreRight`: `AnyComputation => []InstructionsRight`. Two lemmas carry it.
  `InstructionsAreExact` goes through the operations: sums and differences by what
  they differ from the integers by (a multiple of `Modulus`), traps by the two signs,
  shifts by quotient and remainder, `DIV` by truncation towards 0, and `MULT` by an
  invariant of the loop of `Mult` (`MultipliesIs`): the partial product, plus the bits of
  the multiplier that are left times the shifted multiplicand, is the product
  (`DoubleSumIs` and `DoubleTwiceIs` are the carry between the two words).
  `SimulatorsAgree` then compares what both compute, operation by operation, up to
  `Differ`. `StoredIsReadBack` has the memory: a word is four bytes in one way
  (`FourBytesAre`, `WordIsBytes`), a store in place writes those (`StoreIs`), and each load
  of its kind puts them together again (`PartsAreReadBack`, `LeftIsReadBack`,
  `RightIsReadBack`).
- `ImagesAreLoaded`: `AnyComputation => []ImageLoaded`. `LoadedAsLinked`: every byte of
  every page is the one linked at its address, but for the zeroes that an unset
  `lastDataPageSize` causes in the last page of data; `LoadedFits`: the pages have room
  for code, data and stack and reach as far as the loader copies. The argument is
  division with remainder: the offset at which data continues in a page is what the
  last page of code leaves. `LoadedIsRight` adds the tools: which sections `coff2noff`
  accepts, where it puts them, and that `coff2flat` and the other two loaders put the
  same bytes at the same places. `OutputsAreWhole` has the conversions that fail: the
  invariant of a run (`ToolInv`) is that only the last step writes the last piece, after
  all sections that come before have been copied.
- `LibraryIsRight`: `AnyComputation => []LibraryRight`, from the theorems of
  `LibraryProofs`. With `InstructionsAreRight` this is `ComputationsAreRight`, for
  `ComputationsRight`.

The assumptions: `WordAssumption`, words have an even number of bits, so that they have
halves; `BytesAssumption`, bytes have two values or more and the bits of 0 add nothing
to a number; `BitwiseAssumption`, a number whose bits are all in another adds none to
it: nothing else of `&`, `|` and `^` is needed, since all other uses are the same on both
sides; `ImageAssumption` and `BitsAssumption`, pages and words of the host have a size; `MaxIntAssumption`, the greatest int has three
digits or more and does not end in 9. TLC evaluates them in `MCMachine`.

Only model-checked:

- liveness (`ReadyRuns`, `PermitTaken`, `IOWaiterRuns`, `JoinReturns`, `ReapedIsGone`,
  `LoadEnds`, `DevicesServe`), since the prover handles neither fairness nor
  `ENABLED`;
- `ProgramsRight`. Tables of instructions and the assembly code of four hosts are
  finite: TLC goes through all of them, and there is nothing more to prove. The user
  programs, the command line and the tests are fixed programs, checked on the inputs
  they are for. The primer's stacks, files of the host and the stand-alone simulator are
  checked on all inputs up to a bound; each is an induction over data of its own.

## Findings

Five places where the code does other than its comments say; each is a run that
ends in a violation, and `PROJECT.json` quotes the lines. A finished thread is not
always destroyed (`Scheduler::Run`); a slot of the process table is never freed
(`PTable::Remove`); a second `Join` can wait on a deleted semaphore (`~PCB`);
`Exec` cannot see that there was no memory (`PCB::Exec`); a seek closes a descriptor
(`SC_SeekF`).

Other differences met while modelling. They are in the modules as the code has them,
and where a property compares the code with a reference it lists them.

- Instructions. `OP_OR` of `mipssim.cc` computes `rs | rs`; `SRL` and `SRLV` shift a
  signed `int` and copy the sign. In `bin/execute.c` the immediates of `ANDI`, `ORI`
  and `XORI` are sign-extended, the carries into the high word of a product are
  lost, and `LWL` and `LWR` differ. `LWL`, `LWR`, `SWL`, `SWR` of `mipssim.cc` assert
  that their address is aligned. `BREAK` is taken for a system call by `execute.c`.
- Disassembler (`bin/d.c`). `BLEZ` and `BGTZ` are printed without operands, `MFLO` and
  `MTHI` with another register, `JALR` with one too few.
- Tools. `coff2noff` and `coff2flat` test `fdIn` again after opening the output;
  `coff2noff`'s test that data segments are contiguous (203-209) refuses a `.sbss`
  exactly when it is contiguous with `.bss`; `LOADSECTION` of `bin/main.c` checks bounds after it has
  written; `-m` as the last word runs off `argv`; more than the reserved number of
  arguments overwrite the first string; the stand-alone simulator returns results in
  register 1, Nachos in 2; `close` of `bin/system.c` does nothing; `ilog2` is the
  length in bits, not the power of two its comment gives.
- Hosts. The comment of the i386 `ThreadRoot` names `eax` where `switch.h` has `ecx`;
  the protection of thread stacks in `sysdep.cc` is commented out.
- Start-up. With `THREADS` the first loop of `main` takes all words, so that the flags
  behind it (`main.cc` 91 on) have no effect; the network's reliability is `-l`, not
  `-n` as the usage note says; an operand that looks like a flag of `Initialize` is
  one (`-cp -f x` formats the disk); `-q` as the last word reads past the line.
- Console and calls. Descriptors 0 and 1 are not open at the start of a process as
  `syscall.h` 89-93 says; `CreateF` of a name the host refuses aborts in
  `OpenForWrite`, and so does the end of the host's input; `synchdisk.cc` says "only
  one disk I/O at a time" of a lock that does nothing, and `post.cc`
  likewise of `sendLock`; `Receive` on an empty mailbox aborts in `Condition::Wait`.
- Loader and sorts. `lastDataPageSize` is never set (`addrspace.cc`); `sort.c` exits with the
  number of elements less one where its comment says 0.
- File system. `PerformanceTest` fails unless the file already has the size it writes
  (`fstest.cc` 9 says that files do not grow); a stop while the file of the disk is
  created leaves one that later starts cannot use (`disk.cc` 63).
- `nachos-1,2`. `PrintInt` overruns its buffer by numbers of nine digits and more;
  `Open` admits one file more than the table holds and answers 1 for `stdout`, which
  has another slot; `ReadFile` returns and copies one byte more than it read; type 0
  can be written though the comment calls it read-only; `CloseFile` does not check its
  argument; `bubbleSort` does not check its count against its array.

## Not modelled

- A stop of the machine while it formats its disk; two `CreateF` at the same time; in
  `Idle`, a second interrupt before the switch to the thread that the first has woken.
- What `Machine` would do with a process that has no memory (`process_memory` finds
  it; its first fetch halts the machine). A program without `.text` has address 0 for
  it in `Executables`; `coff2noff` writes whatever its variable held.
- Statistics, debug output, random numbers and delays (`machine/stats.cc`,
  `threads/utility.cc`, parts of `sysdep.cc`): no state that anything depends on.
- `bin/out.c` and `bin/disasm.c`, which print; histograms that nothing calls.
- The TLB and virtual memory (`USE_TLB`, `vm/`): not built, and `vm/` has no source of its own.
- Single stepping and the debugger of `machine.cc`; `MFHI` to `MTLO` as moves between
  registers (their values are in `Instructions`).
- The mail test and the console test: endless conversations of steps that
  `PostOffice` and `Console` have; the programs `halt`, `help`, `ascii`, `createfile`
  and the shell: straight lists of calls.
- Of `nachos-1,2`: its calls on a single character, and `cat`, `copy` and `reverse`,
  whose `ReadFile` stores one byte more than their buffers have, on a stack laid out
  by the compiler.
- Contents of packets and files beyond what tells them apart; stacks of threads
  other than in `ContextSwitch`, where a stack is the object `StackAllocate` sets up.

## Plan

1. Proofs: that the primer's stacks are last-in first-out and the wrapped files keep
   their own offsets, for any calls.
2. Composition: `FileCalls` over `FileSystem`, so that two processes with open files
   meet the writes of `Create`; `Console` and `Disk` over `Kernel` instead of counters.
3. A machine with two threads per post office, to bound how long a sender waits.
