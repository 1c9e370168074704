-------------------------------- MODULE Kernel --------------------------------
(***************************************************************************)
(* The NachOS kernel below the system calls: threads/thread.cc,            *)
(* threads/scheduler.cc, threads/synch.cc and the part of                  *)
(* machine/interrupt.cc that decides when a thread loses the CPU.          *)
(*                                                                         *)
(* The machine has one CPU.  The code between SetLevel(IntOff) and the     *)
(* call that restores the level runs alone, except that it may put its own *)
(* thread to sleep in the middle: Semaphore::P does so inside its while.   *)
(* An action is therefore such a section, or the part of one up to the     *)
(* next Sleep, and always a step of currentThread, of the interrupt        *)
(* handler that runs on its stack, or of the idle loop.  What the threads  *)
(* do between these calls is left open: any thread may call any operation  *)
(* at any time, which covers every kernel client (module Processes is      *)
(* one).                                                                   *)
(***************************************************************************)
EXTENDS Integers, Sequences, FiniteSets, Functions

CONSTANTS Threads,      \* the Thread objects
          Main,         \* the one Initialize() makes for the running program
          Sems,         \* the Semaphore objects
          InitVal,      \* the initialValue each was constructed with
          NoThread,     \* NULL, for a Thread *
          NoSem         \* "in no P"

\* Initial values are naturals: every semaphore the kernel itself creates
\* starts at 0 or 1.
ASSUME KernelAssumption ==
    /\ IsFiniteSet(Threads)
    /\ Main \in Threads
    /\ NoThread \notin Threads
    /\ NoSem \notin Sems
    /\ InitVal \in [Sems -> Nat]

VARIABLES
    current,    \* currentThread
    ready,      \* Scheduler::readyList
    status,     \* Thread::status; "DELETED" once ~Thread has run
    started,    \* threads that have run, so that they resume after SWITCH
    finished,   \* threads that called Finish(): "not reached" follows
    toDestroy,  \* threadToBeDestroyed
    value,      \* Semaphore::value
    queue,      \* Semaphore::queue
    inP,        \* the semaphore whose P() the thread sleeps in or resumes in
    pending,    \* device interrupts scheduled, by the semaphore they will V
    halted      \* Interrupt::Halt() was called

schedVars == <<current, ready, status, started, finished, toDestroy>>
semVars == <<value, queue, inP>>
kvars == <<current, ready, status, started, finished, toDestroy,
           value, queue, inP, pending, halted>>

Statuses == {"JUST_CREATED", "READY", "RUNNING", "BLOCKED", "DELETED"}

Init ==
    /\ current = Main
    /\ ready = <<>>
    /\ status = [t \in Threads |-> IF t = Main THEN "RUNNING" ELSE "JUST_CREATED"]
    /\ started = {Main}
    /\ finished = {}
    /\ toDestroy = NoThread
    /\ value = InitVal
    /\ queue = [s \in Sems |-> <<>>]
    /\ inP = [t \in Threads |-> NoSem]
    /\ pending = [s \in Sems |-> 0]
    /\ halted = FALSE

-----------------------------------------------------------------------------
(* Who may step. *)

\* currentThread executes instructions.
Executing == ~halted /\ status[current] = "RUNNING"

\* It does so with interrupts enabled: it is not inside the loop of P().
Interruptible == Executing /\ inP[current] = NoSem

\* Thread::Sleep found the ready list empty and calls Interrupt::Idle.
Idling == ~halted /\ status[current] # "RUNNING" /\ ready = <<>>

-----------------------------------------------------------------------------
(* The scheduler. *)

\* A slip: the thread that gives up the CPU is put at the front of the list.
YieldToFront ==
    /\ Interruptible
    /\ ready # <<>>
    /\ ready' = <<current>> \o Tail(ready)
    /\ current' = Head(ready)
    /\ started' = started \cup {Head(ready)}
    /\ status' = [status EXCEPT ![current] = "READY", ![Head(ready)] = "RUNNING"]
    /\ UNCHANGED <<finished, toDestroy, semVars, pending, halted>>

\* Scheduler::Run.  A thread that has run before resumes after SWITCH and
\* deletes threadToBeDestroyed there; one that has not starts in ThreadRoot
\* and does not.
Run(next, rest, st) ==
    /\ current' = next
    /\ ready' = rest
    /\ started' = started \cup {next}
    /\ \/ /\ next \in started
          /\ toDestroy' = NoThread
          /\ status' = [t \in Threads |-> IF t = next THEN "RUNNING"
                                          ELSE IF t = toDestroy THEN "DELETED"
                                          ELSE st[t]]
       \/ /\ next \notin started
          /\ status' = [st EXCEPT ![next] = "RUNNING"]
          /\ UNCHANGED toDestroy

\* Thread::Yield, called by the thread or, for a time slice, by
\* Interrupt::OneTick when the timer's handler asked for it.
Yield ==
    /\ Interruptible
    /\ ready # <<>>
    /\ Run(Head(ready), Append(Tail(ready), current),
           [status EXCEPT ![current] = "READY"])
    /\ UNCHANGED <<finished, semVars, pending, halted>>

\* The loop of Thread::Sleep once a thread is ready: Run(nextThread).  The
\* sleeper itself may be the one that an interrupt made ready.
Switch ==
    /\ ~halted
    /\ status[current] # "RUNNING"
    /\ ready # <<>>
    /\ Run(Head(ready), Tail(ready), status)
    /\ UNCHANGED <<finished, semVars, pending, halted>>

\* Thread::Fork.
Fork(t) ==
    /\ Interruptible
    /\ status[t] = "JUST_CREATED"
    /\ status' = [status EXCEPT ![t] = "READY"]
    /\ ready' = Append(ready, t)
    /\ UNCHANGED <<current, started, finished, toDestroy, semVars, pending, halted>>

\* A slip: Finish returns to its caller instead of going to sleep.
FinishAndReturn ==
    /\ Interruptible
    /\ finished' = finished \cup {current}
    /\ toDestroy' = current
    /\ UNCHANGED <<current, ready, status, started, semVars, pending, halted>>

\* Thread::Finish, up to the loop of the Sleep it ends in.
Finish ==
    /\ Interruptible
    /\ finished' = finished \cup {current}
    /\ toDestroy' = current
    /\ status' = [status EXCEPT ![current] = "BLOCKED"]
    /\ UNCHANGED <<current, ready, started, semVars, pending, halted>>

-----------------------------------------------------------------------------
(* Semaphores. *)

\* Semaphore::P, one turn of its while: value is 0, the thread queues itself
\* and sleeps.  Woken, it takes this action or the next one again.
Wait(s) ==
    /\ Executing
    /\ inP[current] \in {NoSem, s}
    /\ value[s] = 0
    /\ queue' = [queue EXCEPT ![s] = Append(@, current)]
    /\ inP' = [inP EXCEPT ![current] = s]
    /\ status' = [status EXCEPT ![current] = "BLOCKED"]
    /\ UNCHANGED <<current, ready, started, finished, toDestroy, value, pending, halted>>

\* A slip: the woken thread takes the value without looking at it again.
TakeUnchecked(s) ==
    /\ Executing
    /\ \/ inP[current] = s
       \/ inP[current] = NoSem /\ value[s] # 0
    /\ value' = [value EXCEPT ![s] = @ - 1]
    /\ inP' = [inP EXCEPT ![current] = NoSem]
    /\ UNCHANGED <<schedVars, queue, pending, halted>>

\* Semaphore::P, the end of its while: value is not 0 and is taken.
Take(s) ==
    /\ Executing
    /\ inP[current] \in {NoSem, s}
    /\ value[s] # 0
    /\ value' = [value EXCEPT ![s] = @ - 1]
    /\ inP' = [inP EXCEPT ![current] = NoSem]
    /\ UNCHANGED <<schedVars, queue, pending, halted>>

\* A slip: a waiter is woken only by the V that makes the value positive.
WakeOnFirstV(s) ==
    /\ value' = [value EXCEPT ![s] = @ + 1]
    /\ \/ /\ queue[s] = <<>> \/ value[s] > 0
          /\ UNCHANGED <<ready, status, queue>>
       \/ /\ queue[s] # <<>> /\ value[s] = 0
          /\ ready' = Append(ready, Head(queue[s]))
          /\ status' = [status EXCEPT ![Head(queue[s])] = "READY"]
          /\ queue' = [queue EXCEPT ![s] = Tail(@)]

\* A slip: the waiter is made ready but stays in the semaphore's queue.
WakeKeepsWaiter(s) ==
    /\ value' = [value EXCEPT ![s] = @ + 1]
    /\ \/ /\ queue[s] = <<>>
          /\ UNCHANGED <<ready, status>>
       \/ /\ queue[s] # <<>>
          /\ ready' = Append(ready, Head(queue[s]))
          /\ status' = [status EXCEPT ![Head(queue[s])] = "READY"]
    /\ UNCHANGED queue

\* The body of Semaphore::V.
Wake(s) ==
    /\ value' = [value EXCEPT ![s] = @ + 1]
    /\ \/ /\ queue[s] = <<>>
          /\ UNCHANGED <<ready, status, queue>>
       \/ /\ queue[s] # <<>>
          /\ ready' = Append(ready, Head(queue[s]))
          /\ status' = [status EXCEPT ![Head(queue[s])] = "READY"]
          /\ queue' = [queue EXCEPT ![s] = Tail(@)]

\* Semaphore::V called by a thread.
V(s) ==
    /\ Interruptible
    /\ Wake(s)
    /\ UNCHANGED <<current, started, finished, toDestroy, inP, pending, halted>>

-----------------------------------------------------------------------------
(* Interrupts. *)

\* A driver starts an operation; the device schedules the interrupt that
\* will V the semaphore (Interrupt::Schedule).
StartIO(s) ==
    /\ Interruptible
    /\ pending' = [pending EXCEPT ![s] = @ + 1]
    /\ UNCHANGED <<schedVars, semVars, halted>>

\* A slip: the idle loop does not look for interrupts.
InterruptWhenBusy(s) ==
    /\ Interruptible
    /\ pending[s] > 0
    /\ pending' = [pending EXCEPT ![s] = @ - 1]
    /\ Wake(s)
    /\ UNCHANGED <<current, started, finished, toDestroy, inP, halted>>

\* Interrupt::CheckIfDue fires a device interrupt, from OneTick or from Idle.
\* The handler (SynchConsole's, SynchDisk's, PostOffice's) calls V. Others that
\* are due as well, when Idle has fired the one that readies a thread, come after
\* the switch here.
Interrupt(s) ==
    /\ Interruptible \/ Idling
    /\ pending[s] > 0
    /\ pending' = [pending EXCEPT ![s] = @ - 1]
    /\ Wake(s)
    /\ UNCHANGED <<current, started, finished, toDestroy, inP, halted>>

\* Interrupt::Idle with nothing pending but perhaps the timer.
IdleHalt ==
    /\ Idling
    /\ \A s \in Sems : pending[s] = 0
    /\ halted' = TRUE
    /\ UNCHANGED <<schedVars, semVars, pending>>

\* Interrupt::Halt called by the running thread.
Halt ==
    /\ Interruptible
    /\ halted' = TRUE
    /\ UNCHANGED <<schedVars, semVars, pending>>

-----------------------------------------------------------------------------
Next ==
    \/ Yield
    \/ Switch
    \/ Finish
    \/ IdleHalt
    \/ Halt
    \/ \E t \in Threads : Fork(t)
    \/ \E s \in Sems :
          Wait(s) \/ Take(s) \/ V(s) \/ StartIO(s) \/ Interrupt(s)

Spec == Init /\ [][Next]_kvars

-----------------------------------------------------------------------------
(* Safety. *)

TypeOK ==
    /\ current \in Threads
    /\ ready \in Seq(Threads)
    /\ status \in [Threads -> Statuses]
    /\ started \subseteq Threads
    /\ finished \subseteq Threads
    /\ toDestroy \in Threads \cup {NoThread}
    /\ value \in [Sems -> Nat]
    /\ queue \in [Sems -> Seq(Threads)]
    /\ inP \in [Threads -> Sems \cup {NoSem}]
    /\ pending \in [Sems -> Nat]
    /\ halted \in BOOLEAN

\* The CPU belongs to one thread: only currentThread is RUNNING, and it is
\* RUNNING or, in the loop of Sleep, asleep or just woken.
OneRunning ==
    /\ status[current] \in {"RUNNING", "BLOCKED", "READY"}
    /\ \A t \in Threads : status[t] = "RUNNING" => t = current

\* The ready list holds exactly the READY threads, each once.
ReadyListed ==
    /\ IsInjective(ready)
    /\ \A t \in Threads : status[t] = "READY" <=> t \in Range(ready)

\* A semaphore's queue holds blocked threads, each in one queue only, that of
\* the P it is in.
QueueListed ==
    \A s \in Sems :
        /\ IsInjective(queue[s])
        /\ \A t \in Range(queue[s]) : status[t] = "BLOCKED" /\ inP[t] = s

\* A blocked thread that is not finished is in the queue of the P it is in;
\* a thread that has never run is in no P.
BlockedListed ==
    \A t \in Threads :
        /\ status[t] = "BLOCKED" /\ t \notin finished =>
              inP[t] \in Sems /\ t \in Range(queue[inP[t]])
        /\ t \in finished => status[t] \in {"BLOCKED", "DELETED"} /\ inP[t] = NoSem
        /\ status[t] = "DELETED" => t \in finished
        /\ status[t] = "JUST_CREATED" => inP[t] = NoSem

\* Every thread is in the one place its status says: on the CPU, on the
\* ready list, in the queue of one semaphore, or gone.  Thread::setStatus,
\* List::Append and List::Remove are separate calls spread over thread.cc,
\* scheduler.cc and synch.cc; a thread in two lists would run twice, one in
\* none would never run again.
ThreadPlacement == OneRunning /\ ReadyListed /\ QueueListed /\ BlockedListed

\* The threads V() has taken out of the queue of s that have not yet looked
\* at its value again.
Woken(s) == {t \in Threads : inP[t] = s /\ t \notin Range(queue[s])}

\* No wake-up is lost.  While threads sleep in the queue of s, each unit of
\* its value is owed to a thread already woken: value is never left over for
\* nobody, although P re-checks it only when its thread gets the CPU and any
\* running thread may take it first (Semaphore::P and V, synch.cc).
NoLostWakeup ==
    \A s \in Sems : queue[s] # <<>> => value[s] <= Cardinality(Woken(s))

\* ~Thread is safe: the thread to be destroyed has finished, it waits on no
\* list and it is not deleted yet, so that Scheduler::Run deletes each thread
\* at most once and never one that can still be dispatched
\* (ASSERT(this != currentThread) in ~Thread, thread.cc).
DestroySafe ==
    toDestroy # NoThread =>
        /\ toDestroy \in finished
        /\ status[toDestroy] = "BLOCKED"
        /\ toDestroy \notin Range(ready)
        /\ \A s \in Sems : toDestroy \notin Range(queue[s])

KernelInv == TypeOK /\ ThreadPlacement /\ NoLostWakeup /\ DestroySafe

-----------------------------------------------------------------------------
(* The semaphores of the kernel are counting semaphores. *)

CS == INSTANCE CountingSemaphore
        WITH permits <- value,
             waiting <- [s \in Sems |-> {t \in Threads : inP[t] = s}]

\* Every P and V of the kernel, with its queue, its wake-ups and the barging
\* of a running thread, is a P or V of an atomic counting semaphore.
ImplementsCountingSemaphore == CS!SemSpec

\* Scheduler::Run calls the destructor of every thread that finished: what
\* Finish leaves in threadToBeDestroyed is deleted before it is replaced
\* ("Scheduler::Run() will call the destructor", thread.cc:136-138).
FinishedIsDestroyed ==
    [][toDestroy # NoThread /\ toDestroy' # toDestroy
         => status'[toDestroy] = "DELETED"]_kvars

-----------------------------------------------------------------------------
(* Liveness. *)

\* The machine does not stop between instructions: the idle loop, the loop
\* of Sleep and a P() that resumes with interrupts off run to their end.
ResumeP == \E s \in Sems : inP[current] = s /\ (Wait(s) \/ Take(s))

\* With -rs the timer is always scheduled (Timer::TimerExpired schedules the
\* next tick), so that a running thread is interrupted again and again.  Each
\* return to IntOn is a tick (Interrupt::SetLevel), and the first one past
\* the time of a device interrupt fires it: sections with interrupts off only
\* delay it, hence the strong fairness.
Fairness ==
    /\ WF_kvars(Switch)
    /\ WF_kvars(ResumeP)
    /\ WF_kvars(Yield)
    /\ \A s \in Sems : SF_kvars(Interrupt(s))

\* A ready thread gets the CPU: the ready list is FIFO and the timer keeps
\* sending the running thread to its end (Yield, thread.cc).
ReadyRuns ==
    \A t \in Threads :
        status[t] = "READY" ~> (status[t] # "READY" \/ halted)

\* A value is not left lying while threads wait for it: it is taken, or the
\* waiters are gone, or the machine stops (Semaphore::P and V).
PermitTaken ==
    \A s \in Sems :
        (value[s] > 0 /\ \E t \in Threads : inP[t] = s)
           ~> (value[s] = 0 \/ (\A t \in Threads : inP[t] # s) \/ halted)

\* A thread that sleeps first in the queue of a semaphore which a device
\* interrupt under way will V gets the CPU, also when the machine has nothing
\* else to run: the path Interrupt::Idle, handler, V, Scheduler::ReadyToRun,
\* the loop of Thread::Sleep.
IOWaiterRuns ==
    \A s \in Sems, t \in Threads :
        (pending[s] > 0 /\ queue[s] # <<>> /\ Head(queue[s]) = t)
           ~> ((current = t /\ status[t] = "RUNNING") \/ halted)
=============================================================================
