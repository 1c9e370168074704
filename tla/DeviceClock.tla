------------------------------ MODULE DeviceClock ------------------------------
(***************************************************************************)
(* Simulated time and the interrupts to come: machine/interrupt.cc on the  *)
(* sorted list of threads/list.cc, and machine/timer.cc. Time passes when  *)
(* a user instruction is executed, when interrupts are enabled again, and  *)
(* when no thread can run (Idle). Module Kernel has what the handlers do   *)
(* to the threads; here it matters when each is called.                    *)
(***************************************************************************)
EXTENDS Integers, Sequences

CONSTANTS
  Polls,        \* devices polled for ever: their handler schedules the next poll
  Completions,  \* devices that interrupt once when an operation is done
  Delays,       \* the times from now at which an interrupt is scheduled
  UserTick, SystemTick,
  MaxTime       \* bound on the time at which a tick or an idle period begins

Timer == "timer"
Devices == Polls \cup Completions \cup {Timer}

ASSUME ClockAssumption ==
  /\ Delays \subseteq Nat \ {0}
  /\ UserTick \in Nat \ {0} /\ SystemTick \in Nat \ {0} /\ UserTick <= SystemTick
  /\ Timer \notin Polls \cup Completions

VARIABLES
  totalTicks,    \* stats->totalTicks
  pending,       \* the interrupts to come
  status,        \* "user", "system" or "idle"
  doing,         \* "run", "due" (in OneTick), "idle" or "woken" (in Idle), "halted"
  yieldOnReturn,
  awaited,       \* history: the devices that have scheduled and not interrupted
  last           \* history: the last interrupt, and when it was fired

kvars == <<totalTicks, pending, status, doing, yieldOnReturn, awaited, last>>

ClockInit ==
  /\ totalTicks = 0 /\ pending = <<>>
  /\ status = "system" /\ doing = "run"
  /\ yieldOnReturn = FALSE
  /\ awaited = {}
  /\ last = [when |-> 0, type |-> Timer, at |-> 0]

\* List::SortedInsert: in front of the first element of a later time, or at the
\* end.
SortedInsert(list, element) ==
  LET later == {i \in DOMAIN list : element.when < list[i].when}
      place == IF later = {} THEN Len(list) + 1
               ELSE CHOOSE i \in later : \A j \in later : i <= j
  IN  [i \in 1..(Len(list) + 1) |->
         IF i < place THEN list[i] ELSE IF i = place THEN element ELSE list[i - 1]]

\* Interrupt::Schedule by a device that an operation has been started on, or by
\* the constructor of the timer or of a device that is polled.
Schedule(type, fromNow) ==
  /\ doing = "run" /\ status = "system"
  /\ type \notin awaited
  /\ pending' = SortedInsert(pending, [when |-> totalTicks + fromNow, type |-> type])
  /\ awaited' = awaited \cup {type}
  /\ UNCHANGED <<totalTicks, status, doing, yieldOnReturn, last>>

\* The time at which CheckIfDue looks at the first interrupt.
Now(advanceClock) ==
  IF advanceClock /\ Head(pending).when > totalTicks THEN Head(pending).when ELSE totalTicks

\* Nothing but the time slice of nobody.
OnlyTimer == status = "idle" /\ Len(pending) = 1 /\ Head(pending).type = Timer

\* CheckIfDue calls the handler of the first interrupt: Timer::TimerExpired,
\* CheckCharAvail and CheckPktAvail schedule the next one of their device.
Fires(advanceClock) ==
  /\ pending # <<>> /\ Head(pending).when <= Now(advanceClock) /\ ~OnlyTimer
  /\ totalTicks' = Now(advanceClock)
  /\ last' = [when |-> Head(pending).when, type |-> Head(pending).type, at |-> totalTicks']
  /\ \/ /\ Head(pending).type \in Completions
        /\ pending' = Tail(pending) /\ awaited' = awaited \ {Head(pending).type}
     \/ /\ Head(pending).type \notin Completions
        /\ \E d \in Delays :
             pending' = SortedInsert(Tail(pending), [Head(pending) EXCEPT !.when = totalTicks' + d])
        /\ UNCHANGED awaited
  /\ yieldOnReturn' = (yieldOnReturn \/ Head(pending).type = Timer)

\* A slip: what is not due yet is not put back.
NotDueDropped(advanceClock) ==
  /\ pending # <<>> => Head(pending).when > Now(advanceClock) \/ OnlyTimer
  /\ pending' = IF pending = <<>> \/ OnlyTimer THEN pending ELSE Tail(pending)
  /\ totalTicks' = IF pending = <<>> THEN totalTicks ELSE Now(advanceClock)
  /\ UNCHANGED <<awaited, last>>

\* CheckIfDue finds nothing to do: the interrupt it has removed is put back,
\* behind those of the same time.
NotDue(advanceClock) ==
  /\ pending # <<>> => Head(pending).when > Now(advanceClock) \/ OnlyTimer
  /\ pending' = IF pending = <<>> THEN pending ELSE SortedInsert(Tail(pending), Head(pending))
  /\ totalTicks' = IF pending = <<>> THEN totalTicks ELSE Now(advanceClock)
  /\ UNCHANGED <<awaited, last>>

-------------------------------------------------------------------------------

\* OneTick, called after a user instruction and by SetLevel(IntOn).
OneTick ==
  /\ doing = "run" /\ totalTicks < MaxTime
  /\ totalTicks' = totalTicks + IF status = "system" THEN SystemTick ELSE UserTick
  /\ doing' = "due"
  /\ UNCHANGED <<pending, status, yieldOnReturn, awaited, last>>

FireDue == doing = "due" /\ Fires(FALSE) /\ UNCHANGED <<status, doing>>

\* If the timer has asked for it, the thread yields: the next may be in a
\* program or in the kernel.
EndTick ==
  /\ doing = "due" /\ NotDue(FALSE)
  /\ doing' = "run" /\ yieldOnReturn' = FALSE
  /\ IF yieldOnReturn THEN status' \in {"user", "system"} ELSE UNCHANGED status

\* A trap into the kernel and the return from it, or another thread.
ChangeMode ==
  /\ doing = "run" /\ status' \in {"user", "system"} \ {status}
  /\ UNCHANGED <<totalTicks, pending, doing, yieldOnReturn, awaited, last>>

\* Thread::Sleep finds no thread to run.
Idle ==
  /\ doing = "run" /\ status = "system" /\ totalTicks < MaxTime
  /\ status' = "idle" /\ doing' = "idle"
  /\ UNCHANGED <<totalTicks, pending, yieldOnReturn, awaited, last>>

IdleWakes == doing = "idle" /\ Fires(TRUE) /\ doing' = "woken" /\ UNCHANGED status
IdleFires == doing = "woken" /\ Fires(FALSE) /\ UNCHANGED <<status, doing>>
IdleEnds ==
  /\ doing = "woken" /\ NotDue(FALSE)
  /\ doing' = "run" /\ status' = "system" /\ yieldOnReturn' = FALSE

\* Interrupt::Halt: nothing will ever wake a thread.
IdleHalts == doing = "idle" /\ NotDue(TRUE) /\ doing' = "halted" /\ UNCHANGED <<status, yieldOnReturn>>

ClockNext ==
  \/ \E type \in Devices, d \in Delays : Schedule(type, d)
  \/ OneTick \/ FireDue \/ EndTick \/ ChangeMode
  \/ Idle \/ IdleWakes \/ IdleFires \/ IdleEnds \/ IdleHalts

ClockSpec == ClockInit /\ [][ClockNext]_kvars

-------------------------------------------------------------------------------
(* Properties *)

\* The types of the clock and of the list.
ClockTypeOK ==
  /\ totalTicks \in Nat
  /\ pending \in Seq([when : Nat, type : Devices])
  /\ status \in {"user", "system", "idle"}
  /\ doing \in {"run", "due", "idle", "woken", "halted"}
  /\ yieldOnReturn \in BOOLEAN /\ awaited \subseteq Devices
  /\ last \in [when : Nat, type : Devices, at : Nat]

\* Interrupts are fired in the order of the times they are scheduled for,
\* however their handlers schedule new ones and CheckIfDue puts them back.
FiredInOrder ==
  \A i \in DOMAIN pending : /\ last.when <= pending[i].when
                            /\ \A j \in 1..i : pending[j].when <= pending[i].when

\* None is lost or fired twice: a device that waits for its interrupt has one.
NoneLost ==
  \A t \in Devices :
    LET mine == {i \in DOMAIN pending : pending[i].type = t}
    IN  IF t \in awaited THEN \E i \in mine : mine = {i} ELSE mine = {}

\* An interrupt is never early, and late by less than a tick of the kernel. The
\* timer may wait for one tick more: when Idle has fired all others it puts the
\* timer back although it is due.
Prompt ==
  /\ last.when <= last.at
  /\ last.at < last.when + SystemTick \/ (last.type = Timer /\ last.at = last.when + SystemTick)
  /\ doing = "run" =>
       \A i \in DOMAIN pending : pending[i].when > totalTicks \/ pending[i].type = Timer

\* The machine stops for want of work only if no device has anything to report.
HaltsWhenDone == doing = "halted" => awaited \subseteq {Timer}

\* What the simulated clock promises the devices.
ClockSafe == ClockTypeOK /\ FiredInOrder /\ NoneLost /\ Prompt /\ HaltsWhenDone
===============================================================================
