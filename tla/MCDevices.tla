------------------------------- MODULE MCDevices -------------------------------
(***************************************************************************)
(* The devices and what waits for them by semaphores of its own: the       *)
(* console, the disk, the post office, the clock that interrupts them, and *)
(* the semaphores of user programs. They share no state here, so one       *)
(* behaviour exercises one of them, chosen at the start.                   *)
(***************************************************************************)
EXTENDS Console, Disk, PostOffice, DeviceClock, UserSemaphores

VARIABLE device

vars == <<cvars, dvars, pvars, kvars, uvars, device>>

\* The lengths of the Writes of PrintInt(10) and PrintInt(-10).
MCPrints == {<<2>>, <<1, 2>>}
MCInput == {<<>>, <<"a", Eof, "b">>, <<"a", Newline>>, <<CtrlA>>}

\* Both senders are on one machine, and send to it and to the other.
MCHome == [t \in Senders |-> "m1"]
MCInits == {-1, 0, 1}

Init ==
  /\ device \in {"console", "disk", "post", "clock", "semaphores"}
  /\ ConsoleInit /\ (device # "console" => typed = <<>>)
  /\ DiskInit /\ PostInit /\ ClockInit /\ UserInit

OnlyConsole == device = "console" /\ UNCHANGED <<dvars, pvars, kvars, uvars, device>>
OnlyDisk == device = "disk" /\ UNCHANGED <<cvars, pvars, kvars, uvars, device>>
OnlyPost == device = "post" /\ UNCHANGED <<cvars, dvars, kvars, uvars, device>>
OnlyClock == device = "clock" /\ UNCHANGED <<cvars, dvars, pvars, uvars, device>>
OnlySemaphores == device = "semaphores" /\ UNCHANGED <<cvars, dvars, pvars, kvars, device>>

Next ==
  \/ ConsoleNext /\ OnlyConsole
  \/ DiskNext /\ OnlyDisk
  \/ PostNext /\ OnlyPost
  \/ ClockNext /\ OnlyClock
  \/ UserNext /\ OnlySemaphores

\* The fairness of each part, while it is the one exercised.
Fairness ==
  /\ WF_vars(OnlyConsole /\ WriteDone)
  /\ \A t \in Threads : WF_vars(OnlyConsole /\ ~putFailed /\ ThreadStep(t))
  /\ WF_vars(OnlyDisk /\ ~diskFailed /\ (HandleInterrupt \/ Tick))
  /\ \A t \in Clients : WF_vars(OnlyDisk /\ ~diskFailed /\ (Request(t) \/ Answer(t)))
  /\ \A m \in Machines : /\ WF_vars(OnlyPost /\ SendDone(m))
                         /\ WF_vars(OnlyPost /\ CheckPktAvail(m))
                         /\ WF_vars(OnlyPost /\ (AwaitMail(m) \/ Deliver(m)))

Spec == Init /\ [][Next]_vars /\ Fairness

\* Under this fairness a Write ends, a thread alone at the disk is answered, and
\* a packet that is not lost is delivered.
DevicesServe == WriteEnds /\ Answered /\ Delivered
===============================================================================
