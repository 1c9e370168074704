----------------------------- MODULE ProcessProofs -----------------------------
(***************************************************************************)
(* Theorems about processes, for any number of slots, pages, programs,     *)
(* descriptors and exit codes.  ProcessAssumption is all that is assumed.  *)
(*                                                                         *)
(*   - Every step is a step of Kernel, so its theorems hold here.          *)
(*   - Step says what a step does to pc, value and id: P returns, V, or a  *)
(*     change of pc alone.  Each invariant is proved over its disjuncts.   *)
(*   - IdKnown: whoever works on a PCB knows its id.                       *)
(*   - NewIsEmpty: a thread not yet forked has no page.                    *)
(*   - OneToken: a process in ExitWait owns one token, which is in its     *)
(*     joinsem, in the hand of a parent in JoinRead, or in its exitsem;    *)
(*     a process elsewhere owns none.                                      *)
(*   - ChildOf: whose slot is whose.                                       *)
(*   - SleepsAtP: a process sleeps in the P at its label only.             *)
(*   - SlotsInOrder: a child has a larger id than its parent, so that      *)
(*     processes never wait in a circle.                                   *)
(*   - JoinedOnce: a child is released by a Join only.                     *)
(***************************************************************************)
EXTENDS Processes, TLAPS, FiniteSetTheorems, WellFoundedInduction

KP == INSTANCE KernelProofs
        WITH Threads <- Pids, Main <- 0, Sems <- PSems, InitVal <- PInitVal,
             NoThread <- -1, NoSem <- <<"none", 0>>

\* The instance of KernelProofs is that of Kernel, definition by definition.
LEMMA Assumed == KP!KernelAssumption
<1>1. IsFiniteSet(Pids) /\ 0 \in Pids /\ -1 \notin Pids
  BY ProcessAssumption, FS_Interval DEF Pids
<1>2. <<"none", 0>> \notin PSems
  BY DEF PSems, Bmsem
<1>3. PInitVal \in [PSems -> Nat]
  BY DEF PInitVal
<1>4. KP!IsFiniteSet(Pids)
  BY <1>1 DEF KP!IsFiniteSet, IsFiniteSet
<1> QED
  BY <1>1, <1>2, <1>3, <1>4 DEF KP!KernelAssumption

LEMMA SameType == K!TypeOK <=> KP!TypeOK
BY DEF K!TypeOK, KP!TypeOK, K!Statuses, KP!Statuses

LEMMA SameInit == K!Init <=> KP!Init
BY DEF K!Init, KP!Init

LEMMA SameNext == [K!Next]_kvars <=> [KP!Next]_(KP!kvars)
<1>1. kvars = KP!kvars /\ (UNCHANGED kvars <=> UNCHANGED KP!kvars)
  BY DEF kvars, KP!kvars
<1>2. K!Yield <=> KP!Yield
  BY DEF K!Yield, KP!Yield, K!Interruptible, KP!Interruptible, K!Executing,
         KP!Executing, K!Run, KP!Run, K!semVars, KP!semVars
<1>3. K!Switch <=> KP!Switch
  BY DEF K!Switch, KP!Switch, K!Run, KP!Run, K!semVars, KP!semVars
<1>4. K!Finish <=> KP!Finish
  BY DEF K!Finish, KP!Finish, K!Interruptible, KP!Interruptible, K!Executing,
         KP!Executing, K!semVars, KP!semVars
<1>5. K!IdleHalt <=> KP!IdleHalt
  BY DEF K!IdleHalt, KP!IdleHalt, K!Idling, KP!Idling, K!schedVars, KP!schedVars,
         K!semVars, KP!semVars
<1>6. K!Halt <=> KP!Halt
  BY DEF K!Halt, KP!Halt, K!Interruptible, KP!Interruptible, K!Executing,
         KP!Executing, K!schedVars, KP!schedVars, K!semVars, KP!semVars
<1>7. ASSUME NEW t \in Pids PROVE K!Fork(t) <=> KP!Fork(t)
  BY DEF K!Fork, KP!Fork, K!Interruptible, KP!Interruptible, K!Executing,
         KP!Executing, K!semVars, KP!semVars
<1>8. ASSUME NEW s \in PSems PROVE K!Wait(s) <=> KP!Wait(s)
  BY DEF K!Wait, KP!Wait, K!Executing, KP!Executing
<1>9. ASSUME NEW s \in PSems PROVE K!Take(s) <=> KP!Take(s)
  BY DEF K!Take, KP!Take, K!Executing, KP!Executing, K!schedVars, KP!schedVars
<1>10. ASSUME NEW s \in PSems PROVE K!V(s) <=> KP!V(s)
  BY DEF K!V, KP!V, K!Interruptible, KP!Interruptible, K!Executing, KP!Executing,
         K!Wake, KP!Wake
<1>11. ASSUME NEW s \in PSems PROVE K!StartIO(s) <=> KP!StartIO(s)
  BY DEF K!StartIO, KP!StartIO, K!Interruptible, KP!Interruptible, K!Executing,
         KP!Executing, K!schedVars, KP!schedVars, K!semVars, KP!semVars
<1>12. ASSUME NEW s \in PSems PROVE K!Interrupt(s) <=> KP!Interrupt(s)
  BY DEF K!Interrupt, KP!Interrupt, K!Interruptible, KP!Interruptible, K!Executing,
         KP!Executing, K!Idling, KP!Idling, K!Wake, KP!Wake
<1> QED
  BY <1>1, <1>2, <1>3, <1>4, <1>5, <1>6, <1>7, <1>8, <1>9, <1>10, <1>11, <1>12
  DEF K!Next, KP!Next

LEMMA SameType2 == K!TypeOK' <=> KP!TypeOK'
BY DEF K!TypeOK, KP!TypeOK, K!Statuses, KP!Statuses

LEMMA KTypeStep == K!TypeOK /\ [K!Next]_kvars => K!TypeOK'
  BY KP!TypeStep, Assumed, SameType, SameType2, SameNext

-----------------------------------------------------------------------------
IdLabels == {"ExecMutex", "ExecLoad", "ExecYield", "ExecMutexV",
             "JoinInc", "JoinIncV", "JoinWait", "JoinRead"}

IdKnown == \A p \in Pids : pc[p] \in IdLabels => id[p] \in Pids

PTypes ==
    /\ stop \in {"no", "idle", "halt", "fault", "assert", "undefined"}
    /\ bm \subseteq Pids
    /\ parentID \in [Pids -> Pids \cup {-1}]
    /\ exitcode \in [Pids -> Codes \cup {0}]
    /\ numwait \in [Pids -> Nat]
    /\ destroyed \subseteq Pids
    /\ name \in [Pids -> Names \cup {"main"}]
    /\ frames \in [Pids -> SUBSET Frames]
    /\ physMap \subseteq Frames
    /\ fds \in 0 .. MaxFds
    /\ pc \in [Pids -> Labels]
    /\ arg \in [Pids -> Names \cup {"main"}]
    /\ id \in [Pids -> Pids \cup {-1}]
    /\ reg2 \in [Pids -> Pids \cup Codes \cup {-1, 0}]
    /\ joins \in [Pids -> 0 .. 2]

LEMMA SemsOf ==
    /\ Bmsem \in PSems
    /\ \A i \in Pids : Joinsem(i) \in PSems /\ Exitsem(i) \in PSems /\ Mutex(i) \in PSems
BY DEF PSems, Bmsem, Joinsem, Exitsem, Mutex

LEMMA SemsDistinct ==
    /\ \A i \in Pids : /\ Bmsem # Joinsem(i) /\ Bmsem # Exitsem(i) /\ Bmsem # Mutex(i)
    /\ \A i, j \in Pids :
          /\ Joinsem(i) # Exitsem(j) /\ Joinsem(i) # Mutex(j) /\ Exitsem(i) # Mutex(j)
          /\ Joinsem(i) = Joinsem(j) => i = j
          /\ Exitsem(i) = Exitsem(j) => i = j
          /\ Mutex(i) = Mutex(j) => i = j
BY DEF Bmsem, Joinsem, Exitsem, Mutex

(* What a step does to the program counters and the semaphores. *)

\* P on s returns; V on s; neither.
Pass(l, s, m) ==
    /\ pc[current] = l
    /\ pc' = [pc EXCEPT ![current] = m]
    /\ value[s] # 0
    /\ value' = [value EXCEPT ![s] = @ - 1]

Post(l, s, m) ==
    /\ pc[current] = l
    /\ pc' = [pc EXCEPT ![current] = m]
    /\ value' = [value EXCEPT ![s] = @ + 1]

Jump(l, m) ==
    /\ pc[current] = l
    /\ pc' = [pc EXCEPT ![current] = m]
    /\ value' = value

LEMMA PStepIs ==
    ASSUME K!TypeOK, NEW s \in PSems, NEW l, NEW m, PStep(s, l, m)
    PROVE  /\ pc[current] = l
           /\ Pass(l, s, m) \/ UNCHANGED <<pc, value>>
           /\ K!Next
<1>1. K!Wait(s) \/ K!Take(s)
  BY DEF PStep
<1>2. K!Next
  BY <1>1 DEF K!Next
<1>3. CASE K!Wait(s) /\ UNCHANGED pc
  BY <1>2, <1>3 DEF PStep, At, K!Wait
<1>4. CASE K!Take(s) /\ Goto(m)
  BY <1>2, <1>4 DEF PStep, At, Goto, K!Take, Pass
<1> QED
  BY <1>3, <1>4 DEF PStep

LEMMA VStepIs ==
    ASSUME K!TypeOK, NEW s \in PSems, NEW l, NEW m, VStep(s, l, m)
    PROVE  Post(l, s, m) /\ K!Next
<1>1. K!V(s)
  BY DEF VStep
<1>2. K!Next
  BY <1>1 DEF K!Next
<1> QED
  BY <1>2 DEF VStep, At, Goto, K!V, K!Wake, Post

\* The process a step is about, and the semaphores it may call.
LEMMA IdOf ==
    ASSUME K!TypeOK, IdKnown
    PROVE  /\ current \in Pids
           /\ pc[current] \in IdLabels => id[current] \in Pids
           /\ \A i \in Pids : Joinsem(i) \in PSems /\ Exitsem(i) \in PSems /\ Mutex(i) \in PSems
BY SemsOf DEF IdKnown, K!TypeOK

Passing ==
    \/ Pass("ExecP", Bmsem, "ExecCheck")
    \/ Pass("ExecMutex", Mutex(id[current]), "ExecLoad")
    \/ Pass("ExitWait", Exitsem(current), "ExitDec")
    \/ Pass("ExitDec", Mutex(current), "ExitDecV")
    \/ Pass("JoinInc", Mutex(id[current]), "JoinIncV")
    \/ Pass("JoinWait", Joinsem(id[current]), "JoinRead")

Posting ==
    \/ Post("ExecMutexV", Mutex(id[current]), "ExecReturn")
    \/ Post("user", Joinsem(current), "ExitWait")
    \/ Post("ExitDecV", Mutex(current), "Remove")
    \/ Post("JoinIncV", Mutex(id[current]), "JoinWait")

Returning ==
    \/ Post("ExecReturn", Bmsem, "user")
    \/ Post("JoinRead", Exitsem(id[current]), "user")

Jumping ==
    \/ Jump("user", "ExecP")
    \/ Jump("ExecCheck", "ExecReturn")
    \/ Jump("ExecYield", "ExecMutexV")
    \/ Jump("Remove", "gone")

\* Every step of a process, with its effect on the id it works on.
Step ==
    \/ Passing /\ UNCHANGED id
    \/ /\ Posting /\ UNCHANGED id
       /\ pc[current] = "user" => \E c \in Codes : CallExit(c)
    \/ /\ Returning /\ id' = [id EXCEPT ![current] = -1]
       /\ pc[current] = "JoinRead" => JoinRead
    \/ Jumping /\ UNCHANGED id
    \/ UNCHANGED <<pc, value, id>>
    \/ /\ pc[current] = "user"
       /\ UNCHANGED <<pc, value>>
       /\ id' = [id EXCEPT ![current] = -1]
    \/ ExecSlot \/ ExecCannotOpen \/ ExecLoad
    \/ \E i \in Pids : CallJoin(i)

LEMMA StepIs ==
    K!TypeOK /\ IdKnown /\ [PNext]_pvars => [K!Next]_kvars /\ Step
<1> SUFFICES ASSUME K!TypeOK, IdKnown, [PNext]_pvars
             PROVE  [K!Next]_kvars /\ Step
  OBVIOUS
<1>1. CASE ExecP
  BY <1>1, PStepIs, IdOf, SemsOf DEF ExecP, Step, Passing, callVars
<1>2. CASE ExecMutex
  BY <1>2, PStepIs, IdOf DEF ExecMutex, Step, Passing, callVars, PStep, At, IdLabels
<1>3. CASE ExitWait
  BY <1>3, PStepIs, IdOf DEF ExitWait, Step, Passing, callVars
<1>4. CASE ExitDec
  BY <1>4, PStepIs, IdOf DEF ExitDec, Step, Passing, callVars
<1>5. CASE JoinInc
  BY <1>5, PStepIs, IdOf DEF JoinInc, Step, Passing, callVars, PStep, At, IdLabels
<1>6. CASE JoinWait
  BY <1>6, PStepIs, IdOf DEF JoinWait, Step, Passing, callVars, PStep, At, IdLabels
<1>7. CASE ExecMutexV
  BY <1>7, VStepIs, IdOf DEF ExecMutexV, Step, Posting, Post, callVars, VStep, At, IdLabels
<1>8. ASSUME NEW c \in Codes, CallExit(c)
      PROVE  [K!Next]_kvars /\ Step
  BY <1>8, VStepIs, IdOf DEF CallExit, Step, Posting, callVars
<1>9. CASE ExitDecV
  BY <1>9, VStepIs, IdOf DEF ExitDecV, Step, Posting, Post, callVars
<1>10. CASE JoinIncV
  BY <1>10, VStepIs, IdOf DEF JoinIncV, Step, Posting, Post, callVars, VStep, At, IdLabels
<1>11. CASE ExecReturn
  BY <1>11, VStepIs, SemsOf DEF ExecReturn, Return, Step, Returning, Post
<1>12. CASE JoinRead
  BY <1>12, VStepIs, IdOf DEF JoinRead, Return, Step, Returning, Post, VStep, At, IdLabels
<1>13. CASE \/ TimeSlice \/ Dispatch \/ Idle \/ CallHalt \/ ExitMain
            \/ FirstFetchFaults \/ ExecTooBig
  <2>1. K!Yield \/ K!Switch \/ K!IdleHalt \/ K!Halt
    BY <1>13 DEF TimeSlice, Dispatch, Idle, CallHalt, ExitMain,
                 FirstFetchFaults, ExecTooBig, StopMachine
  <2>2. UNCHANGED <<pc, id>>
    BY <1>13 DEF TimeSlice, Dispatch, Idle, CallHalt, ExitMain,
                 FirstFetchFaults, ExecTooBig, StopMachine, callVars
  <2>3. UNCHANGED value
    BY <2>1 DEF K!Yield, K!Switch, K!IdleHalt, K!Halt, K!semVars
  <2> QED
    BY <2>1, <2>2, <2>3 DEF K!Next, Step
<1>14. ASSUME NEW n \in Names, CallExec(n)
       PROVE  [K!Next]_kvars /\ Step
  BY <1>14 DEF CallExec, InUserCode, At, Goto, kvars, Step, Jumping, Jump
<1>15. CASE ExecNoFile \/ ExecRefused
  BY <1>15 DEF ExecNoFile, ExecRefused, At, Goto, kvars, Step, Jumping, Jump
<1>16. CASE ExecYield
  <2>1. K!Yield \/ UNCHANGED kvars
    BY <1>16 DEF ExecYield
  <2>2. UNCHANGED value
    BY <2>1 DEF K!Yield, K!semVars, kvars
  <2> QED
    BY <1>16, <2>1, <2>2 DEF ExecYield, At, Goto, callVars, K!Next, Step, Jumping, Jump
<1>17. CASE Remove
  <2>1. K!Finish
    BY <1>17 DEF Remove
  <2>2. UNCHANGED value
    BY <2>1 DEF K!Finish, K!semVars
  <2> QED
    BY <1>17, <2>1, <2>2 DEF Remove, At, Goto, callVars, K!Next, Step, Jumping, Jump
<1>18. CASE ExecSlot \/ ExecCannotOpen
  BY <1>18 DEF ExecSlot, ExecCannotOpen, Step
<1>19. CASE ExecLoad
  <2>1. id[current] \in Pids /\ K!Fork(id[current])
    BY <1>19, IdOf DEF ExecLoad, At, IdLabels
  <2> QED
    BY <1>19, <2>1 DEF K!Next, Step
<1>20. ASSUME NEW i \in Pids, CallJoin(i)
       PROVE  [K!Next]_kvars /\ Step
  BY <1>20 DEF CallJoin, Step
<1>21. ASSUME NEW i \in -1 .. NumProc, JoinRefused(i)
       PROVE  [K!Next]_kvars /\ Step
  BY <1>21 DEF JoinRefused, InUserCode, At, Return, kvars, Step
<1>22. CASE UseAfterDestroy \/ UNCHANGED pvars
  BY <1>22 DEF UseAfterDestroy, pvars, kvars, callVars, Step
<1> QED
  BY <1>1, <1>2, <1>3, <1>4, <1>5, <1>6, <1>7, <1>8, <1>9, <1>10, <1>11, <1>12,
     <1>13, <1>14, <1>15, <1>16, <1>17, <1>18, <1>19, <1>20, <1>21, <1>22
  DEF PNext, KernelStep, UserStep

-----------------------------------------------------------------------------
(* Types. *)

LEMMA PTypeOKIs == PTypeOK <=> K!TypeOK /\ PTypes
BY DEF PTypeOK, PTypes

LEMMA PTypeInit == PInit => PTypeOK /\ IdKnown
<1> SUFFICES ASSUME PInit PROVE PTypeOK /\ IdKnown
  OBVIOUS
<1>1. K!Init
  BY DEF PInit
<1>2. K!TypeOK
  BY <1>1, KP!TypeInit, Assumed, SameType, SameInit
<1>3. 0 \in Pids /\ Pages[MainName] \in Nat /\ 0 .. Pages[MainName] - 1 \subseteq Frames
  BY ProcessAssumption DEF Pids, Frames
<1>4. PTypes
  BY <1>3, ProcessAssumption DEF PInit, PTypes, Labels
<1>5. IdKnown
  BY DEF PInit, IdKnown, IdLabels
<1> QED
  BY <1>2, <1>4, <1>5, PTypeOKIs

LEMMA PTypesStep ==
    PTypeOK /\ IdKnown /\ [PNext]_pvars => PTypes'
<1> SUFFICES ASSUME K!TypeOK, PTypes, IdKnown, [PNext]_pvars
             PROVE  PTypes'
  BY PTypeOKIs
<1> USE DEF PTypes
<1>0. current \in Pids
  BY DEF K!TypeOK
<1>1. CASE \/ TimeSlice \/ Dispatch \/ Idle \/ CallHalt \/ ExitMain
           \/ FirstFetchFaults \/ ExecTooBig
  BY <1>1 DEF TimeSlice, Dispatch, Idle, CallHalt, ExitMain,
              FirstFetchFaults, ExecTooBig, StopMachine, tableVars, spaceVars, callVars
<1>2. CASE ExecP \/ ExecMutex \/ ExitWait \/ ExitDec \/ JoinInc \/ JoinWait
  BY <1>0, <1>2 DEF ExecP, ExecMutex, ExitWait, ExitDec, JoinInc, JoinWait,
                    PStep, Goto, tableVars, spaceVars, callVars, Labels
<1>3. CASE ExecMutexV \/ ExitDecV \/ JoinIncV \/ \E c \in Codes : CallExit(c)
  BY <1>0, <1>3 DEF ExecMutexV, ExitDecV, JoinIncV, CallExit, VStep, Goto,
                    tableVars, spaceVars, callVars, Labels
<1>4. CASE ExecReturn \/ JoinRead
  <2>1. CASE ExecReturn
    BY <1>0, <2>1 DEF ExecReturn, Return, VStep, Goto, tableVars, spaceVars, Labels
  <2>2. CASE JoinRead
    <3>1. id[current] \in Pids
      BY <2>2, IdOf DEF JoinRead, VStep, At, IdLabels
    <3> QED
      BY <1>0, <2>2, <3>1 DEF JoinRead, Return, VStep, Goto, tableVars, spaceVars, Labels
  <2> QED
    BY <1>4, <2>1, <2>2
<1>5. CASE ExecNoFile \/ ExecCannotOpen \/ ExecYield \/ \E n \in Names : CallExec(n)
  <2>1. CASE ExecNoFile
    BY <1>0, <2>1 DEF ExecNoFile, Goto, tableVars, spaceVars, Labels
  <2>2. CASE ExecCannotOpen
    BY <1>0, <2>2 DEF ExecCannotOpen, Goto, tableVars, spaceVars, Labels
  <2>3. CASE ExecYield
    BY <1>0, <2>3 DEF ExecYield, Goto, tableVars, spaceVars, callVars, Labels
  <2>4. ASSUME NEW n \in Names, CallExec(n)
        PROVE  PTypes'
    BY <1>0, <2>4 DEF CallExec, Goto, tableVars, spaceVars, Labels
  <2> QED
    BY <1>5, <2>1, <2>2, <2>3, <2>4
<1>6. CASE ExecRefused \/ ExecSlot
  <2>1. fds' \in 0 .. MaxFds
    BY <1>6, ProcessAssumption DEF ExecRefused, ExecSlot
  <2>2. CASE ExecRefused
    BY <1>0, <2>1, <2>2 DEF ExecRefused, Goto, tableVars, Labels
  <2>3. CASE ExecSlot
    <3>1. PICK i \in Pids \ bm :
            /\ bm' = bm \cup {i}
            /\ parentID' = [parentID EXCEPT ![i] = current]
            /\ exitcode' = [exitcode EXCEPT ![i] = 0]
            /\ numwait' = [numwait EXCEPT ![i] = 0]
            /\ id' = [id EXCEPT ![current] = i]
      BY <2>3 DEF ExecSlot
    <3> QED
      BY <1>0, <2>1, <2>3, <3>1 DEF ExecSlot, Goto, Labels
  <2> QED
    BY <1>6, <2>2, <2>3
<1>8. CASE ExecLoad
  <2>1. id[current] \in Pids
    BY <1>8, IdOf DEF ExecLoad, At, IdLabels
  <2>2. \A n : FindPages(n) \subseteq Frames
    BY DEF FindPages
  <2> QED
    BY <1>0, <1>8, <2>1, <2>2 DEF ExecLoad, tableVars, Labels
<1>9. CASE Remove
  BY <1>0, <1>9 DEF Remove, Goto, callVars, Labels
<1>10. CASE \E i \in Pids : CallJoin(i)
  BY <1>0, <1>10 DEF CallJoin, Goto, tableVars, spaceVars, Labels
<1>11. CASE \E i \in -1 .. NumProc : JoinRefused(i)
  BY <1>0, <1>11 DEF JoinRefused, Return, tableVars, spaceVars
<1>12. CASE UseAfterDestroy \/ UNCHANGED pvars
  BY <1>12 DEF UseAfterDestroy, tableVars, spaceVars, callVars, pvars
<1> QED
  BY <1>1, <1>2, <1>3, <1>4, <1>5, <1>6, <1>8, <1>9, <1>10, <1>11, <1>12
  DEF PNext, KernelStep, UserStep

LEMMA IdKnownStep ==
    PTypeOK /\ IdKnown /\ Step => IdKnown'
<1> SUFFICES ASSUME PTypeOK, IdKnown, Step, NEW p \in Pids, pc'[p] \in IdLabels
             PROVE  id'[p] \in Pids
  BY DEF IdKnown
<1>0. current \in Pids /\ pc \in [Pids -> Labels] /\ id \in [Pids -> Pids \cup {-1}]
  BY DEF PTypeOK, K!TypeOK
<1> USE DEF IdKnown, IdLabels
<1>1. CASE Passing /\ UNCHANGED id
  BY <1>0, <1>1 DEF Passing, Pass
<1>2. CASE Posting /\ UNCHANGED id
  BY <1>0, <1>2 DEF Posting, Post
<1>3. CASE Returning /\ id' = [id EXCEPT ![current] = -1]
  BY <1>0, <1>3 DEF Returning, Post
<1>4. CASE Jumping /\ UNCHANGED id
  BY <1>0, <1>4 DEF Jumping, Jump
<1>5. CASE UNCHANGED <<pc, value, id>>
  BY <1>5
<1>6. CASE /\ pc[current] = "user"
           /\ UNCHANGED <<pc, value>>
           /\ id' = [id EXCEPT ![current] = -1]
  BY <1>0, <1>6
<1>7. CASE ExecSlot \/ ExecCannotOpen \/ \E i \in Pids : CallJoin(i)
  BY <1>0, <1>7 DEF ExecSlot, ExecCannotOpen, CallJoin, Goto
<1>8. CASE ExecLoad
  BY <1>0, <1>8 DEF ExecLoad, At
<1> QED
  BY <1>1, <1>2, <1>3, <1>4, <1>5, <1>6, <1>7, <1>8 DEF Step

LEMMA PTypeStep ==
    PTypeOK /\ IdKnown /\ [PNext]_pvars => PTypeOK' /\ IdKnown'
<1> SUFFICES ASSUME PTypeOK, IdKnown, [PNext]_pvars
             PROVE  PTypeOK' /\ IdKnown'
  OBVIOUS
<1>1. K!TypeOK
  BY PTypeOKIs
<1>2. [K!Next]_kvars /\ Step
  BY <1>1, StepIs
<1>3. K!TypeOK'
  BY <1>1, <1>2, KTypeStep
<1>4. PTypes' /\ IdKnown'
  BY <1>2, PTypesStep, IdKnownStep
<1> QED
  BY <1>3, <1>4 DEF PTypeOK, PTypes

\* The variables keep their types: no P of PTable.cc or PCB.cc makes a
\* semaphore negative, and no descriptor is taken that the host does not have.
THEOREM PTypeCorrect == PSpec => []PTypeOK
<1> DEFINE Inv == PTypeOK /\ IdKnown
<1>1. PInit => Inv
  BY PTypeInit
<1>2. Inv /\ [PNext]_pvars => Inv'
  BY PTypeStep
<1> QED
  BY <1>1, <1>2, PTL DEF PSpec

\* Every execution of the process code is an execution of the kernel: what
\* KernelProofs proves of the kernel holds of it.
THEOREM ProcessesAreThreads == PSpec => K!Spec
<1>1. PInit => K!Init
  BY DEF PInit
<1>2. PTypeOK /\ IdKnown /\ [PNext]_pvars => [K!Next]_kvars
  BY StepIs, PTypeOKIs
<1>3. PInit => PTypeOK /\ IdKnown
  BY PTypeInit
<1>4. PTypeOK /\ IdKnown /\ [PNext]_pvars => PTypeOK' /\ IdKnown'
  BY PTypeStep
<1>5. PTypeOK /\ IdKnown /\ [PNext]_pvars => [K!Next]_(K!kvars)
  BY <1>2 DEF kvars, K!kvars
<1> QED
  BY <1>1, <1>3, <1>4, <1>5, PTL DEF PSpec, K!Spec

-----------------------------------------------------------------------------
(* Pages. *)

\* No thread becomes new again.
LEMMA NewStaysOld ==
    ASSUME K!TypeOK, [K!Next]_kvars, NEW t \in Pids, status'[t] = "JUST_CREATED"
    PROVE  status[t] = "JUST_CREATED"
<1> USE DEF K!TypeOK
<1>1. CASE K!Yield
  BY <1>1 DEF K!Yield, K!Run
<1>2. CASE K!Switch
  BY <1>2 DEF K!Switch, K!Run
<1>3. CASE K!Finish
  BY <1>3 DEF K!Finish
<1>4. CASE K!IdleHalt \/ K!Halt \/ UNCHANGED kvars
  BY <1>4 DEF K!IdleHalt, K!Halt, kvars, K!schedVars
<1>5. ASSUME NEW u \in Pids, K!Fork(u)
      PROVE  status[t] = "JUST_CREATED"
  BY <1>5 DEF K!Fork
<1>6. ASSUME NEW s \in PSems, K!Wait(s) \/ K!Take(s) \/ K!StartIO(s)
      PROVE  status[t] = "JUST_CREATED"
  BY <1>6 DEF K!Wait, K!Take, K!StartIO, K!schedVars
<1>7. ASSUME NEW s \in PSems, K!V(s) \/ K!Interrupt(s)
      PROVE  status[t] = "JUST_CREATED"
  BY <1>7 DEF K!V, K!Interrupt, K!Wake
<1> QED
  BY <1>1, <1>2, <1>3, <1>4, <1>5, <1>6, <1>7 DEF K!Next

\* A thread that was never forked has no pages and no program counter.
NewIsEmpty ==
    \A i \in Pids : status[i] = "JUST_CREATED" => frames[i] = {} /\ pc[i] = "none"

PageInv == PagesOwned /\ NewIsEmpty

LEMMA PageInit == PInit => PageInv
<1> SUFFICES ASSUME PInit PROVE PageInv
  OBVIOUS
<1>1. NewIsEmpty
  BY DEF PInit, K!Init, NewIsEmpty
<1>2. 0 \in Pids
  BY ProcessAssumption DEF Pids
<1>3. PagesOwned
  BY <1>2 DEF PInit, PagesOwned
<1> QED
  BY <1>1, <1>3 DEF PageInv

\* Which steps change pages at all.
LEMMA SamePages ==
    ASSUME [PNext]_pvars, ~ExecLoad, ~Remove
    PROVE  UNCHANGED <<frames, physMap>>
BY DEF PNext, KernelStep, UserStep, TimeSlice, Dispatch, Idle, FirstFetchFaults,
       ExecP, ExecNoFile, ExecRefused, ExecSlot, ExecMutex, ExecCannotOpen,
       ExecTooBig, ExecYield, ExecMutexV, ExecReturn, ExitWait, ExitDec, ExitDecV,
       JoinInc, JoinIncV, JoinWait, JoinRead, UseAfterDestroy, CallHalt, ExitMain,
       CallExec, CallExit, CallJoin, JoinRefused, StopMachine, spaceVars, pvars

LEMMA PageStep ==
    PTypeOK /\ IdKnown /\ PageInv /\ [PNext]_pvars => PagesOwned'
<1> SUFFICES ASSUME PTypeOK, IdKnown, PageInv, [PNext]_pvars
             PROVE  PagesOwned'
  OBVIOUS
<1>1. /\ K!TypeOK
      /\ current \in Pids
      /\ frames \in [Pids -> SUBSET Frames]
  BY DEF PTypeOK, K!TypeOK
<1>2. CASE ExecLoad
  <2>1. PICK i \in Pids, got \in SUBSET Frames :
          /\ status[i] = "JUST_CREATED"
          /\ got \cap physMap = {}
          /\ frames' = [frames EXCEPT ![i] = got]
          /\ physMap' = physMap \cup got
    <3>1. id[current] \in Pids
      BY <1>1, <1>2, IdOf DEF ExecLoad, At, IdLabels
    <3>2. status[id[current]] = "JUST_CREATED"
      BY <1>2 DEF ExecLoad, K!Fork
    <3>3. \A n : FindPages(n) \subseteq Frames \ physMap
      BY DEF FindPages
    <3> QED
      BY <1>2, <3>1, <3>2, <3>3 DEF ExecLoad
  <2>2. frames[i] = {}
    BY <2>1 DEF PageInv, NewIsEmpty
  <2> QED
    BY <1>1, <2>1, <2>2 DEF PageInv, PagesOwned
<1>3. CASE Remove
  BY <1>1, <1>3 DEF Remove, PageInv, PagesOwned
<1>4. CASE ~ExecLoad /\ ~Remove
  BY <1>4, SamePages DEF PageInv, PagesOwned
<1> QED
  BY <1>2, <1>3, <1>4

LEMMA NewStep ==
    PTypeOK /\ IdKnown /\ NewIsEmpty /\ [PNext]_pvars => NewIsEmpty'
<1> SUFFICES ASSUME PTypeOK, IdKnown, NewIsEmpty, [PNext]_pvars,
                    NEW i \in Pids, status'[i] = "JUST_CREATED"
             PROVE  frames'[i] = {} /\ pc'[i] = "none"
  BY DEF NewIsEmpty
<1>1. /\ K!TypeOK /\ current \in Pids
      /\ frames \in [Pids -> SUBSET Frames]
      /\ pc \in [Pids -> Labels]
  BY DEF PTypeOK, K!TypeOK
<1>2. [K!Next]_kvars /\ Step
  BY <1>1, StepIs
<1>3. status[i] = "JUST_CREATED"
  BY <1>1, <1>2, NewStaysOld
<1>4. frames[i] = {} /\ pc[i] = "none"
  BY <1>3 DEF NewIsEmpty
<1>5. CASE ExecLoad
  <2>1. id[current] \in Pids /\ pc[current] = "ExecLoad"
    BY <1>1, <1>5, IdOf DEF ExecLoad, At, IdLabels
  <2>2. status' = [status EXCEPT ![id[current]] = "READY"]
    BY <1>5 DEF ExecLoad, K!Fork
  <2>3. i # id[current] /\ i # current
    BY <1>1, <1>4, <2>1, <2>2 DEF K!TypeOK
  <2> QED
    BY <1>1, <1>4, <1>5, <2>1, <2>3 DEF ExecLoad
<1>6. CASE ~ExecLoad
  <2>1. frames'[i] = {}
    <3>1. CASE Remove
      BY <1>1, <1>4, <3>1 DEF Remove
    <3> QED
      BY <1>4, <1>6, <3>1, SamePages
  <2>2. pc'[i] = "none"
    <3>1. CASE current = i
      BY <1>1, <1>2, <1>4, <1>6, <3>1
      DEF Step, Passing, Posting, Returning, Jumping, Pass, Post, Jump,
          ExecSlot, ExecCannotOpen, CallJoin, InUserCode, At
    <3>2. CASE current # i
      BY <1>1, <1>2, <1>4, <1>6, <3>2
      DEF Step, Passing, Posting, Returning, Jumping, Pass, Post, Jump,
          ExecSlot, ExecCannotOpen, CallJoin, Goto
    <3> QED
      BY <3>1, <3>2
  <2> QED
    BY <2>1, <2>2
<1> QED
  BY <1>5, <1>6

\* Memory protection, for any number of processes, pages and programs: what
\* AddrSpace takes from gPhysPageBitMap and ~AddrSpace gives back.
THEOREM PagesCorrect == PSpec => []PagesOwned
<1> DEFINE Inv == PTypeOK /\ IdKnown /\ PageInv
<1>1. PInit => Inv
  BY PTypeInit, PageInit
<1>2. Inv /\ [PNext]_pvars => Inv'
  BY PTypeStep, PageStep, NewStep DEF PageInv
<1>3. Inv => PagesOwned
  BY DEF PageInv
<1> QED
  BY <1>1, <1>2, <1>3, PTL DEF PSpec

-----------------------------------------------------------------------------
(* The lock of the table. *)

LoadLabels == {"ExecCheck", "ExecMutex", "ExecLoad", "ExecYield", "ExecMutexV",
               "ExecReturn"}

LEMMA LoadingFinite ==
    /\ IsFiniteSet(Loading) /\ Cardinality(Loading) \in Nat
<1>1. IsFiniteSet(Pids)
  BY FS_Interval, ProcessAssumption DEF Pids
<1>2. Loading \subseteq Pids
  BY DEF Loading
<1> QED
  BY <1>1, <1>2, FS_Subset, FS_CardinalityType

LEMMA LoadInit == PInit => LoadExclusive
<1> SUFFICES ASSUME PInit PROVE LoadExclusive
  OBVIOUS
<1>1. value[Bmsem] = 1
  BY SemsOf DEF PInit, K!Init, PInitVal, Bmsem
<1>2. Loading = {}
  BY DEF PInit, Loading
<1> QED
  BY <1>1, <1>2, FS_EmptySet DEF LoadExclusive

\* What a step does to the set of loaders and to the semaphore.
LEMMA LoadEffect ==
    ASSUME PTypeOK, IdKnown, NewIsEmpty, [PNext]_pvars
    PROVE  \/ /\ Loading' = Loading /\ value'[Bmsem] = value[Bmsem]
           \/ /\ current \in Pids \ Loading
              /\ Loading' = Loading \cup {current}
              /\ value'[Bmsem] = value[Bmsem] - 1
           \/ /\ current \in Loading
              /\ Loading' = Loading \ {current}
              /\ value'[Bmsem] = value[Bmsem] + 1
<1>1. /\ K!TypeOK /\ current \in Pids
      /\ pc \in [Pids -> Labels]
      /\ value \in [PSems -> Nat]
  BY DEF PTypeOK, K!TypeOK
<1>2. Step
  BY <1>1, StepIs
<1>3. pc[current] \in IdLabels => id[current] \in Pids
  BY <1>1, IdOf
<1> USE SemsOf, SemsDistinct
<1>4. CASE Pass("ExecP", Bmsem, "ExecCheck")
  BY <1>1, <1>4 DEF Pass, Loading
<1>5. CASE Post("ExecReturn", Bmsem, "user")
  BY <1>1, <1>5 DEF Post, Loading
<1>6. ASSUME \/ Pass("ExecMutex", Mutex(id[current]), "ExecLoad")
             \/ Pass("JoinInc", Mutex(id[current]), "JoinIncV")
             \/ Pass("JoinWait", Joinsem(id[current]), "JoinRead")
             \/ Pass("ExitWait", Exitsem(current), "ExitDec")
             \/ Pass("ExitDec", Mutex(current), "ExitDecV")
      PROVE  Loading' = Loading /\ value'[Bmsem] = value[Bmsem]
  <2>1. value'[Bmsem] = value[Bmsem]
    BY <1>1, <1>3, <1>6 DEF Pass, IdLabels
  <2> QED
    BY <1>1, <1>6, <2>1 DEF Pass, Loading
<1>7. ASSUME \/ Posting \/ Post("JoinRead", Exitsem(id[current]), "user")
      PROVE  Loading' = Loading /\ value'[Bmsem] = value[Bmsem]
  <2>1. value'[Bmsem] = value[Bmsem]
    BY <1>1, <1>3, <1>7 DEF Posting, Post, IdLabels
  <2> QED
    BY <1>1, <1>7, <2>1 DEF Posting, Post, Loading
<1>8. ASSUME Jumping \/ UNCHANGED <<pc, value>>
      PROVE  Loading' = Loading /\ value'[Bmsem] = value[Bmsem]
  BY <1>1, <1>8 DEF Jumping, Jump, Loading
<1>9. ASSUME ExecSlot \/ ExecCannotOpen \/ \E i \in Pids : CallJoin(i)
      PROVE  Loading' = Loading /\ value'[Bmsem] = value[Bmsem]
  BY <1>1, <1>9 DEF ExecSlot, ExecCannotOpen, CallJoin, InUserCode, At, Goto, kvars, Loading
<1>10. CASE ExecLoad
  <2>1. id[current] \in Pids /\ pc[current] = "ExecLoad"
    BY <1>1, <1>10, IdOf DEF ExecLoad, At, IdLabels
  <2>2. pc[id[current]] = "none" /\ value' = value
    BY <1>10, <2>1 DEF ExecLoad, K!Fork, K!semVars, NewIsEmpty
  <2> QED
    BY <1>1, <1>10, <2>1, <2>2 DEF ExecLoad, Loading
<1> QED
  BY <1>2, <1>4, <1>5, <1>6, <1>7, <1>8, <1>9, <1>10 DEF Step, Passing, Returning

LEMMA LoadStep ==
    PTypeOK /\ IdKnown /\ NewIsEmpty /\ LoadExclusive /\ [PNext]_pvars
      => LoadExclusive'
<1> SUFFICES ASSUME PTypeOK, IdKnown, NewIsEmpty, LoadExclusive, [PNext]_pvars
             PROVE  value'[Bmsem] + Cardinality(Loading') = 1
  BY DEF LoadExclusive
<1>1. value[Bmsem] \in Nat
  BY SemsOf DEF PTypeOK, K!TypeOK
<1>2. value[Bmsem] + Cardinality(Loading) = 1
  BY DEF LoadExclusive
<1>3. ASSUME current \notin Loading, Loading' = Loading \cup {current}
      PROVE  Cardinality(Loading') = Cardinality(Loading) + 1
  BY <1>3, LoadingFinite, FS_AddElement
<1>4. ASSUME current \in Loading, Loading' = Loading \ {current}
      PROVE  Cardinality(Loading') = Cardinality(Loading) - 1
  BY <1>4, LoadingFinite, FS_RemoveElement
<1> QED
  BY <1>1, <1>2, <1>3, <1>4, LoadingFinite, LoadEffect

\* At most one process is between the P and the V of bmsem (ExecUpdate), for any
\* number of processes.
THEOREM LoadsExclude == PSpec => []LoadExclusive
<1> DEFINE Inv == PTypeOK /\ IdKnown /\ PageInv /\ LoadExclusive
<1>1. PInit => Inv
  BY PTypeInit, PageInit, LoadInit
<1>2. Inv /\ [PNext]_pvars => Inv'
  BY PTypeStep, PageStep, NewStep, LoadStep DEF PageInv
<1> QED
  BY <1>1, <1>2, PTL DEF PSpec

-----------------------------------------------------------------------------
(* The mutex of a PCB. *)

LEMMA HoldersFinite ==
    \A i : IsFiniteSet(HoldsMutex(i)) /\ Cardinality(HoldsMutex(i)) \in Nat
<1> TAKE i
<1>1. IsFiniteSet(Pids)
  BY FS_Interval, ProcessAssumption DEF Pids
<1>2. HoldsMutex(i) \subseteq Pids
  BY DEF HoldsMutex
<1> QED
  BY <1>1, <1>2, FS_Subset, FS_CardinalityType

LEMMA MutexInit == PInit => MutexExclusive
<1> SUFFICES ASSUME PInit, NEW i \in Pids
             PROVE  value[Mutex(i)] + Cardinality(HoldsMutex(i)) <= 1
  BY DEF MutexExclusive
<1>1. value[Mutex(i)] = 1
  BY SemsOf DEF PInit, K!Init, PInitVal, Mutex
<1>2. HoldsMutex(i) = {}
  BY DEF PInit, HoldsMutex
<1> QED
  BY <1>1, <1>2, FS_EmptySet

\* What a step does to the mutex of i and to those inside it.  Exec may give
\* up the mutex without a V, when the file cannot be opened again.
LEMMA MutexEffect ==
    ASSUME PTypeOK, IdKnown, NewIsEmpty, [PNext]_pvars, NEW i \in Pids
    PROVE  \/ /\ HoldsMutex(i)' \subseteq HoldsMutex(i)
              /\ value'[Mutex(i)] = value[Mutex(i)]
           \/ /\ current \notin HoldsMutex(i)
              /\ HoldsMutex(i)' = HoldsMutex(i) \cup {current}
              /\ value'[Mutex(i)] = value[Mutex(i)] - 1
           \/ /\ current \in HoldsMutex(i)
              /\ HoldsMutex(i)' = HoldsMutex(i) \ {current}
              /\ value'[Mutex(i)] = value[Mutex(i)] + 1
<1>1. /\ K!TypeOK /\ current \in Pids
      /\ pc \in [Pids -> Labels]
      /\ id \in [Pids -> Pids \cup {-1}]
      /\ value \in [PSems -> Nat]
  BY DEF PTypeOK, K!TypeOK
<1>2. Step
  BY <1>1, StepIs
<1>3. pc[current] \in IdLabels => id[current] \in Pids
  BY <1>1, IdOf
<1> DEFINE Same == /\ HoldsMutex(i)' \subseteq HoldsMutex(i)
                   /\ value'[Mutex(i)] = value[Mutex(i)]
           Enter == /\ current \notin HoldsMutex(i)
                    /\ HoldsMutex(i)' = HoldsMutex(i) \cup {current}
                    /\ value'[Mutex(i)] = value[Mutex(i)] - 1
           Leave == /\ current \in HoldsMutex(i)
                    /\ HoldsMutex(i)' = HoldsMutex(i) \ {current}
                    /\ value'[Mutex(i)] = value[Mutex(i)] + 1
<1> USE SemsOf, SemsDistinct
<1>4. ASSUME \/ Pass("ExecMutex", Mutex(id[current]), "ExecLoad")
             \/ Pass("JoinInc", Mutex(id[current]), "JoinIncV"),
             UNCHANGED id
      PROVE  Same \/ Enter
  <2>1. id[current] \in Pids
    BY <1>3, <1>4 DEF Pass, IdLabels
  <2>2. CASE id[current] = i
    BY <1>1, <1>4, <2>1, <2>2 DEF Pass, HoldsMutex
  <2>3. CASE id[current] # i
    BY <1>1, <1>4, <2>1, <2>3 DEF Pass, HoldsMutex
  <2> QED
    BY <2>2, <2>3
<1>5. ASSUME Pass("ExitDec", Mutex(current), "ExitDecV"), UNCHANGED id
      PROVE  Same \/ Enter
  <2>1. CASE current = i
    BY <1>1, <1>5, <2>1 DEF Pass, HoldsMutex
  <2>2. CASE current # i
    BY <1>1, <1>5, <2>2 DEF Pass, HoldsMutex
  <2> QED
    BY <2>1, <2>2
<1>6. ASSUME \/ Post("ExecMutexV", Mutex(id[current]), "ExecReturn")
             \/ Post("JoinIncV", Mutex(id[current]), "JoinWait"),
             UNCHANGED id
      PROVE  Same \/ Leave
  <2>1. id[current] \in Pids
    BY <1>3, <1>6 DEF Post, IdLabels
  <2>2. CASE id[current] = i
    BY <1>1, <1>6, <2>1, <2>2 DEF Post, HoldsMutex
  <2>3. CASE id[current] # i
    BY <1>1, <1>6, <2>1, <2>3 DEF Post, HoldsMutex
  <2> QED
    BY <2>2, <2>3
<1>7. ASSUME Post("ExitDecV", Mutex(current), "Remove"), UNCHANGED id
      PROVE  Same \/ Leave
  <2>1. CASE current = i
    BY <1>1, <1>7, <2>1 DEF Post, HoldsMutex
  <2>2. CASE current # i
    BY <1>1, <1>7, <2>2 DEF Post, HoldsMutex
  <2> QED
    BY <2>1, <2>2
<1>8. ASSUME \/ Pass("ExecP", Bmsem, "ExecCheck") /\ UNCHANGED id
             \/ Pass("ExitWait", Exitsem(current), "ExitDec") /\ UNCHANGED id
             \/ Pass("JoinWait", Joinsem(id[current]), "JoinRead") /\ UNCHANGED id
             \/ Post("user", Joinsem(current), "ExitWait") /\ UNCHANGED id
             \/ Returning /\ id' = [id EXCEPT ![current] = -1]
      PROVE  Same
  <2>1. value'[Mutex(i)] = value[Mutex(i)]
    BY <1>1, <1>3, <1>8 DEF Pass, Post, Returning, IdLabels
  <2>2. HoldsMutex(i)' \subseteq HoldsMutex(i)
    BY <1>1, <1>8 DEF Pass, Post, Returning, HoldsMutex
  <2> QED
    BY <2>1, <2>2
<1>9. ASSUME \/ Jumping /\ UNCHANGED id
             \/ UNCHANGED <<pc, value, id>>
             \/ /\ pc[current] = "user"
                /\ UNCHANGED <<pc, value>>
                /\ id' = [id EXCEPT ![current] = -1]
      PROVE  Same
  BY <1>1, <1>9 DEF Jumping, Jump, HoldsMutex
<1>10. ASSUME ExecSlot \/ ExecCannotOpen \/ \E j \in Pids : CallJoin(j)
       PROVE  Same
  BY <1>1, <1>10
  DEF ExecSlot, ExecCannotOpen, CallJoin, InUserCode, At, Goto, kvars, HoldsMutex
<1>11. ASSUME ExecLoad
       PROVE  Same
  <2>1. id[current] \in Pids /\ pc[current] = "ExecLoad"
    BY <1>1, <1>11, IdOf DEF ExecLoad, At, IdLabels
  <2>2. pc[id[current]] = "none" /\ value' = value /\ id' = id
    BY <1>11, <2>1 DEF ExecLoad, K!Fork, K!semVars, NewIsEmpty
  <2> QED
    BY <1>1, <1>11, <2>1, <2>2 DEF ExecLoad, HoldsMutex
<1> QED
  BY <1>2, <1>4, <1>5, <1>6, <1>7, <1>8, <1>9, <1>10, <1>11
  DEF Step, Passing, Posting

LEMMA MutexStep ==
    PTypeOK /\ IdKnown /\ NewIsEmpty /\ MutexExclusive /\ [PNext]_pvars
      => MutexExclusive'
<1> SUFFICES ASSUME PTypeOK, IdKnown, NewIsEmpty, MutexExclusive, [PNext]_pvars,
                    NEW i \in Pids
             PROVE  value'[Mutex(i)] + Cardinality(HoldsMutex(i)') <= 1
  BY DEF MutexExclusive
<1>1. value[Mutex(i)] \in Nat
  BY SemsOf DEF PTypeOK, K!TypeOK
<1>2. value[Mutex(i)] + Cardinality(HoldsMutex(i)) <= 1
  BY DEF MutexExclusive
<1>3. IsFiniteSet(HoldsMutex(i)) /\ Cardinality(HoldsMutex(i)) \in Nat
  BY HoldersFinite
<1>4. ASSUME HoldsMutex(i)' \subseteq HoldsMutex(i)
      PROVE  /\ Cardinality(HoldsMutex(i)') \in Nat
             /\ Cardinality(HoldsMutex(i)') <= Cardinality(HoldsMutex(i))
  BY <1>3, <1>4, FS_Subset, FS_CardinalityType
<1>5. ASSUME current \notin HoldsMutex(i), HoldsMutex(i)' = HoldsMutex(i) \cup {current}
      PROVE  Cardinality(HoldsMutex(i)') = Cardinality(HoldsMutex(i)) + 1
  BY <1>3, <1>5, FS_AddElement
<1>6. ASSUME current \in HoldsMutex(i), HoldsMutex(i)' = HoldsMutex(i) \ {current}
      PROVE  Cardinality(HoldsMutex(i)') = Cardinality(HoldsMutex(i)) - 1
  BY <1>3, <1>6, FS_RemoveElement
<1> QED
  BY <1>1, <1>2, <1>3, <1>4, <1>5, <1>6, MutexEffect

\* Nobody is inside the mutex of a PCB with another (PCB::Exec, IncNumWait,
\* DecNumWait), for any number of processes.
THEOREM MutexesExclude == PSpec => []MutexExclusive
<1> DEFINE Inv == PTypeOK /\ IdKnown /\ PageInv /\ MutexExclusive
<1>1. PInit => Inv
  BY PTypeInit, PageInit, MutexInit
<1>2. Inv /\ [PNext]_pvars => Inv'
  BY PTypeStep, PageStep, NewStep, MutexStep DEF PageInv
<1> QED
  BY <1>1, <1>2, PTL DEF PSpec

-----------------------------------------------------------------------------
(* Join and Exit. *)

\* The parents between JoinWait and ExitRelease of child i.
Reading(i) == {p \in Pids : pc[p] = "JoinRead" /\ id[p] = i}

\* While child i is in ExitWait, and only then, there is exactly one token: in
\* joinsem, with the parent that reads the code, or in exitsem.
Token(i) == value[Joinsem(i)] + Cardinality(Reading(i)) + value[Exitsem(i)]

OneToken == \A i \in Pids : Token(i) = IF pc[i] = "ExitWait" THEN 1 ELSE 0

DestroyedGone == \A i \in destroyed : pc[i] = "gone"

LEMMA ReadingFinite ==
    \A i : IsFiniteSet(Reading(i)) /\ Cardinality(Reading(i)) \in Nat
<1> TAKE i
<1>1. IsFiniteSet(Pids)
  BY FS_Interval, ProcessAssumption DEF Pids
<1>2. Reading(i) \subseteq Pids
  BY DEF Reading
<1> QED
  BY <1>1, <1>2, FS_Subset, FS_CardinalityType

LEMMA JoinInit == PInit => OneToken /\ DestroyedGone
<1> SUFFICES ASSUME PInit PROVE OneToken /\ DestroyedGone
  OBVIOUS
<1>1. ASSUME NEW i \in Pids
      PROVE  Token(i) = IF pc[i] = "ExitWait" THEN 1 ELSE 0
  <2>1. value[Joinsem(i)] = 0 /\ value[Exitsem(i)] = 0
    BY SemsOf DEF PInit, K!Init, PInitVal, Joinsem, Exitsem
  <2>2. Reading(i) = {} /\ pc[i] # "ExitWait"
    BY DEF PInit, Reading
  <2> QED
    BY <2>1, <2>2, FS_EmptySet DEF Token
<1>2. DestroyedGone
  BY DEF PInit, DestroyedGone
<1> QED
  BY <1>1, <1>2 DEF OneToken

\* What a step does to the three places of the token of i.
LEMMA TokenEffect ==
    ASSUME PTypeOK, IdKnown, NewIsEmpty, [PNext]_pvars, NEW i \in Pids
    PROVE  \/ /\ pc[i] = "ExitWait" <=> pc'[i] = "ExitWait"
              /\ \/ /\ Reading(i)' = Reading(i)
                    /\ value'[Joinsem(i)] = value[Joinsem(i)]
                    /\ value'[Exitsem(i)] = value[Exitsem(i)]
                 \/ /\ current \notin Reading(i)
                    /\ Reading(i)' = Reading(i) \cup {current}
                    /\ value'[Joinsem(i)] = value[Joinsem(i)] - 1
                    /\ value'[Exitsem(i)] = value[Exitsem(i)]
                 \/ /\ current \in Reading(i)
                    /\ Reading(i)' = Reading(i) \ {current}
                    /\ value'[Joinsem(i)] = value[Joinsem(i)]
                    /\ value'[Exitsem(i)] = value[Exitsem(i)] + 1
           \/ /\ pc[i] # "ExitWait" /\ pc'[i] = "ExitWait"
              /\ Reading(i)' = Reading(i)
              /\ value'[Joinsem(i)] = value[Joinsem(i)] + 1
              /\ value'[Exitsem(i)] = value[Exitsem(i)]
           \/ /\ pc[i] = "ExitWait" /\ pc'[i] # "ExitWait"
              /\ Reading(i)' = Reading(i)
              /\ value'[Joinsem(i)] = value[Joinsem(i)]
              /\ value'[Exitsem(i)] = value[Exitsem(i)] - 1
<1>1. /\ K!TypeOK /\ current \in Pids
      /\ pc \in [Pids -> Labels]
      /\ id \in [Pids -> Pids \cup {-1}]
      /\ value \in [PSems -> Nat]
  BY DEF PTypeOK, K!TypeOK
<1>2. Step
  BY <1>1, StepIs
<1>3. pc[current] \in IdLabels => id[current] \in Pids
  BY <1>1, IdOf
<1> DEFINE Stays == pc[i] = "ExitWait" <=> pc'[i] = "ExitWait"
           Same == /\ Stays
                   /\ Reading(i)' = Reading(i)
                   /\ value'[Joinsem(i)] = value[Joinsem(i)]
                   /\ value'[Exitsem(i)] = value[Exitsem(i)]
           Joined == /\ Stays
                     /\ current \notin Reading(i)
                     /\ Reading(i)' = Reading(i) \cup {current}
                     /\ value'[Joinsem(i)] = value[Joinsem(i)] - 1
                     /\ value'[Exitsem(i)] = value[Exitsem(i)]
           Released == /\ Stays
                       /\ current \in Reading(i)
                       /\ Reading(i)' = Reading(i) \ {current}
                       /\ value'[Joinsem(i)] = value[Joinsem(i)]
                       /\ value'[Exitsem(i)] = value[Exitsem(i)] + 1
           Exits == /\ pc[i] # "ExitWait" /\ pc'[i] = "ExitWait"
                    /\ Reading(i)' = Reading(i)
                    /\ value'[Joinsem(i)] = value[Joinsem(i)] + 1
                    /\ value'[Exitsem(i)] = value[Exitsem(i)]
           Leaves == /\ pc[i] = "ExitWait" /\ pc'[i] # "ExitWait"
                     /\ Reading(i)' = Reading(i)
                     /\ value'[Joinsem(i)] = value[Joinsem(i)]
                     /\ value'[Exitsem(i)] = value[Exitsem(i)] - 1
<1> USE SemsOf, SemsDistinct
<1>4. ASSUME Pass("JoinWait", Joinsem(id[current]), "JoinRead"), UNCHANGED id
      PROVE  Same \/ Joined
  <2>1. id[current] \in Pids
    BY <1>3, <1>4 DEF Pass, IdLabels
  <2>2. CASE id[current] = i
    BY <1>1, <1>4, <2>1, <2>2 DEF Pass, Reading
  <2>3. CASE id[current] # i
    BY <1>1, <1>4, <2>1, <2>3 DEF Pass, Reading
  <2> QED
    BY <2>2, <2>3
<1>5. ASSUME Post("JoinRead", Exitsem(id[current]), "user"),
             id' = [id EXCEPT ![current] = -1]
      PROVE  Same \/ Released
  <2>1. id[current] \in Pids
    BY <1>3, <1>5 DEF Post, IdLabels
  <2>2. CASE id[current] = i
    BY <1>1, <1>5, <2>1, <2>2 DEF Post, Reading
  <2>3. CASE id[current] # i
    BY <1>1, <1>5, <2>1, <2>3 DEF Post, Reading
  <2> QED
    BY <2>2, <2>3
<1>6. ASSUME Post("user", Joinsem(current), "ExitWait"), UNCHANGED id
      PROVE  Same \/ Exits
  <2>1. CASE current = i
    BY <1>1, <1>6, <2>1 DEF Post, Reading
  <2>2. CASE current # i
    BY <1>1, <1>6, <2>2 DEF Post, Reading
  <2> QED
    BY <2>1, <2>2
<1>7. ASSUME Pass("ExitWait", Exitsem(current), "ExitDec"), UNCHANGED id
      PROVE  Same \/ Leaves
  <2>1. CASE current = i
    BY <1>1, <1>7, <2>1 DEF Pass, Reading
  <2>2. CASE current # i
    BY <1>1, <1>7, <2>2 DEF Pass, Reading
  <2> QED
    BY <2>1, <2>2
<1>8. ASSUME \/ Pass("ExecP", Bmsem, "ExecCheck") /\ UNCHANGED id
             \/ Pass("ExecMutex", Mutex(id[current]), "ExecLoad") /\ UNCHANGED id
             \/ Pass("JoinInc", Mutex(id[current]), "JoinIncV") /\ UNCHANGED id
             \/ Pass("ExitDec", Mutex(current), "ExitDecV") /\ UNCHANGED id
             \/ Post("ExecMutexV", Mutex(id[current]), "ExecReturn") /\ UNCHANGED id
             \/ Post("JoinIncV", Mutex(id[current]), "JoinWait") /\ UNCHANGED id
             \/ Post("ExitDecV", Mutex(current), "Remove") /\ UNCHANGED id
             \/ Post("ExecReturn", Bmsem, "user") /\ id' = [id EXCEPT ![current] = -1]
      PROVE  Same
  <2>1. value'[Joinsem(i)] = value[Joinsem(i)] /\ value'[Exitsem(i)] = value[Exitsem(i)]
    BY <1>1, <1>3, <1>8 DEF Pass, Post, IdLabels
  <2>2. Stays /\ Reading(i)' = Reading(i)
    BY <1>1, <1>8 DEF Pass, Post, Reading
  <2> QED
    BY <2>1, <2>2
<1>9. ASSUME \/ Jumping /\ UNCHANGED id
             \/ UNCHANGED <<pc, value, id>>
             \/ /\ pc[current] = "user"
                /\ UNCHANGED <<pc, value>>
                /\ id' = [id EXCEPT ![current] = -1]
      PROVE  Same
  BY <1>1, <1>9 DEF Jumping, Jump, Reading
<1>10. ASSUME ExecSlot \/ ExecCannotOpen \/ \E j \in Pids : CallJoin(j)
       PROVE  Same
  BY <1>1, <1>10
  DEF ExecSlot, ExecCannotOpen, CallJoin, InUserCode, At, Goto, kvars, Reading
<1>11. ASSUME ExecLoad
       PROVE  Same
  <2>1. id[current] \in Pids /\ pc[current] = "ExecLoad"
    BY <1>1, <1>11, IdOf DEF ExecLoad, At, IdLabels
  <2>2. pc[id[current]] = "none" /\ value' = value /\ id' = id
    BY <1>11, <2>1 DEF ExecLoad, K!Fork, K!semVars, NewIsEmpty
  <2> QED
    BY <1>1, <1>11, <2>1, <2>2 DEF ExecLoad, Reading
<1> QED
  BY <1>2, <1>4, <1>5, <1>6, <1>7, <1>8, <1>9, <1>10, <1>11
  DEF Step, Passing, Posting, Returning

LEMMA TokenStep ==
    PTypeOK /\ IdKnown /\ NewIsEmpty /\ OneToken /\ [PNext]_pvars => OneToken'
<1> SUFFICES ASSUME PTypeOK, IdKnown, NewIsEmpty, OneToken, [PNext]_pvars,
                    NEW i \in Pids
             PROVE  Token(i)' = IF pc'[i] = "ExitWait" THEN 1 ELSE 0
  BY DEF OneToken
<1>1. value[Joinsem(i)] \in Nat /\ value[Exitsem(i)] \in Nat
  BY SemsOf DEF PTypeOK, K!TypeOK
<1>2. Token(i) = IF pc[i] = "ExitWait" THEN 1 ELSE 0
  BY DEF OneToken
<1>3. IsFiniteSet(Reading(i)) /\ Cardinality(Reading(i)) \in Nat
  BY ReadingFinite
<1>4. ASSUME current \notin Reading(i), Reading(i)' = Reading(i) \cup {current}
      PROVE  Cardinality(Reading(i)') = Cardinality(Reading(i)) + 1
  BY <1>3, <1>4, FS_AddElement
<1>5. ASSUME current \in Reading(i), Reading(i)' = Reading(i) \ {current}
      PROVE  Cardinality(Reading(i)') = Cardinality(Reading(i)) - 1
  BY <1>3, <1>5, FS_RemoveElement
<1>6. Token(i)' = value'[Joinsem(i)] + Cardinality(Reading(i)') + value'[Exitsem(i)]
  BY DEF Token
<1> QED
  BY <1>1, <1>2, <1>3, <1>4, <1>5, <1>6, TokenEffect DEF Token

LEMMA GoneStep ==
    PTypeOK /\ IdKnown /\ NewIsEmpty /\ DestroyedGone /\ [PNext]_pvars
      => DestroyedGone'
<1> SUFFICES ASSUME PTypeOK, IdKnown, NewIsEmpty, DestroyedGone, [PNext]_pvars,
                    NEW i \in destroyed'
             PROVE  pc'[i] = "gone"
  BY DEF DestroyedGone
<1>1. /\ K!TypeOK /\ current \in Pids
      /\ pc \in [Pids -> Labels]
      /\ destroyed \subseteq Pids
  BY DEF PTypeOK, K!TypeOK
<1>2. Step
  BY <1>1, StepIs
<1>3. CASE Remove
  BY <1>1, <1>3 DEF Remove, Goto, DestroyedGone
<1>4. CASE ~Remove
  <2>1. destroyed' = destroyed
    BY <1>4
    DEF PNext, KernelStep, UserStep, TimeSlice, Dispatch, Idle, FirstFetchFaults,
        ExecP, ExecNoFile, ExecRefused, ExecSlot, ExecMutex, ExecCannotOpen, ExecLoad,
        ExecTooBig, ExecYield, ExecMutexV, ExecReturn, ExitWait, ExitDec, ExitDecV,
        JoinInc, JoinIncV, JoinWait, JoinRead, UseAfterDestroy, CallHalt, ExitMain,
        CallExec, CallExit, CallJoin, JoinRefused, StopMachine, tableVars, pvars
  <2>2. pc[i] = "gone" /\ i \in Pids
    BY <1>1, <2>1 DEF DestroyedGone
  <2>3. CASE ExecLoad
    <3>1. id[current] \in Pids /\ pc[current] = "ExecLoad"
      BY <1>1, <2>3, IdOf DEF ExecLoad, At, IdLabels
    <3>2. pc[id[current]] = "none"
      BY <2>3, <3>1 DEF ExecLoad, K!Fork, NewIsEmpty
    <3> QED
      BY <1>1, <2>2, <2>3, <3>1, <3>2 DEF ExecLoad
  <2>4. CASE ~ExecLoad
    BY <1>1, <1>2, <2>2, <2>4
    DEF Step, Passing, Posting, Returning, Jumping, Pass, Post, Jump,
        ExecSlot, ExecCannotOpen, CallJoin, InUserCode, At, Goto
  <2> QED
    BY <2>3, <2>4
<1> QED
  BY <1>3, <1>4

\* Where the token is: a parent that is about to read the code holds the child
\* in ExitWait, and a child that has not exited has no token.
LEMMA HeldWhenRead ==
    ASSUME PTypeOK, IdKnown, OneToken, NEW p \in Pids, pc[p] = "JoinRead"
    PROVE  /\ id[p] \in Pids
           /\ pc[id[p]] = "ExitWait"
           /\ value[Exitsem(id[p])] = 0
<1>1. id[p] \in Pids
  BY DEF IdKnown, IdLabels
<1>2. p \in Reading(id[p])
  BY DEF Reading
<1>3. Cardinality(Reading(id[p])) >= 1
  BY <1>2, ReadingFinite, FS_EmptySet
<1>4. value[Joinsem(id[p])] \in Nat /\ value[Exitsem(id[p])] \in Nat
  BY <1>1, SemsOf DEF PTypeOK, K!TypeOK
<1>5. Token(id[p]) = IF pc[id[p]] = "ExitWait" THEN 1 ELSE 0
  BY <1>1 DEF OneToken
<1> QED
  BY <1>1, <1>3, <1>4, <1>5, ReadingFinite DEF Token

LEMMA NoTokenBefore ==
    ASSUME PTypeOK, OneToken, NEW i \in Pids, pc[i] # "ExitWait"
    PROVE  value[Exitsem(i)] = 0
<1>1. value[Joinsem(i)] \in Nat /\ value[Exitsem(i)] \in Nat
  BY SemsOf DEF PTypeOK, K!TypeOK
<1>2. Token(i) = 0
  BY DEF OneToken
<1> QED
  BY <1>1, <1>2, ReadingFinite DEF Token

\* When a parent reads the code of its child (JoinUpdate), the child is held in
\* ExitWait, for any number of processes.
THEOREM JoinReadsSafely == PSpec => []JoinReadSafe
<1> DEFINE Inv == PTypeOK /\ IdKnown /\ PageInv /\ OneToken /\ DestroyedGone
<1>1. PInit => Inv
  BY PTypeInit, PageInit, JoinInit
<1>2. Inv /\ [PNext]_pvars => Inv'
  BY PTypeStep, PageStep, NewStep, TokenStep, GoneStep DEF PageInv
<1>3. Inv => JoinReadSafe
  BY HeldWhenRead DEF JoinReadSafe, DestroyedGone
<1> QED
  BY <1>1, <1>2, <1>3, PTL DEF PSpec

-----------------------------------------------------------------------------
(* The life cycle. *)

\* A marked slot belongs to the process that asked for it; the id a process
\* works on is that of its child.
ChildOf ==
    /\ \A i \in Pids \ bm : pc[i] = "none" /\ exitcode[i] = 0
    /\ \A p \in Pids : pc[p] \in {"none", "user", "ExecP", "ExecCheck"} => id[p] = -1
    /\ \A p \in Pids : id[p] # -1 => id[p] \in bm /\ parentID[id[p]] = p
    /\ \A p \in Pids :
          pc[p] \in {"ExecYield", "ExecMutexV", "ExecReturn"} /\ id[p] # -1
            => pc[id[p]] # "none"

LEMMA ChildInit == PInit => ChildOf
<1> SUFFICES ASSUME PInit PROVE ChildOf
  OBVIOUS
<1>1. bm = {0} /\ \A i \in Pids : exitcode[i] = 0 /\ id[i] = -1
  BY DEF PInit
<1>2. \A i \in Pids : pc[i] = IF i = 0 THEN "user" ELSE "none"
  BY DEF PInit
<1> QED
  BY <1>1, <1>2 DEF ChildOf

\* Who changes the table and the result register.
LEMMA SameTable ==
    ASSUME [PNext]_pvars
    PROVE  /\ ~ExecSlot => UNCHANGED <<bm, parentID>>
           /\ ~ExecSlot /\ ~(\E c \in Codes : CallExit(c)) => UNCHANGED exitcode
BY DEF PNext, KernelStep, UserStep, TimeSlice, Dispatch, Idle, FirstFetchFaults,
       ExecP, ExecNoFile, ExecRefused, ExecSlot, ExecMutex, ExecCannotOpen, ExecLoad,
       ExecTooBig, ExecYield, ExecMutexV, ExecReturn, ExitWait, ExitDec, ExitDecV, Remove,
       JoinInc, JoinIncV, JoinWait, JoinRead, UseAfterDestroy, CallHalt, ExitMain,
       CallExec, CallExit, CallJoin, JoinRefused, StopMachine, tableVars, pvars

LEMMA ChildStep ==
    PTypeOK /\ IdKnown /\ NewIsEmpty /\ ChildOf /\ [PNext]_pvars => ChildOf'
<1> SUFFICES ASSUME PTypeOK, IdKnown, NewIsEmpty, ChildOf, [PNext]_pvars
             PROVE  ChildOf'
  OBVIOUS
<1>1. /\ K!TypeOK /\ current \in Pids
      /\ pc \in [Pids -> Labels]
      /\ id \in [Pids -> Pids \cup {-1}]
      /\ bm \subseteq Pids
      /\ exitcode \in [Pids -> Codes \cup {0}]
      /\ parentID \in [Pids -> Pids \cup {-1}]
  BY DEF PTypeOK, K!TypeOK
<1>2. Step
  BY <1>1, StepIs
<1>3. CASE ExecSlot
  <2>1. PICK i \in Pids \ bm :
          /\ bm' = bm \cup {i}
          /\ parentID' = [parentID EXCEPT ![i] = current]
          /\ exitcode' = [exitcode EXCEPT ![i] = 0]
          /\ id' = [id EXCEPT ![current] = i]
    BY <1>3 DEF ExecSlot
  <2>2. pc[current] = "ExecCheck" /\ pc' = [pc EXCEPT ![current] = "ExecMutex"]
    BY <1>3 DEF ExecSlot, At, Goto
  <2> QED
    BY <1>1, <2>1, <2>2 DEF ChildOf
<1>4. CASE ExecLoad
  <2>1. id[current] \in Pids /\ pc[current] = "ExecLoad"
    BY <1>1, <1>4, IdOf DEF ExecLoad, At, IdLabels
  <2>2. pc' = [pc EXCEPT ![id[current]] = "user", ![current] = "ExecYield"]
    BY <1>4 DEF ExecLoad
  <2>3. pc[id[current]] = "none" /\ UNCHANGED <<id, bm, parentID, exitcode>>
    BY <1>4, <2>1 DEF ExecLoad, K!Fork, tableVars, NewIsEmpty
  <2>4. id[current] \in bm /\ id[current] # current /\ id[id[current]] = -1
    <3>1. id[current] # -1
      BY <2>1 DEF Pids
    <3> QED
      BY <1>1, <2>1, <2>3, <3>1 DEF ChildOf
  <2> QED
    BY <1>1, <2>1, <2>2, <2>3, <2>4 DEF ChildOf
<1>5. CASE ~ExecSlot /\ ~ExecLoad
  <2>1. UNCHANGED <<bm, parentID>>
    BY <1>5, SameTable
  <2>2. \A i \in Pids : pc[i] = "none" <=> pc'[i] = "none"
    BY <1>1, <1>2, <1>5
    DEF Step, Passing, Posting, Returning, Jumping, Pass, Post, Jump,
        ExecCannotOpen, CallJoin, InUserCode, At, Goto
  <2>3. \A i \in Pids \ bm : exitcode'[i] = exitcode[i]
    <3>1. ASSUME NEW c \in Codes, CallExit(c)
          PROVE  current \in bm /\ exitcode' = [exitcode EXCEPT ![current] = c]
      BY <1>1, <3>1 DEF CallExit, InUserCode, At, ChildOf
    <3> QED
      BY <1>1, <1>5, <3>1, SameTable
  <2>4. ASSUME NEW p \in Pids
        PROVE  /\ pc'[p] \in {"none", "user", "ExecP", "ExecCheck"} => id'[p] = -1
               /\ id'[p] # -1 => id'[p] \in bm /\ parentID[id'[p]] = p
               /\ pc'[p] \in {"ExecYield", "ExecMutexV", "ExecReturn"} /\ id'[p] # -1
                    => pc[id'[p]] # "none"
    <3>1. CASE p # current
      <4>1. pc'[p] = pc[p] /\ id'[p] = id[p]
        BY <1>1, <1>2, <1>5, <3>1
        DEF Step, Passing, Posting, Returning, Jumping, Pass, Post, Jump,
            ExecCannotOpen, CallJoin, Goto
      <4> QED
        BY <4>1 DEF ChildOf
    <3>2. CASE p = current
      <4>1. CASE (Passing \/ Posting \/ Jumping) /\ UNCHANGED id
        BY <1>1, <3>2, <4>1 DEF Passing, Posting, Jumping, Pass, Post, Jump, ChildOf
      <4>2. CASE Returning /\ id' = [id EXCEPT ![current] = -1]
        BY <1>1, <3>2, <4>2 DEF Returning, Post
      <4>3. CASE UNCHANGED <<pc, value, id>>
        BY <4>3 DEF ChildOf
      <4>4. CASE /\ pc[current] = "user"
                 /\ UNCHANGED <<pc, value>>
                 /\ id' = [id EXCEPT ![current] = -1]
        BY <1>1, <3>2, <4>4
      <4>5. CASE ExecCannotOpen
        BY <1>1, <3>2, <4>5 DEF ExecCannotOpen, Goto
      <4>6. CASE \E i \in Pids : CallJoin(i)
        BY <1>1, <3>2, <4>6 DEF CallJoin, Goto
      <4> QED
        BY <1>2, <1>5, <4>1, <4>2, <4>3, <4>4, <4>5, <4>6 DEF Step
    <3> QED
      BY <3>1, <3>2
  <2> QED
    BY <1>1, <2>1, <2>2, <2>3, <2>4 DEF ChildOf
<1> QED
  BY <1>3, <1>4, <1>5

LEMMA LifeIs ==
    ASSUME PTypeOK, NEW i \in Pids
    PROVE  /\ pc[i] = "none" <=> Life(i) = "none"
           /\ pc[i] = "ExitWait" /\ value[Exitsem(i)] = 0 <=> Life(i) = "exited"
           /\ \/ pc[i] = "ExitWait" /\ value[Exitsem(i)] # 0
              \/ pc[i] \in {"ExitDec", "ExitDecV", "Remove", "gone"}
              <=> Life(i) = "reaped"
           /\ Life(i) \in {"none", "live", "exited", "reaped"}
<1>1. CASE pc[i] = "none"
  BY <1>1 DEF Life
<1>2. CASE pc[i] = "ExitWait" /\ value[Exitsem(i)] = 0
  BY <1>2 DEF Life
<1>3. CASE \/ pc[i] = "ExitWait" /\ value[Exitsem(i)] # 0
           \/ pc[i] \in {"ExitDec", "ExitDecV", "Remove", "gone"}
  BY <1>3 DEF Life
<1>4. CASE pc[i] \notin {"none", "ExitWait", "ExitDec", "ExitDecV", "Remove", "gone"}
  BY <1>4 DEF Life
<1> QED
  BY <1>1, <1>2, <1>3, <1>4

\* Life depends on the process's label and, in ExitWait, on its exitsem.
LEMMA LifeSame ==
    ASSUME NEW i \in Pids,
           \/ pc'[i] = pc[i]
           \/ {pc[i], pc'[i]} \subseteq {"ExitDec", "ExitDecV", "Remove", "gone"}
           \/ {pc[i], pc'[i]} \cap {"none", "ExitWait", "ExitDec", "ExitDecV",
                                    "Remove", "gone"} = {}
           \/ pc[i] = "ExitWait" /\ value[Exitsem(i)] # 0 /\ pc'[i] = "ExitDec",
           pc'[i] = "ExitWait" => value'[Exitsem(i)] = value[Exitsem(i)]
    PROVE  Life(i)' = Life(i)
BY DEF Life

LEMMA LifeKept ==
    ASSUME PTypeOK, IdKnown, NewIsEmpty, [PNext]_pvars, NEW i \in Pids,
           ~ExecLoad, ~JoinRead, ~(\E c \in Codes : CallExit(c))
    PROVE  Life(i)' = Life(i)
<1>1. /\ K!TypeOK /\ current \in Pids
      /\ pc \in [Pids -> Labels]
      /\ value \in [PSems -> Nat]
  BY DEF PTypeOK, K!TypeOK
<1>2. Step
  BY <1>1, StepIs
<1>3. pc[current] \in IdLabels => id[current] \in Pids
  BY <1>1, IdOf
<1> USE SemsOf, SemsDistinct
<1>4. CASE Pass("ExitWait", Exitsem(current), "ExitDec")
  <2>1. CASE i = current
    BY <1>1, <1>4, <2>1, LifeSame DEF Pass
  <2>2. CASE i # current
    BY <1>1, <1>4, <2>2, LifeSame DEF Pass
  <2> QED
    BY <2>1, <2>2
<1>5. CASE \/ Pass("ExecP", Bmsem, "ExecCheck")
           \/ Pass("ExecMutex", Mutex(id[current]), "ExecLoad")
           \/ Pass("JoinInc", Mutex(id[current]), "JoinIncV")
           \/ Pass("ExitDec", Mutex(current), "ExitDecV")
           \/ Pass("JoinWait", Joinsem(id[current]), "JoinRead")
  <2>1. value'[Exitsem(i)] = value[Exitsem(i)]
    BY <1>1, <1>3, <1>5 DEF Pass, IdLabels
  <2> QED
    BY <1>1, <1>5, <2>1, LifeSame DEF Pass
<1>6. CASE \/ Post("ExecMutexV", Mutex(id[current]), "ExecReturn")
           \/ Post("JoinIncV", Mutex(id[current]), "JoinWait")
           \/ Post("ExitDecV", Mutex(current), "Remove")
           \/ Post("ExecReturn", Bmsem, "user")
  <2>1. value'[Exitsem(i)] = value[Exitsem(i)]
    BY <1>1, <1>3, <1>6 DEF Post, IdLabels
  <2> QED
    BY <1>1, <1>6, <2>1, LifeSame DEF Post
<1>7. CASE Jumping \/ UNCHANGED <<pc, value>>
  BY <1>1, <1>7, LifeSame DEF Jumping, Jump
<1>8. CASE ExecSlot \/ ExecCannotOpen \/ \E j \in Pids : CallJoin(j)
  <2>1. UNCHANGED value
    BY <1>8 DEF ExecSlot, ExecCannotOpen, CallJoin, kvars
  <2>2. \E m \in {"ExecMutex", "ExecReturn", "JoinInc"} :
          /\ pc' = [pc EXCEPT ![current] = m]
          /\ pc[current] \in {"ExecCheck", "ExecLoad", "user"}
    BY <1>8 DEF ExecSlot, ExecCannotOpen, CallJoin, InUserCode, At, Goto
  <2> QED
    BY <1>1, <2>1, <2>2, LifeSame
<1> QED
  BY <1>2, <1>4, <1>5, <1>6, <1>7, <1>8
  DEF Step, Passing, Posting, Returning, Post

lives == [i \in Pids |-> Life(i)]
parents == [i \in Pids |-> IF pc[i] = "none" THEN -1 ELSE parentID[i]]

LifeInv == PTypeOK /\ IdKnown /\ PageInv /\ OneToken /\ ChildOf

\* A label is left "none" by Fork only.
LEMMA NoneKept ==
    ASSUME PTypeOK, IdKnown, [PNext]_pvars, ~ExecLoad, NEW i \in Pids
    PROVE  pc[i] = "none" <=> pc'[i] = "none"
<1>1. K!TypeOK /\ current \in Pids /\ pc \in [Pids -> Labels]
  BY DEF PTypeOK, K!TypeOK
<1> QED
  BY <1>1, StepIs
  DEF Step, Passing, Posting, Returning, Jumping, Pass, Post, Jump,
      ExecSlot, ExecCannotOpen, CallJoin, InUserCode, At, Goto

\* The parent of a process never changes.
LEMMA ParentsKept ==
    ASSUME LifeInv, [PNext]_pvars, ~ExecLoad
    PROVE  parents' = parents
<1> USE DEF LifeInv
<1>1. parentID \in [Pids -> Pids \cup {-1}]
  BY DEF PTypeOK
<1>2. \A i \in Pids : pc[i] = "none" <=> pc'[i] = "none"
  BY NoneKept
<1>3. CASE ExecSlot
  <2>1. PICK j \in Pids \ bm : parentID' = [parentID EXCEPT ![j] = current]
    BY <1>3 DEF ExecSlot
  <2>2. pc[j] = "none"
    BY DEF ChildOf
  <2> QED
    BY <1>1, <1>2, <2>1, <2>2 DEF parents
<1>4. CASE ~ExecSlot
  BY <1>2, <1>4, SameTable DEF parents
<1> QED
  BY <1>3, <1>4

\* Nothing but Exit stores a code.
LEMMA CodesKept ==
    ASSUME LifeInv, [PNext]_pvars, ~(\E c \in Codes : CallExit(c))
    PROVE  exitcode' = exitcode
<1> USE DEF LifeInv
<1>1. CASE ExecSlot
  <2>1. PICK j \in Pids \ bm : exitcode' = [exitcode EXCEPT ![j] = 0]
    BY <1>1 DEF ExecSlot
  <2>2. exitcode[j] = 0 /\ exitcode \in [Pids -> Codes \cup {0}]
    BY DEF ChildOf, PTypeOK
  <2> QED
    BY <2>1, <2>2
<1>2. CASE ~ExecSlot
  BY <1>2, SameTable
<1> QED
  BY <1>1, <1>2

LEMMA AnswersKept ==
    ASSUME [PNext]_pvars, ~ExecReturn, ~JoinRead, ~(\E n \in Names : CallExec(n)),
           ~(\E i \in Pids : CallJoin(i)), ~(\E i \in -1 .. NumProc : JoinRefused(i))
    PROVE  reg2' = reg2
BY DEF PNext, KernelStep, UserStep, TimeSlice, Dispatch, Idle, FirstFetchFaults,
       ExecP, ExecNoFile, ExecRefused, ExecSlot, ExecMutex, ExecCannotOpen, ExecLoad,
       ExecTooBig, ExecYield, ExecMutexV, ExitWait, ExitDec, ExitDecV, Remove,
       JoinInc, JoinIncV, JoinWait, UseAfterDestroy, CallHalt, ExitMain,
       CallExit, StopMachine, callVars, pvars


\* The steps of the table that are steps of the life cycle.
LEMMA LiveNow ==
    ASSUME PTypeOK, NEW i \in Pids,
           pc[i] \notin {"none", "ExitWait", "ExitDec", "ExitDecV", "Remove", "gone"}
    PROVE  Life(i) = "live"
BY DEF Life

LEMMA LiveThen ==
    ASSUME NEW i \in Pids,
           pc'[i] \notin {"none", "ExitWait", "ExitDec", "ExitDecV", "Remove", "gone"}
    PROVE  Life(i)' = "live"
BY DEF Life

\* A function of one entry is changed.
LEMMA OneChanges ==
    ASSUME NEW i \in Pids, NEW x, Life(i)' = x,
           \A j \in Pids : j # i => Life(j)' = Life(j)
    PROVE  lives' = [lives EXCEPT ![i] = x]
BY DEF lives

LEMMA LoadSpawns ==
    ASSUME LifeInv, ExecLoad
    PROVE  LC!LifeNext
<1> USE DEF LifeInv
<1>1. /\ K!TypeOK /\ current \in Pids /\ NewIsEmpty
      /\ pc \in [Pids -> Labels]
      /\ id \in [Pids -> Pids \cup {-1}]
      /\ parentID \in [Pids -> Pids \cup {-1}]
  BY DEF PTypeOK, K!TypeOK, PageInv
<1>0. PICK p \in Pids : p = current
  BY <1>1
<1>2. PICK i \in Pids : i = id[current]
  BY <1>1, IdOf DEF ExecLoad, At, IdLabels
<1>3. /\ pc[current] = "ExecLoad" /\ pc[i] = "none" /\ i # current
      /\ UNCHANGED <<value, parentID, exitcode, reg2>>
  BY <1>1, <1>2 DEF ExecLoad, At, K!Fork, K!semVars, tableVars, NewIsEmpty
<1>4. pc' = [pc EXCEPT ![i] = "user", ![current] = "ExecYield"]
  BY <1>2 DEF ExecLoad
<1>5. pc'[i] = "user" /\ pc'[current] = "ExecYield"
  BY <1>1, <1>3, <1>4
<1>6. \A j \in Pids : j # i /\ j # current => pc'[j] = pc[j]
  BY <1>1, <1>4
<1>7. parentID[i] = current
  BY <1>1, <1>2 DEF ChildOf, Pids
<1>8. Life(i) = "none" /\ Life(p) = "live"
  BY <1>0, <1>3, LifeIs, LiveNow
<1>9. Life(i)' = "live" /\ Life(p)' = "live"
  BY <1>0, <1>5, LiveThen
<1>10. \A j \in Pids : j # i /\ j # p => Life(j)' = Life(j)
  BY <1>0, <1>3, <1>6, LifeSame
<1>11. lives' = [lives EXCEPT ![i] = "live"]
  BY <1>8, <1>9, <1>10, OneChanges
<1>12. parents' = [parents EXCEPT ![i] = current]
  BY <1>1, <1>3, <1>5, <1>6, <1>7 DEF parents
<1>13. lives[current] = "live" /\ lives[i] = "none"
  BY <1>0, <1>8 DEF lives
<1>14. LC!Spawn(current, i)
  BY <1>3, <1>11, <1>12, <1>13 DEF LC!Spawn, lives, parents
<1> QED
  BY <1>1, <1>14 DEF LC!LifeNext

LEMMA ExitLeaves ==
    ASSUME LifeInv, [PNext]_pvars, NEW c \in Codes, CallExit(c)
    PROVE  LC!LifeNext
<1> USE DEF LifeInv
<1>1. /\ K!TypeOK /\ current \in Pids
      /\ pc \in [Pids -> Labels]
      /\ value \in [PSems -> Nat]
  BY DEF PTypeOK, K!TypeOK
<1>0. PICK p \in Pids : p = current
  BY <1>1
<1>2. Post("user", Joinsem(current), "ExitWait")
  BY <1>1, SemsOf, VStepIs DEF CallExit
<1>3. exitcode' = [exitcode EXCEPT ![current] = c] /\ reg2' = reg2
  BY DEF CallExit, callVars
<1>4. pc[current] = "user" /\ pc'[current] = "ExitWait"
  BY <1>1, <1>2 DEF Post
<1>5. \A j \in Pids : j # current => pc'[j] = pc[j]
  BY <1>1, <1>2 DEF Post
<1>6. \A j \in Pids : value'[Exitsem(j)] = value[Exitsem(j)]
  BY <1>1, <1>2, SemsOf, SemsDistinct DEF Post
<1>7. Life(p) = "live"
  BY <1>0, <1>4, LiveNow
<1>8. Life(p)' = "exited"
  <2>1. value'[Exitsem(p)] = 0
    BY <1>0, <1>4, <1>6, NoTokenBefore
  <2> QED
    BY <1>0, <1>4, <2>1 DEF Life
<1>9. \A j \in Pids : j # p => Life(j)' = Life(j)
  BY <1>0, <1>5, <1>6, LifeSame
<1>10. lives' = [lives EXCEPT ![p] = "exited"]
  BY <1>8, <1>9, OneChanges
<1>11. parents' = parents
  <2>1. ~ExecLoad
    BY <1>4 DEF ExecLoad, At
  <2> QED
    BY <2>1, ParentsKept
<1>12. lives[current] = "live"
  BY <1>0, <1>7 DEF lives
<1>13. LC!Leave(current, c)
  BY <1>0, <1>3, <1>10, <1>11, <1>12 DEF LC!Leave, lives, parents
<1> QED
  BY <1>1, <1>13 DEF LC!LifeNext

LEMMA ReadReaps ==
    ASSUME LifeInv, [PNext]_pvars, JoinRead
    PROVE  LC!LifeNext
<1> USE DEF LifeInv
<1>1. /\ K!TypeOK /\ current \in Pids
      /\ pc \in [Pids -> Labels]
      /\ value \in [PSems -> Nat]
  BY DEF PTypeOK, K!TypeOK
<1>0. PICK p \in Pids : p = current
  BY <1>1
<1>2. pc[current] = "JoinRead"
  BY DEF JoinRead, VStep, At
<1>3. PICK i \in Pids : /\ i = id[current]
                        /\ pc[i] = "ExitWait"
                        /\ value[Exitsem(i)] = 0
  BY <1>1, <1>2, HeldWhenRead
<1>4. Post("JoinRead", Exitsem(i), "user")
  BY <1>1, <1>3, SemsOf, VStepIs DEF JoinRead
<1>5. reg2' = [reg2 EXCEPT ![current] = exitcode[i]] /\ exitcode' = exitcode
  BY <1>3 DEF JoinRead, Return, tableVars
<1>6. i # current /\ pc'[current] = "user"
  BY <1>1, <1>2, <1>3, <1>4 DEF Post
<1>7. \A j \in Pids : j # current => pc'[j] = pc[j]
  BY <1>1, <1>4 DEF Post
<1>8. /\ value'[Exitsem(i)] = 1
      /\ \A j \in Pids : j # i => value'[Exitsem(j)] = value[Exitsem(j)]
  BY <1>1, <1>3, <1>4, SemsOf, SemsDistinct DEF Post
<1>9. Life(p) = "live" /\ Life(p)' = "live"
  BY <1>0, <1>2, <1>6, LiveNow, LiveThen
<1>10. Life(i) = "exited"
  BY <1>3, LifeIs
<1>11. Life(i)' = "reaped"
  <2>1. pc'[i] = "ExitWait"
    BY <1>3, <1>6, <1>7
  <2> QED
    BY <1>8, <2>1 DEF Life
<1>12. \A j \in Pids : j # i /\ j # p => Life(j)' = Life(j)
  BY <1>0, <1>7, <1>8, LifeSame
<1>13. lives' = [lives EXCEPT ![i] = "reaped"]
  BY <1>9, <1>11, <1>12, OneChanges
<1>14. parents' = parents
  <2>1. ~ExecLoad
    BY <1>2 DEF ExecLoad, At
  <2> QED
    BY <2>1, ParentsKept
<1>15. parents[i] = current
  BY <1>1, <1>3 DEF ChildOf, Pids, parents
<1>16. lives[current] = "live" /\ lives[i] = "exited"
  BY <1>0, <1>9, <1>10 DEF lives
<1>17. LC!Reap(current, i)
  BY <1>5, <1>13, <1>14, <1>15, <1>16 DEF LC!Reap, lives, parents
<1> QED
  BY <1>1, <1>17 DEF LC!LifeNext

\* Every step of a process is a step of the life cycle, or none.
LEMMA LifeStep ==
    LifeInv /\ [PNext]_pvars => [LC!LifeNext]_<<lives, parents, exitcode, reg2>>
<1> SUFFICES ASSUME LifeInv, [PNext]_pvars
             PROVE  [LC!LifeNext]_<<lives, parents, exitcode, reg2>>
  OBVIOUS
<1> USE DEF LifeInv
<1>1. /\ K!TypeOK /\ current \in Pids /\ NewIsEmpty
      /\ pc \in [Pids -> Labels]
      /\ id \in [Pids -> Pids \cup {-1}]
      /\ parentID \in [Pids -> Pids \cup {-1}]
  BY DEF PTypeOK, K!TypeOK, PageInv
<1>2. CASE ExecLoad
  BY <1>2, LoadSpawns
<1>3. CASE \E c \in Codes : CallExit(c)
  BY <1>3, ExitLeaves
<1>4. CASE JoinRead
  BY <1>4, ReadReaps
<1>5. ASSUME ~ExecLoad, ~JoinRead, ~(\E c \in Codes : CallExit(c))
      PROVE  UNCHANGED <<lives, parents, exitcode>>
  <2>1. \A i \in Pids : Life(i)' = Life(i)
    BY <1>1, <1>5, LifeKept
  <2> QED
    BY <1>5, <2>1, ParentsKept, CodesKept DEF lives
<1>6. ASSUME pc[current] \in {"user", "ExecReturn"}
      PROVE  lives[current] = "live"
  BY <1>1, <1>6, LiveNow DEF lives
<1>7. ASSUME pc[current] \in {"user", "ExecReturn"}, ~(\E c \in Codes : CallExit(c))
      PROVE  UNCHANGED <<lives, parents, exitcode>>
  BY <1>5, <1>7 DEF ExecLoad, JoinRead, VStep, At
<1>8. ASSUME NEW n \in Names, CallExec(n)
      PROVE  LC!LifeNext
  <2>1. pc[current] = "user" /\ reg2' = [reg2 EXCEPT ![current] = 0]
    BY <1>8 DEF CallExec, InUserCode, At
  <2>2. ~(\E c \in Codes : CallExit(c))
    BY <1>1, <1>8 DEF CallExec, CallExit, VStep, Goto
  <2>3. LC!Ask(current)
    BY <1>6, <1>7, <2>1, <2>2 DEF LC!Ask, lives, parents
  <2> QED
    BY <1>1, <2>3 DEF LC!LifeNext
<1>9. ASSUME NEW i \in Pids, CallJoin(i)
      PROVE  LC!LifeNext
  <2>1. pc[current] = "user" /\ reg2' = [reg2 EXCEPT ![current] = 0]
    BY <1>9 DEF CallJoin, InUserCode, At
  <2>2. ~(\E c \in Codes : CallExit(c))
    BY <1>1, <1>9 DEF CallJoin, CallExit, VStep, Goto
  <2>3. LC!Ask(current)
    BY <1>6, <1>7, <2>1, <2>2 DEF LC!Ask, lives, parents
  <2> QED
    BY <1>1, <2>3 DEF LC!LifeNext
<1>10. ASSUME NEW i \in -1 .. NumProc, JoinRefused(i)
       PROVE  LC!LifeNext
  <2>1. pc[current] = "user" /\ reg2' = [reg2 EXCEPT ![current] = -1]
    BY <1>10 DEF JoinRefused, InUserCode, At, Return
  <2>2. ~(\E c \in Codes : CallExit(c))
    BY <1>1, <1>10, <2>1 DEF JoinRefused, CallExit, VStep, Goto
  <2>3. LC!Refuse(current)
    BY <1>6, <1>7, <2>1, <2>2 DEF LC!Refuse, lives, parents
  <2> QED
    BY <1>1, <2>3 DEF LC!LifeNext
<1>11. CASE ExecReturn
  <2>1. pc[current] = "ExecReturn" /\ reg2' = [reg2 EXCEPT ![current] = id[current]]
    BY <1>11 DEF ExecReturn, VStep, At, Return
  <2>2. ~(\E c \in Codes : CallExit(c))
    BY <2>1 DEF CallExit, InUserCode, At
  <2>3. CASE id[current] = -1
    <3>1. LC!Refuse(current)
      BY <1>6, <1>7, <2>1, <2>2, <2>3 DEF LC!Refuse, lives, parents
    <3> QED
      BY <1>1, <3>1 DEF LC!LifeNext
  <2>4. CASE id[current] # -1
    <3>1. PICK i \in Pids : i = id[current]
      BY <1>1, <2>4
    <3>2. pc[i] # "none" /\ parentID[i] = current
      BY <1>1, <2>1, <2>4, <3>1 DEF ChildOf
    <3>3. lives[i] # "none" /\ parents[i] = current
      BY <3>2, LifeIs DEF lives, parents
    <3>4. LC!SpawnReturns(current, i)
      BY <1>6, <1>7, <2>1, <2>2, <3>1, <3>3 DEF LC!SpawnReturns, lives, parents
    <3> QED
      BY <1>1, <3>4 DEF LC!LifeNext
  <2> QED
    BY <2>3, <2>4
<1> QED
  BY <1>2, <1>3, <1>4, <1>5, <1>8, <1>9, <1>10, <1>11, AnswersKept

LEMMA LifeInitIs == PInit => LC!LifeInit
<1> SUFFICES ASSUME PInit PROVE LC!LifeInit
  OBVIOUS
<1>1. \A i \in Pids : pc[i] = IF i = 0 THEN "user" ELSE "none"
  BY DEF PInit
<1>2. \A i \in Pids : Life(i) = IF i = 0 THEN "live" ELSE "none"
  BY <1>1 DEF Life
<1>3. /\ exitcode = [i \in Pids |-> 0]
      /\ reg2 = [i \in Pids |-> 0]
      /\ \A i \in Pids : parentID[i] = -1
  BY DEF PInit
<1> QED
  BY <1>2, <1>3 DEF LC!LifeInit

\* The table, its semaphores and the scheduler implement the life cycle that
\* syscall.h promises, for any number of processes, programs and codes.
THEOREM LifecycleImplemented == PSpec => ImplementsLifecycle
<1>1. PInit => LifeInv /\ DestroyedGone /\ LC!LifeInit
  BY PTypeInit, PageInit, JoinInit, ChildInit, LifeInitIs DEF LifeInv
<1>2. LifeInv /\ [PNext]_pvars => LifeInv'
  BY PTypeStep, PageStep, NewStep, TokenStep, ChildStep DEF PageInv, LifeInv
<1>3. LifeInv /\ [PNext]_pvars => [LC!LifeNext]_(LC!lvars)
  BY LifeStep DEF LC!lvars, lives, parents
<1> QED
  BY <1>1, <1>2, <1>3, PTL DEF PSpec, ImplementsLifecycle, LC!LifeSpec

-----------------------------------------------------------------------------
(* Who sleeps where. *)

NoP == <<"none", 0>>

\* The semaphore of the P at the label of p.
WaitsFor(p) ==
    CASE pc[p] = "ExecP" -> Bmsem
      [] pc[p] \in {"ExecMutex", "JoinInc"} -> Mutex(id[p])
      [] pc[p] = "JoinWait" -> Joinsem(id[p])
      [] pc[p] = "ExitWait" -> Exitsem(p)
      [] pc[p] = "ExitDec" -> Mutex(p)
      [] OTHER -> NoP

SleepsAtP == \A p \in Pids : inP[p] # NoP => inP[p] = WaitsFor(p)

LEMMA WaitsForIs ==
    ASSUME NEW p
    PROVE  /\ pc[p] = "ExecP" => WaitsFor(p) = Bmsem
           /\ pc[p] \in {"ExecMutex", "JoinInc"} => WaitsFor(p) = Mutex(id[p])
           /\ pc[p] = "JoinWait" => WaitsFor(p) = Joinsem(id[p])
           /\ pc[p] = "ExitWait" => WaitsFor(p) = Exitsem(p)
           /\ pc[p] = "ExitDec" => WaitsFor(p) = Mutex(p)
           /\ pc[p] \notin {"ExecP", "ExecMutex", "JoinInc", "JoinWait", "ExitWait",
                            "ExitDec"} => WaitsFor(p) = NoP
<1>1. CASE pc[p] = "ExecP"
  BY <1>1 DEF WaitsFor
<1>2. CASE pc[p] \in {"ExecMutex", "JoinInc"}
  BY <1>2 DEF WaitsFor
<1>3. CASE pc[p] = "JoinWait"
  BY <1>3 DEF WaitsFor
<1>4. CASE pc[p] = "ExitWait"
  BY <1>4 DEF WaitsFor
<1>5. CASE pc[p] = "ExitDec"
  BY <1>5 DEF WaitsFor
<1>6. CASE pc[p] \notin {"ExecP", "ExecMutex", "JoinInc", "JoinWait", "ExitWait", "ExitDec"}
  BY <1>6 DEF WaitsFor
<1> QED
  BY <1>1, <1>2, <1>3, <1>4, <1>5, <1>6

LEMMA SleepOfP ==
    ASSUME NEW s, NEW l, NEW m, PStep(s, l, m)
    PROVE  /\ pc[current] = l
           /\ \/ UNCHANGED pc /\ inP' = [inP EXCEPT ![current] = s]
              \/ inP' = [inP EXCEPT ![current] = NoP]
BY DEF PStep, At, K!Wait, K!Take, NoP

\* A step puts the running process to sleep at the P of its label, ends that P,
\* or leaves inP alone; then a process that sleeps does not move.
LEMMA SleepEffect ==
    ASSUME K!TypeOK, IdKnown, SleepsAtP, [PNext]_pvars
    PROVE  \/ UNCHANGED inP /\ (inP[current] = NoP \/ UNCHANGED <<pc, id>>)
           \/ UNCHANGED <<pc, id>> /\ inP' = [inP EXCEPT ![current] = WaitsFor(current)]
           \/ inP' = [inP EXCEPT ![current] = NoP]
<1>0. current \in Pids
  BY DEF K!TypeOK
<1>1. CASE ExecP
  <2>1. PStep(Bmsem, "ExecP", "ExecCheck") /\ UNCHANGED id
    BY <1>1 DEF ExecP, callVars
  <2> QED
    BY <2>1, SleepOfP, WaitsForIs
<1>2. CASE ExecMutex
  <2>1. PStep(Mutex(id[current]), "ExecMutex", "ExecLoad") /\ UNCHANGED id
    BY <1>2 DEF ExecMutex, callVars
  <2> QED
    BY <2>1, SleepOfP, WaitsForIs
<1>3. CASE ExitWait
  <2>1. PStep(Exitsem(current), "ExitWait", "ExitDec") /\ UNCHANGED id
    BY <1>3 DEF ExitWait, callVars
  <2> QED
    BY <2>1, SleepOfP, WaitsForIs
<1>4. CASE ExitDec
  <2>1. PStep(Mutex(current), "ExitDec", "ExitDecV") /\ UNCHANGED id
    BY <1>4 DEF ExitDec, callVars
  <2> QED
    BY <2>1, SleepOfP, WaitsForIs
<1>5. CASE JoinInc
  <2>1. PStep(Mutex(id[current]), "JoinInc", "JoinIncV") /\ UNCHANGED id
    BY <1>5 DEF JoinInc, callVars
  <2> QED
    BY <2>1, SleepOfP, WaitsForIs
<1>6. CASE JoinWait
  <2>1. PStep(Joinsem(id[current]), "JoinWait", "JoinRead") /\ UNCHANGED id
    BY <1>6 DEF JoinWait, callVars
  <2> QED
    BY <2>1, SleepOfP, WaitsForIs
<1>7. CASE TimeSlice \/ Dispatch \/ Idle \/ FirstFetchFaults \/ ExecTooBig
           \/ CallHalt \/ ExitMain \/ UseAfterDestroy \/ UNCHANGED pvars
  BY <1>7 DEF TimeSlice, Dispatch, Idle, FirstFetchFaults, ExecTooBig, CallHalt, ExitMain,
              UseAfterDestroy, StopMachine, K!Yield, K!Switch, K!IdleHalt, K!Halt, K!semVars,
              kvars, pvars, callVars
<1>8. CASE ExecNoFile \/ ExecRefused \/ ExecSlot \/ ExecCannotOpen
  <2>1. UNCHANGED inP /\ pc[current] \in {"ExecCheck", "ExecLoad"}
    BY <1>8 DEF ExecNoFile, ExecRefused, ExecSlot, ExecCannotOpen, At, kvars
  <2> QED
    BY <1>0, <2>1, WaitsForIs DEF SleepsAtP
<1>9. CASE ExecLoad \/ ExecYield \/ Remove
  <2>1. UNCHANGED inP /\ pc[current] \in {"ExecLoad", "ExecYield", "Remove"}
    BY <1>9 DEF ExecLoad, ExecYield, Remove, At, K!Fork, K!Yield, K!Finish, K!semVars, kvars
  <2> QED
    BY <1>0, <2>1, WaitsForIs DEF SleepsAtP
<1>10. CASE ExecMutexV \/ ExecReturn \/ ExitDecV \/ JoinIncV \/ JoinRead
  BY <1>10 DEF ExecMutexV, ExecReturn, ExitDecV, JoinIncV, JoinRead, VStep, K!V,
               K!Interruptible, NoP
<1>11. CASE UserStep
  BY <1>11 DEF UserStep, CallHalt, ExitMain, CallExec, CallExit, CallJoin, JoinRefused,
               StopMachine, InUserCode, VStep, K!V, K!Halt, K!Interruptible, K!semVars,
               kvars, NoP
<1> QED
  BY <1>1, <1>2, <1>3, <1>4, <1>5, <1>6, <1>7, <1>8, <1>9, <1>10, <1>11
  DEF PNext, KernelStep

\* A process moves by its own steps only, except that Exec starts its child.
LEMMA OthersStay ==
    ASSUME K!TypeOK, IdKnown, pc \in [Pids -> Labels], id \in [Pids -> Pids \cup {-1}],
           [PNext]_pvars, NEW p \in Pids, p # current
    PROVE  /\ id'[p] = id[p]
           /\ (ExecLoad /\ p = id[current]) \/ pc'[p] = pc[p]
<1>1. Step /\ current \in Pids
  BY StepIs DEF K!TypeOK
<1>2. CASE ExecLoad
  <2>1. id[current] \in Pids /\ pc' = [pc EXCEPT ![id[current]] = "user", ![current] = "ExecYield"]
    BY <1>1, <1>2, IdOf DEF ExecLoad, At, IdLabels
  <2> QED
    BY <1>1, <1>2, <2>1 DEF ExecLoad
<1>3. CASE ExecSlot \/ ExecCannotOpen \/ \E i \in Pids : CallJoin(i)
  BY <1>1, <1>3 DEF ExecSlot, ExecCannotOpen, CallJoin, Goto
<1>4. CASE ~(ExecLoad \/ ExecSlot \/ ExecCannotOpen \/ \E i \in Pids : CallJoin(i))
  BY <1>1, <1>4 DEF Step, Passing, Posting, Returning, Jumping, Pass, Post, Jump
<1> QED
  BY <1>2, <1>3, <1>4

LEMMA SleepStep ==
    PTypeOK /\ IdKnown /\ NewIsEmpty /\ SleepsAtP /\ [PNext]_pvars => SleepsAtP'
<1> SUFFICES ASSUME PTypeOK, IdKnown, NewIsEmpty, SleepsAtP, [PNext]_pvars,
                    NEW p \in Pids, inP'[p] # NoP
             PROVE  inP'[p] = WaitsFor(p)'
  BY DEF SleepsAtP
<1>1. /\ K!TypeOK /\ current \in Pids
      /\ pc \in [Pids -> Labels]
      /\ id \in [Pids -> Pids \cup {-1}]
      /\ inP \in [Pids -> PSems \cup {NoP}]
  BY DEF PTypeOK, K!TypeOK, NoP
<1>2. ASSUME pc'[p] = pc[p], id'[p] = id[p]
      PROVE  WaitsFor(p)' = WaitsFor(p)
  BY <1>2 DEF WaitsFor
<1>3. inP[p] # NoP => inP[p] = WaitsFor(p)
  BY DEF SleepsAtP
<1>4. CASE p = current
  <2>1. UNCHANGED <<pc, id>> /\ (inP'[p] = inP[p] \/ inP'[p] = WaitsFor(p))
    BY <1>1, <1>4, SleepEffect
  <2> QED
    BY <1>2, <1>3, <2>1
<1>5. CASE p # current
  <2>1. inP'[p] = inP[p]
    BY <1>1, <1>5, SleepEffect
  <2>2. ~(ExecLoad /\ p = id[current])
    <3>1. SUFFICES ASSUME ExecLoad, p = id[current] PROVE FALSE
      OBVIOUS
    <3>2. pc[p] = "none"
      BY <3>1 DEF ExecLoad, K!Fork, NewIsEmpty
    <3> QED
      BY <1>3, <2>1, <3>2, WaitsForIs
  <2> QED
    BY <1>1, <1>2, <1>3, <1>5, <2>1, <2>2, OthersStay
<1> QED
  BY <1>4, <1>5

-----------------------------------------------------------------------------
(* Slots, first joins and tokens. *)

\* BitMap::Find marks the lowest clear bit and no bit is ever cleared: slots
\* are given out in order, so that a child has a larger id than its parent.
\* Process 0 never leaves the user program for good.
SlotsInOrder ==
    /\ \A i \in bm, j \in Pids : j < i => j \in bm
    /\ \A i \in bm : parentID[i] < i
    /\ pc[0] \notin {"none", "ExitWait", "ExitDec", "ExitDecV", "Remove", "gone"}

\* The slot Exec has just taken belongs to nobody else.
FreshChild ==
    \A p \in Pids : pc[p] \in {"ExecMutex", "ExecLoad"} => pc[id[p]] = "none"

FinishedGone == \A p \in finished : pc[p] = "gone"

SlotInv == SlotsInOrder /\ FreshChild /\ FinishedGone

LEMMA SlotInit == PInit => SlotInv /\ SleepsAtP
<1> SUFFICES ASSUME PInit PROVE SlotInv /\ SleepsAtP
  OBVIOUS
<1>1. 0 \in Pids /\ Pids \subseteq Nat
  BY ProcessAssumption DEF Pids
<1>2. finished = {} /\ \A p \in Pids : inP[p] = NoP
  BY DEF PInit, K!Init, NoP
<1>3. /\ bm = {0} /\ parentID[0] = -1
      /\ \A p \in Pids : pc[p] \in {"user", "none"}
      /\ pc[0] = "user"
  BY <1>1 DEF PInit
<1> QED
  BY <1>1, <1>2, <1>3 DEF SlotInv, SlotsInOrder, FreshChild, FinishedGone, SleepsAtP

LEMMA LoadsNew ==
    ASSUME PTypeOK, IdKnown, NewIsEmpty, ExecLoad
    PROVE  /\ current \in Pids /\ id[current] \in Pids
           /\ pc[current] = "ExecLoad" /\ pc[id[current]] = "none"
           /\ pc' = [pc EXCEPT ![id[current]] = "user", ![current] = "ExecYield"]
           /\ UNCHANGED <<value, id, joins>>
<1>1. K!TypeOK /\ current \in Pids
  BY DEF PTypeOK, K!TypeOK
<1>2. id[current] \in Pids /\ pc[current] = "ExecLoad"
  BY <1>1, IdOf DEF ExecLoad, At, IdLabels
<1> QED
  BY <1>1, <1>2 DEF ExecLoad, K!Fork, K!semVars, NewIsEmpty

LEMMA SameFinished ==
    ASSUME [PNext]_pvars, ~Remove
    PROVE  finished' = finished
BY DEF PNext, KernelStep, UserStep, TimeSlice, Dispatch, Idle, FirstFetchFaults,
       ExecP, ExecNoFile, ExecRefused, ExecSlot, ExecMutex, ExecCannotOpen, ExecLoad,
       ExecTooBig, ExecYield, ExecMutexV, ExecReturn, ExitWait, ExitDec, ExitDecV,
       JoinInc, JoinIncV, JoinWait, JoinRead, UseAfterDestroy, CallHalt, ExitMain,
       CallExec, CallExit, CallJoin, JoinRefused, StopMachine, PStep, VStep,
       K!Yield, K!Switch, K!IdleHalt, K!Halt, K!Fork, K!Wait, K!Take, K!V,
       K!schedVars, kvars, pvars

\* No label leads out of "gone".
LEMMA GoneStays ==
    ASSUME PTypeOK, IdKnown, NewIsEmpty, [PNext]_pvars, NEW p \in Pids, pc[p] = "gone"
    PROVE  pc'[p] = "gone"
<1>1. /\ K!TypeOK /\ current \in Pids
      /\ pc \in [Pids -> Labels]
      /\ id \in [Pids -> Pids \cup {-1}]
  BY DEF PTypeOK, K!TypeOK
<1>2. CASE ExecLoad
  BY <1>1, <1>2, LoadsNew
<1>3. CASE ~ExecLoad
  <2>1. CASE p # current
    BY <1>1, <1>3, <2>1, OthersStay
  <2>2. CASE p = current
    BY <1>1, <1>3, <2>2, StepIs
    DEF Step, Passing, Posting, Returning, Jumping, Pass, Post, Jump,
        ExecSlot, ExecCannotOpen, CallJoin, InUserCode, At
  <2> QED
    BY <2>1, <2>2
<1> QED
  BY <1>2, <1>3

LEMMA FinishStep ==
    PTypeOK /\ IdKnown /\ NewIsEmpty /\ FinishedGone /\ [PNext]_pvars => FinishedGone'
<1> SUFFICES ASSUME PTypeOK, IdKnown, NewIsEmpty, FinishedGone, [PNext]_pvars,
                    NEW p \in finished'
             PROVE  pc'[p] = "gone"
  BY DEF FinishedGone
<1>1. current \in Pids /\ finished \subseteq Pids /\ pc \in [Pids -> Labels]
  BY DEF PTypeOK, K!TypeOK
<1>2. CASE Remove /\ p = current
  BY <1>1, <1>2 DEF Remove, Goto
<1>3. CASE ~(Remove /\ p = current)
  <2>1. p \in finished
    BY <1>3, SameFinished DEF Remove, K!Finish
  <2> QED
    BY <1>1, <2>1, GoneStays DEF FinishedGone
<1> QED
  BY <1>2, <1>3

LEMMA OrderStep ==
    PTypeOK /\ IdKnown /\ NewIsEmpty /\ ChildOf /\ SlotsInOrder /\ [PNext]_pvars
      => SlotsInOrder'
<1> SUFFICES ASSUME PTypeOK, IdKnown, NewIsEmpty, ChildOf, SlotsInOrder, [PNext]_pvars
             PROVE  SlotsInOrder'
  OBVIOUS
<1>1. /\ K!TypeOK /\ current \in Pids
      /\ pc \in [Pids -> Labels]
      /\ id \in [Pids -> Pids \cup {-1}]
      /\ bm \subseteq Pids
      /\ parentID \in [Pids -> Pids \cup {-1}]
  BY DEF PTypeOK, K!TypeOK
<1>2. 0 \in Pids /\ Pids \subseteq Nat
  BY ProcessAssumption DEF Pids
<1>3. /\ \A i \in bm', j \in Pids : j < i => j \in bm'
      /\ \A i \in bm' : parentID'[i] < i
  <2>1. CASE ExecSlot
    <3>1. PICK i \in Pids \ bm :
            /\ \A j \in Pids \ bm : i <= j
            /\ bm' = bm \cup {i}
            /\ parentID' = [parentID EXCEPT ![i] = current]
      BY <2>1 DEF ExecSlot
    <3>2. current \in bm
      BY <1>1, <2>1 DEF ExecSlot, At, ChildOf
    <3>3. current < i
      BY <1>1, <1>2, <3>1, <3>2 DEF SlotsInOrder
    <3>4. \A j \in Pids : j < i => j \in bm
      BY <1>2, <3>1
    <3> QED
      BY <1>1, <3>1, <3>3, <3>4 DEF SlotsInOrder
  <2>2. CASE ~ExecSlot
    BY <2>2, SameTable DEF SlotsInOrder
  <2> QED
    BY <2>1, <2>2
<1>4. pc'[0] \notin {"none", "ExitWait", "ExitDec", "ExitDecV", "Remove", "gone"}
  <2>1. CASE ExecLoad
    BY <1>1, <1>2, <2>1, LoadsNew DEF SlotsInOrder
  <2>2. CASE ~ExecLoad /\ current # 0
    BY <1>1, <1>2, <2>2, OthersStay DEF SlotsInOrder
  <2>3. CASE ~ExecLoad /\ current = 0
    <3>1. CASE Posting
      BY <1>1, <1>2, <2>3, <3>1, StepIs
      DEF SlotsInOrder, Step, Posting, Post, CallExit, ExecSlot, ExecCannotOpen, CallJoin,
          InUserCode, At, Goto, Returning, Passing, Jumping, Pass, Jump
    <3>2. CASE ~Posting
      BY <1>1, <1>2, <2>3, <3>2, StepIs
      DEF SlotsInOrder, Step, Passing, Returning, Jumping, Pass, Post, Jump,
          ExecSlot, ExecCannotOpen, CallJoin, InUserCode, At, Goto
    <3> QED
      BY <3>1, <3>2
  <2> QED
    BY <2>1, <2>2, <2>3
<1> QED
  BY <1>3, <1>4 DEF SlotsInOrder

LEMMA FreshStep ==
    PTypeOK /\ IdKnown /\ NewIsEmpty /\ ChildOf /\ FreshChild /\ [PNext]_pvars
      => FreshChild'
<1> SUFFICES ASSUME PTypeOK, IdKnown, NewIsEmpty, ChildOf, FreshChild, [PNext]_pvars,
                    NEW p \in Pids, pc'[p] \in {"ExecMutex", "ExecLoad"}
             PROVE  pc'[id'[p]] = "none"
  BY DEF FreshChild
<1>1. /\ K!TypeOK /\ current \in Pids
      /\ pc \in [Pids -> Labels]
      /\ id \in [Pids -> Pids \cup {-1}]
      /\ parentID \in [Pids -> Pids \cup {-1}]
  BY DEF PTypeOK, K!TypeOK
<1>2. CASE ExecLoad
  <2>1. p # current /\ p # id[current] /\ pc'[p] = pc[p] /\ id'[p] = id[p]
    BY <1>1, <1>2, LoadsNew
  <2>2. id[p] \in Pids /\ id[p] # -1 /\ id[current] # -1
    BY <1>2, <2>1, LoadsNew DEF IdKnown, IdLabels, Pids
  <2>3. id[p] # id[current]
    BY <1>1, <2>1, <2>2 DEF ChildOf
  <2>4. pc[id[p]] = "none"
    BY <2>1 DEF FreshChild
  <2> QED
    BY <1>1, <1>2, <2>1, <2>2, <2>3, <2>4, LoadsNew
<1>3. CASE ~ExecLoad
  <2>1. CASE ExecSlot /\ p = current
    <3>1. PICK i \in Pids \ bm : id' = [id EXCEPT ![current] = i]
      BY <2>1 DEF ExecSlot
    <3>2. pc[i] = "none"
      BY <3>1 DEF ChildOf
    <3> QED
      BY <1>1, <1>3, <2>1, <3>1, <3>2, NoneKept
  <2>2. CASE ~(ExecSlot /\ p = current)
    <3>1. pc[p] \in {"ExecMutex", "ExecLoad"} /\ id'[p] = id[p]
      <4>1. CASE p # current
        BY <1>1, <1>3, <4>1, OthersStay
      <4>2. CASE p = current
        BY <1>1, <1>3, <2>2, <4>2, StepIs
        DEF Step, Passing, Posting, Returning, Jumping, Pass, Post, Jump,
            ExecCannotOpen, CallJoin, InUserCode, At, Goto
      <4> QED
        BY <4>1, <4>2
    <3>2. id[p] \in Pids /\ pc[id[p]] = "none"
      BY <3>1 DEF FreshChild, IdKnown, IdLabels
    <3> QED
      BY <1>3, <3>1, <3>2, NoneKept
  <2> QED
    BY <2>1, <2>2
<1> QED
  BY <1>2, <1>3

-----------------------------------------------------------------------------
(* A child joined once. *)

JoinLabels == {"JoinInc", "JoinIncV", "JoinWait", "JoinRead"}

\* The child has its token back in exitsem, or has taken it.
Released(i) ==
    value[Exitsem(i)] # 0 \/ pc[i] \in {"ExitDec", "ExitDecV", "Remove", "gone"}

\* A child is released by a Join only, and its first Join finds it unreleased.
JoinedOnce ==
    /\ \A p \in Pids : pc[p] \in JoinLabels => joins[id[p]] # 0
    /\ \A i \in Pids : joins[i] = 0 => ~Released(i)
    /\ \A p \in Pids : pc[p] \in JoinLabels \ {"JoinRead"} /\ joins[id[p]] = 1
                         => ~Released(id[p])

LEMMA JoinedInit == PInit => JoinedOnce
<1> SUFFICES ASSUME PInit PROVE JoinedOnce
  OBVIOUS
<1>1. \A p \in Pids : pc[p] \in {"user", "none"}
  BY DEF PInit
<1>2. \A i \in Pids : value[Exitsem(i)] = 0
  BY SemsOf DEF PInit, K!Init, PInitVal, Exitsem
<1> QED
  BY <1>1, <1>2 DEF JoinedOnce, JoinLabels, Released

\* Only the V of ExitRelease releases a child.
LEMMA ReleaseIs ==
    ASSUME PTypeOK, IdKnown, NewIsEmpty, [PNext]_pvars, NEW i \in Pids,
           ~Released(i), Released(i)'
    PROVE  JoinRead /\ pc[current] = "JoinRead" /\ id[current] = i
<1>1. /\ K!TypeOK /\ current \in Pids
      /\ pc \in [Pids -> Labels]
      /\ value \in [PSems -> Nat]
  BY DEF PTypeOK, K!TypeOK
<1>2. Step /\ (pc[current] \in IdLabels => id[current] \in Pids)
  BY <1>1, StepIs, IdOf
<1>3. value[Exitsem(i)] = 0 /\ pc[i] \notin {"ExitDec", "ExitDecV", "Remove", "gone"}
  BY DEF Released
<1> USE SemsOf, SemsDistinct
<1>4. CASE Passing
  <2>1. value'[Exitsem(i)] = 0
    BY <1>1, <1>2, <1>3, <1>4 DEF Passing, Pass, IdLabels
  <2>2. pc'[i] \notin {"ExitDec", "ExitDecV", "Remove", "gone"}
    BY <1>1, <1>3, <1>4 DEF Passing, Pass
  <2> QED
    BY <2>1, <2>2 DEF Released
<1>5. CASE Posting
  <2>1. value'[Exitsem(i)] = 0
    BY <1>1, <1>2, <1>3, <1>5 DEF Posting, Post, IdLabels
  <2>2. pc'[i] \notin {"ExitDec", "ExitDecV", "Remove", "gone"}
    BY <1>1, <1>3, <1>5 DEF Posting, Post
  <2> QED
    BY <2>1, <2>2 DEF Released
<1>6. CASE Post("ExecReturn", Bmsem, "user")
  BY <1>1, <1>3, <1>6 DEF Post, Released
<1>7. CASE Post("JoinRead", Exitsem(id[current]), "user") /\ JoinRead
  <2>1. pc[current] = "JoinRead" /\ id[current] \in Pids
    BY <1>2, <1>7 DEF Post, IdLabels
  <2>2. pc'[i] \notin {"ExitDec", "ExitDecV", "Remove", "gone"}
    BY <1>1, <1>3, <1>7 DEF Post
  <2>3. id[current] # i => value'[Exitsem(i)] = 0
    BY <1>1, <1>3, <1>7, <2>1 DEF Post
  <2> QED
    BY <1>7, <2>1, <2>2, <2>3 DEF Released
<1>8. CASE Jumping \/ UNCHANGED <<pc, value>>
  BY <1>1, <1>3, <1>8 DEF Jumping, Jump, Released
<1>9. CASE ExecSlot \/ ExecCannotOpen \/ \E j \in Pids : CallJoin(j)
  BY <1>1, <1>3, <1>9
  DEF ExecSlot, ExecCannotOpen, CallJoin, InUserCode, At, Goto, kvars, Released
<1>10. CASE ExecLoad
  BY <1>1, <1>3, <1>10, LoadsNew DEF Released
<1> QED
  BY <1>2, <1>4, <1>5, <1>6, <1>7, <1>8, <1>9, <1>10 DEF Step, Returning, Post

LEMMA JoinsKept ==
    ASSUME [PNext]_pvars
    PROVE  joins' = joins \/ \E i \in Pids : CallJoin(i)
BY DEF PNext, KernelStep, UserStep, TimeSlice, Dispatch, Idle, FirstFetchFaults,
       ExecP, ExecNoFile, ExecRefused, ExecSlot, ExecMutex, ExecCannotOpen, ExecLoad,
       ExecTooBig, ExecYield, ExecMutexV, ExecReturn, ExitWait, ExitDec, ExitDecV, Remove,
       JoinInc, JoinIncV, JoinWait, JoinRead, UseAfterDestroy, CallHalt, ExitMain,
       CallExec, CallExit, CallJoin, JoinRefused, StopMachine, callVars, pvars

\* Whoever is in a Join after a step entered it with the step or was in it
\* before, with the same id.
LEMMA JoinerIs ==
    ASSUME PTypeOK, IdKnown, NewIsEmpty, [PNext]_pvars, NEW p \in Pids,
           pc'[p] \in JoinLabels
    PROVE  \/ \E i \in Pids : CallJoin(i) /\ p = current /\ id'[p] = i
           \/ /\ pc[p] \in JoinLabels /\ id'[p] = id[p] /\ id[p] \in Pids
              /\ pc[p] = "JoinRead" => pc'[p] = "JoinRead"
<1>1. /\ K!TypeOK /\ current \in Pids
      /\ pc \in [Pids -> Labels]
      /\ id \in [Pids -> Pids \cup {-1}]
  BY DEF PTypeOK, K!TypeOK
<1>2. Step
  BY <1>1, StepIs
<1>3. pc[p] \in JoinLabels => id[p] \in Pids
  BY DEF IdKnown, IdLabels, JoinLabels
<1>4. CASE ExecLoad
  BY <1>1, <1>3, <1>4, LoadsNew DEF JoinLabels
<1>5. CASE ~ExecLoad /\ p # current
  BY <1>1, <1>3, <1>5, OthersStay
<1>6. CASE p = current /\ \E i \in Pids : CallJoin(i)
  BY <1>1, <1>6 DEF CallJoin
<1>7. CASE ~ExecLoad /\ p = current /\ ~(\E i \in Pids : CallJoin(i))
  BY <1>1, <1>2, <1>3, <1>7
  DEF Step, Passing, Posting, Returning, Jumping, Pass, Post, Jump, JoinLabels,
      ExecSlot, ExecCannotOpen, InUserCode, At, Goto
<1> QED
  BY <1>4, <1>5, <1>6, <1>7

LEMMA JoinedStep ==
    PTypeOK /\ IdKnown /\ NewIsEmpty /\ ChildOf /\ JoinedOnce /\ [PNext]_pvars
      => JoinedOnce'
<1> SUFFICES ASSUME PTypeOK, IdKnown, NewIsEmpty, ChildOf, JoinedOnce, [PNext]_pvars
             PROVE  JoinedOnce'
  OBVIOUS
<1>1. /\ K!TypeOK /\ current \in Pids
      /\ pc \in [Pids -> Labels]
      /\ id \in [Pids -> Pids \cup {-1}]
      /\ parentID \in [Pids -> Pids \cup {-1}]
      /\ joins \in [Pids -> 0 .. 2]
  BY DEF PTypeOK, K!TypeOK
<1>2. ASSUME NEW i \in Pids, CallJoin(i)
      PROVE  /\ joins' = [joins EXCEPT ![i] = IF @ = 0 THEN 1 ELSE 2]
             /\ pc[current] = "user" /\ parentID[i] = current
  BY <1>2 DEF CallJoin, InUserCode, At
<1>3. \A i \in Pids : joins'[i] = 0 => joins[i] = 0
  BY <1>1, <1>2, JoinsKept
<1>4. ASSUME NEW p \in Pids, pc'[p] \in JoinLabels
      PROVE  joins'[id'[p]] # 0
  BY <1>1, <1>2, <1>3, <1>4, JoinerIs DEF JoinedOnce
<1>5. ASSUME NEW i \in Pids, joins'[i] = 0
      PROVE  ~Released(i)'
  BY <1>1, <1>3, <1>5, ReleaseIs DEF JoinedOnce, JoinLabels
<1>6. ASSUME NEW p \in Pids, pc'[p] \in JoinLabels \ {"JoinRead"},
             NEW i \in Pids, id'[p] = i, joins'[i] = 1
      PROVE  ~Released(i)'
  <2>1. CASE CallJoin(i) /\ p = current
    <3>1. ~Released(i)
      BY <1>1, <1>2, <1>6, <2>1 DEF JoinedOnce
    <3> QED
      BY <1>2, <2>1, <3>1, ReleaseIs
  <2>2. CASE pc[p] \in JoinLabels \ {"JoinRead"} /\ id[p] = i
    <3>1. parentID[i] = p
      BY <2>2 DEF ChildOf, Pids
    <3>2. joins[i] = 1
      BY <1>1, <1>2, <1>6, <2>2, <3>1, JoinsKept DEF JoinLabels
    <3>3. ~Released(i)
      BY <2>2, <3>2 DEF JoinedOnce
    <3>4. \A q \in Pids : id[q] = i => q = p
      BY <3>1 DEF ChildOf, Pids
    <3> QED
      BY <1>1, <2>2, <3>3, <3>4, ReleaseIs
  <2> QED
    BY <1>6, <2>1, <2>2, JoinerIs DEF JoinLabels
<1>7. \A p \in Pids : pc'[p] \in JoinLabels => id'[p] \in Pids
  BY JoinerIs
<1>8. ASSUME NEW p \in Pids, pc'[p] \in JoinLabels \ {"JoinRead"}, joins'[id'[p]] = 1
      PROVE  ~(\/ value'[Exitsem(id'[p])] # 0
               \/ pc'[id'[p]] \in {"ExitDec", "ExitDecV", "Remove", "gone"})
  <2>1. PICK i \in Pids : id'[p] = i
    BY <1>7, <1>8
  <2>2. ~Released(i)'
    BY <1>6, <1>8, <2>1
  <2> QED
    BY <2>1, <2>2 DEF Released
<1> QED
  BY <1>4, <1>5, <1>8 DEF JoinedOnce, Released

\* Nobody is in, or will come to, a P of the semaphores ~PCB deletes.
LEMMA NobodyComes ==
    ASSUME PTypeOK, IdKnown, FreshChild, SleepsAtP, JoinedOnce,
           NEW i \in Pids, pc[i] = "gone", joins[i] < 2
    PROVE  NobodyWaits(i)
<1> SUFFICES ASSUME NEW t \in Pids, inP[t] \in {Joinsem(i), Exitsem(i), Mutex(i)}
             PROVE  FALSE
  BY DEF NobodyWaits
<1>1. inP[t] = WaitsFor(t) /\ inP[t] # NoP
  BY DEF SleepsAtP, NoP, Joinsem, Exitsem, Mutex
<1>2. Released(i) /\ joins[i] \in 0 .. 2
  BY DEF Released, PTypeOK
<1>3. pc[t] \in JoinLabels \ {"JoinRead"} => id[t] # i
  BY <1>2 DEF JoinedOnce, JoinLabels
<1>4. pc[t] \in {"ExecMutex", "JoinInc", "JoinWait"} => id[t] \in Pids
  BY DEF IdKnown, IdLabels
<1>5. pc[t] \in {"ExecMutex", "ExecLoad"} => id[t] # i
  BY DEF FreshChild
<1> USE SemsDistinct
<1>6. CASE pc[t] = "ExecP"
  BY <1>1, <1>6, WaitsForIs
<1>7. CASE pc[t] \in {"ExecMutex", "JoinInc"}
  BY <1>1, <1>3, <1>4, <1>5, <1>7, WaitsForIs DEF JoinLabels
<1>8. CASE pc[t] = "JoinWait"
  BY <1>1, <1>3, <1>4, <1>8, WaitsForIs DEF JoinLabels
<1>9. CASE pc[t] \in {"ExitWait", "ExitDec"}
  BY <1>1, <1>9, WaitsForIs
<1> QED
  BY <1>1, <1>6, <1>7, <1>8, <1>9, WaitsForIs

\* Only a second Join uses a semaphore that is gone.
UsedTwice == stop = "undefined" => id[current] \in Pids /\ joins[id[current]] = 2

LEMMA UsedStep ==
    PTypeOK /\ IdKnown /\ OneToken /\ DestroyedGone /\ JoinedOnce /\ UsedTwice
      /\ [PNext]_pvars => UsedTwice'
<1> SUFFICES ASSUME PTypeOK, IdKnown, OneToken, DestroyedGone, JoinedOnce, UsedTwice,
                    [PNext]_pvars, stop' = "undefined"
             PROVE  id'[current'] \in Pids /\ joins'[id'[current']] = 2
  BY DEF UsedTwice
<1>1. current \in Pids
  BY DEF PTypeOK, K!TypeOK
<1>2. CASE stop = "undefined"
  <2>1. UNCHANGED pvars
    BY <1>2 DEF PNext, KernelStep, UserStep, TimeSlice, Dispatch, Idle, FirstFetchFaults,
       ExecP, ExecNoFile, ExecRefused, ExecSlot, ExecMutex, ExecCannotOpen, ExecLoad,
       ExecTooBig, ExecYield, ExecMutexV, ExecReturn, ExitWait, ExitDec, ExitDecV, Remove,
       JoinInc, JoinIncV, JoinWait, JoinRead, UseAfterDestroy, CallHalt, ExitMain,
       CallExec, CallExit, CallJoin, JoinRefused, InUserCode, PStep, VStep, At
  <2> QED
    BY <1>2, <2>1 DEF pvars, kvars, callVars, UsedTwice
<1>3. CASE stop # "undefined"
  <2>1. UseAfterDestroy
    BY <1>3 DEF PNext, KernelStep, UserStep, TimeSlice, Dispatch, Idle, FirstFetchFaults,
       ExecP, ExecNoFile, ExecRefused, ExecSlot, ExecMutex, ExecCannotOpen, ExecLoad,
       ExecTooBig, ExecYield, ExecMutexV, ExecReturn, ExitWait, ExitDec, ExitDecV, Remove,
       JoinInc, JoinIncV, JoinWait, JoinRead, CallHalt, ExitMain, StopMachine,
       CallExec, CallExit, CallJoin, JoinRefused, pvars
  <2>2. pc[current] \in JoinLabels /\ pc[id[current]] = "gone" /\ id[current] \in Pids
    BY <2>1 DEF UseAfterDestroy, JoinLabels, DestroyedGone, PTypeOK
  <2>3. pc[current] # "JoinRead"
    BY <1>1, <2>2, HeldWhenRead
  <2>4. joins[id[current]] \notin {0, 1}
    BY <1>1, <2>2, <2>3 DEF JoinedOnce, Released
  <2>5. joins[id[current]] = 2
    BY <2>2, <2>4 DEF PTypeOK
  <2> QED
    BY <2>1, <2>2, <2>5 DEF UseAfterDestroy, kvars, callVars
<1> QED
  BY <1>2, <1>3

TableInv == LifeInv /\ DestroyedGone /\ SleepsAtP /\ SlotInv /\ JoinedOnce

LEMMA TableInit == PInit => TableInv
BY PTypeInit, PageInit, JoinInit, ChildInit, SlotInit, JoinedInit DEF TableInv, LifeInv

LEMMA TableStep == TableInv /\ [PNext]_pvars => TableInv'
<1> SUFFICES ASSUME TableInv, [PNext]_pvars PROVE TableInv'
  OBVIOUS
<1>1. /\ PTypeOK /\ IdKnown /\ PagesOwned /\ NewIsEmpty /\ PageInv /\ OneToken /\ ChildOf
      /\ DestroyedGone /\ SleepsAtP /\ SlotsInOrder /\ FreshChild /\ FinishedGone /\ JoinedOnce
  BY DEF TableInv, LifeInv, PageInv, SlotInv
<1>2. LifeInv' /\ DestroyedGone'
  BY <1>1, PTypeStep, PageStep, NewStep, TokenStep, ChildStep, GoneStep DEF PageInv, LifeInv
<1>3. SleepsAtP' /\ SlotInv' /\ JoinedOnce'
  BY <1>1, SleepStep, OrderStep, FreshStep, FinishStep, JoinedStep DEF SlotInv
<1> QED
  BY <1>2, <1>3 DEF TableInv

\* ~PCB deletes the semaphores of a child that was joined at most once when
\* nobody waits on them, and no Join touches them afterwards (PTable::Remove,
\* synch.cc:45-47), for any number of processes.
THEOREM DestructionUnused == PSpec => []DestroyedUnused
<1> DEFINE Inv == TableInv /\ UsedTwice
<1>1. PInit => Inv
  BY TableInit DEF PInit, UsedTwice
<1>2. Inv /\ [PNext]_pvars => Inv'
  BY TableStep, UsedStep DEF TableInv, LifeInv
<1>3. Inv => DestroyedUnused
  <2> SUFFICES ASSUME Inv, NEW i \in Pids, joins[i] < 2
               PROVE  /\ i \in destroyed => NobodyWaits(i)
                      /\ stop = "undefined" => id[current] # i
    BY DEF DestroyedUnused
  <2>1. i \in destroyed => NobodyWaits(i)
    BY NobodyComes DEF TableInv, LifeInv, SlotInv, DestroyedGone
  <2>2. stop = "undefined" => id[current] # i
    BY DEF UsedTwice
  <2> QED
    BY <2>1, <2>2
<1> QED
  BY <1>1, <1>2, <1>3, PTL DEF PSpec

-----------------------------------------------------------------------------
(* No circle of waiters. *)

\* The mutex of i is in use: i is not taken, being loaded, or a process.
InUse(i) ==
    \/ pc[i] # "none"
    \/ i \notin bm
    \/ \E p \in Pids : pc[p] \in {"ExecMutex", "ExecLoad"} /\ id[p] = i

\* Then it is free or somebody is inside it; it is lost when PCB::Exec fails.
MutexCounted ==
    \A i \in Pids : InUse(i) => value[Mutex(i)] + Cardinality(HoldsMutex(i)) = 1

LEMMA CountedInit == PInit => MutexCounted
<1> SUFFICES ASSUME PInit, NEW i \in Pids
             PROVE  value[Mutex(i)] + Cardinality(HoldsMutex(i)) = 1
  BY DEF MutexCounted
<1>1. value[Mutex(i)] = 1
  BY SemsOf DEF PInit, K!Init, PInitVal, Mutex
<1>2. HoldsMutex(i) = {}
  BY DEF PInit, HoldsMutex
<1> QED
  BY <1>1, <1>2, FS_EmptySet

\* No slot comes back into use.
LEMMA InUseBefore ==
    ASSUME PTypeOK, IdKnown, NewIsEmpty, ChildOf, [PNext]_pvars, NEW i \in Pids, InUse(i)'
    PROVE  InUse(i)
<1>1. /\ K!TypeOK /\ current \in Pids
      /\ pc \in [Pids -> Labels]
      /\ id \in [Pids -> Pids \cup {-1}]
      /\ bm \subseteq Pids
  BY DEF PTypeOK, K!TypeOK
<1>2. CASE pc'[i] # "none"
  <2>1. CASE ExecLoad
    BY <1>1, <1>2, <2>1, LoadsNew DEF InUse
  <2>2. CASE ~ExecLoad
    BY <1>2, <2>2, NoneKept DEF InUse
  <2> QED
    BY <2>1, <2>2
<1>3. CASE i \notin bm'
  <2>1. bm \subseteq bm'
    BY SameTable DEF ExecSlot
  <2> QED
    BY <1>3, <2>1 DEF InUse
<1>4. ASSUME NEW p \in Pids, pc'[p] \in {"ExecMutex", "ExecLoad"}, id'[p] = i
      PROVE  InUse(i)
  <2>1. CASE ExecSlot /\ p = current
    BY <1>1, <1>4, <2>1 DEF ExecSlot, InUse
  <2>2. CASE ~(ExecSlot /\ p = current)
    <3>1. CASE p # current
      <4>1. pc[p] = pc'[p] /\ id'[p] = id[p]
        BY <1>1, <1>4, <3>1, OthersStay, LoadsNew
      <4> QED
        BY <1>4, <4>1 DEF InUse
    <3>2. CASE p = current /\ ExecLoad
      BY <1>1, <1>4, <3>2, LoadsNew
    <3>3. CASE p = current /\ ~ExecLoad
      <4>1. pc[p] \in {"ExecMutex", "ExecLoad"} /\ id'[p] = id[p]
        BY <1>1, <1>4, <2>2, <3>3, StepIs
        DEF Step, Passing, Posting, Returning, Jumping, Pass, Post, Jump,
            ExecCannotOpen, CallJoin, InUserCode, At, Goto
      <4> QED
        BY <1>4, <4>1 DEF InUse
    <3> QED
      BY <3>1, <3>2, <3>3
  <2> QED
    BY <2>1, <2>2
<1> QED
  BY <1>2, <1>3, <1>4 DEF InUse

\* A mutex is left with its V, but for an Exec that fails.
LEMMA HoldersStay ==
    ASSUME PTypeOK, IdKnown, NewIsEmpty, [PNext]_pvars, NEW i \in Pids,
           ~(ExecCannotOpen /\ id[current] = i),
           value'[Mutex(i)] = value[Mutex(i)]
    PROVE  HoldsMutex(i) \subseteq HoldsMutex(i)'
<1>1. /\ K!TypeOK /\ current \in Pids
      /\ pc \in [Pids -> Labels]
      /\ id \in [Pids -> Pids \cup {-1}]
      /\ value \in [PSems -> Nat]
  BY DEF PTypeOK, K!TypeOK
<1>2. Step
  BY <1>1, StepIs
<1> SUFFICES ASSUME NEW p \in HoldsMutex(i) PROVE p \in HoldsMutex(i)'
  OBVIOUS
<1>3. p \in Pids
  BY DEF HoldsMutex
<1> USE SemsOf
<1>4. CASE p # current
  <2>1. pc'[p] = pc[p] /\ id'[p] = id[p]
    BY <1>1, <1>3, <1>4, OthersStay, LoadsNew DEF HoldsMutex
  <2> QED
    BY <2>1 DEF HoldsMutex
<1>5. CASE p = current /\ ExecLoad
  BY <1>1, <1>3, <1>5, LoadsNew DEF HoldsMutex
<1>6. CASE p = current /\ Posting
  BY <1>1, <1>3, <1>6 DEF Posting, Post, HoldsMutex
<1>7. CASE p = current /\ (Passing \/ Returning)
  BY <1>1, <1>3, <1>7 DEF Passing, Pass, Returning, Post, HoldsMutex
<1>8. CASE p = current /\ UNCHANGED id /\ (Jumping \/ UNCHANGED <<pc, value>>)
  BY <1>1, <1>3, <1>8 DEF Jumping, Jump, HoldsMutex
<1>9. CASE p = current /\ (pc[current] = "user" \/ ExecSlot \/ \E j \in Pids : CallJoin(j))
  BY <1>1, <1>3, <1>9 DEF ExecSlot, CallJoin, InUserCode, At, HoldsMutex
<1>10. CASE p = current /\ ExecCannotOpen
  BY <1>1, <1>3, <1>10 DEF ExecCannotOpen, At, HoldsMutex
<1> QED
  BY <1>2, <1>4, <1>5, <1>6, <1>7, <1>8, <1>9, <1>10 DEF Step

LEMMA CountedStep ==
    PTypeOK /\ IdKnown /\ NewIsEmpty /\ ChildOf /\ FreshChild /\ MutexCounted
      /\ [PNext]_pvars => MutexCounted'
<1> SUFFICES ASSUME PTypeOK, IdKnown, NewIsEmpty, ChildOf, FreshChild, MutexCounted,
                    [PNext]_pvars, NEW i \in Pids, InUse(i)'
             PROVE  value'[Mutex(i)] + Cardinality(HoldsMutex(i)') = 1
  BY DEF MutexCounted
<1>1. value[Mutex(i)] \in Nat /\ current \in Pids /\ pc \in [Pids -> Labels]
      /\ id \in [Pids -> Pids \cup {-1}] /\ K!TypeOK
  BY SemsOf DEF PTypeOK, K!TypeOK
<1>2. value[Mutex(i)] + Cardinality(HoldsMutex(i)) = 1
  BY InUseBefore DEF MutexCounted
<1>3. IsFiniteSet(HoldsMutex(i)) /\ Cardinality(HoldsMutex(i)) \in Nat
  BY HoldersFinite
<1>4. ~(ExecCannotOpen /\ id[current] = i)
  <2> SUFFICES ASSUME ExecCannotOpen, id[current] = i PROVE FALSE
    OBVIOUS
  <2>1. pc[current] = "ExecLoad" /\ bm' = bm
    BY DEF ExecCannotOpen, At, tableVars
  <2>2. pc[i] = "none" /\ i \in bm /\ parentID[i] = current
    BY <1>1, <2>1 DEF FreshChild, ChildOf, Pids
  <2>3. pc' = [pc EXCEPT ![current] = "ExecReturn"] /\ id' = [id EXCEPT ![current] = -1]
    BY DEF ExecCannotOpen, Goto
  <2>4. \A p \in Pids : id'[p] # i
    BY <1>1, <2>2, <2>3 DEF ChildOf, Pids
  <2> QED
    BY <1>1, <2>1, <2>2, <2>3, <2>4 DEF InUse
<1>5. ASSUME HoldsMutex(i)' \subseteq HoldsMutex(i), value'[Mutex(i)] = value[Mutex(i)]
      PROVE  HoldsMutex(i)' = HoldsMutex(i)
  BY <1>4, <1>5, HoldersStay
<1>6. ASSUME current \notin HoldsMutex(i), HoldsMutex(i)' = HoldsMutex(i) \cup {current}
      PROVE  Cardinality(HoldsMutex(i)') = Cardinality(HoldsMutex(i)) + 1
  BY <1>3, <1>6, FS_AddElement
<1>7. ASSUME current \in HoldsMutex(i), HoldsMutex(i)' = HoldsMutex(i) \ {current}
      PROVE  Cardinality(HoldsMutex(i)') = Cardinality(HoldsMutex(i)) - 1
  BY <1>3, <1>7, FS_RemoveElement
<1> QED
  BY <1>1, <1>2, <1>3, <1>5, <1>6, <1>7, MutexEffect

\* What the kernel's invariant says when every thread waits: whoever has not
\* finished is in the P of a semaphore whose value is 0.
LEMMA AllWait ==
    ASSUME KP!KernelInv, K!Idling
    PROVE  \A t \in Pids :
             status[t] # "JUST_CREATED" /\ t \notin finished
               => inP[t] \in PSems /\ value[inP[t]] = 0
BY KP!IdleWaits, Assumed DEF K!Idling, KP!Idling

\* The least-number principle; the set is a set, so that it can be used where
\* an induction over an operator could not.
LEMMA LeastNatural ==
    ASSUME NEW S \in SUBSET Nat, S # {}
    PROVE  \E n \in S : \A m \in S : n <= m
<1> DEFINE R == {ss \in Nat \X Nat : ss[1] < ss[2]}
<1>1. IsWellFoundedOn(R, Nat)
  BY NatLessThanWellFounded, Zenon DEF OpToRel
<1>2. PICK n \in S : \A m \in S : <<m, n>> \notin R
  BY <1>1, WFMin, Zenon
<1>3. ASSUME NEW m \in S PROVE n <= m
  <2>1. <<m, n>> \in Nat \X Nat /\ <<m, n>>[1] = m /\ <<m, n>>[2] = n
    OBVIOUS
  <2>2. ~(m < n)
    BY <1>2, <2>1
  <2> QED
    BY <2>2
<1> QED
  BY <1>3

\* A process that waits for another can be followed to one that does not: ids
\* grow from parent to child.
LEMMA EndOfChain ==
    ASSUME NEW W \in SUBSET Pids, W # {}
    PROVE  \E p \in W : \A q \in W : q <= p
<1> DEFINE S == {NumProc - p : p \in W}
<1>1. NumProc \in Nat /\ \A p \in Pids : p \in Int /\ NumProc - p \in Nat
  BY ProcessAssumption DEF Pids
<1>2. S \in SUBSET Nat /\ S # {}
  BY <1>1
<1>3. PICK n \in S : \A m \in S : n <= m
  BY <1>2, LeastNatural
<1>4. PICK p \in W : n = NumProc - p
  BY <1>3
<1>5. ASSUME NEW q \in W PROVE q <= p
  <2>1. NumProc - q \in S
    OBVIOUS
  <2>2. NumProc - p <= NumProc - q
    BY <1>3, <1>4, <2>1
  <2> QED
    BY <1>1, <2>2
<1> QED
  BY <1>5

Explained ==
    \E p \in Pids :
        /\ pc[p] \in {"JoinInc", "JoinWait"}
        /\ joins[id[p]] = 2 \/ pc[id[p]] = "none"

\* When every thread waits, a second Join or the Join of a child that was not
\* loaded is the reason.
LEMMA NoCircle ==
    ASSUME TableInv, LoadExclusive, MutexCounted, KP!KernelInv, K!Idling
    PROVE  Explained
<1> SUFFICES ASSUME ~Explained PROVE FALSE
  OBVIOUS
<1>1. /\ PTypeOK /\ IdKnown /\ NewIsEmpty /\ OneToken /\ ChildOf
      /\ SleepsAtP /\ SlotsInOrder /\ FinishedGone /\ JoinedOnce
  BY DEF TableInv, LifeInv, PageInv, SlotInv
<1>2. 0 \in Pids /\ Pids \subseteq Int
  BY ProcessAssumption DEF Pids
<1>3. value \in [PSems -> Nat] /\ joins \in [Pids -> 0 .. 2]
  BY <1>1 DEF PTypeOK, K!TypeOK
<1>4. ASSUME NEW t \in Pids, pc[t] \notin {"none", "gone"}
      PROVE  WaitsFor(t) # NoP /\ value[WaitsFor(t)] = 0
  <2>1. status[t] # "JUST_CREATED" /\ t \notin finished
    BY <1>1, <1>4 DEF NewIsEmpty, FinishedGone
  <2>2. inP[t] \in PSems /\ value[inP[t]] = 0
    BY <2>1, AllWait
  <2>3. inP[t] # NoP
    BY <2>2, Assumed DEF KP!KernelAssumption, NoP
  <2> QED
    BY <1>1, <2>2, <2>3 DEF SleepsAtP
<1>5. \A t \in Pids : pc[t] \in {"none", "gone", "ExecP", "ExecMutex", "JoinInc",
                                 "JoinWait", "ExitWait", "ExitDec"}
  BY <1>4, WaitsForIs
<1>6. ASSUME NEW i \in Pids, InUse(i)
      PROVE  value[Mutex(i)] # 0
  <2>1. HoldsMutex(i) = {}
    BY <1>5 DEF HoldsMutex
  <2> QED
    BY <1>6, <2>1, <1>1, FS_EmptySet DEF MutexCounted
<1>7. \A t \in Pids : pc[t] # "ExecMutex"
  BY <1>1, <1>4, <1>6, WaitsForIs DEF InUse, IdKnown, IdLabels
<1>8. \A t \in Pids : pc[t] # "ExecP"
  <2>1. Loading = {}
    BY <1>5, <1>7 DEF Loading
  <2>2. value[Bmsem] = 1
    BY <1>3, <2>1, FS_EmptySet, SemsOf DEF LoadExclusive
  <2> QED
    BY <1>4, <2>2, WaitsForIs
<1>9. \A t \in Pids : pc[t] # "ExitDec"
  BY <1>4, <1>6, WaitsForIs DEF InUse
<1>10. \A t \in Pids : pc[t] # "JoinInc"
  <2> SUFFICES ASSUME NEW t \in Pids, pc[t] = "JoinInc" PROVE FALSE
    OBVIOUS
  <2>1. id[t] \in Pids /\ pc[id[t]] # "none"
    BY <1>1 DEF Explained, IdKnown, IdLabels
  <2> QED
    BY <1>4, <1>6, <2>1, WaitsForIs DEF InUse
<1> DEFINE W == {p \in Pids : pc[p] = "JoinWait"}
<1>11. ASSUME NEW p \in W
       PROVE  id[p] \in W /\ p < id[p]
  <2>1. id[p] \in Pids /\ pc[id[p]] # "none" /\ joins[id[p]] # 2
    BY <1>1 DEF Explained, IdKnown, IdLabels
  <2>2. joins[id[p]] = 1
    <3>1. joins[id[p]] # 0 /\ joins[id[p]] \in 0 .. 2
      BY <1>1, <1>3, <2>1 DEF JoinedOnce, JoinLabels
    <3> QED
      BY <2>1, <3>1
  <2>3. ~Released(id[p])
    BY <1>1, <2>2 DEF JoinedOnce, JoinLabels
  <2>4. value[Joinsem(id[p])] = 0
    BY <1>4, WaitsForIs
  <2>5. pc[id[p]] # "ExitWait"
    <3>1. Reading(id[p]) = {}
      BY <1>5 DEF Reading
    <3>2. Token(id[p]) = 0
      BY <2>3, <2>4, <3>1, FS_EmptySet DEF Token, Released
    <3> QED
      BY <1>1, <2>1, <3>2 DEF OneToken
  <2>6. id[p] \in W
    BY <1>5, <1>7, <1>8, <1>9, <1>10, <2>1, <2>3, <2>5 DEF Released
  <2>7. id[p] \in bm /\ parentID[id[p]] = p
    BY <1>1, <2>1 DEF ChildOf, Pids
  <2> QED
    BY <1>1, <2>6, <2>7 DEF SlotsInOrder
<1>12. 0 \in W
  BY <1>1, <1>2, <1>5, <1>7, <1>8, <1>9, <1>10 DEF SlotsInOrder
<1>13. PICK p \in W : \A q \in W : q <= p
  BY <1>12, EndOfChain
<1>14. id[p] \in W /\ p < id[p]
  BY <1>11
<1>15. id[p] <= p
  BY <1>13, <1>14
<1>16. p \in Int /\ id[p] \in Int
  BY <1>2, <1>13, <1>14
<1> HIDE DEF W
<1> QED
  BY <1>14, <1>15, <1>16

\* The machine runs out of runnable threads only when a process joins a child a
\* second time, or one that Exec could not load, for any number of processes:
\* a parent waits for its child and ids grow from parent to child, so that
\* processes never wait in a circle.
THEOREM IdleIsExplained == PSpec => []IdleExplained
<1> DEFINE Inv == /\ TableInv /\ LoadExclusive /\ MutexCounted /\ KP!KernelInv
                  /\ IdleExplained
<1>1. PInit => Inv
  <2> SUFFICES ASSUME PInit PROVE Inv
    OBVIOUS
  <2>1. KP!KernelInv
    BY KP!InvInit, Assumed, SameInit DEF PInit
  <2>2. IdleExplained
    BY DEF PInit, IdleExplained
  <2> QED
    BY <2>1, <2>2, TableInit, LoadInit, CountedInit
<1>2. Inv /\ [PNext]_pvars => Inv'
  <2> SUFFICES ASSUME Inv, [PNext]_pvars PROVE Inv'
    OBVIOUS
  <2>1. /\ PTypeOK /\ IdKnown /\ NewIsEmpty /\ ChildOf /\ FreshChild /\ K!TypeOK
    BY DEF TableInv, LifeInv, PageInv, SlotInv, PTypeOK
  <2>2. TableInv' /\ LoadExclusive' /\ MutexCounted'
    BY <2>1, TableStep, LoadStep, CountedStep
  <2>3. KP!KernelInv'
    BY <2>1, StepIs, KP!InvStep, Assumed, SameNext
  <2>4. IdleExplained'
    <3> SUFFICES ASSUME stop' = "idle" PROVE Explained'
      BY DEF IdleExplained, Explained
    <3>1. UNCHANGED <<pc, id, joins>> /\ (Idle \/ stop = "idle")
      <4>1. CASE stop = "idle"
        BY <4>1 DEF PNext, KernelStep, UserStep, TimeSlice, Dispatch, Idle,
           FirstFetchFaults, ExecP, ExecNoFile, ExecRefused, ExecSlot, ExecMutex,
           ExecCannotOpen, ExecLoad, ExecTooBig, ExecYield, ExecMutexV, ExecReturn,
           ExitWait, ExitDec, ExitDecV, Remove, JoinInc, JoinIncV, JoinWait, JoinRead,
           UseAfterDestroy, CallHalt, ExitMain, CallExec, CallExit, CallJoin,
           JoinRefused, InUserCode, PStep, VStep, At, pvars, callVars
      <4>2. CASE stop # "idle"
        <5>1. Idle
          BY <4>2 DEF PNext, KernelStep, UserStep, TimeSlice, Dispatch,
             FirstFetchFaults, ExecP, ExecNoFile, ExecRefused, ExecSlot, ExecMutex,
             ExecCannotOpen, ExecLoad, ExecTooBig, ExecYield, ExecMutexV, ExecReturn,
             ExitWait, ExitDec, ExitDecV, Remove, JoinInc, JoinIncV, JoinWait, JoinRead,
             UseAfterDestroy, CallHalt, ExitMain, CallExec, CallExit, CallJoin,
             JoinRefused, StopMachine, pvars
        <5> QED
          BY <5>1 DEF Idle, callVars
      <4> QED
        BY <4>1, <4>2
    <3>2. Explained
      <4>1. CASE Idle
        BY <4>1, NoCircle DEF Idle, K!IdleHalt
      <4>2. CASE stop = "idle"
        BY <4>2 DEF IdleExplained, Explained
      <4> QED
        BY <3>1, <4>1, <4>2
    <3> QED
      BY <3>1, <3>2 DEF Explained
  <2> QED
    BY <2>2, <2>3, <2>4
<1> QED
  BY <1>1, <1>2, PTL DEF PSpec
=============================================================================
