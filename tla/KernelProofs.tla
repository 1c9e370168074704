----------------------------- MODULE KernelProofs -----------------------------
(***************************************************************************)
(* Proofs about module Kernel, for every set of threads and semaphores and *)
(* every client.  KernelInv is inductive as it stands: the placement of    *)
(* the threads needs its four parts together (a thread may enter a list    *)
(* only because its status says it is in no other one), and the bound on   *)
(* the value needs the placement, since it counts threads that are in P    *)
(* but in no queue.                                                        *)
(***************************************************************************)
EXTENDS Kernel, TLAPS, FiniteSetTheorems

-----------------------------------------------------------------------------
(* Lists: what List::Append and List::Remove do to the set of elements. *)

\* Append adds its element at the end.
LEMMA AppendRange ==
    ASSUME NEW S, NEW q \in Seq(S), NEW x \in S
    PROVE  /\ Append(q, x) \in Seq(S)
           /\ Append(q, x) # <<>>
           /\ Range(Append(q, x)) = Range(q) \cup {x}
<1>1. /\ Append(q, x) \in Seq(S)
      /\ DOMAIN Append(q, x) = 1 .. Len(q) + 1
      /\ DOMAIN q = 1 .. Len(q)
      /\ \A i \in 1 .. Len(q) : Append(q, x)[i] = q[i]
      /\ Append(q, x)[Len(q) + 1] = x
      /\ Len(q) \in Nat
  OBVIOUS
<1>2. Append(q, x) # <<>>
  BY <1>1
<1>3. ASSUME NEW y \in Range(q) \cup {x}
      PROVE  y \in Range(Append(q, x))
  BY <1>1, <1>3 DEF Range
<1>4. ASSUME NEW y \in Range(Append(q, x))
      PROVE  y \in Range(q) \cup {x}
  BY <1>1, <1>4 DEF Range
<1> QED
  BY <1>1, <1>2, <1>3, <1>4

\* A list without repetition has none after an element it lacks is added.
LEMMA AppendInjective ==
    ASSUME NEW S, NEW q \in Seq(S), NEW x \in S,
           IsInjective(q), x \notin Range(q)
    PROVE  IsInjective(Append(q, x))
<1>1. /\ DOMAIN Append(q, x) = 1 .. Len(q) + 1
      /\ DOMAIN q = 1 .. Len(q)
      /\ \A i \in 1 .. Len(q) : Append(q, x)[i] = q[i]
      /\ Append(q, x)[Len(q) + 1] = x
      /\ Len(q) \in Nat
  OBVIOUS
<1> QED
  BY <1>1 DEF Range, IsInjective

\* Removing the head of a list without repetition removes it from the set.
LEMMA TailRange ==
    ASSUME NEW S, NEW q \in Seq(S), q # <<>>, IsInjective(q)
    PROVE  /\ Head(q) \in S
           /\ Head(q) \in Range(q)
           /\ Tail(q) \in Seq(S)
           /\ IsInjective(Tail(q))
           /\ Range(Tail(q)) = Range(q) \ {Head(q)}
<1>1. /\ Head(q) \in S
      /\ Tail(q) \in Seq(S)
      /\ Head(q) = q[1]
      /\ Len(q) \in Nat \ {0}
      /\ DOMAIN q = 1 .. Len(q)
      /\ DOMAIN Tail(q) = 1 .. Len(q) - 1
      /\ \A i \in 1 .. Len(q) - 1 : Tail(q)[i] = q[i + 1]
  OBVIOUS
<1>2. Head(q) \in Range(q)
  BY <1>1 DEF Range
<1>3. IsInjective(Tail(q))
  BY <1>1 DEF IsInjective
<1>4. ASSUME NEW y \in Range(Tail(q))
      PROVE  y \in Range(q) \ {Head(q)}
  <2>1. PICK i \in 1 .. Len(q) - 1 : y = q[i + 1]
    BY <1>1, <1>4 DEF Range
  <2>2. i + 1 \in 1 .. Len(q) /\ 1 \in 1 .. Len(q) /\ i + 1 # 1
    BY <1>1
  <2> QED
    BY <1>1, <2>1, <2>2 DEF Range, IsInjective
<1>5. ASSUME NEW y \in Range(q) \ {Head(q)}
      PROVE  y \in Range(Tail(q))
  <2>1. PICK i \in 1 .. Len(q) : y = q[i]
    BY <1>1, <1>5 DEF Range
  <2>2. i - 1 \in 1 .. Len(q) - 1 /\ (i - 1) + 1 = i
    BY <1>1, <1>5, <2>1
  <2>3. Tail(q)[i - 1] = y
    BY <1>1, <2>1, <2>2
  <2> QED
    BY <1>1, <2>2, <2>3 DEF Range
<1> QED
  BY <1>1, <1>2, <1>3, <1>4, <1>5

\* Without the assumption that nothing is repeated, the types remain.
LEMMA TailType ==
    ASSUME NEW S, NEW q \in Seq(S), q # <<>>
    PROVE  Head(q) \in S /\ Tail(q) \in Seq(S)
OBVIOUS

LEMMA EmptyList == Range(<<>>) = {} /\ IsInjective(<<>>)
BY DEF Range, IsInjective

-----------------------------------------------------------------------------
(* Types. *)

LEMMA TypeInit == Init => TypeOK
<1> SUFFICES ASSUME Init PROVE TypeOK
  OBVIOUS
<1>1. Main \in Threads /\ InitVal \in [Sems -> Nat]
  BY KernelAssumption
<1>2. <<>> \in Seq(Threads)
  OBVIOUS
<1>3. status \in [Threads -> Statuses]
  BY DEF Init, Statuses
<1>4. queue \in [Sems -> Seq(Threads)]
  BY <1>2 DEF Init
<1>5. inP \in [Threads -> Sems \cup {NoSem}] /\ pending \in [Sems -> Nat]
  BY DEF Init
<1> QED
  BY <1>1, <1>2, <1>3, <1>4, <1>5 DEF Init, TypeOK

\* Scheduler::Run keeps the types.
LEMMA TypeRun ==
    ASSUME TypeOK, NEW next \in Threads, NEW rest \in Seq(Threads),
           NEW st \in [Threads -> Statuses], Run(next, rest, st)
    PROVE  /\ current' \in Threads
           /\ ready' \in Seq(Threads)
           /\ status' \in [Threads -> Statuses]
           /\ started' \subseteq Threads
           /\ toDestroy' \in Threads \cup {NoThread}
BY DEF TypeOK, Run, Statuses

\* The body of V keeps the types.
LEMMA TypeWake ==
    ASSUME TypeOK, NEW s \in Sems, Wake(s)
    PROVE  /\ ready' \in Seq(Threads)
           /\ status' \in [Threads -> Statuses]
           /\ value' \in [Sems -> Nat]
           /\ queue' \in [Sems -> Seq(Threads)]
<1>1. value' \in [Sems -> Nat]
  BY DEF TypeOK, Wake
<1>2. CASE queue[s] = <<>>
  BY <1>1, <1>2 DEF TypeOK, Wake
<1>3. CASE queue[s] # <<>>
  <2>1. Head(queue[s]) \in Threads /\ Tail(queue[s]) \in Seq(Threads)
    BY <1>3, TailType DEF TypeOK
  <2>2. Append(ready, Head(queue[s])) \in Seq(Threads)
    BY <2>1, AppendRange DEF TypeOK
  <2> QED
    BY <1>1, <1>3, <2>1, <2>2 DEF TypeOK, Wake, Statuses
<1> QED
  BY <1>2, <1>3

LEMMA TypeStep == TypeOK /\ [Next]_kvars => TypeOK'
<1> SUFFICES ASSUME TypeOK, [Next]_kvars
             PROVE  TypeOK'
  OBVIOUS
<1>1. CASE Yield
  <2>1. Head(ready) \in Threads /\ Tail(ready) \in Seq(Threads)
    BY <1>1, TailType DEF TypeOK, Yield
  <2>2. Append(Tail(ready), current) \in Seq(Threads)
    BY <2>1, AppendRange DEF TypeOK
  <2>3. [status EXCEPT ![current] = "READY"] \in [Threads -> Statuses]
    BY DEF TypeOK, Statuses
  <2> QED
    BY <1>1, <2>1, <2>2, <2>3, TypeRun DEF TypeOK, Yield, semVars
<1>2. CASE Switch
  <2>1. Head(ready) \in Threads /\ Tail(ready) \in Seq(Threads)
    BY <1>2, TailType DEF TypeOK, Switch
  <2> QED
    BY <1>2, <2>1, TypeRun DEF TypeOK, Switch, semVars
<1>3. CASE Finish
  BY <1>3 DEF TypeOK, Finish, semVars, Statuses
<1>4. CASE IdleHalt
  BY <1>4 DEF TypeOK, IdleHalt, schedVars, semVars
<1>5. CASE Halt
  BY <1>5 DEF TypeOK, Halt, schedVars, semVars
<1>6. ASSUME NEW t \in Threads, Fork(t)
      PROVE  TypeOK'
  <2>1. Append(ready, t) \in Seq(Threads)
    BY AppendRange DEF TypeOK
  <2> QED
    BY <1>6, <2>1 DEF TypeOK, Fork, semVars, Statuses
<1>7. ASSUME NEW s \in Sems, Wait(s)
      PROVE  TypeOK'
  <2>1. Append(queue[s], current) \in Seq(Threads)
    BY AppendRange DEF TypeOK
  <2> QED
    BY <1>7, <2>1 DEF TypeOK, Wait, Statuses
<1>8. ASSUME NEW s \in Sems, Take(s)
      PROVE  TypeOK'
  BY <1>8 DEF TypeOK, Take, schedVars
<1>9. ASSUME NEW s \in Sems, V(s)
      PROVE  TypeOK'
  BY <1>9, TypeWake DEF TypeOK, V
<1>10. ASSUME NEW s \in Sems, StartIO(s)
       PROVE  TypeOK'
  BY <1>10 DEF TypeOK, StartIO, schedVars, semVars
<1>11. ASSUME NEW s \in Sems, Interrupt(s)
       PROVE  TypeOK'
  <2>1. pending' \in [Sems -> Nat]
    BY <1>11 DEF TypeOK, Interrupt
  <2> QED
    BY <1>11, <2>1, TypeWake DEF TypeOK, Interrupt
<1>12. CASE UNCHANGED kvars
  BY <1>12 DEF TypeOK, kvars
<1> QED
  BY <1>1, <1>2, <1>3, <1>4, <1>5, <1>6, <1>7, <1>8, <1>9, <1>10, <1>11, <1>12
  DEF Next

\* Every variable of the kernel keeps its type: in particular no semaphore
\* that starts at a natural number becomes negative ("semaphore value,
\* always >= 0", synch.h:50).
THEOREM TypeCorrect == Spec => []TypeOK
BY TypeInit, TypeStep, PTL DEF Spec

-----------------------------------------------------------------------------
(* The placement of the threads, and the safety of their destruction. *)

Placed == TypeOK /\ ThreadPlacement /\ DestroySafe

LEMMA PlacedInit == Init => Placed
<1> SUFFICES ASSUME Init PROVE Placed
  OBVIOUS
<1>1. TypeOK
  BY TypeInit
<1>2. Main \in Threads /\ NoThread \notin Threads
  BY KernelAssumption
<1>3. OneRunning
  BY <1>2 DEF Init, OneRunning
<1>4. ReadyListed
  BY EmptyList DEF Init, ReadyListed
<1>5. QueueListed
  BY EmptyList DEF Init, QueueListed
<1>6. BlockedListed
  BY DEF Init, BlockedListed
<1>7. DestroySafe
  BY DEF Init, DestroySafe
<1> QED
  BY <1>1, <1>3, <1>4, <1>5, <1>6, <1>7 DEF Placed, ThreadPlacement

\* Scheduler::Run dispatches the head of the ready list: the thread it is
\* called by has left the CPU, as Yield does (it is put at the end of the
\* list) or as Sleep does.
LEMMA PlacedRun ==
    ASSUME Placed, TypeOK', ready # <<>>,
           NEW rest \in Seq(Threads), NEW st \in [Threads -> Statuses],
           Run(Head(ready), rest, st),
           UNCHANGED <<finished, queue, inP>>,
           \/ /\ status[current] = "RUNNING"
              /\ inP[current] = NoSem
              /\ st = [status EXCEPT ![current] = "READY"]
              /\ rest = Append(Tail(ready), current)
           \/ /\ status[current] # "RUNNING"
              /\ st = status
              /\ rest = Tail(ready)
    PROVE  Placed'
<1> DEFINE next == Head(ready)
<1> USE DEF Placed, ThreadPlacement
<1>1. /\ next \in Threads
      /\ next \in Range(ready)
      /\ IsInjective(Tail(ready))
      /\ Tail(ready) \in Seq(Threads)
      /\ Range(Tail(ready)) = Range(ready) \ {next}
  BY TailRange DEF TypeOK, ReadyListed
<1>2. current \in Threads /\ status[next] = "READY" /\ st[next] = "READY"
  BY <1>1 DEF ReadyListed, TypeOK
<1>3. IsInjective(rest) /\ \A t \in Threads : t \in Range(rest) <=> st[t] = "READY" /\ t # next
  <2>1. CASE rest = Tail(ready) /\ st = status
    BY <1>1, <2>1 DEF ReadyListed
  <2>2. CASE /\ status[current] = "RUNNING"
             /\ st = [status EXCEPT ![current] = "READY"]
             /\ rest = Append(Tail(ready), current)
    <3>1. current # next /\ current \notin Range(Tail(ready))
      BY <1>1, <1>2, <2>2 DEF ReadyListed
    <3> DEFINE q == Tail(ready)
    <3>2. q \in Seq(Threads) /\ current \in Threads /\ IsInjective(q) /\ current \notin Range(q)
      BY <1>1, <1>2, <3>1
    <3>3. IsInjective(Append(q, current)) /\ Range(Append(q, current)) = Range(q) \cup {current}
      <4> HIDE DEF q
      <4> QED
        BY <3>2, AppendInjective, AppendRange
    <3>4. \A t \in Threads : st[t] = IF t = current THEN "READY" ELSE status[t]
      BY <2>2 DEF TypeOK
    <3>5. \A t \in Threads : t \in Range(Tail(ready)) <=> status[t] = "READY" /\ t # next
      BY <1>1 DEF ReadyListed
    <3>6. IsInjective(rest) /\ Range(rest) = Range(Tail(ready)) \cup {current}
      BY <2>2, <3>3
    <3>7. ASSUME NEW t \in Threads
          PROVE  t \in Range(rest) <=> st[t] = "READY" /\ t # next
      <4> HIDE DEF next
      <4> QED
        BY <3>1, <3>4, <3>5, <3>6
    <3> QED
      BY <3>6, <3>7
  <2> QED
    BY <2>1, <2>2
<1>4. \A t \in Threads : st[t] # "RUNNING"
  BY <1>2 DEF OneRunning, TypeOK
<1>5. /\ current' = next /\ ready' = rest
      /\ finished' = finished /\ queue' = queue /\ inP' = inP
  BY DEF Run
<1>6. \A t \in Threads :
         status'[t] = IF t = next THEN "RUNNING"
                      ELSE IF t = toDestroy /\ next \in started THEN "DELETED"
                      ELSE st[t]
  <2>1. CASE next \in started
    BY <1>1, <2>1 DEF Run
  <2>2. CASE next \notin started
    BY <1>1, <2>2 DEF Run
  <2> QED
    BY <2>1, <2>2
<1>7. \A t \in Threads : st[t] = status[t] \/ (t = current /\ status[t] = "RUNNING" /\ st[t] = "READY" /\ inP[t] = NoSem)
  BY <1>2 DEF TypeOK
<1>8. toDestroy \in Threads => /\ toDestroy \in finished
                              /\ status[toDestroy] = "BLOCKED"
                              /\ st[toDestroy] = "BLOCKED"
                              /\ toDestroy # next
  BY <1>2, <1>7, KernelAssumption DEF DestroySafe
<1>9. toDestroy' = toDestroy \/ toDestroy' = NoThread
  BY DEF Run
<1>10. next \in started => toDestroy' = NoThread
  BY DEF Run
<1>11. OneRunning'
  BY <1>1, <1>4, <1>5, <1>6 DEF OneRunning
<1>12. ReadyListed'
  BY <1>1, <1>3, <1>5, <1>6, <1>8 DEF ReadyListed
<1>13. QueueListed'
  <2> SUFFICES ASSUME NEW s \in Sems
               PROVE  /\ IsInjective(queue'[s])
                      /\ \A t \in Range(queue'[s]) : status'[t] = "BLOCKED" /\ inP'[t] = s
    BY DEF QueueListed
  <2>1. IsInjective(queue[s]) /\ \A t \in Range(queue[s]) : t \in Threads /\ status[t] = "BLOCKED" /\ inP[t] = s
    BY DEF QueueListed, TypeOK, Range
  <2>2. toDestroy \notin Range(queue[s])
    BY <2>1, KernelAssumption DEF DestroySafe
  <2> QED
    BY <1>2, <1>5, <1>6, <1>7, <2>1, <2>2
<1>14. BlockedListed'
  BY <1>2, <1>5, <1>6, <1>7, <1>8 DEF BlockedListed
<1>15. DestroySafe'
  <2> SUFFICES ASSUME toDestroy' # NoThread
               PROVE  DestroySafe'
    BY DEF DestroySafe
  <2>1. toDestroy' = toDestroy /\ next \notin started /\ toDestroy \in Threads
    BY <1>9, <1>10 DEF TypeOK
  <2>2. status'[toDestroy] = "BLOCKED" /\ toDestroy \in finished
    BY <1>6, <1>8, <2>1
  <2>3. toDestroy \notin Range(rest)
    BY <1>3, <1>8, <2>1
  <2> QED
    BY <1>5, <2>1, <2>2, <2>3 DEF DestroySafe
<1> QED
  BY <1>11, <1>12, <1>13, <1>14, <1>15

\* The body of V moves the first waiter to the end of the ready list.
LEMMA PlacedWake ==
    ASSUME Placed, TypeOK', NEW s \in Sems, Wake(s),
           UNCHANGED <<current, finished, toDestroy, inP>>
    PROVE  Placed'
<1> USE DEF Placed, ThreadPlacement
<1>1. CASE queue[s] = <<>>
  BY <1>1 DEF Wake, OneRunning, ReadyListed, QueueListed, BlockedListed, DestroySafe
<1>2. CASE queue[s] # <<>>
  <2> DEFINE h == Head(queue[s])
  <2>1. /\ h \in Threads
        /\ h \in Range(queue[s])
        /\ IsInjective(Tail(queue[s]))
        /\ Range(Tail(queue[s])) = Range(queue[s]) \ {h}
    BY <1>2, TailRange DEF TypeOK, QueueListed
  <2>2. status[h] = "BLOCKED" /\ inP[h] = s /\ s # NoSem
    BY <2>1, KernelAssumption DEF QueueListed
  <2>3. h \notin finished /\ h # toDestroy
    BY <2>1, <2>2, KernelAssumption DEF BlockedListed, DestroySafe
  <2>4. /\ ready' = Append(ready, h)
        /\ \A t \in Threads : status'[t] = IF t = h THEN "READY" ELSE status[t]
        /\ \A r \in Sems : queue'[r] = IF r = s THEN Tail(queue[s]) ELSE queue[r]
        /\ current' = current /\ finished' = finished /\ toDestroy' = toDestroy /\ inP' = inP
    BY <1>2, <2>1 DEF Wake, TypeOK
  <2>5. /\ IsInjective(ready')
        /\ Range(ready') = Range(ready) \cup {h}
    BY <2>1, <2>2, <2>4, AppendRange, AppendInjective DEF ReadyListed, TypeOK
  <2>6. OneRunning'
    BY <2>2, <2>4 DEF OneRunning, TypeOK
  <2>7. ReadyListed'
    BY <2>4, <2>5 DEF ReadyListed
  <2>8. QueueListed'
    <3> SUFFICES ASSUME NEW r \in Sems
                 PROVE  /\ IsInjective(queue'[r])
                        /\ \A t \in Range(queue'[r]) : status'[t] = "BLOCKED" /\ inP'[t] = r
      BY DEF QueueListed
    <3>1. \A t \in Range(queue[r]) : t \in Threads /\ status[t] = "BLOCKED" /\ inP[t] = r
      BY DEF QueueListed, TypeOK, Range
    <3>2. CASE r = s
      BY <2>1, <2>4, <3>1, <3>2
    <3>3. CASE r # s
      BY <2>2, <2>4, <3>1, <3>3 DEF QueueListed
    <3> QED
      BY <3>2, <3>3
  <2>9. BlockedListed'
    <3> SUFFICES ASSUME NEW t \in Threads
                 PROVE  /\ status'[t] = "BLOCKED" /\ t \notin finished =>
                              inP[t] \in Sems /\ t \in Range(queue'[inP[t]])
                        /\ t \in finished => status'[t] \in {"BLOCKED", "DELETED"} /\ inP[t] = NoSem
                        /\ status'[t] = "DELETED" => t \in finished
                        /\ status'[t] = "JUST_CREATED" => inP[t] = NoSem
      BY <2>4 DEF BlockedListed
    <3>1. CASE t = h
      BY <2>3, <2>4, <3>1
    <3>2. CASE t # h
      BY <2>1, <2>4, <3>2 DEF BlockedListed
    <3> QED
      BY <3>1, <3>2
  <2>10. DestroySafe'
    <3> SUFFICES ASSUME toDestroy # NoThread
                 PROVE  DestroySafe'
      BY <2>4 DEF DestroySafe
    <3>1. toDestroy \in Threads /\ status'[toDestroy] = "BLOCKED"
      BY <2>3, <2>4 DEF DestroySafe, TypeOK
    <3>2. toDestroy \notin Range(ready')
      BY <2>3, <2>5 DEF DestroySafe
    <3>3. \A r \in Sems : toDestroy \notin Range(queue'[r])
      BY <2>1, <2>4 DEF DestroySafe
    <3> QED
      BY <2>4, <3>1, <3>2, <3>3 DEF DestroySafe
  <2> QED
    BY <2>6, <2>7, <2>8, <2>9, <2>10
<1> QED
  BY <1>1, <1>2

LEMMA PlacedStep == Placed /\ [Next]_kvars => Placed'
<1> SUFFICES ASSUME Placed, [Next]_kvars
             PROVE  Placed'
  OBVIOUS
<1> USE DEF Placed, ThreadPlacement
<1>0. TypeOK'
  BY TypeStep
<1>1. CASE Yield
  <2>1. /\ Append(Tail(ready), current) \in Seq(Threads)
        /\ [status EXCEPT ![current] = "READY"] \in [Threads -> Statuses]
    BY <1>1, TailType, AppendRange DEF Yield, TypeOK, Statuses
  <2> QED
    BY <1>0, <1>1, <2>1, PlacedRun DEF Yield, Interruptible, Executing, semVars
<1>2. CASE Switch
  <2>1. Tail(ready) \in Seq(Threads) /\ status \in [Threads -> Statuses]
    BY <1>2, TailType DEF Switch, TypeOK
  <2> QED
    BY <1>0, <1>2, <2>1, PlacedRun DEF Switch, semVars
<1>3. CASE Finish
  <2>1. /\ current \in Threads /\ status[current] = "RUNNING" /\ inP[current] = NoSem
        /\ current' = current /\ ready' = ready /\ queue' = queue /\ inP' = inP
        /\ finished' = finished \cup {current} /\ toDestroy' = current
        /\ \A t \in Threads : status'[t] = IF t = current THEN "BLOCKED" ELSE status[t]
    BY <1>3 DEF Finish, Interruptible, Executing, TypeOK, semVars
  <2>2. current \notin Range(ready) /\ \A s \in Sems : current \notin Range(queue[s])
    BY <2>1 DEF ReadyListed, QueueListed
  <2>3. QueueListed'
    BY <2>1, <2>2 DEF QueueListed, TypeOK, Range
  <2> QED
    BY <1>0, <2>1, <2>2, <2>3 DEF OneRunning, ReadyListed, BlockedListed, DestroySafe
<1>4. ASSUME UNCHANGED <<schedVars, queue, inP>>
      PROVE  Placed'
  BY <1>0, <1>4 DEF schedVars, OneRunning, ReadyListed, QueueListed, BlockedListed, DestroySafe
<1>5. CASE IdleHalt \/ Halt \/ \E s \in Sems : StartIO(s)
  BY <1>4, <1>5 DEF IdleHalt, Halt, StartIO, semVars
<1>6. ASSUME NEW t \in Threads, Fork(t)
      PROVE  Placed'
  <2>1. /\ status[t] = "JUST_CREATED" /\ inP[t] = NoSem
        /\ current' = current /\ ready' = Append(ready, t)
        /\ queue' = queue /\ inP' = inP
        /\ finished' = finished /\ toDestroy' = toDestroy
        /\ \A u \in Threads : status'[u] = IF u = t THEN "READY" ELSE status[u]
    BY <1>6 DEF Fork, BlockedListed, TypeOK, semVars
  <2>2. /\ IsInjective(ready')
        /\ Range(ready') = Range(ready) \cup {t}
    BY <2>1, AppendRange, AppendInjective DEF ReadyListed, TypeOK
  <2>3. t \notin finished /\ t # toDestroy /\ t # current
    BY <2>1, KernelAssumption DEF BlockedListed, DestroySafe, OneRunning, TypeOK
  <2>4. OneRunning'
    BY <2>1, <2>3 DEF OneRunning, TypeOK
  <2>5. QueueListed'
    BY <2>1 DEF QueueListed, TypeOK, Range
  <2>6. BlockedListed'
    BY <2>1, <2>3 DEF BlockedListed
  <2>7. DestroySafe'
    BY <2>1, <2>2, <2>3 DEF DestroySafe, TypeOK
  <2> QED
    BY <1>0, <2>1, <2>2, <2>4, <2>5, <2>6, <2>7 DEF ReadyListed
<1>7. ASSUME NEW s \in Sems, Wait(s)
      PROVE  Placed'
  <2>1. /\ current \in Threads /\ status[current] = "RUNNING"
        /\ inP[current] \in {NoSem, s} /\ s # NoSem
        /\ current' = current /\ ready' = ready
        /\ finished' = finished /\ toDestroy' = toDestroy
        /\ \A t \in Threads : status'[t] = IF t = current THEN "BLOCKED" ELSE status[t]
        /\ \A t \in Threads : inP'[t] = IF t = current THEN s ELSE inP[t]
        /\ \A r \in Sems : queue'[r] = IF r = s THEN Append(queue[s], current) ELSE queue[r]
    BY <1>7, KernelAssumption DEF Wait, Executing, TypeOK
  <2>2. \A r \in Sems : current \notin Range(queue[r])
    BY <2>1 DEF QueueListed
  <2>3. /\ IsInjective(queue'[s])
        /\ Range(queue'[s]) = Range(queue[s]) \cup {current}
    BY <2>1, <2>2, AppendRange, AppendInjective DEF QueueListed, TypeOK
  <2>4. current \notin Range(ready) /\ current \notin finished /\ current # toDestroy
    BY <2>1, KernelAssumption DEF ReadyListed, BlockedListed, DestroySafe
  <2>5. QueueListed'
    <3> SUFFICES ASSUME NEW r \in Sems
                 PROVE  /\ IsInjective(queue'[r])
                        /\ \A t \in Range(queue'[r]) : status'[t] = "BLOCKED" /\ inP'[t] = r
      BY DEF QueueListed
    <3>1. \A t \in Range(queue[r]) : t \in Threads /\ status[t] = "BLOCKED" /\ inP[t] = r
      BY DEF QueueListed, TypeOK, Range
    <3> QED
      BY <2>1, <2>2, <2>3, <3>1 DEF QueueListed
  <2>6. BlockedListed'
    <3> SUFFICES ASSUME NEW t \in Threads
                 PROVE  /\ status'[t] = "BLOCKED" /\ t \notin finished =>
                              inP'[t] \in Sems /\ t \in Range(queue'[inP'[t]])
                        /\ t \in finished => status'[t] \in {"BLOCKED", "DELETED"} /\ inP'[t] = NoSem
                        /\ status'[t] = "DELETED" => t \in finished
                        /\ status'[t] = "JUST_CREATED" => inP'[t] = NoSem
      BY <2>1 DEF BlockedListed
    <3>1. CASE t = current
      BY <2>1, <2>3, <2>4, <3>1
    <3>2. CASE t # current
      BY <2>1, <2>3, <3>2 DEF BlockedListed
    <3> QED
      BY <3>1, <3>2
  <2>7. DestroySafe'
    <3> SUFFICES ASSUME toDestroy # NoThread
                 PROVE  DestroySafe'
      BY <2>1 DEF DestroySafe
    <3>1. \A r \in Sems : toDestroy \notin Range(queue'[r])
      BY <2>1, <2>3, <2>4 DEF DestroySafe
    <3>2. toDestroy \in Threads /\ status'[toDestroy] = "BLOCKED"
      BY <2>1, <2>4 DEF DestroySafe, TypeOK
    <3> QED
      BY <2>1, <3>1, <3>2 DEF DestroySafe
  <2> QED
    BY <1>0, <2>1, <2>4, <2>5, <2>6, <2>7 DEF OneRunning, ReadyListed
<1>8. ASSUME NEW s \in Sems, Take(s)
      PROVE  Placed'
  <2>1. /\ current \in Threads /\ status[current] = "RUNNING"
        /\ current' = current /\ ready' = ready /\ queue' = queue /\ status' = status
        /\ finished' = finished /\ toDestroy' = toDestroy
        /\ \A t \in Threads : inP'[t] = IF t = current THEN NoSem ELSE inP[t]
    BY <1>8 DEF Take, Executing, TypeOK, schedVars
  <2>2. QueueListed'
    <3> SUFFICES ASSUME NEW r \in Sems, NEW t \in Range(queue[r])
                 PROVE  status[t] = "BLOCKED" /\ inP'[t] = r
      BY <2>1 DEF QueueListed
    <3>1. t \in Threads /\ status[t] = "BLOCKED" /\ inP[t] = r
      BY DEF QueueListed, TypeOK, Range
    <3> QED
      BY <2>1, <3>1
  <2> QED
    BY <1>0, <2>1, <2>2 DEF OneRunning, ReadyListed, BlockedListed, DestroySafe
<1>9. ASSUME NEW s \in Sems, V(s) \/ Interrupt(s)
      PROVE  Placed'
  BY <1>0, <1>9, PlacedWake DEF V, Interrupt
<1>10. CASE UNCHANGED kvars
  BY <1>4, <1>10 DEF kvars, schedVars
<1> QED
  BY <1>1, <1>2, <1>3, <1>5, <1>6, <1>7, <1>8, <1>9, <1>10 DEF Next

\* No thread is ever in two lists or in none, whatever the clients do.
THEOREM PlacementCorrect == Spec => []ThreadPlacement
<1>1. Placed => ThreadPlacement
  BY DEF Placed
<1> QED
  BY PlacedInit, PlacedStep, <1>1, PTL DEF Spec

\* The destructor of Thread is only called on a thread that has finished and
\* can never be dispatched again.
THEOREM DestructionSafe == Spec => []DestroySafe
<1>1. Placed => DestroySafe
  BY DEF Placed
<1> QED
  BY PlacedInit, PlacedStep, <1>1, PTL DEF Spec

-----------------------------------------------------------------------------
(* No wake-up is lost. *)

\* The threads of a semaphore are finitely many.
LEMMA WokenFinite ==
    \A s : IsFiniteSet(Woken(s)) /\ Cardinality(Woken(s)) \in Nat
<1> TAKE s
<1>1. IsFiniteSet(Threads) /\ Woken(s) \subseteq Threads
  BY KernelAssumption DEF Woken
<1> QED
  BY <1>1, FS_Subset, FS_CardinalityType

LEMMA WakeupInit == Init => NoLostWakeup
BY DEF Init, NoLostWakeup

\* The body of V adds one to the value and, when threads sleep, one to the
\* threads that have been woken.
LEMMA WakeupWake ==
    ASSUME Placed, NoLostWakeup, NEW s \in Sems, Wake(s), UNCHANGED inP
    PROVE  NoLostWakeup'
<1>1. CASE queue[s] = <<>>
  <2>1. queue' = queue /\ inP' = inP
    BY <1>1 DEF Wake
  <2>2. \A r \in Sems : r # s => value'[r] = value[r]
    BY DEF Wake, Placed, TypeOK
  <2>3. \A r : Woken(r)' = Woken(r)
    BY <2>1 DEF Woken
  <2> QED
    BY <1>1, <2>1, <2>2, <2>3 DEF NoLostWakeup
<1>2. CASE queue[s] # <<>>
  <2> DEFINE h == Head(queue[s])
  <2>1. /\ h \in Threads
        /\ h \in Range(queue[s])
        /\ Range(Tail(queue[s])) = Range(queue[s]) \ {h}
        /\ inP[h] = s
    BY <1>2, TailRange DEF Placed, ThreadPlacement, TypeOK, QueueListed
  <2>2. /\ value'[s] = value[s] + 1 /\ value[s] \in Nat
        /\ queue'[s] = Tail(queue[s])
        /\ inP' = inP
        /\ \A r \in Sems : r # s => value'[r] = value[r] /\ queue'[r] = queue[r]
    BY <1>2 DEF Wake, Placed, TypeOK
  <2>3. Woken(s)' = Woken(s) \cup {h} /\ h \notin Woken(s)
    BY <2>1, <2>2 DEF Woken
  <2>4. Cardinality(Woken(s)') = Cardinality(Woken(s)) + 1
    BY <2>3, WokenFinite, FS_AddElement
  <2>5. value[s] <= Cardinality(Woken(s))
    BY <1>2 DEF NoLostWakeup
  <2>6. value'[s] <= Cardinality(Woken(s)')
    BY <2>2, <2>4, <2>5, WokenFinite
  <2>7. \A r \in Sems : r # s => Woken(r)' = Woken(r)
    BY <2>2 DEF Woken
  <2> QED
    BY <2>2, <2>6, <2>7 DEF NoLostWakeup
<1> QED
  BY <1>1, <1>2

LEMMA WakeupStep == Placed /\ NoLostWakeup /\ [Next]_kvars => NoLostWakeup'
<1> SUFFICES ASSUME Placed, NoLostWakeup, [Next]_kvars
             PROVE  NoLostWakeup'
  OBVIOUS
<1>1. ASSUME UNCHANGED semVars
      PROVE  NoLostWakeup'
  BY <1>1 DEF semVars, NoLostWakeup, Woken
<1>2. CASE Yield \/ Switch \/ Finish \/ IdleHalt \/ Halt \/ UNCHANGED kvars
  BY <1>1, <1>2 DEF Yield, Switch, Finish, IdleHalt, Halt, kvars, semVars
<1>3. CASE (\E t \in Threads : Fork(t)) \/ (\E s \in Sems : StartIO(s))
  BY <1>1, <1>3 DEF Fork, StartIO
<1>4. ASSUME NEW s \in Sems, Wait(s)
      PROVE  NoLostWakeup'
  <2>1. /\ current \in Threads
        /\ inP[current] \in {NoSem, s}
        /\ value[s] = 0 /\ value' = value
        /\ \A r \in Sems : r # s => queue'[r] = queue[r]
        /\ \A t \in Threads : inP'[t] = IF t = current THEN s ELSE inP[t]
    BY <1>4 DEF Wait, Placed, TypeOK
  <2>2. \A r \in Sems : r # s => Woken(r)' = Woken(r)
    BY <2>1, KernelAssumption DEF Woken
  <2>3. value'[s] <= Cardinality(Woken(s)')
    <3>1. IsFiniteSet(Woken(s)')
      BY KernelAssumption, FS_Subset DEF Woken
    <3> QED
      BY <2>1, <3>1, FS_CardinalityType
  <2> QED
    BY <2>1, <2>2, <2>3 DEF NoLostWakeup
<1>5. ASSUME NEW s \in Sems, Take(s)
      PROVE  NoLostWakeup'
  <2>1. /\ current \in Threads /\ status[current] = "RUNNING"
        /\ inP[current] \in {NoSem, s} /\ s # NoSem
        /\ value[s] \in Nat \ {0} /\ value'[s] = value[s] - 1
        /\ queue' = queue
        /\ \A r \in Sems : r # s => value'[r] = value[r]
        /\ \A t \in Threads : inP'[t] = IF t = current THEN NoSem ELSE inP[t]
    BY <1>5, KernelAssumption DEF Take, Executing, Placed, TypeOK
  <2>2. \A r \in Sems : r # s => Woken(r)' = Woken(r)
    BY <2>1, KernelAssumption DEF Woken
  <2>3. current \notin Range(queue[s])
    BY <2>1 DEF Placed, ThreadPlacement, QueueListed
  <2>4. CASE inP[current] = s
    <3>1. current \in Woken(s) /\ Woken(s)' = Woken(s) \ {current}
      BY <2>1, <2>3, <2>4 DEF Woken
    <3>2. Cardinality(Woken(s)') = Cardinality(Woken(s)) - 1
      BY <3>1, WokenFinite, FS_RemoveElement
    <3> QED
      BY <2>1, <2>2, <3>2, WokenFinite DEF NoLostWakeup
  <2>5. CASE inP[current] = NoSem
    <3>1. Woken(s)' = Woken(s)
      BY <2>1, <2>5 DEF Woken
    <3> QED
      BY <2>1, <2>2, <3>1, WokenFinite DEF NoLostWakeup
  <2> QED
    BY <2>1, <2>4, <2>5
<1>6. ASSUME NEW s \in Sems, V(s) \/ Interrupt(s)
      PROVE  NoLostWakeup'
  BY <1>6, WakeupWake DEF V, Interrupt
<1> QED
  BY <1>2, <1>3, <1>4, <1>5, <1>6 DEF Next

LEMMA InvInit == Init => KernelInv
BY PlacedInit, WakeupInit DEF KernelInv, Placed

LEMMA InvStep == KernelInv /\ [Next]_kvars => KernelInv'
BY PlacedStep, WakeupStep DEF KernelInv, Placed

\* The invariant of the kernel: types, placement, wake-ups, destruction.
THEOREM KernelCorrect == Spec => []KernelInv
BY InvInit, InvStep, PTL DEF Spec

\* V never adds to the value of a semaphore on which threads sleep without
\* a woken thread to take it.
THEOREM WakeupsKept == Spec => []NoLostWakeup
<1>1. KernelInv => NoLostWakeup
  BY DEF KernelInv
<1> QED
  BY KernelCorrect, <1>1, PTL

-----------------------------------------------------------------------------
(* The kernel implements counting semaphores. *)

InPs == [s \in Sems |-> {t \in Threads : inP[t] = s}]

\* One thread entering or leaving P changes one member of the waiting set.
LEMMA WaitingUpdate ==
    ASSUME TypeOK, NEW t \in Threads, NEW s \in Sems, NEW x \in {s, NoSem},
           inP[t] \in {s, NoSem}, inP' = [inP EXCEPT ![t] = x]
    PROVE  InPs' = [InPs EXCEPT ![s] = IF x = s THEN @ \cup {t} ELSE @ \ {t}]
<1>1. s # NoSem /\ NoSem \notin Sems
  BY KernelAssumption
<1>2. \A u \in Threads : inP'[u] = IF u = t THEN x ELSE inP[u]
  BY DEF TypeOK
<1>3. ASSUME NEW r \in Sems
      PROVE  {u \in Threads : inP'[u] = r}
               = IF r = s THEN (IF x = s THEN InPs[s] \cup {t} ELSE InPs[s] \ {t})
                 ELSE InPs[r]
  BY <1>1, <1>2 DEF InPs
<1> QED
  BY <1>3 DEF InPs

\* Every step of the kernel is a step of the counting semaphores or leaves
\* them as they are.
LEMMA ImplementsStep ==
    TypeOK /\ [Next]_kvars => [CS!SemNext]_<<value, InPs>>
<1> SUFFICES ASSUME TypeOK, [Next]_kvars
             PROVE  [CS!SemNext]_<<value, InPs>>
  OBVIOUS
<1>1. ASSUME UNCHANGED <<value, inP>>
      PROVE  UNCHANGED <<value, InPs>>
  BY <1>1 DEF InPs
<1>2. CASE Yield \/ Switch \/ Finish \/ IdleHalt \/ Halt \/ UNCHANGED kvars
  BY <1>1, <1>2 DEF Yield, Switch, Finish, IdleHalt, Halt, kvars, semVars
<1>3. CASE (\E t \in Threads : Fork(t)) \/ (\E s \in Sems : StartIO(s))
  BY <1>1, <1>3 DEF Fork, StartIO, semVars
<1>4. ASSUME NEW s \in Sems, Wait(s)
      PROVE  [CS!SemNext]_<<value, InPs>>
  <2>1. /\ current \in Threads /\ inP[current] \in {s, NoSem}
        /\ inP' = [inP EXCEPT ![current] = s]
        /\ value[s] = 0 /\ value' = value
    BY <1>4 DEF Wait, TypeOK
  <2>2. InPs' = [InPs EXCEPT ![s] = @ \cup {current}]
    BY <2>1, WaitingUpdate
  <2>3. CASE inP[current] = s
    <3>1. inP' = inP
      BY <2>1, <2>3 DEF TypeOK
    <3> QED
      BY <1>1, <2>1, <3>1
  <2>4. CASE inP[current] = NoSem
    <3>1. \A r \in Sems : current \notin InPs[r]
      BY <2>4, KernelAssumption DEF InPs
    <3>2. \E t \in Threads : CS!Request(t, s)
      BY <2>1, <2>2, <3>1 DEF CS!Request, InPs
    <3> QED
      BY <3>2 DEF CS!SemNext
  <2> QED
    BY <2>1, <2>3, <2>4
<1>5. ASSUME NEW s \in Sems, Take(s)
      PROVE  [CS!SemNext]_<<value, InPs>>
  <2>1. /\ current \in Threads /\ inP[current] \in {s, NoSem} /\ s # NoSem
        /\ inP' = [inP EXCEPT ![current] = NoSem]
        /\ value[s] > 0 /\ value' = [value EXCEPT ![s] = @ - 1]
    BY <1>5, KernelAssumption DEF Take, TypeOK
  <2>2. InPs' = [InPs EXCEPT ![s] = @ \ {current}]
    BY <2>1, WaitingUpdate
  <2>3. CASE inP[current] = s
    <3>1. current \in InPs[s]
      BY <2>1, <2>3 DEF InPs
    <3>2. \E t \in Threads : CS!Grant(t, s)
      BY <2>1, <2>2, <3>1 DEF CS!Grant, InPs
    <3> QED
      BY <3>2 DEF CS!SemNext
  <2>4. CASE inP[current] = NoSem
    <3>0. inP' = inP
      BY <2>1, <2>4 DEF TypeOK
    <3>1. InPs' = InPs
      BY <3>0 DEF InPs
    <3>2. CS!Acquire(s)
      BY <2>1, <3>1 DEF CS!Acquire, InPs
    <3> QED
      BY <3>2 DEF CS!SemNext
  <2> QED
    BY <2>1, <2>3, <2>4
<1>6. ASSUME NEW s \in Sems, V(s) \/ Interrupt(s)
      PROVE  [CS!SemNext]_<<value, InPs>>
  <2>1. value' = [value EXCEPT ![s] = @ + 1] /\ inP' = inP
    BY <1>6 DEF V, Interrupt, Wake
  <2>2. CS!Release(s)
    BY <2>1 DEF CS!Release
  <2> QED
    BY <2>2 DEF CS!SemNext
<1> QED
  BY <1>2, <1>3, <1>4, <1>5, <1>6 DEF Next

\* The semaphores of synch.cc, built on the ready list and on queues of
\* sleeping threads, are counting semaphores for every client.
THEOREM SemaphoresImplemented == Spec => ImplementsCountingSemaphore
<1>1. Init => CS!SemInit
  <2> SUFFICES ASSUME Init PROVE CS!SemInit
    OBVIOUS
  <2>1. \A s \in Sems : {t \in Threads : inP[t] = s} = {}
    BY KernelAssumption DEF Init
  <2> QED
    BY <2>1 DEF Init, CS!SemInit
<1>2. TypeOK /\ [Next]_kvars => [CS!SemNext]_(CS!svars)
  BY ImplementsStep DEF CS!svars, InPs
<1> QED
  BY <1>1, <1>2, TypeCorrect, PTL DEF Spec, ImplementsCountingSemaphore, CS!SemSpec
-----------------------------------------------------------------------------
\* When no thread can run, each one that has run and has not finished is in the
\* P of a semaphore whose value is 0.
LEMMA IdleWaits ==
    ASSUME KernelInv, Idling
    PROVE  \A t \in Threads :
             status[t] # "JUST_CREATED" /\ t \notin finished
               => inP[t] \in Sems /\ value[inP[t]] = 0
<1> USE DEF KernelInv, ThreadPlacement
<1>1. Range(ready) = {}
  BY EmptyList DEF Idling
<1>2. \A t \in Threads : status[t] \in {"JUST_CREATED", "BLOCKED", "DELETED"}
  BY <1>1 DEF Idling, TypeOK, Statuses, OneRunning, ReadyListed
<1>3. \A t \in Threads : inP[t] # NoSem => inP[t] \in Sems /\ t \in Range(queue[inP[t]])
  BY <1>2 DEF BlockedListed, TypeOK
<1>4. ASSUME NEW t \in Threads, inP[t] # NoSem
      PROVE  value[inP[t]] = 0
  <2>1. Woken(inP[t]) = {}
    BY <1>3, <1>4 DEF Woken
  <2>2. queue[inP[t]] # <<>>
    BY <1>3, <1>4, EmptyList
  <2>3. value[inP[t]] <= 0
    BY <1>3, <1>4, <2>1, <2>2, FS_EmptySet DEF NoLostWakeup
  <2> QED
    BY <1>3, <1>4, <2>3 DEF TypeOK
<1>5. \A t \in Threads : status[t] # "JUST_CREATED" /\ t \notin finished => inP[t] # NoSem
  BY <1>2, KernelAssumption DEF BlockedListed
<1> QED
  BY <1>3, <1>4, <1>5
=============================================================================
