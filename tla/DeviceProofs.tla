----------------------------- MODULE DeviceProofs -----------------------------
(***************************************************************************)
(* The devices keep what they promise, for any number of threads, machines, *)
(* names and slots, any geometry of the disk, any ticks and any input:     *)
(*                                                                         *)
(*   the console     lines of output are never mixed, and readers take what *)
(*                   was typed, in order, but for one character;           *)
(*   the disk        a thread alone at it is safe and answered when the sector *)
(*                   has passed under the head;                            *)
(*   the post office mail between two threads arrives in order and once;   *)
(*   the clock       no interrupt is early, lost or fired out of order;    *)
(*   the semaphores of user programs stay reachable by their one name and let *)
(*                   no more processes through than their signals allow.   *)
(*                                                                         *)
(* Each section names the inductive invariant, shows that the initial states *)
(* satisfy it and that every action keeps it, and ends with the theorem.   *)
(***************************************************************************)
EXTENDS Console, Disk, PostOffice, DeviceClock, UserSemaphores,
        FiniteSetTheorems, WellFoundedInduction, TLAPS

-------------------------------------------------------------------------------
(* The console *)

\* The characters that may be typed.
Typeable == UNION {{line[i] : i \in DOMAIN line} : line \in Input}

Displayed == [by : Threads, last : BOOLEAN]
Taken == [by : Threads, char : Typeable]

\* The types in full, and what a thread in a call has still to do.
ConsoleShape ==
  /\ ConsoleTypeOK
  /\ writes \in [Threads -> Seq(Nat \ {0})]
  /\ display \in Seq(Displayed) /\ taken \in Seq(Taken)
  /\ typed \in Seq(Typeable) /\ incoming \in Typeable \cup {Eof}
  /\ \A t \in Threads :
       /\ step[t] \in InWrite \cup {"write"} => writes[t] # <<>>
       /\ step[t] \in {"put", "wait", "await", "get"} => left[t] > 0

\* One thread has the line for output, and while it waits for its character the
\* interrupt is under way or has come, not both.
OneWriter ==
  /\ \A t, u \in Threads : step[t] \in InWrite /\ step[u] \in InWrite => t = u
  /\ wLine = IF \E t \in Threads : step[t] \in InWrite THEN 0 ELSE 1
  /\ IF \E t \in Threads : step[t] = "wait"
     THEN writeAvail = IF putBusy THEN 0 ELSE 1
     ELSE ~putBusy /\ writeAvail = 0
  /\ ~putFailed

\* The last character put is the end of a Write, or the one before the next of
\* the thread that has the line.
LastPut ==
  LET n == Len(display)
  IN  /\ \A t \in Threads : step[t] = "put" => n = 0 \/ display[n].last \/ display[n].by = t
      /\ \A t \in Threads :
           step[t] = "wait" => n > 0 /\ display[n].by = t /\ display[n].last = (left[t] = 1)
      /\ (\A t \in Threads : step[t] \notin {"put", "wait"}) => n = 0 \/ display[n].last

OneReader ==
  /\ CharAnnounced
  /\ rLine = IF Readers = {} THEN 1 ELSE 0

ConsoleInv == ConsoleShape /\ OneWriter /\ LastPut /\ WritesWhole /\ OneReader /\ InputKept

LEMMA GoIs ==
  ASSUME step \in [Threads -> Steps], NEW t \in Threads, NEW s \in Steps, Go(t, s)
  PROVE  /\ step' \in [Threads -> Steps]
         /\ \A u \in Threads : step'[u] = IF u = t THEN s ELSE step[u]
BY DEF Go

LEMMA StepNames ==
  /\ {"user", "write", "read", "put", "wait", "written", "await", "get", "line"} \subseteq Steps
  /\ InWrite = {"put", "wait", "written"} /\ InRead = {"await", "get", "line"}
BY DEF Steps, InWrite, InRead

LEMMA SeqParts ==
  ASSUME NEW S, NEW s \in Seq(S), s # <<>>
  PROVE  /\ Head(s) \in S /\ Tail(s) \in Seq(S) /\ Len(s) \in Nat \ {0}
         /\ Len(Tail(s)) = Len(s) - 1
         /\ Len(s) # 1 => Tail(s) # <<>>
<1>1. Head(s) \in S /\ Tail(s) \in Seq(S) /\ Len(s) \in Nat \ {0} /\ Len(Tail(s)) = Len(s) - 1
  OBVIOUS
<1>2. Len(s) # 1 => Len(Tail(s)) # 0
  BY <1>1
<1>3. Len(<<>>) = 0
  OBVIOUS
<1> QED
  BY <1>1, <1>2, <1>3, Zenon

\* Types and what is left, for each kind of step.
LEMMA ConsoleShapeStep == ConsoleInv /\ [ConsoleNext]_cvars => ConsoleShape'
<1> SUFFICES ASSUME ConsoleInv, [ConsoleNext]_cvars PROVE ConsoleShape'
  OBVIOUS
<1>1. ConsoleShape /\ OneWriter /\ OneReader
  BY DEF ConsoleInv
<1> USE StepNames DEF ConsoleShape, ConsoleTypeOK, hardware, sems
<1>2. ASSUME NEW t \in Threads, NEW w \in Prints, StartPrint(t, w) PROVE ConsoleShape'
  <2>1. w \in Seq(Nat \ {0}) /\ w # <<>>
    BY ConsoleAssumption
  <2>2. step' \in [Threads -> Steps] /\ \A u \in Threads : step'[u] = IF u = t THEN "write" ELSE step[u]
    BY <1>1, <1>2, GoIs DEF StartPrint
  <2>3. writes' \in [Threads -> Seq(Nat \ {0})] /\ \A u \in Threads : writes'[u] = IF u = t THEN w ELSE writes[u]
    BY <1>1, <1>2, <2>1 DEF StartPrint
  <2> QED
    BY <1>1, <1>2, <2>1, <2>2, <2>3 DEF StartPrint
<1>3. ASSUME NEW t \in Threads, WriteLine(t) PROVE ConsoleShape'
  <2>1. step' \in [Threads -> Steps] /\ \A u \in Threads : step'[u] = IF u = t THEN "put" ELSE step[u]
    BY <1>1, <1>3, GoIs DEF WriteLine
  <2>2. writes[t] # <<>> /\ Head(writes[t]) \in Nat \ {0}
    BY <1>1, <1>3, SeqParts DEF WriteLine
  <2>3. left' \in [Threads -> Nat] /\ \A u \in Threads : left'[u] = IF u = t THEN Head(writes[t]) ELSE left[u]
    BY <1>1, <1>3, <2>2 DEF WriteLine
  <2>4. wLine' \in 0..1
    BY <1>1, <1>3 DEF WriteLine
  <2> QED
    BY <1>1, <1>3, <2>1, <2>2, <2>3, <2>4 DEF WriteLine
<1>4. ASSUME NEW t \in Threads, PutChar(t) PROVE ConsoleShape'
  <2>1. CASE putBusy
    BY <1>1, <1>4, <2>1 DEF PutChar
  <2>2. CASE ~putBusy
    <3>1. step' \in [Threads -> Steps] /\ \A u \in Threads : step'[u] = IF u = t THEN "wait" ELSE step[u]
      BY <1>1, <1>4, <2>2, GoIs DEF PutChar
    <3> DEFINE end == left[t] = 1
               put == [by |-> t, last |-> end]
    <3>2. end \in BOOLEAN /\ display' = Append(display, put)
      BY <1>4, <2>2 DEF PutChar
    <3> HIDE DEF end
    <3>3. put \in Displayed
      BY <3>2 DEF Displayed
    <3> HIDE DEF put
    <3>4. display' \in Seq(Displayed)
      BY <1>1, <3>2, <3>3
    <3>5. \A i \in DOMAIN display' : display'[i] \in Displayed
      BY <3>4
    <3> QED
      BY <1>1, <1>4, <2>2, <3>1, <3>4, <3>5 DEF PutChar, Displayed
  <2> QED
    BY <2>1, <2>2
<1>5. ASSUME NEW t \in Threads, Written(t) PROVE ConsoleShape'
  <2>1. step' \in [Threads -> Steps]
        /\ \A u \in Threads : step'[u] = IF u = t THEN (IF left[t] = 1 THEN "written" ELSE "put") ELSE step[u]
    BY <1>1, <1>5, GoIs DEF Written
  <2>2. left[t] \in Nat /\ left[t] > 0
    BY <1>1, <1>5 DEF Written
  <2>3. left' \in [Threads -> Nat] /\ \A u \in Threads : left'[u] = IF u = t THEN left[t] - 1 ELSE left[u]
    BY <1>1, <1>5, <2>2 DEF Written
  <2>4. writeAvail' \in Nat
    BY <1>1, <1>5 DEF Written
  <2>5. UNCHANGED <<hardware, readAvail, rLine, wLine, writes, display, taken, putFailed>>
    BY <1>5 DEF Written
  <2>6. step[t] = "wait" /\ writes[t] # <<>>
    BY <1>1, <1>5 DEF Written, InWrite
  <2>7. ASSUME NEW u \in Threads
        PROVE  /\ step'[u] \in InWrite \cup {"write"} => writes'[u] # <<>>
               /\ step'[u] \in {"put", "wait", "await", "get"} => left'[u] > 0
    <3>1. CASE u = t
      BY <2>1, <2>2, <2>3, <2>5, <2>6, <3>1
    <3>2. CASE u # t
      BY <1>1, <2>1, <2>3, <2>5, <3>2
    <3> QED
      BY <3>1, <3>2
  <2>8. ConsoleTypeOK'
    BY <1>1, <2>1, <2>3, <2>4, <2>5
  <2> QED
    BY <1>1, <2>5, <2>7, <2>8
<1>6. ASSUME NEW t \in Threads, EndWrite(t) PROVE ConsoleShape'
  <2>1. step' \in [Threads -> Steps]
        /\ \A u \in Threads : step'[u] = IF u = t THEN (IF Len(writes[t]) = 1 THEN "user" ELSE "write") ELSE step[u]
    BY <1>1, <1>6, GoIs DEF EndWrite
  <2>2. writes[t] # <<>>
    BY <1>1, <1>6 DEF EndWrite
  <2>3. Tail(writes[t]) \in Seq(Nat \ {0}) /\ (Len(writes[t]) # 1 => Tail(writes[t]) # <<>>)
    BY <1>1, <2>2, SeqParts
  <2>4. writes' \in [Threads -> Seq(Nat \ {0})] /\ \A u \in Threads : writes'[u] = IF u = t THEN Tail(writes[t]) ELSE writes[u]
    BY <1>1, <1>6, <2>3 DEF EndWrite
  <2>5. wLine' \in 0..1
    <3>1. wLine = 0
      BY <1>1, <1>6 DEF EndWrite, OneWriter
    <3> QED
      BY <1>6, <3>1 DEF EndWrite
  <2> QED
    BY <1>1, <1>6, <2>1, <2>3, <2>4, <2>5 DEF EndWrite
<1>7. ASSUME NEW t \in Threads, NEW n \in Reads, ReadCall(t, n) PROVE ConsoleShape'
  <2>1. step' \in [Threads -> Steps] /\ \A u \in Threads : step'[u] = IF u = t THEN "read" ELSE step[u]
    BY <1>1, <1>7, GoIs DEF ReadCall
  <2>2. left' \in [Threads -> Nat] /\ \A u \in Threads : left'[u] = IF u = t THEN n ELSE left[u]
    BY <1>1, <1>7, ConsoleAssumption DEF ReadCall
  <2> QED
    BY <1>1, <1>7, <2>1, <2>2 DEF ReadCall
<1>8. ASSUME NEW t \in Threads, ReadLine(t) PROVE ConsoleShape'
  <2>1. step' \in [Threads -> Steps]
        /\ \A u \in Threads : step'[u] = IF u = t THEN (IF left[t] = 0 THEN "line" ELSE "await") ELSE step[u]
    BY <1>1, <1>8, GoIs DEF ReadLine
  <2>2. rLine' \in 0..1 /\ left[t] \in Nat
    BY <1>1, <1>8 DEF ReadLine
  <2> QED
    BY <1>1, <1>8, <2>1, <2>2 DEF ReadLine
<1>9. ASSUME NEW t \in Threads, AwaitChar(t) PROVE ConsoleShape'
  <2>1. step' \in [Threads -> Steps] /\ \A u \in Threads : step'[u] = IF u = t THEN "get" ELSE step[u]
    BY <1>1, <1>9, GoIs DEF AwaitChar
  <2>2. readAvail' \in Nat
    BY <1>1, <1>9 DEF AwaitChar
  <2> QED
    BY <1>1, <1>9, <2>1, <2>2 DEF AwaitChar
<1>10. ASSUME NEW t \in Threads, GetChar(t) PROVE ConsoleShape'
  <2>1. left[t] \in Nat /\ left[t] > 0
    BY <1>1, <1>10 DEF GetChar
  <2>2. taken' \in Seq(Taken)
    <3>1. CASE incoming = Eof
      BY <1>1, <1>10, <3>1 DEF GetChar
    <3>2. CASE incoming # Eof
      <4>1. [by |-> t, char |-> incoming] \in Taken
        BY <1>1, <3>2 DEF Taken
      <4> QED
        BY <1>1, <1>10, <3>2, <4>1 DEF GetChar
    <3> QED
      BY <3>1, <3>2
  <2>3. \/ Go(t, "await") /\ left' = left
        \/ Go(t, "line") /\ left' = left
        \/ left[t] = 1 /\ Go(t, "line") /\ left' = [left EXCEPT ![t] = @ - 1]
        \/ left[t] # 1 /\ Go(t, "await") /\ left' = [left EXCEPT ![t] = @ - 1]
    <3>1. CASE incoming \in {Eof, Newline, CtrlA}
      BY <1>10, <3>1 DEF GetChar
    <3>2. CASE incoming \notin {Eof, Newline, CtrlA}
      BY <1>10, <3>2 DEF GetChar
    <3> QED
      BY <3>1, <3>2
  <2>4. left' \in [Threads -> Nat]
        /\ \A u \in Threads : left'[u] = left[u] \/ (u = t /\ left'[u] = left[t] - 1)
    <3>1. left \in [Threads -> Nat] /\ left[t] - 1 \in Nat
      BY <1>1, <2>1
    <3>2. CASE left' = left
      BY <3>1, <3>2
    <3>3. CASE left' = [left EXCEPT ![t] = @ - 1]
      BY <3>1, <3>3
    <3> QED
      BY <2>3, <3>2, <3>3
  <2>5. step' \in [Threads -> Steps]
        /\ \A u \in Threads : step'[u] = step[u] \/ (u = t /\ step'[u] \in {"await", "line"})
    BY <1>1, <2>3, GoIs
  <2>6. \A u \in Threads : step'[u] \in {"put", "wait", "await", "get"} => left'[u] > 0
    <3> SUFFICES ASSUME NEW u \in Threads, step'[u] \in {"put", "wait", "await", "get"} PROVE left'[u] > 0
      OBVIOUS
    <3>1. CASE u # t
      BY <1>1, <2>4, <2>5, <3>1
    <3>2. CASE u = t
      <4>1. CASE left' = left
        BY <2>1, <3>2, <4>1
      <4>2. CASE left[t] = 1 /\ Go(t, "line")
        BY <1>1, <3>2, <4>2, GoIs
      <4>3. CASE left[t] # 1 /\ left' = [left EXCEPT ![t] = @ - 1]
        BY <1>1, <2>1, <3>2, <4>3
      <4> QED
        BY <2>3, <4>1, <4>2, <4>3
    <3> QED
      BY <3>1, <3>2
  <2>7. \A u \in Threads : step'[u] \in InWrite \cup {"write"} => writes[u] # <<>>
    BY <1>1, <2>5
  <2>8. UNCHANGED <<putBusy, typed, sems, writes, display, putFailed>> /\ incoming' = Eof
    BY <1>10 DEF GetChar
  <2> QED
    BY <1>1, <2>2, <2>4, <2>5, <2>6, <2>7, <2>8
<1>11. ASSUME NEW t \in Threads, EndRead(t) PROVE ConsoleShape'
  <2>1. step' \in [Threads -> Steps] /\ \A u \in Threads : step'[u] = IF u = t THEN "user" ELSE step[u]
    BY <1>1, <1>11, GoIs DEF EndRead
  <2>2. rLine' \in 0..1
    <3>1. rLine = 0
      BY <1>1, <1>11 DEF EndRead, OneReader, Readers
    <3> QED
      BY <1>11, <3>1 DEF EndRead
  <2> QED
    BY <1>1, <1>11, <2>1, <2>2 DEF EndRead
<1>12. CASE WriteDone
  <2>1. writeAvail' \in Nat /\ putBusy' = FALSE
    BY <1>1, <1>12 DEF WriteDone
  <2> QED
    BY <1>1, <1>12, <2>1 DEF WriteDone
<1>13. CASE CheckCharAvail
  <2>1. Head(typed) \in Typeable /\ Tail(typed) \in Seq(Typeable)
    BY <1>1, <1>13, SeqParts DEF CheckCharAvail, PollFile
  <2> QED
    BY <1>1, <1>13, <2>1 DEF CheckCharAvail
<1>14. CASE UNCHANGED cvars
  BY <1>1, <1>14 DEF cvars
<1> QED
  BY <1>2, <1>3, <1>4, <1>5, <1>6, <1>7, <1>8, <1>9, <1>10, <1>11, <1>12, <1>13, <1>14
  DEF ConsoleNext, ThreadStep

\* What a step of a thread that has no line for output leaves as it was.
LEMMA OffLine ==
  ASSUME ConsoleInv, NEW t \in Threads, step[t] \notin InWrite, step'[t] \notin InWrite,
         \A u \in Threads : u # t => step'[u] = step[u]
  PROVE  /\ UNCHANGED <<wLine, writeAvail, putBusy, putFailed>> => OneWriter'
         /\ UNCHANGED display /\ (\A u \in Threads : u # t => left'[u] = left[u]) => LastPut'
<1>1. OneWriter /\ LastPut
  BY DEF ConsoleInv
<1>2. \A u \in Threads : \/ step'[u] = step[u]
                         \/ step[u] \notin InWrite /\ step'[u] \notin InWrite
  OBVIOUS
<1>3. ASSUME UNCHANGED <<wLine, writeAvail, putBusy, putFailed>> PROVE OneWriter'
  BY <1>1, <1>2, <1>3, StepNames DEF OneWriter
<1>4. ASSUME UNCHANGED display, \A u \in Threads : u # t => left'[u] = left[u] PROVE LastPut'
  BY <1>1, <1>2, <1>4, StepNames DEF LastPut
<1> QED
  BY <1>3, <1>4

\* A step of a thread that writes leaves the readers as they were.
LEMMA OffRead ==
  ASSUME ConsoleInv, NEW t \in Threads, step[t] \notin InRead, step'[t] \notin InRead,
         \A u \in Threads : u # t => step'[u] = step[u],
         UNCHANGED <<rLine, readAvail, incoming>>
  PROVE  OneReader'
<1>1. OneReader
  BY DEF ConsoleInv
<1>2. \A u \in Threads : \/ step'[u] = step[u]
                         \/ step[u] \notin InRead /\ step'[u] \notin InRead
  OBVIOUS
<1>3. Readers' = Readers
  BY <1>2 DEF Readers
<1>4. (\E u \in Threads : step[u] = "get") => \E u \in Threads : step'[u] = "get"
  BY <1>2, StepNames
<1> QED
  BY <1>1, <1>3, <1>4 DEF OneReader, CharAnnounced

\* Who writes and what is put.
LEMMA WriteStep == ConsoleInv /\ [ConsoleNext]_cvars => OneWriter' /\ LastPut' /\ WritesWhole'
<1> SUFFICES ASSUME ConsoleInv, [ConsoleNext]_cvars PROVE OneWriter' /\ LastPut' /\ WritesWhole'
  OBVIOUS
<1>1. /\ OneWriter /\ LastPut /\ WritesWhole
      /\ step \in [Threads -> Steps] /\ left \in [Threads -> Nat] /\ display \in Seq(Displayed)
      /\ writeAvail \in Nat /\ wLine \in 0..1 /\ putBusy \in BOOLEAN
  BY DEF ConsoleInv, ConsoleShape, ConsoleTypeOK
<1> USE StepNames
<1>2. ASSUME NEW t \in Threads,
             \/ \E w \in Prints : StartPrint(t, w)
             \/ \E n \in Reads : ReadCall(t, n)
             \/ ReadLine(t) \/ AwaitChar(t) \/ GetChar(t) \/ EndRead(t)
      PROVE  OneWriter' /\ LastPut' /\ WritesWhole'
  <2>1. /\ step[t] \notin InWrite
        /\ UNCHANGED <<wLine, writeAvail, putBusy, putFailed, display>>
        /\ \A u \in Threads : u # t => left'[u] = left[u]
    BY <1>1, <1>2 DEF StartPrint, ReadCall, ReadLine, AwaitChar, GetChar, EndRead, hardware, sems
  <2>2. \E s \in {"write", "read", "line", "await", "get", "user"} : Go(t, s)
    BY <1>2 DEF StartPrint, ReadCall, ReadLine, AwaitChar, GetChar, EndRead
  <2>3. step'[t] \notin InWrite /\ \A u \in Threads : u # t => step'[u] = step[u]
    BY <1>1, <2>2, GoIs
  <2>4. WritesWhole'
    BY <1>1, <2>1 DEF WritesWhole
  <2> QED
    BY <2>1, <2>3, <2>4, OffLine
<1>3. ASSUME NEW t \in Threads, WriteLine(t) PROVE OneWriter' /\ LastPut' /\ WritesWhole'
  <2>1. \A u \in Threads : step'[u] = IF u = t THEN "put" ELSE step[u]
    BY <1>1, <1>3, GoIs DEF WriteLine
  <2>2. wLine = 1 /\ wLine' = 0 /\ UNCHANGED <<writeAvail, putBusy, putFailed, display>>
        /\ (\A u \in Threads : u # t => left'[u] = left[u])
    BY <1>1, <1>3 DEF WriteLine, hardware
  <2>3. \A u \in Threads : step[u] \notin InWrite
    BY <1>1, <2>2 DEF OneWriter
  <2>4. OneWriter'
    BY <1>1, <2>1, <2>2, <2>3 DEF OneWriter
  <2>5. LastPut'
    BY <1>1, <2>1, <2>2, <2>3 DEF LastPut
  <2> QED
    BY <1>1, <2>2, <2>4, <2>5 DEF WritesWhole
<1>4. ASSUME NEW t \in Threads, PutChar(t) PROVE OneWriter' /\ LastPut' /\ WritesWhole'
  <2>1. step[t] = "put" /\ \A u \in Threads : step[u] \in InWrite => u = t
    BY <1>1, <1>4 DEF PutChar, OneWriter
  <2>2. ~putBusy /\ writeAvail = 0
    BY <1>1, <2>1 DEF OneWriter
  <2> DEFINE n == Len(display)
             put == [by |-> t, last |-> left[t] = 1]
  <2>3. /\ putBusy' = TRUE /\ display' = Append(display, put)
        /\ UNCHANGED <<writeAvail, wLine, putFailed, left>> /\ Go(t, "wait")
    BY <1>4, <2>2 DEF PutChar, sems
  <2>4. \A u \in Threads : step'[u] = IF u = t THEN "wait" ELSE step[u]
    BY <1>1, <2>3, GoIs
  <2>5. OneWriter'
    BY <1>1, <2>1, <2>2, <2>3, <2>4 DEF OneWriter
  <2>6. put.by = t /\ put.last = (left[t] = 1)
    OBVIOUS
  <2> HIDE DEF put
  <2>7. /\ n \in Nat /\ Len(display') = n + 1 /\ display'[n + 1] = put
        /\ \A i \in 1..n : display'[i] = display[i]
    BY <1>1, <2>3
  <2> HIDE DEF n
  <2>8. LastPut'
    <3>1. \A u \in Threads : step'[u] = "wait" => u = t
      BY <2>1, <2>4
    <3>2. \A u \in Threads : step'[u] # "put"
      BY <2>1, <2>4
    <3>3. Len(display') > 0 /\ display'[Len(display')].by = t
          /\ display'[Len(display')].last = (left'[t] = 1) /\ step'[t] = "wait"
      BY <2>3, <2>4, <2>6, <2>7
    <3> QED
      BY <3>1, <3>2, <3>3 DEF LastPut
  <2>9. WritesWhole'
    <3> SUFFICES ASSUME NEW i \in 1..n, ~display'[i].last PROVE display'[i + 1].by = display'[i].by
      BY <2>7 DEF WritesWhole
    <3>1. display'[i] = display[i]
      BY <2>7
    <3>2. CASE i = n
      <4>1. display[n].by = t
        BY <1>1, <2>1, <2>7, <3>1, <3>2 DEF LastPut, n
      <4> QED
        BY <2>6, <2>7, <3>1, <3>2, <4>1
    <3>3. CASE i # n
      <4>1. i + 1 \in 1..n /\ i \in 1..(n - 1)
        BY <2>7, <3>3
      <4>2. display'[i + 1] = display[i + 1]
        BY <2>7, <4>1
      <4> QED
        BY <1>1, <3>1, <4>1, <4>2 DEF WritesWhole, n
    <3> QED
      BY <3>2, <3>3
  <2> QED
    BY <2>5, <2>8, <2>9
<1>5. ASSUME NEW t \in Threads, Written(t) PROVE OneWriter' /\ LastPut' /\ WritesWhole'
  <2>1. /\ step[t] = "wait" /\ writeAvail > 0 /\ writeAvail' = writeAvail - 1
        /\ left' = [left EXCEPT ![t] = @ - 1]
        /\ UNCHANGED <<putBusy, wLine, display, putFailed>>
        /\ Go(t, IF left[t] = 1 THEN "written" ELSE "put")
    BY <1>5 DEF Written, hardware
  <2>2. \A u \in Threads : step[u] \in InWrite => u = t
    BY <1>1, <2>1 DEF OneWriter
  <2>3. \A u \in Threads : step'[u] = IF u = t THEN (IF left[t] = 1 THEN "written" ELSE "put") ELSE step[u]
    BY <1>1, <2>1, GoIs
  <2>4. ~putBusy /\ writeAvail' = 0
    BY <1>1, <2>1 DEF OneWriter
  <2>5. OneWriter'
    BY <1>1, <2>1, <2>2, <2>3, <2>4 DEF OneWriter
  <2>6. Len(display) > 0 /\ display[Len(display)].by = t /\ display[Len(display)].last = (left[t] = 1)
    BY <1>1, <2>1 DEF LastPut
  <2>7. LastPut'
    <3>1. \A u \in Threads : step'[u] = "wait" => FALSE
      BY <2>2, <2>3
    <3>2. \A u \in Threads : step'[u] = "put" => u = t /\ left[t] # 1
      BY <2>2, <2>3
    <3>3. left[t] # 1 => step'[t] = "put"
      BY <2>3
    <3> QED
      BY <2>1, <2>6, <3>1, <3>2, <3>3 DEF LastPut
  <2> QED
    BY <1>1, <2>1, <2>5, <2>7 DEF WritesWhole
<1>6. ASSUME NEW t \in Threads, EndWrite(t) PROVE OneWriter' /\ LastPut' /\ WritesWhole'
  <2>1. /\ step[t] = "written" /\ wLine' = wLine + 1
        /\ UNCHANGED <<putBusy, writeAvail, display, left, putFailed>>
        /\ Go(t, IF Len(writes[t]) = 1 THEN "user" ELSE "write")
    BY <1>6 DEF EndWrite, hardware
  <2>2. \A u \in Threads : step[u] \in InWrite => u = t
    BY <1>1, <2>1 DEF OneWriter
  <2>3. \A u \in Threads : step'[u] \notin InWrite
    BY <1>1, <2>1, <2>2, GoIs
  <2>4. wLine = 0 /\ ~putBusy /\ writeAvail = 0 /\ ~putFailed
    BY <1>1, <2>1, <2>2 DEF OneWriter
  <2>5. OneWriter'
    BY <2>1, <2>3, <2>4 DEF OneWriter
  <2>6. \A u \in Threads : step[u] \notin {"put", "wait"}
    BY <2>1, <2>2
  <2>7. LastPut'
    BY <1>1, <2>1, <2>3, <2>6 DEF LastPut
  <2> QED
    BY <1>1, <2>1, <2>5, <2>7 DEF WritesWhole
<1>7. CASE WriteDone
  <2>1. /\ putBusy /\ ~putBusy' /\ writeAvail' = writeAvail + 1
        /\ UNCHANGED <<wLine, step, left, display, putFailed>>
    BY <1>7 DEF WriteDone
  <2>2. \E t \in Threads : step[t] = "wait"
    BY <1>1, <2>1 DEF OneWriter
  <2>3. writeAvail' = 1
    BY <1>1, <2>1, <2>2 DEF OneWriter
  <2>4. OneWriter'
    BY <1>1, <2>1, <2>2, <2>3 DEF OneWriter
  <2> QED
    BY <1>1, <2>1, <2>4 DEF LastPut, WritesWhole
<1>8. CASE UNCHANGED <<putBusy, writeAvail, wLine, step, left, display, putFailed>>
  BY <1>1, <1>8 DEF OneWriter, LastPut, WritesWhole
<1> QED
  BY <1>2, <1>3, <1>4, <1>5, <1>6, <1>7, <1>8
  DEF ConsoleNext, ThreadStep, CheckCharAvail, cvars

\* Who reads, and what the readers were told of.
LEMMA ReadStep == ConsoleInv /\ [ConsoleNext]_cvars => OneReader'
<1> SUFFICES ASSUME ConsoleInv, [ConsoleNext]_cvars PROVE OneReader'
  OBVIOUS
<1>1. /\ OneReader /\ step \in [Threads -> Steps] /\ readAvail \in Nat /\ rLine \in 0..1
  BY DEF ConsoleInv, ConsoleShape, ConsoleTypeOK
<1> USE StepNames
<1>2. ASSUME NEW t \in Threads,
             \/ \E w \in Prints : StartPrint(t, w)
             \/ \E n \in Reads : ReadCall(t, n)
             \/ WriteLine(t) \/ PutChar(t) \/ Written(t) \/ EndWrite(t)
      PROVE  OneReader'
  <2>1. step[t] \notin InRead /\ UNCHANGED <<rLine, readAvail, incoming>>
    BY <1>1, <1>2 DEF StartPrint, ReadCall, WriteLine, PutChar, Written, EndWrite, hardware, sems
  <2>2. step' = step \/ \E s \in {"write", "read", "put", "wait", "written", "user"} : Go(t, s)
    BY <1>2 DEF StartPrint, ReadCall, WriteLine, PutChar, Written, EndWrite
  <2>3. step'[t] \notin InRead /\ \A u \in Threads : u # t => step'[u] = step[u]
    BY <1>1, <2>1, <2>2, GoIs
  <2> QED
    BY <2>1, <2>3, OffRead
<1>3. ASSUME NEW t \in Threads, ReadLine(t) PROVE OneReader'
  <2>1. rLine = 1 /\ rLine' = 0 /\ UNCHANGED <<readAvail, incoming>>
        /\ Go(t, IF left[t] = 0 THEN "line" ELSE "await")
    BY <1>1, <1>3 DEF ReadLine, hardware
  <2>2. Readers = {}
    BY <1>1, <2>1 DEF OneReader
  <2>3. \A u \in Threads : step'[u] = IF u = t THEN (IF left[t] = 0 THEN "line" ELSE "await") ELSE step[u]
    BY <1>1, <2>1, GoIs
  <2>4. Readers' = {t}
    BY <2>2, <2>3 DEF Readers
  <2>5. ~ \E u \in Threads : step[u] = "get"
    BY <2>2 DEF Readers
  <2> QED
    BY <1>1, <2>1, <2>4, <2>5 DEF OneReader, CharAnnounced
<1>4. ASSUME NEW t \in Threads, AwaitChar(t) PROVE OneReader'
  <2>1. step[t] = "await" /\ Go(t, "get") /\ UNCHANGED <<rLine, incoming>>
    BY <1>4 DEF AwaitChar, hardware
  <2>2. \A u \in Threads : step'[u] = IF u = t THEN "get" ELSE step[u]
    BY <1>1, <2>1, GoIs
  <2>3. Readers' = Readers
    BY <2>1, <2>2 DEF Readers
  <2> QED
    BY <1>1, <2>1, <2>2, <2>3 DEF OneReader, CharAnnounced
<1>5. ASSUME NEW t \in Threads, GetChar(t) PROVE OneReader'
  <2>1. step[t] = "get" /\ incoming' = Eof /\ UNCHANGED rLine /\ (Go(t, "await") \/ Go(t, "line"))
    BY <1>5 DEF GetChar, sems
  <2>2. \A u \in Threads : step'[u] = step[u] \/ (u = t /\ step'[u] \in {"await", "line"})
    BY <1>1, <2>1, GoIs
  <2>3. step'[t] \in {"await", "line"}
    BY <1>1, <2>1, GoIs
  <2>4. Readers' = Readers
    BY <2>1, <2>2, <2>3 DEF Readers
  <2> QED
    BY <1>1, <2>1, <2>4 DEF OneReader, CharAnnounced
<1>6. ASSUME NEW t \in Threads, EndRead(t) PROVE OneReader'
  <2>1. step[t] = "line" /\ rLine' = rLine + 1 /\ Go(t, "user") /\ UNCHANGED <<readAvail, incoming>>
    BY <1>6 DEF EndRead, hardware
  <2>2. Readers = {t} /\ rLine = 0
    BY <1>1, <2>1 DEF OneReader, CharAnnounced, Readers
  <2>3. \A u \in Threads : step'[u] = IF u = t THEN "user" ELSE step[u]
    BY <1>1, <2>1, GoIs
  <2>4. Readers' = {} /\ rLine' = 1
    BY <2>1, <2>2, <2>3 DEF Readers
  <2>5. ~ \E u \in Threads : step[u] = "get"
    BY <2>1, <2>2 DEF Readers
  <2> QED
    BY <1>1, <2>1, <2>4, <2>5 DEF OneReader, CharAnnounced
<1>7. CASE CheckCharAvail
  <2>1. readAvail' > 0 /\ UNCHANGED <<rLine, step>>
    BY <1>1, <1>7 DEF CheckCharAvail
  <2>2. Readers' = Readers
    BY <2>1 DEF Readers
  <2> QED
    BY <1>1, <2>1, <2>2 DEF OneReader, CharAnnounced
<1>8. CASE UNCHANGED <<readAvail, rLine, step, incoming>>
  <2>1. Readers' = Readers
    BY <1>8 DEF Readers
  <2> QED
    BY <1>1, <1>8, <2>1 DEF OneReader, CharAnnounced
<1> QED
  BY <1>2, <1>3, <1>4, <1>5, <1>6, <1>7, <1>8
  DEF ConsoleNext, ThreadStep, WriteDone, cvars

\* The least-number principle, for a set of numbers.
LEMMA LeastNatural ==
    ASSUME NEW S \in SUBSET Nat, S # {}
    PROVE  \E n \in S : \A m \in S : n <= m
<1> DEFINE R == {ss \in Nat \X Nat : ss[1] < ss[2]}
<1>1. IsWellFoundedOn(R, Nat)
  BY NatLessThanWellFounded, Zenon DEF OpToRel
<1>2. PICK n \in S : \A m \in S : <<m, n>> \notin R
  BY <1>1, WFMin, Zenon
<1>3. ASSUME NEW m \in S PROVE n <= m
  <2>1. <<m, n>> \in Nat \X Nat /\ <<m, n>>[1] = m /\ <<m, n>>[2] = n
    OBVIOUS
  <2>2. ~(m < n)
    BY <1>2, <2>1
  <2> QED
    BY <2>2
<1> QED
  BY <1>3

\* The function that WithoutEof defines by recursion exists: if it did not there
\* would be a first i up to which it does not.
LEMMA WithoutEofIs ==
  ASSUME NEW S, NEW line \in Seq(S)
  PROVE  LET kept == WithoutEof(line)
         IN  /\ kept[0] = <<>>
             /\ \A i \in 1..Len(line) :
                  kept[i] = IF line[i] = Eof THEN kept[i - 1] ELSE Append(kept[i - 1], line[i])
<1> DEFINE L == Len(line)
           Is(f, n) == /\ f[0] = <<>>
                       /\ \A i \in 1..n :
                            f[i] = IF line[i] = Eof THEN f[i - 1] ELSE Append(f[i - 1], line[i])
           Good == {n \in 0..L : \E f \in [0..n -> Seq(S)] : Is(f, n)}
<1>1. L \in Nat /\ \A i \in 1..L : line[i] \in S
  OBVIOUS
<1> HIDE DEF L
<1>2. 0 \in Good
  <2> DEFINE f == [i \in 0..0 |-> <<>>]
  <2>1. f \in [0..0 -> Seq(S)] /\ Is(f, 0) /\ 0 \in 0..L
    BY <1>1
  <2> HIDE DEF f, Is
  <2> QED
    BY <2>1
<1>3. ASSUME NEW n \in 1..L, n - 1 \in Good PROVE n \in Good
  <2>1. PICK f \in [0..(n - 1) -> Seq(S)] : Is(f, n - 1)
    BY <1>3
  <2> DEFINE next == IF line[n] = Eof THEN f[n - 1] ELSE Append(f[n - 1], line[n])
             g == [i \in 0..n |-> IF i < n THEN f[i] ELSE next]
  <2>2. n \in Nat \ {0} /\ n - 1 \in 0..(n - 1) /\ line[n] \in S
    BY <1>1
  <2>3. next \in Seq(S)
    BY <2>2
  <2> HIDE DEF next
  <2>4. g \in [0..n -> Seq(S)] /\ g[n] = next /\ \A i \in 0..(n - 1) : g[i] = f[i]
    BY <2>2, <2>3
  <2> HIDE DEF g
  <2>5. g[0] = <<>>
    BY <2>1, <2>2, <2>4
  <2>6. ASSUME NEW i \in 1..n
        PROVE  g[i] = IF line[i] = Eof THEN g[i - 1] ELSE Append(g[i - 1], line[i])
    <3>1. i - 1 \in 0..(n - 1) /\ g[i - 1] = f[i - 1]
      BY <2>2, <2>4
    <3>2. CASE i = n
      BY <2>4, <3>1, <3>2 DEF next
    <3>3. CASE i # n
      <4>1. i \in 1..(n - 1) /\ g[i] = f[i]
        BY <2>2, <2>4, <3>3
      <4> QED
        BY <2>1, <3>1, <4>1
    <3> QED
      BY <3>2, <3>3
  <2>7. Is(g, n)
    BY <2>5, <2>6
  <2> HIDE DEF Is
  <2> QED
    BY <2>4, <2>7
<1> HIDE DEF Good
<1>4. L \in Good
  <2> DEFINE Bad == (0..L) \ Good
  <2> SUFFICES ASSUME L \notin Good PROVE FALSE
    OBVIOUS
  <2>1. Bad \in SUBSET Nat /\ Bad # {}
    BY <1>1
  <2>2. PICK n \in Bad : \A m \in Bad : n <= m
    BY <2>1, LeastNatural
  <2>3. n \in 1..L
    BY <1>1, <1>2, <2>2
  <2>4. n - 1 \in Good
    BY <1>1, <2>2, <2>3
  <2> QED
    BY <1>3, <2>2, <2>3, <2>4
<1>5. PICK f \in [0..L -> Seq(S)] : Is(f, L)
  BY <1>4 DEF Good
<1> DEFINE Rule(k) == [i \in 0..L |-> IF i = 0 THEN <<>>
                                      ELSE IF line[i] = Eof THEN k[i - 1]
                                      ELSE Append(k[i - 1], line[i])]
<1>6. f = Rule(f)
  <2>1. ASSUME NEW i \in 0..L PROVE f[i] = Rule(f)[i]
    <3>1. i = 0 \/ i \in 1..L
      BY <1>1
    <3> QED
      BY <1>5, <3>1
  <2> QED
    BY <2>1
<1>7. WithoutEof(line) = CHOOSE k : k = Rule(k)
  BY DEF WithoutEof, L
<1> DEFINE kept == WithoutEof(line)
<1>8. kept = Rule(kept)
  BY <1>6, <1>7
<1> HIDE DEF kept
<1>9. kept[0] = <<>> /\ \A i \in 1..L :
        kept[i] = IF line[i] = Eof THEN kept[i - 1] ELSE Append(kept[i - 1], line[i])
  <2>1. \A i \in 0..L : kept[i] = IF i = 0 THEN <<>>
                                  ELSE IF line[i] = Eof THEN kept[i - 1]
                                  ELSE Append(kept[i - 1], line[i])
    BY <1>8
  <2>2. 0 \in 0..L /\ \A i \in 1..L : i \in 0..L /\ i # 0
    BY <1>1
  <2>3. kept[0] = <<>>
    BY <2>1, <2>2
  <2>4. ASSUME NEW i \in 1..L
        PROVE  kept[i] = IF line[i] = Eof THEN kept[i - 1] ELSE Append(kept[i - 1], line[i])
    <3>1. i \in 0..L /\ i # 0
      BY <2>2
    <3> QED
      BY <2>1, <3>1
  <2> QED
    BY <2>3, <2>4
<1> QED
  BY <1>9 DEF kept, L

\* What is typed: sequences of characters.
LEMMA InputIs == \A line \in Input : line \in Seq(Typeable)
<1> SUFFICES ASSUME NEW line \in Input PROVE line \in Seq(Typeable)
  OBVIOUS
<1>1. line \in Seq({line[i] : i \in DOMAIN line})
  BY ConsoleAssumption
<1>2. {line[i] : i \in DOMAIN line} \subseteq Typeable
  BY DEF Typeable
<1> QED
  BY <1>1, <1>2

\* The characters of what was taken.
LEMMA CharsIs ==
  ASSUME NEW s \in Seq(Taken)
  PROVE  /\ Chars(s) \in Seq(Typeable)
         /\ Chars(s) \o <<>> = Chars(s)
         /\ \A c \in Typeable : Chars(s) \o <<c>> = Append(Chars(s), c)
         /\ \A e \in Taken : Chars(Append(s, e)) = Append(Chars(s), e.char)
<1>1. s \in [1..Len(s) -> Taken] /\ Len(s) \in Nat /\ \A i \in 1..Len(s) : s[i].char \in Typeable
  <2>1. s \in [1..Len(s) -> Taken] /\ Len(s) \in Nat
    OBVIOUS
  <2>2. \A r \in Taken : r.char \in Typeable
    BY DEF Taken
  <2> QED
    BY <2>1, <2>2
<1>2. Chars(s) \in [1..Len(s) -> Typeable]
  BY <1>1 DEF Chars
<1>3. Chars(s) \in Seq(Typeable)
  BY <1>1, <1>2
<1>4. Chars(s) \o <<>> = Chars(s) /\ \A c \in Typeable : Chars(s) \o <<c>> = Append(Chars(s), c)
  <2> DEFINE t == Chars(s)
  <2>1. t \in Seq(Typeable)
    BY <1>3
  <2> HIDE DEF t
  <2> QED
    BY <2>1 DEF t
<1>5. ASSUME NEW e \in Taken PROVE Chars(Append(s, e)) = Append(Chars(s), e.char)
  BY <1>1, <1>2, <1>3 DEF Chars
<1> QED
  BY <1>3, <1>4, <1>5

\* Sequences of one length with the same elements are the same.
LEMMA SeqsEqual ==
  ASSUME NEW S, NEW s \in Seq(S), NEW t \in Seq(S), Len(s) = Len(t),
         \A i \in 1..Len(s) : s[i] = t[i]
  PROVE  s = t
<1>1. s \in [1..Len(s) -> S] /\ t \in [1..Len(t) -> S]
  OBVIOUS
<1> QED
  BY <1>1

\* A character goes from the keyboard to the buffer, and from there to a reader.
LEMMA InputStep == ConsoleInv /\ [ConsoleNext]_cvars => InputKept'
<1> SUFFICES ASSUME ConsoleInv, [ConsoleNext]_cvars PROVE InputKept'
  OBVIOUS
<1>1. /\ typed \in Seq(Typeable) /\ taken \in Seq(Taken) /\ incoming \in Typeable \cup {Eof}
  BY DEF ConsoleInv, ConsoleShape
<1>2. PICK line \in Input : \E k \in 0..Len(line) :
        /\ typed = SubSeq(line, k + 1, Len(line))
        /\ Chars(taken) \o Buffered = WithoutEof(line)[k]
  BY DEF ConsoleInv, InputKept
<1>3. PICK k \in 0..Len(line) :
        /\ typed = SubSeq(line, k + 1, Len(line))
        /\ Chars(taken) \o Buffered = WithoutEof(line)[k]
  BY <1>2
<1>4. line \in Seq(Typeable) /\ Len(line) \in Nat /\ k \in Nat
  BY InputIs
<1>5. CASE UNCHANGED <<typed, taken, incoming>>
  BY <1>3, <1>5 DEF InputKept, Chars, Buffered
<1>6. ASSUME NEW t \in Threads, GetChar(t) PROVE InputKept'
  <2>1. typed' = typed
    BY <1>6 DEF GetChar
  <2>2. Chars(taken') \o Buffered' = Chars(taken) \o Buffered
    <3>1. CASE incoming = Eof
      BY <1>6, <3>1 DEF GetChar, Buffered
    <3>2. CASE incoming # Eof
      <4> DEFINE e == [by |-> t, char |-> incoming]
      <4>1. e \in Taken /\ e.char = incoming /\ incoming \in Typeable
        BY <1>1, <3>2 DEF Taken
      <4>2. taken' = Append(taken, e) /\ Buffered' = <<>> /\ Buffered = <<incoming>>
        BY <1>6, <3>2 DEF GetChar, Buffered
      <4> HIDE DEF e
      <4>3. taken' \in Seq(Taken)
        BY <1>1, <4>1, <4>2
      <4>4. Chars(taken') \o <<>> = Chars(taken')
        BY <4>1, <4>3, CharsIs
      <4>5. Chars(taken') = Append(Chars(taken), incoming)
            /\ Chars(taken) \o <<incoming>> = Append(Chars(taken), incoming)
        BY <1>1, <4>1, <4>2, CharsIs
      <4> QED
        BY <4>2, <4>4, <4>5
    <3> QED
      BY <3>1, <3>2
  <2> QED
    BY <1>3, <2>1, <2>2 DEF InputKept, Chars, Buffered
<1>7. CASE CheckCharAvail
  <2>1. incoming = Eof /\ typed # <<>> /\ incoming' = Head(typed) /\ typed' = Tail(typed) /\ taken' = taken
    BY <1>7 DEF CheckCharAvail, PollFile
  <2>2. k < Len(line)
    <3>1. k = Len(line) => SubSeq(line, k + 1, Len(line)) = <<>>
      BY <1>4
    <3> QED
      BY <1>3, <1>4, <2>1, <3>1
  <2>3. Head(typed) = line[k + 1] /\ Tail(typed) = SubSeq(line, k + 2, Len(line))
    <3> DEFINE u == SubSeq(line, k + 1, Len(line))
    <3>1. /\ u \in Seq(Typeable) /\ Len(u) = Len(line) - k
          /\ \A i \in 1..(Len(line) - k) : u[i] = line[k + i]
      BY <1>4, <2>2
    <3> HIDE DEF u
    <3>2. /\ Head(u) = u[1] /\ Tail(u) \in Seq(Typeable) /\ Len(Tail(u)) = Len(u) - 1
          /\ \A i \in 1..(Len(u) - 1) : Tail(u)[i] = u[i + 1]
      BY <1>4, <2>2, <3>1
    <3> DEFINE v == SubSeq(line, k + 2, Len(line))
    <3>3. /\ v \in Seq(Typeable) /\ Len(v) = Len(line) - k - 1
          /\ \A i \in 1..(Len(line) - k - 1) : v[i] = line[k + 1 + i]
      BY <1>4, <2>2
    <3> HIDE DEF v
    <3>4. Head(u) = line[k + 1]
      BY <1>4, <2>2, <3>1, <3>2
    <3>5. ASSUME NEW i \in 1..(Len(line) - k - 1) PROVE Tail(u)[i] = v[i]
      <4>1. i \in 1..(Len(u) - 1) /\ i + 1 \in 1..(Len(line) - k) /\ k + (i + 1) = k + 1 + i
        BY <1>4, <2>2, <3>1
      <4> QED
        BY <3>1, <3>2, <3>3, <4>1
    <3>6. Len(Tail(u)) = Len(line) - k - 1
      BY <1>4, <3>1, <3>2
    <3>7. Tail(u) = v
      BY <3>2, <3>3, <3>5, <3>6, SeqsEqual
    <3> QED
      BY <1>3, <3>4, <3>7 DEF u, v
  <2>4. k + 1 \in 0..Len(line) /\ k + 1 \in 1..Len(line) /\ (k + 1) - 1 = k /\ (k + 1) + 1 = k + 2
    BY <1>4, <2>2
  <2>5. line[k + 1] \in Typeable
    BY <1>4, <2>4
  <2>6. Chars(taken) \o Buffered = WithoutEof(line)[k] /\ Buffered = <<>>
    BY <1>3, <2>1 DEF Buffered
  <2>7. WithoutEof(line)[k + 1] =
          IF line[k + 1] = Eof THEN WithoutEof(line)[k] ELSE Append(WithoutEof(line)[k], line[k + 1])
    BY <1>4, <2>4, WithoutEofIs
  <2>8. Chars(taken) \o <<>> = Chars(taken) /\ Chars(taken) \o <<line[k + 1]>> = Append(Chars(taken), line[k + 1])
    BY <1>1, <2>5, CharsIs
  <2>9. Chars(taken') \o Buffered' = WithoutEof(line)[k + 1]
    BY <2>1, <2>3, <2>6, <2>7, <2>8 DEF Buffered
  <2> QED
    BY <2>1, <2>3, <2>4, <2>9 DEF InputKept, Chars, Buffered
<1> QED
  BY <1>5, <1>6, <1>7
  DEF ConsoleNext, ThreadStep, StartPrint, WriteLine, PutChar, Written, EndWrite, ReadCall,
      ReadLine, AwaitChar, EndRead, WriteDone, hardware, cvars

LEMMA ConsoleInitInv == ConsoleInit => ConsoleInv
<1> SUFFICES ASSUME ConsoleInit PROVE ConsoleInv
  OBVIOUS
<1>1. typed \in Input /\ typed \in Seq(Typeable)
  BY InputIs DEF ConsoleInit
<1>2. ConsoleShape
  <2>1. ConsoleTypeOK
    <3>1. \A i \in DOMAIN display : display[i] \in [by : Threads, last : BOOLEAN]
      BY DEF ConsoleInit
    <3>2. "user" \in Steps
      BY StepNames
    <3>3. <<>> \in Seq(Nat \ {0})
      OBVIOUS
    <3>4. \A t \in Threads : writes[t] \in Seq(Nat \ {0})
      BY <3>3 DEF ConsoleInit
    <3>5. step \in [Threads -> Steps] /\ left \in [Threads -> Nat]
      BY <3>2 DEF ConsoleInit
    <3>6. readAvail \in Nat /\ writeAvail \in Nat /\ rLine \in 0..1 /\ wLine \in 0..1
      <4>1. readAvail = 0 /\ writeAvail = 0 /\ rLine = 1 /\ wLine = 1
        BY DEF ConsoleInit
      <4> QED
        BY <4>1
    <3>7. putBusy \in BOOLEAN /\ putFailed \in BOOLEAN
      BY Zenon DEF ConsoleInit
    <3> QED
      BY <3>1, <3>4, <3>5, <3>6, <3>7 DEF ConsoleTypeOK
  <2>2. writes \in [Threads -> Seq(Nat \ {0})] /\ display \in Seq(Displayed) /\ taken \in Seq(Taken)
    BY DEF ConsoleInit
  <2> QED
    BY <1>1, <2>1, <2>2, StepNames DEF ConsoleInit, ConsoleShape
<1>3. OneWriter /\ LastPut /\ WritesWhole
  BY StepNames DEF ConsoleInit, OneWriter, LastPut, WritesWhole
<1>4. OneReader
  <2>1. Readers = {}
    BY StepNames DEF ConsoleInit, Readers
  <2> QED
    BY <2>1 DEF ConsoleInit, OneReader, CharAnnounced
<1>5. InputKept
  <2>1. Len(typed) \in Nat /\ 0 \in 0..Len(typed) /\ typed = SubSeq(typed, 0 + 1, Len(typed))
    BY <1>1
  <2>2. Chars(taken) \o Buffered = <<>>
    BY DEF ConsoleInit, Chars, Buffered
  <2>3. WithoutEof(typed)[0] = <<>>
    BY <1>1, WithoutEofIs
  <2> QED
    BY <1>1, <2>1, <2>2, <2>3 DEF InputKept
<1> QED
  BY <1>2, <1>3, <1>4, <1>5 DEF ConsoleInv

\* SynchConsole's semaphores over the console's interrupts: PutChar's ASSERT never
\* fails, no Write is cut in two on the display, one thread reads a line, and what
\* is typed reaches the readers in order and whole, for any threads and calls.
THEOREM ConsoleIsSafe == ConsoleSpec => []ConsoleSafe
<1>1. ConsoleSpec => []ConsoleInv
  <2>1. ConsoleInv /\ [ConsoleNext]_cvars => ConsoleInv'
    BY ConsoleShapeStep, WriteStep, ReadStep, InputStep DEF ConsoleInv
  <2> QED
    BY <2>1, ConsoleInitInv, PTL DEF ConsoleSpec
<1>2. ConsoleInv => ConsoleSafe
  BY DEF ConsoleInv, ConsoleShape, OneWriter, OneReader, ConsoleSafe, NeverBusy
<1> QED
  BY <1>1, <1>2, PTL

-------------------------------------------------------------------------------
(* The disk *)

\* The fields of the request under way and of the threads in the driver.
DiskShape ==
  /\ now \in Nat /\ bufferInit \in Nat /\ done \in Nat
  /\ lastSector \in Sectors
  /\ request = NoRequest
       \/ request \in [sector : Sectors, writing : BOOLEAN, due : Nat, buffered : BOOLEAN]
  /\ inDriver \in [Clients -> [at : {"out", "request", "wait"}, sector : Sectors, writing : BOOLEAN]]
  /\ \A t \in Clients : inDriver[t].at = "out" => inDriver[t] = Out
  /\ overlap \in BOOLEAN /\ diskFailed \in BOOLEAN

\* As long as threads did not overlap one is in the driver at most, and when it
\* waits either its request is under way or its answer is there, not both.
AloneInDriver ==
  ~overlap =>
    /\ ~diskFailed
    /\ \A t, u \in Clients : inDriver[t] # Out /\ inDriver[u] # Out => t = u
    /\ done + (IF request = NoRequest THEN 0 ELSE 1)
         = IF \E t \in Clients : inDriver[t].at = "wait" THEN 1 ELSE 0

\* The track buffer starts to fill at the beginning of a sector.
BufferAligned == bufferInit % RotationTime = 0

DiskInv == DiskShape /\ AloneInDriver /\ BufferAligned /\ LatencyIsPhysical

LEMMA DivMod ==
  ASSUME NEW a \in Int, NEW b \in Nat \ {0}
  PROVE  /\ a \div b \in Int /\ a % b \in 0..(b - 1)
         /\ a = b * (a \div b) + (a % b)
         /\ a \in Nat => a \div b \in Nat
<1> DEFINE q == a \div b
<1>1. q \in Int /\ a % b \in 0..(b - 1) /\ a = b * q + (a % b)
  OBVIOUS
<1> HIDE DEF q
<1>2. ASSUME a \in Nat, q <= -1 PROVE FALSE
  <2>1. b * q <= -b
    BY <1>1, <1>2
  <2> QED
    BY <1>1, <1>2, <2>1
<1>3. a \in Nat => q \in Nat
  BY <1>1, <1>2
<1> QED
  BY <1>1, <1>3 DEF q

\* Quotient and remainder are the only ones.
LEMMA DivModUnique ==
  ASSUME NEW q \in Int, NEW b \in Nat \ {0}, NEW r \in 0..(b - 1)
  PROVE  (b * q + r) % b = r /\ (b * q + r) \div b = q
<1> DEFINE a == b * q + r
           k == a \div b
           s == a % b
<1>1. a \in Int /\ k \in Int /\ s \in 0..(b - 1) /\ a = b * k + s
  <2>1. a \in Int
    OBVIOUS
  <2> HIDE DEF a
  <2> QED
    BY <2>1, DivMod
<1>2. b * (q - k) = s - r
  <2>1. b * q + r = b * k + s
    BY <1>1
  <2>2. b * (q - k) = b * q - b * k
    BY <1>1
  <2> HIDE DEF k, s
  <2> QED
    BY <1>1, <2>1, <2>2
<1>3. q = k
  <2> HIDE DEF k, s
  <2> DEFINE d == q - k
  <2>1. d \in Int
    BY <1>1
  <2>2. ASSUME d >= 1 PROVE FALSE
    <3>1. b * d >= b
      BY <2>1, <2>2
    <3> QED
      BY <1>1, <1>2, <3>1
  <2>3. ASSUME d <= -1 PROVE FALSE
    <3>1. b * d <= -b
      BY <2>1, <2>3
    <3> QED
      BY <1>1, <1>2, <3>1
  <2>4. d = 0
    <3> HIDE DEF d
    <3> QED
      BY <2>1, <2>2, <2>3
  <2> QED
    BY <1>1, <2>4
<1> QED
  BY <1>1, <1>3

\* ModuloDiff is how many sectors on a sector is.
LEMMA ModuloDiffIs ==
  ASSUME NEW to \in Nat, NEW from \in Nat
  PROVE  /\ ModuloDiff(to, from) \in 0..(SectorsPerTrack - 1)
         /\ (from + ModuloDiff(to, from)) % SectorsPerTrack = to % SectorsPerTrack
<1> DEFINE S == SectorsPerTrack
           a == to % S
           c == from % S
           k == from \div S
           e == a - c + S
           d == e % S
           j == e \div S
<1>1. S \in Nat \ {0}
  BY DiskAssumption
<1> HIDE DEF S
<1>2. a \in 0..(S - 1) /\ c \in 0..(S - 1) /\ k \in Int /\ from = S * k + c
  BY <1>1, DivMod
<1> HIDE DEF a, c, k
<1>3. e \in Int
  BY <1>1, <1>2
<1>4. d \in 0..(S - 1) /\ j \in Int /\ e = S * j + d
  <2> HIDE DEF e
  <2> QED
    BY <1>1, <1>3, DivMod
<1>5. from + d = S * (k + 1 - j) + a
  <2>1. S * (k + 1 - j) = S * k + S - S * j
    BY <1>1, <1>2, <1>4
  <2>2. S * k \in Int /\ S * j \in Int /\ S * (k + 1 - j) \in Int
    BY <1>1, <1>2, <1>4
  <2>3. e = a - c + S
    OBVIOUS
  <2> HIDE DEF d, j, e
  <2> QED
    BY <1>1, <1>2, <1>3, <1>4, <2>1, <2>2, <2>3
<1>6. (from + d) % S = a
  <2>1. k + 1 - j \in Int
    BY <1>2, <1>4
  <2> HIDE DEF d, j, e
  <2> QED
    BY <1>1, <1>2, <1>5, <2>1, DivModUnique
<1>7. ModuloDiff(to, from) = d
  BY DEF ModuloDiff, S, a, c
<1> HIDE DEF d
<1> QED
  BY <1>4, <1>6, <1>7 DEF S, a

LEMMA SeekIs ==
  ASSUME NEW sector \in Sectors, lastSector \in Sectors
  PROVE  Seek(sector) \in Nat
<1>1. sector \in Int /\ lastSector \in Int /\ SectorsPerTrack \in Nat \ {0}
  BY DiskAssumption DEF Sectors
<1>2. Track(sector) \in Int /\ Track(lastSector) \in Int
  BY <1>1, DivMod DEF Track
<1>3. Distance(Track(sector) - Track(lastSector)) \in Nat
  BY <1>2 DEF Distance
<1> QED
  BY <1>3, DiskAssumption DEF Seek

\* The head is at the start of a sector when TimeToSeek is over.
LEMMA RotationIs ==
  ASSUME NEW sector \in Sectors, lastSector \in Sectors, now \in Nat
  PROVE  /\ Rotation(sector) \in 0..(RotationTime - 1)
         /\ now + Seek(sector) + Rotation(sector) \in Nat
         /\ (now + Seek(sector) + Rotation(sector)) % RotationTime = 0
<1> DEFINE R == RotationTime
           x == now + Seek(sector)
           over == x % R
           q == x \div R
<1>1. R \in Nat \ {0}
  BY DiskAssumption
<1>2. x \in Nat
  BY SeekIs
<1>3. Rotation(sector) = IF over > 0 THEN R - over ELSE 0
  BY DEF Rotation
<1> HIDE DEF R, x
<1>4. over \in 0..(R - 1) /\ q \in Int /\ x = R * q + over
  BY <1>1, <1>2, DivMod
<1> HIDE DEF over, q
<1>5. x + Rotation(sector) = R * (IF over > 0 THEN q + 1 ELSE q) + 0
  <2>1. R * q \in Int /\ R * (q + 1) = R * q + R
    BY <1>1, <1>4
  <2> QED
    BY <1>1, <1>2, <1>3, <1>4, <2>1
<1>6. (x + Rotation(sector)) % R = 0
  <2> DEFINE n == IF over > 0 THEN q + 1 ELSE q
  <2>1. n \in Int /\ 0 \in 0..(R - 1) /\ x + Rotation(sector) = R * n + 0
    BY <1>1, <1>4, <1>5
  <2> HIDE DEF n
  <2>2. (R * n + 0) % R = 0
    BY <1>1, <2>1, DivModUnique
  <2> QED
    BY <2>1, <2>2
<1>7. Rotation(sector) \in 0..(R - 1)
  BY <1>1, <1>3, <1>4
<1> QED
  BY <1>1, <1>2, <1>6, <1>7 DEF R, x

\* The head has just passed sector s of the track when n sectors and s have
\* passed since it was at the start of one.
LEMMA UnderHeadIs ==
  ASSUME NEW b \in Nat, NEW sector \in Nat
  PROVE  LET u == RotationTime * (b + ModuloDiff(sector, b) + 1)
         IN  u % RotationTime = 0 /\ UnderHead(u) = sector % SectorsPerTrack
<1> DEFINE R == RotationTime
           md == ModuloDiff(sector, b)
           n == b + md + 1
           u == R * n
<1>1. R \in Nat \ {0} /\ md \in Int
  BY DiskAssumption, ModuloDiffIs
<1>2. (b + md) % SectorsPerTrack = sector % SectorsPerTrack
  BY ModuloDiffIs
<1> HIDE DEF md
<1>3. n \in Int /\ 0 \in 0..(R - 1) /\ R * n \in Int
  BY <1>1
<1>4. u % R = 0 /\ u \div R = n
  <2> HIDE DEF n, R
  <2>1. (R * n + 0) % R = 0 /\ (R * n + 0) \div R = n
    BY <1>1, <1>3, DivModUnique
  <2>2. R * n + 0 = R * n
    BY <1>3
  <2> QED
    BY <2>1, <2>2
<1>5. u \div R - 1 = b + md
  BY <1>1, <1>4
<1> QED
  BY <1>2, <1>4, <1>5 DEF UnderHead, md

\* The sector of a request has just passed the head when its time is over, or
\* has passed it since the head came to the track.
LEMMA LatencyIs ==
  ASSUME DiskShape, BufferAligned, NEW sector \in Sectors, NEW writing \in BOOLEAN
  PROVE  /\ ComputeLatency(sector, writing) \in Nat
         /\ InTrackBuffer(sector, writing) =>
              /\ Seek(sector) = 0
              /\ \E u \in bufferInit..(now + ComputeLatency(sector, writing)) :
                   /\ u % RotationTime = 0 /\ u - RotationTime >= bufferInit
                   /\ UnderHead(u) = sector % SectorsPerTrack
         /\ ~InTrackBuffer(sector, writing) =>
              LET due == now + ComputeLatency(sector, writing)
              IN  due % RotationTime = 0 /\ UnderHead(due) = sector % SectorsPerTrack
<1> DEFINE R == RotationTime
           T == now + Seek(sector) + Rotation(sector)
           b == bufferInit \div R
           h == T \div R
           mb == ModuloDiff(sector, b)
           mh == ModuloDiff(sector, h)
<1>1. R \in Nat \ {0} /\ sector \in Nat /\ Seek(sector) \in Nat /\ Rotation(sector) \in 0..(R - 1)
      /\ now \in Nat /\ bufferInit \in Nat
  BY DiskAssumption, SeekIs, RotationIs DEF DiskShape, Sectors
<1>2. T \in Nat /\ h \in Nat /\ T = R * h
  <2>1. T \in Nat /\ T % R = 0
    BY RotationIs DEF DiskShape
  <2> HIDE DEF T, R
  <2>2. R \in Nat \ {0} /\ T \in Nat /\ T \in Int
    BY <1>1, <2>1
  <2>3. h \in Nat /\ T = R * h + (T % R)
    BY <2>2, DivMod, Zenon
  <2> HIDE DEF h
  <2>4. R * h \in Int /\ R * h + 0 = R * h
    BY <1>1, <2>3
  <2> QED
    BY <2>1, <2>3, <2>4, Zenon
<1>3. b \in Nat /\ bufferInit = R * b
  <2>1. bufferInit % R = 0
    BY DEF BufferAligned
  <2> HIDE DEF R
  <2>2. R \in Nat \ {0} /\ bufferInit \in Nat /\ bufferInit \in Int
    BY <1>1
  <2>3. b \in Nat /\ bufferInit = R * b + (bufferInit % R)
    BY <2>2, DivMod, Zenon
  <2> HIDE DEF b
  <2>4. R * b \in Int /\ R * b + 0 = R * b
    BY <1>1, <2>3
  <2> QED
    BY <2>1, <2>3, <2>4, Zenon
<1>4. mb \in Nat /\ mh \in Nat
  <2> HIDE DEF b, h, R, T
  <2>1. SectorsPerTrack \in Nat \ {0}
    BY DiskAssumption
  <2>2. mb \in 0..(SectorsPerTrack - 1) /\ mh \in 0..(SectorsPerTrack - 1)
    BY <1>1, <1>2, <1>3, ModuloDiffIs
  <2> HIDE DEF mb, mh
  <2> QED
    BY <2>1, <2>2
<1>5. InTrackBuffer(sector, writing) =>
        Seek(sector) = 0 /\ (T - bufferInit) \div R > mb
  BY DEF InTrackBuffer
<1>6. ComputeLatency(sector, writing) =
        IF InTrackBuffer(sector, writing) THEN R
        ELSE Seek(sector) + Rotation(sector) + R + mh * R
  BY DEF ComputeLatency
<1>7. R * (b + mb + 1) % R = 0 /\ UnderHead(R * (b + mb + 1)) = sector % SectorsPerTrack
  BY <1>1, <1>3, UnderHeadIs
<1>8. R * (h + mh + 1) % R = 0 /\ UnderHead(R * (h + mh + 1)) = sector % SectorsPerTrack
  BY <1>1, <1>2, UnderHeadIs
<1>9. T = now + Seek(sector) + Rotation(sector)
  OBVIOUS
<1> HIDE DEF R, T, b, h, mb, mh
<1>10. R * (h + mh + 1) = T + R + mh * R /\ mh * R \in Nat
  BY <1>1, <1>2, <1>4
<1>11. CASE InTrackBuffer(sector, writing)
  <2> DEFINE u == R * (b + mb + 1)
             d == T - bufferInit
             k == d \div R
  <2>1. d \in Int
    BY <1>1, <1>2
  <2>2. k > mb
    BY <1>5, <1>11
  <2> HIDE DEF d
  <2>3. k \in Int /\ d >= R * k
    <3>1. k \in Int /\ d % R \in 0..(R - 1) /\ d = R * k + (d % R)
      BY <1>1, <2>1, DivMod
    <3> HIDE DEF k
    <3>2. R * k \in Int
      BY <1>1, <3>1
    <3> QED
      BY <1>1, <3>1, <3>2
  <2> HIDE DEF k
  <2>4. R * k >= R * (mb + 1)
    <3>1. k - (mb + 1) \in Nat
      BY <1>4, <2>2, <2>3
    <3>2. R * (k - (mb + 1)) \in Nat
      BY <1>1, <3>1
    <3>3. R * (k - (mb + 1)) = R * k - R * (mb + 1)
      BY <1>1, <1>4, <2>3
    <3>4. R * k \in Int /\ R * (mb + 1) \in Int
      BY <1>1, <1>4, <2>3
    <3> QED
      BY <3>2, <3>3, <3>4
  <2>5. u = bufferInit + R * (mb + 1) /\ R * (mb + 1) = R * mb + R /\ R * mb \in Nat
    BY <1>1, <1>3, <1>4
  <2>6. R * (mb + 1) \in Int /\ R * k \in Int
    BY <1>1, <1>4, <2>3
  <2>7. d = T - bufferInit
    BY DEF d
  <2>8. u \in Int /\ u <= T /\ u >= bufferInit /\ u - R >= bufferInit
    BY <1>1, <1>2, <2>3, <2>4, <2>5, <2>6, <2>7
  <2>9. Seek(sector) = 0 /\ ComputeLatency(sector, writing) = R
    BY <1>5, <1>6, <1>11
  <2>10. T <= now + R
    BY <1>1, <1>9, <2>9
  <2>11. u % R = 0 /\ UnderHead(u) = sector % SectorsPerTrack
    BY <1>7
  <2> HIDE DEF u
  <2>12. u \in bufferInit..(now + R)
    BY <1>1, <1>2, <2>8, <2>10
  <2> QED
    BY <1>1, <1>11, <2>8, <2>9, <2>11, <2>12 DEF R
<1>12. CASE ~InTrackBuffer(sector, writing)
  <2>1. ComputeLatency(sector, writing) = Seek(sector) + Rotation(sector) + R + mh * R
    BY <1>6, <1>12
  <2>2. now + ComputeLatency(sector, writing) = R * (h + mh + 1)
    BY <1>1, <1>10, <1>9, <2>1
  <2>3. ComputeLatency(sector, writing) \in Nat
    BY <1>1, <1>10, <2>1
  <2> QED
    BY <1>8, <1>12, <2>2, <2>3 DEF R
<1> QED
  BY <1>11, <1>12

LEMMA DiskInitInv == DiskInit => DiskInv
<1> SUFFICES ASSUME DiskInit PROVE DiskInv
  OBVIOUS
<1>1. 0 \in Sectors
  <2>1. NumTracks * SectorsPerTrack \in Nat \ {0}
    BY DiskAssumption
  <2> QED
    BY <2>1 DEF Sectors
<1>2. DiskShape
  BY <1>1 DEF DiskInit, DiskShape, Out
<1>3. AloneInDriver /\ LatencyIsPhysical
  BY DEF DiskInit, AloneInDriver, LatencyIsPhysical, Out
<1>4. 0 % RotationTime = 0
  <2>1. RotationTime \in Nat \ {0} /\ 0 \in 0..(RotationTime - 1)
    BY DiskAssumption
  <2>2. (RotationTime * 0 + 0) % RotationTime = 0
    BY <2>1, DivModUnique
  <2>3. RotationTime * 0 + 0 = 0
    BY <2>1
  <2> QED
    BY <2>2, <2>3
<1> QED
  BY <1>2, <1>3, <1>4 DEF DiskInit, DiskInv, BufferAligned

\* A request that is accepted: its record, and what becomes of the track buffer.
LEMMA RequestIs ==
  ASSUME DiskInv, NEW t \in Clients, Request(t), request = NoRequest
  PROVE  LET sector  == inDriver[t].sector
             writing == inDriver[t].writing
         IN  /\ sector \in Sectors /\ writing \in BOOLEAN
             /\ request' = [sector |-> sector, writing |-> writing,
                            due |-> now + ComputeLatency(sector, writing),
                            buffered |-> InTrackBuffer(sector, writing)]
             /\ request'.due \in Nat /\ request' # NoRequest
             /\ lastSector' = sector
             /\ bufferInit' \in Nat /\ bufferInit' % RotationTime = 0
             /\ Seek(sector) = 0 => bufferInit' = bufferInit
             /\ inDriver' = [inDriver EXCEPT ![t].at = "wait"]
             /\ inDriver[t].at = "request"
             /\ UNCHANGED <<diskFailed, now, done, overlap>>
<1> DEFINE sector == inDriver[t].sector
           writing == inDriver[t].writing
<1>1. DiskShape /\ BufferAligned /\ sector \in Sectors /\ writing \in BOOLEAN
  BY DEF DiskInv, DiskShape
<1>2. /\ request' = [sector |-> sector, writing |-> writing,
                     due |-> now + ComputeLatency(sector, writing),
                     buffered |-> InTrackBuffer(sector, writing)]
      /\ UpdateLast(sector)
      /\ inDriver' = [inDriver EXCEPT ![t].at = "wait"]
      /\ inDriver[t].at = "request"
      /\ UNCHANGED <<diskFailed, now, done, overlap>>
  BY DEF Request
<1> HIDE DEF sector, writing
<1>3. request'.due \in Nat /\ request' # NoRequest
  <2>1. ComputeLatency(sector, writing) \in Nat /\ now \in Nat
    BY <1>1, LatencyIs DEF DiskShape
  <2>2. request'.due = now + ComputeLatency(sector, writing) /\ request'.sector = sector
    BY <1>2
  <2>3. sector # -1
    BY <1>1 DEF Sectors
  <2> QED
    BY <2>1, <2>2, <2>3 DEF NoRequest
<1>4. /\ lastSector' = sector
      /\ bufferInit' \in Nat /\ bufferInit' % RotationTime = 0
      /\ Seek(sector) = 0 => bufferInit' = bufferInit
  BY <1>1, <1>2, RotationIs DEF UpdateLast, DiskShape, BufferAligned
<1> QED
  BY <1>1, <1>2, <1>3, <1>4 DEF sector, writing

LEMMA DiskShapeStep == DiskInv /\ [DiskNext]_dvars => DiskShape'
<1> SUFFICES ASSUME DiskInv, [DiskNext]_dvars PROVE DiskShape'
  OBVIOUS
<1>1. DiskShape
  BY DEF DiskInv
<1>2. ASSUME NEW t \in Clients, Request(t) PROVE DiskShape'
  <2>1. CASE request # NoRequest
    BY <1>1, <1>2, <2>1 DEF Request, DiskShape
  <2>2. CASE request = NoRequest
    <3> DEFINE sector == inDriver[t].sector
               writing == inDriver[t].writing
    <3>1. /\ sector \in Sectors /\ writing \in BOOLEAN
          /\ request' = [sector |-> sector, writing |-> writing,
                         due |-> now + ComputeLatency(sector, writing),
                         buffered |-> InTrackBuffer(sector, writing)]
          /\ request'.due \in Nat
          /\ lastSector' = sector /\ bufferInit' \in Nat
          /\ inDriver' = [inDriver EXCEPT ![t].at = "wait"]
          /\ UNCHANGED <<diskFailed, now, done, overlap>>
      BY <1>2, <2>2, RequestIs
    <3>2. InTrackBuffer(sector, writing) \in BOOLEAN
      BY DEF InTrackBuffer
    <3> HIDE DEF sector, writing
    <3>3. request' \in [sector : Sectors, writing : BOOLEAN, due : Nat, buffered : BOOLEAN]
      BY <3>1, <3>2
    <3>4. inDriver' \in [Clients -> [at : {"out", "request", "wait"}, sector : Sectors, writing : BOOLEAN]]
          /\ \A u \in Clients : inDriver'[u].at = "out" => inDriver'[u] = Out
      BY <1>1, <3>1 DEF DiskShape
    <3> QED
      BY <1>1, <3>1, <3>3, <3>4 DEF DiskShape
  <2> QED
    BY <2>1, <2>2
<1>3. ASSUME NEW t \in Clients, Answer(t) PROVE DiskShape'
  <2>1. 0 \in Sectors
    BY DiskAssumption, <1>1 DEF DiskShape, Sectors
  <2>2. Out \in [at : {"out", "request", "wait"}, sector : Sectors, writing : BOOLEAN]
    BY <2>1 DEF Out
  <2>3. inDriver' \in [Clients -> [at : {"out", "request", "wait"}, sector : Sectors, writing : BOOLEAN]]
        /\ \A u \in Clients : inDriver'[u].at = "out" => inDriver'[u] = Out
    BY <1>1, <1>3, <2>2 DEF Answer, DiskShape
  <2>4. done' \in Nat
    BY <1>1, <1>3 DEF Answer, DiskShape
  <2> QED
    BY <1>1, <1>3, <2>3, <2>4 DEF Answer, DiskShape
<1>4. ASSUME NEW t \in Clients, NEW s \in Sectors, NEW w \in BOOLEAN, Enter(t, s, w) PROVE DiskShape'
  <2>1. inDriver' \in [Clients -> [at : {"out", "request", "wait"}, sector : Sectors, writing : BOOLEAN]]
        /\ \A u \in Clients : inDriver'[u].at = "out" => inDriver'[u] = Out
    BY <1>1, <1>4 DEF Enter, DiskShape
  <2> QED
    BY <1>1, <1>4, <2>1 DEF Enter, DiskShape
<1>5. CASE HandleInterrupt
  BY <1>1, <1>5 DEF HandleInterrupt, DiskShape
<1>6. CASE Tick
  BY <1>1, <1>6 DEF Tick, DiskShape
<1>7. CASE UNCHANGED dvars
  BY <1>1, <1>7 DEF dvars, DiskShape
<1> QED
  BY <1>2, <1>3, <1>4, <1>5, <1>6, <1>7 DEF DiskNext

LEMMA AloneStep == DiskInv /\ [DiskNext]_dvars => AloneInDriver'
<1> SUFFICES ASSUME DiskInv, [DiskNext]_dvars, ~overlap' PROVE AloneInDriver'
  BY DEF AloneInDriver
<1>1. DiskShape /\ AloneInDriver
  BY DEF DiskInv
<1>2. Out.at = "out"
  BY DEF Out
<1>3. ASSUME NEW t \in Clients, Request(t) PROVE AloneInDriver'
  <2>1. ~overlap /\ inDriver[t] # Out /\ inDriver[t].at # "wait"
    BY <1>3, <1>2 DEF Request
  <2>2. \A u \in Clients : inDriver[u].at = "wait" => FALSE
    BY <1>1, <1>2, <2>1 DEF AloneInDriver
  <2>3. request = NoRequest /\ done = 0
    BY <1>1, <2>1, <2>2 DEF AloneInDriver, DiskShape
  <2>4. request' # NoRequest /\ inDriver' = [inDriver EXCEPT ![t].at = "wait"]
        /\ UNCHANGED <<diskFailed, done, overlap>>
    BY <1>3, <2>3, RequestIs
  <2>5. \A u \in Clients : inDriver'[u] # Out => u = t
    BY <1>1, <2>1, <2>4 DEF AloneInDriver, DiskShape
  <2>6. inDriver'[t].at = "wait"
    BY <1>1, <2>4 DEF DiskShape
  <2> QED
    BY <1>1, <2>1, <2>3, <2>4, <2>5, <2>6 DEF AloneInDriver
<1>4. ASSUME NEW t \in Clients, Answer(t) PROVE AloneInDriver'
  <2>1. ~overlap /\ inDriver[t] # Out /\ inDriver[t].at = "wait" /\ done > 0 /\ done' = done - 1
        /\ inDriver' = [inDriver EXCEPT ![t] = Out] /\ UNCHANGED <<diskFailed, overlap, request>>
    BY <1>4, <1>2 DEF Answer
  <2>2. done + (IF request = NoRequest THEN 0 ELSE 1) = 1 /\ done \in Nat
    BY <1>1, <2>1 DEF AloneInDriver, DiskShape
  <2>3. \A u \in Clients : inDriver'[u] = Out
    BY <1>1, <2>1 DEF AloneInDriver, DiskShape
  <2>4. done' = 0 /\ request' = NoRequest
    BY <2>1, <2>2
  <2>5. ~diskFailed'
    BY <1>1, <2>1 DEF AloneInDriver
  <2> QED
    BY <1>2, <2>3, <2>4, <2>5 DEF AloneInDriver
<1>5. ASSUME NEW t \in Clients, NEW s \in Sectors, NEW w \in BOOLEAN, Enter(t, s, w)
      PROVE  AloneInDriver'
  <2>1. ~overlap /\ (\A u \in Clients : inDriver[u] = Out) /\ UNCHANGED <<diskFailed, done, request>>
        /\ inDriver' = [inDriver EXCEPT ![t] = [at |-> "request", sector |-> s, writing |-> w]]
    BY <1>1, <1>5 DEF Enter, DiskShape
  <2>2. \A u \in Clients : (inDriver'[u] # Out => u = t) /\ inDriver'[u].at # "wait"
    BY <1>1, <1>2, <2>1 DEF DiskShape
  <2>3. done' + (IF request' = NoRequest THEN 0 ELSE 1) = 0 /\ ~diskFailed'
    BY <1>1, <1>2, <2>1 DEF AloneInDriver
  <2> QED
    BY <2>2, <2>3 DEF AloneInDriver
<1>6. CASE HandleInterrupt
  <2>1. done' + (IF request' = NoRequest THEN 0 ELSE 1) = done + (IF request = NoRequest THEN 0 ELSE 1)
    BY <1>1, <1>6 DEF HandleInterrupt, DiskShape
  <2> QED
    BY <1>1, <1>6, <2>1 DEF HandleInterrupt, AloneInDriver
<1>7. CASE Tick
  BY <1>1, <1>7 DEF Tick, AloneInDriver
<1>8. CASE UNCHANGED dvars
  BY <1>1, <1>8 DEF dvars, AloneInDriver
<1> QED
  BY <1>3, <1>4, <1>5, <1>6, <1>7, <1>8 DEF DiskNext

\* While a request is under way neither it nor the track buffer changes.
LEMMA PhysicalStep == DiskInv /\ [DiskNext]_dvars => BufferAligned' /\ LatencyIsPhysical'
<1> SUFFICES ASSUME DiskInv, [DiskNext]_dvars PROVE BufferAligned' /\ LatencyIsPhysical'
  OBVIOUS
<1>1. DiskShape /\ BufferAligned /\ LatencyIsPhysical
  BY DEF DiskInv
<1>2. CASE bufferInit' = bufferInit /\ (request' = request \/ request' = NoRequest)
  BY <1>1, <1>2 DEF BufferAligned, LatencyIsPhysical, UnderHead
<1>3. ASSUME NEW t \in Clients, Request(t) PROVE BufferAligned' /\ LatencyIsPhysical'
  <2>1. CASE request # NoRequest
    BY <1>2, <1>3, <2>1 DEF Request
  <2>2. CASE request = NoRequest
    <3> DEFINE sector == inDriver[t].sector
               writing == inDriver[t].writing
               due == now + ComputeLatency(sector, writing)
    <3>1. /\ sector \in Sectors /\ writing \in BOOLEAN
          /\ request' = [sector |-> sector, writing |-> writing, due |-> due,
                         buffered |-> InTrackBuffer(sector, writing)]
          /\ bufferInit' % RotationTime = 0
          /\ Seek(sector) = 0 => bufferInit' = bufferInit
      BY <1>3, <2>2, RequestIs
    <3>2. /\ InTrackBuffer(sector, writing) =>
               /\ Seek(sector) = 0
               /\ \E u \in bufferInit..due :
                    /\ u % RotationTime = 0 /\ u - RotationTime >= bufferInit
                    /\ UnderHead(u) = sector % SectorsPerTrack
          /\ ~InTrackBuffer(sector, writing) =>
               due % RotationTime = 0 /\ UnderHead(due) = sector % SectorsPerTrack
      BY <1>1, <3>1, LatencyIs
    <3> HIDE DEF sector, writing, due
    <3>3. request'.sector = sector /\ request'.due = due
          /\ request'.buffered = InTrackBuffer(sector, writing)
      BY <3>1
    <3> QED
      BY <3>1, <3>2, <3>3 DEF BufferAligned, LatencyIsPhysical, UnderHead
  <2> QED
    BY <2>1, <2>2
<1> QED
  BY <1>2, <1>3 DEF DiskNext, Answer, Enter, HandleInterrupt, Tick, dvars

\* SynchDisk::ReadSector and WriteSector over Disk::ComputeLatency: a thread alone
\* in the driver never fails the disk's ASSERT and gets the one answer it waits
\* for, and the time a request takes is that of a turning disk, for any geometry
\* and any number of threads.
THEOREM DiskIsSafe == DiskSpec => []DiskSafe
<1>1. DiskSpec => []DiskInv
  <2>1. DiskInv /\ [DiskNext]_dvars => DiskInv'
    BY DiskShapeStep, AloneStep, PhysicalStep DEF DiskInv
  <2> QED
    BY <2>1, DiskInitInv, PTL DEF DiskSpec
<1>2. DiskInv => DiskTypeOK
  BY DEF DiskInv, DiskShape, DiskTypeOK
<1>3. DiskInv => AloneIsSafe
  <2> SUFFICES ASSUME DiskInv, ~overlap
               PROVE  ~diskFailed /\ Cardinality(Waiting) = done + (IF request = NoRequest THEN 0 ELSE 1)
    BY DEF AloneIsSafe
  <2>1. DiskShape /\ AloneInDriver /\ Out.at = "out"
    BY DEF DiskInv, Out
  <2>2. CASE \E t \in Clients : inDriver[t].at = "wait"
    <3>1. PICK t \in Clients : inDriver[t].at = "wait"
      BY <2>2
    <3>2. Waiting = {t}
      BY <2>1, <3>1 DEF Waiting, AloneInDriver
    <3>3. Cardinality(Waiting) = 1
      BY <3>2, FS_Singleton
    <3> QED
      BY <2>1, <2>2, <3>3 DEF AloneInDriver
  <2>3. CASE ~ \E t \in Clients : inDriver[t].at = "wait"
    <3>1. Waiting = {}
      BY <2>3 DEF Waiting
    <3>2. Cardinality(Waiting) = 0
      BY <3>1, FS_EmptySet
    <3> QED
      BY <2>1, <2>3, <3>2 DEF AloneInDriver
  <2> QED
    BY <2>2, <2>3
<1>4. DiskInv => DiskSafe
  BY <1>2, <1>3 DEF DiskInv, DiskSafe
<1> QED
  BY <1>1, <1>4, PTL

-------------------------------------------------------------------------------
(* The post office *)

\* The mails of s were sent in this order, and before mail n.
Ordered(s) == \A i, j \in DOMAIN s : i < j => s[i].no < s[j].no
Before(s, n) == \A i \in DOMAIN s : s[i].no < n

\* On its way from the socket through the network's buffer to a box no mail
\* overtakes another.
Flow(m) ==
  /\ Ordered(socket[m]) /\ Before(socket[m], posted + 1)
  /\ \A b \in Boxes : Ordered(arrived[m][b]) /\ Before(arrived[m][b], posted + 1)
  /\ \A b \in Boxes : \A i \in DOMAIN socket[m] : Before(arrived[m][b], socket[m][i].no)
  /\ inHdr[m] # NoMail =>
       /\ inHdr[m].no <= posted
       /\ \A i \in DOMAIN socket[m] : inHdr[m].no < socket[m][i].no
       /\ \A b \in Boxes : Before(arrived[m][b], inHdr[m].no)

FlowInOrder == \A m \in Machines : Flow(m)

MailInv == PostTypeOK /\ SendersAnswered /\ BufferAnnounced /\ FlowInOrder

LEMMA MailNo ==
  /\ \A mail \in Mail : mail.no \in 1..MaxMail /\ mail.by \in Senders /\ mail.box \in Boxes
  /\ NoMail \notin Mail
BY PostAssumption DEF Mail, NoMail

\* What putting at the end and taking from the front do to an ordered sequence.
LEMMA AppendMail ==
  ASSUME NEW s \in Seq(Mail), NEW mail \in Mail
  PROVE  /\ Append(s, mail) \in Seq(Mail)
         /\ Ordered(s) /\ Before(s, mail.no) => Ordered(Append(s, mail))
         /\ \A n : Before(s, n) /\ mail.no < n => Before(Append(s, mail), n)
         /\ \A i \in DOMAIN Append(s, mail) :
              Append(s, mail)[i] = mail \/ (i \in DOMAIN s /\ Append(s, mail)[i] = s[i])
<1>1. /\ Append(s, mail) \in Seq(Mail) /\ Len(s) \in Nat /\ DOMAIN s = 1..Len(s)
      /\ DOMAIN Append(s, mail) = 1..(Len(s) + 1)
      /\ \A i \in 1..Len(s) : Append(s, mail)[i] = s[i]
      /\ Append(s, mail)[Len(s) + 1] = mail
  OBVIOUS
<1>2. ASSUME Ordered(s), Before(s, mail.no) PROVE Ordered(Append(s, mail))
  <2> SUFFICES ASSUME NEW i \in 1..(Len(s) + 1), NEW j \in 1..(Len(s) + 1), i < j
               PROVE  Append(s, mail)[i].no < Append(s, mail)[j].no
    BY <1>1 DEF Ordered
  <2>1. i \in 1..Len(s) /\ Append(s, mail)[i] = s[i]
    BY <1>1
  <2>2. CASE j \in 1..Len(s)
    <3>1. Append(s, mail)[j] = s[j]
      BY <1>1, <2>2
    <3> QED
      BY <1>1, <1>2, <2>1, <2>2, <3>1 DEF Ordered
  <2>3. CASE j = Len(s) + 1
    <3>1. Append(s, mail)[j] = mail
      BY <1>1, <2>3
    <3> QED
      BY <1>1, <1>2, <2>1, <3>1 DEF Before
  <2> QED
    BY <1>1, <2>2, <2>3
<1>3. ASSUME NEW n, Before(s, n), mail.no < n PROVE Before(Append(s, mail), n)
  BY <1>1, <1>3 DEF Before
<1> QED
  BY <1>1, <1>2, <1>3

LEMMA TailMail ==
  ASSUME NEW s \in Seq(Mail), s # <<>>
  PROVE  /\ Tail(s) \in Seq(Mail) /\ Head(s) \in Mail
         /\ Ordered(s) => /\ Ordered(Tail(s))
                          /\ \A i \in DOMAIN Tail(s) : Head(s).no < Tail(s)[i].no
         /\ \A n : Before(s, n) => Before(Tail(s), n) /\ Head(s).no < n
         /\ \A i \in DOMAIN Tail(s) : \E j \in DOMAIN s : Tail(s)[i] = s[j]
         /\ \E j \in DOMAIN s : Head(s) = s[j]
<1>1. /\ Tail(s) \in Seq(Mail) /\ Len(s) \in Nat \ {0} /\ DOMAIN s = 1..Len(s)
      /\ DOMAIN Tail(s) = 1..(Len(s) - 1)
      /\ \A i \in 1..(Len(s) - 1) : Tail(s)[i] = s[i + 1]
      /\ Head(s) = s[1] /\ s[1] \in Mail
  OBVIOUS
<1>2. ASSUME Ordered(s)
      PROVE  Ordered(Tail(s)) /\ \A i \in DOMAIN Tail(s) : Head(s).no < Tail(s)[i].no
  BY <1>1, <1>2 DEF Ordered
<1>3. ASSUME NEW n, Before(s, n) PROVE Before(Tail(s), n) /\ Head(s).no < n
  BY <1>1, <1>3 DEF Before
<1> QED
  BY <1>1, <1>2, <1>3

LEMMA MailInitInv == PostInit => MailInv
<1> SUFFICES ASSUME PostInit PROVE MailInv
  OBVIOUS
<1> USE PostAssumption DEF PostInit
<1>1. PostTypeOK
  BY DEF PostTypeOK
<1>2. SendersAnswered
  <2> SUFFICES ASSUME NEW m \in Machines
               PROVE  Cardinality({t \in awaiting : Home[t] = m}) = sendDone[m] + sent[m]
    BY DEF SendersAnswered
  <2>1. {t \in awaiting : Home[t] = m} = {}
    OBVIOUS
  <2> QED
    BY <2>1, FS_EmptySet
<1>3. BufferAnnounced
  BY DEF BufferAnnounced
<1>4. FlowInOrder
  BY DEF FlowInOrder, Flow, Ordered, Before
<1> QED
  BY <1>1, <1>2, <1>3, <1>4 DEF MailInv

\* The types, for each kind of step.
LEMMA MailTypeStep == MailInv /\ [PostNext]_pvars => PostTypeOK'
<1> SUFFICES ASSUME MailInv, [PostNext]_pvars PROVE PostTypeOK'
  OBVIOUS
<1> USE PostAssumption DEF PostTypeOK
<1>1. PostTypeOK /\ BufferAnnounced
  BY DEF MailInv
<1>2. ASSUME NEW m \in Machines, Stop(m) PROVE PostTypeOK'
  BY <1>1, <1>2 DEF Stop, DeAssignNameToSocket, Forget, CloseSocket
<1>3. ASSUME NEW m \in Machines, Start(m) PROVE PostTypeOK'
  BY <1>1, <1>3 DEF Start, AssignNameToSocket
<1>4. ASSUME NEW m \in Machines, SendDone(m) PROVE PostTypeOK'
  BY <1>1, <1>4 DEF SendDone
<1>5. ASSUME NEW m \in Machines, CheckPktAvail(m) PROVE PostTypeOK'
  <2>1. Head(socket[m]) \in Mail /\ Tail(socket[m]) \in Seq(Mail)
    BY <1>1, <1>5, TailMail DEF CheckPktAvail, PollSocket
  <2> QED
    BY <1>1, <1>5, <2>1 DEF CheckPktAvail, ReadFromSocket
<1>6. ASSUME NEW m \in Machines, AwaitMail(m) PROVE PostTypeOK'
  BY <1>1, <1>6 DEF AwaitMail
<1>7. ASSUME NEW m \in Machines, Deliver(m) PROVE PostTypeOK'
  <2>1. inHdr[m] \in Mail
    BY <1>1, <1>7 DEF Deliver, BufferAnnounced
  <2>2. inHdr[m].box \in Boxes
    BY <2>1, MailNo
  <2>3. /\ Append(boxes[m][inHdr[m].box], inHdr[m]) \in Seq(Mail)
        /\ Append(arrived[m][inHdr[m].box], inHdr[m]) \in Seq(Mail)
    BY <1>1, <2>1, <2>2, AppendMail
  <2> QED
    BY <1>1, <1>7, <2>2, <2>3 DEF Deliver, Put
<1>8. ASSUME NEW m \in Machines, NEW b \in Boxes, Receive(m, b) PROVE PostTypeOK'
  <2>1. Tail(boxes[m][b]) \in Seq(Mail)
    BY <1>1, <1>8, TailMail DEF Receive
  <2> QED
    BY <1>1, <1>8, <2>1 DEF Receive, Get
<1>9. ASSUME NEW t \in Senders, Sent(t) PROVE PostTypeOK'
  BY <1>1, <1>9 DEF Sent
<1>10. ASSUME NEW t \in Senders, NEW m \in Machines, NEW b \in Boxes, NEW lost \in BOOLEAN,
             Send(t, m, b, lost)
      PROVE  PostTypeOK'
  <2> DEFINE mail == [by |-> t, no |-> posted + 1, box |-> b]
  <2>1. mail \in Mail
    BY <1>1, <1>10 DEF Send, Mail
  <2>2. Append(socket[m], mail) \in Seq(Mail)
    BY <1>1, <2>1, AppendMail
  <2> HIDE DEF mail
  <2>3. socket' \in [Machines -> Seq(Mail)]
    BY <1>1, <1>10, <2>2 DEF Send, NetworkSend, SendToSocket, mail
  <2>4. sendDone' = [sendDone EXCEPT ![Home[t]] = @ + 1]
    BY <1>10 DEF Send, NetworkSend
  <2>5. sendDone' \in [Machines -> Nat]
    BY <1>1, <2>4
  <2>6. posted' \in 0..MaxMail /\ awaiting' \subseteq Senders
    BY <1>1, <1>10 DEF Send
  <2> QED
    BY <1>1, <1>10, <2>3, <2>5, <2>6 DEF Send
<1>11. CASE UNCHANGED pvars
  BY <1>1, <1>11 DEF pvars
<1> QED
  BY <1>2, <1>3, <1>4, <1>5, <1>6, <1>7, <1>8, <1>9, <1>10, <1>11
  DEF PostNext, Runs, ReceiveTooEarly, SendToNobody

\* A sender that begins or ends its wait is one more or one less of those whose
\* interrupts and Vs are counted.
LEMMA AnsweredStep == MailInv /\ [PostNext]_pvars => SendersAnswered'
<1> SUFFICES ASSUME MailInv, [PostNext]_pvars, NEW n \in Machines
             PROVE  Cardinality({t \in awaiting' : Home[t] = n}) = sendDone'[n] + sent'[n]
  BY DEF SendersAnswered
<1> DEFINE W == {t \in awaiting : Home[t] = n}
           V == {t \in awaiting' : Home[t] = n}
<1> USE PostAssumption
<1>1. PostTypeOK /\ sendDone[n] \in Nat /\ sent[n] \in Nat /\ Cardinality(W) = sendDone[n] + sent[n]
  BY DEF MailInv, PostTypeOK, SendersAnswered
<1>2. IsFiniteSet(W)
  <2>1. W \subseteq Senders
    BY <1>1 DEF PostTypeOK
  <2> QED
    BY <2>1, FS_Subset
<1>3. ASSUME V = W, sendDone'[n] + sent'[n] = sendDone[n] + sent[n]
      PROVE  Cardinality(V) = sendDone'[n] + sent'[n]
  BY <1>1, <1>3
<1>4. ASSUME NEW m \in Machines, Stop(m) PROVE Cardinality(V) = sendDone'[n] + sent'[n]
  <2>1. CASE n = m
    <3>1. V = {}
      BY <1>4, <2>1 DEF Stop, Forget
    <3>2. sendDone'[n] = 0 /\ sent'[n] = 0
      BY <1>1, <1>4, <2>1 DEF Stop, Forget, PostTypeOK
    <3> QED
      BY <3>1, <3>2, FS_EmptySet
  <2>2. CASE n # m
    BY <1>1, <1>4, <2>2 DEF Stop, Forget, PostTypeOK
  <2> QED
    BY <2>1, <2>2
<1>5. ASSUME NEW m \in Machines, SendDone(m) PROVE Cardinality(V) = sendDone'[n] + sent'[n]
  <2>1. awaiting' = awaiting /\ sendDone[m] > 0
        /\ sendDone' = [sendDone EXCEPT ![m] = @ - 1] /\ sent' = [sent EXCEPT ![m] = @ + 1]
    BY <1>5 DEF SendDone
  <2>2. sendDone \in [Machines -> Nat] /\ sent \in [Machines -> Nat]
    BY <1>1 DEF PostTypeOK
  <2>3. sendDone'[n] + sent'[n] = sendDone[n] + sent[n]
    BY <2>1, <2>2
  <2> QED
    BY <1>3, <2>1, <2>3
<1>6. ASSUME NEW t \in Senders, Sent(t) PROVE Cardinality(V) = sendDone'[n] + sent'[n]
  <2>1. t \in awaiting /\ awaiting' = awaiting \ {t} /\ sent[Home[t]] > 0
        /\ sent' = [sent EXCEPT ![Home[t]] = @ - 1] /\ sendDone' = sendDone
    BY <1>6 DEF Sent
  <2>2. sent \in [Machines -> Nat]
    BY <1>1 DEF PostTypeOK
  <2>3. CASE Home[t] = n
    <3>1. V = W \ {t} /\ t \in W
      BY <2>1, <2>3
    <3>2. sent'[n] = sent[n] - 1
      BY <2>1, <2>2, <2>3
    <3> HIDE DEF V, W
    <3>3. Cardinality(V) = Cardinality(W) - 1
      BY <1>2, <3>1, FS_RemoveElement
    <3> QED
      BY <1>1, <2>1, <3>2, <3>3
  <2>4. CASE Home[t] # n
    BY <1>3, <2>1, <2>2, <2>4
  <2> QED
    BY <2>3, <2>4
<1>7. ASSUME NEW t \in Senders, NEW m \in Machines, NEW b \in Boxes, NEW lost \in BOOLEAN,
             Send(t, m, b, lost)
      PROVE  Cardinality(V) = sendDone'[n] + sent'[n]
  <2>1. t \notin awaiting /\ awaiting' = awaiting \cup {t} /\ sent' = sent
        /\ sendDone' = [sendDone EXCEPT ![Home[t]] = @ + 1]
    BY <1>7 DEF Send, NetworkSend
  <2>2. sendDone \in [Machines -> Nat]
    BY <1>1 DEF PostTypeOK
  <2>3. CASE Home[t] = n
    <3>1. V = W \cup {t} /\ t \notin W
      BY <2>1, <2>3
    <3>2. sendDone'[n] = sendDone[n] + 1
      BY <2>1, <2>2, <2>3
    <3> HIDE DEF V, W
    <3>3. Cardinality(V) = Cardinality(W) + 1
      BY <1>2, <3>1, FS_AddElement
    <3> QED
      BY <1>1, <2>1, <3>2, <3>3
  <2>4. CASE Home[t] # n
    BY <1>3, <2>1, <2>2, <2>4
  <2> QED
    BY <2>3, <2>4
<1>8. CASE UNCHANGED <<awaiting, sent, sendDone>>
  BY <1>3, <1>8
<1> QED
  BY <1>4, <1>5, <1>6, <1>7, <1>8
  DEF PostNext, Runs, ReceiveTooEarly, SendToNobody, Start, CheckPktAvail, AwaitMail, Deliver,
      Receive, pvars

\* The buffer and what the worker was told of it, machine by machine.
LEMMA BufferStep == MailInv /\ [PostNext]_pvars => BufferAnnounced'
<1> SUFFICES ASSUME MailInv, [PostNext]_pvars, NEW n \in Machines
             PROVE  available'[n] + (IF n \in delivering' THEN 1 ELSE 0)
                      = IF inHdr'[n] = NoMail THEN 0 ELSE 1
  BY DEF BufferAnnounced
<1> DEFINE Announced == available'[n] + (IF n \in delivering' THEN 1 ELSE 0)
                          = IF inHdr'[n] = NoMail THEN 0 ELSE 1
<1> SUFFICES Announced
  OBVIOUS
<1>1. /\ PostTypeOK
      /\ available \in [Machines -> Nat] /\ inHdr \in [Machines -> Mail \cup {NoMail}]
      /\ available[n] + (IF n \in delivering THEN 1 ELSE 0) = IF inHdr[n] = NoMail THEN 0 ELSE 1
  BY DEF MailInv, PostTypeOK, BufferAnnounced
<1>2. ASSUME NEW m \in Machines, Stop(m) PROVE Announced
  BY <1>1, <1>2 DEF Stop, Forget
<1>3. ASSUME NEW m \in Machines, CheckPktAvail(m) PROVE Announced
  <2>1. Head(socket[m]) # NoMail
    BY <1>1, <1>3, TailMail, MailNo DEF CheckPktAvail, PollSocket, PostTypeOK
  <2>2. inHdr' = [inHdr EXCEPT ![m] = Head(socket[m])] /\ inHdr[m] = NoMail
        /\ available' = [available EXCEPT ![m] = @ + 1] /\ delivering' = delivering
    BY <1>3 DEF CheckPktAvail, ReadFromSocket
  <2> QED
    BY <1>1, <2>1, <2>2
<1>4. ASSUME NEW m \in Machines, AwaitMail(m) PROVE Announced
  BY <1>1, <1>4 DEF AwaitMail
<1>5. ASSUME NEW m \in Machines, Deliver(m) PROVE Announced
  <2>1. available[m] + 1 = (IF inHdr[m] = NoMail THEN 0 ELSE 1) /\ available[m] \in Nat
    BY <1>1, <1>5 DEF Deliver, MailInv, BufferAnnounced
  <2>2. available[m] = 0
    BY <2>1
  <2> QED
    BY <1>1, <1>5, <2>2 DEF Deliver
<1>6. CASE UNCHANGED <<available, delivering, inHdr>>
  BY <1>1, <1>6
<1> HIDE DEF Announced
<1> QED
  BY PostAssumption, <1>2, <1>3, <1>4, <1>5, <1>6
  DEF PostNext, Runs, ReceiveTooEarly, SendToNobody, Start, SendDone, Sent, Send, Receive, pvars

\* A mail is put in the socket after all those sent before it, and moves on only
\* when the next place holds none but earlier ones.
LEMMA FlowStep == MailInv /\ [PostNext]_pvars => FlowInOrder'
<1> SUFFICES ASSUME MailInv, [PostNext]_pvars, NEW n \in Machines PROVE Flow(n)'
  BY DEF FlowInOrder
<1> USE PostAssumption
<1>1. PostTypeOK /\ Flow(n) /\ posted \in Nat /\ socket[n] \in Seq(Mail)
      /\ inHdr[n] \in Mail \cup {NoMail}
      /\ \A b \in Boxes : arrived[n][b] \in Seq(Mail)
  BY DEF MailInv, FlowInOrder, PostTypeOK
<1>2. ASSUME socket'[n] = socket[n], inHdr'[n] = inHdr[n], arrived'[n] = arrived[n],
             posted' = posted
      PROVE  Flow(n)'
  BY <1>1, <1>2 DEF Flow
<1>3. ASSUME NEW m \in Machines, Stop(m) PROVE Flow(n)'
  <2>1. CASE n = m
    <3>1. socket'[n] = <<>> /\ inHdr'[n] = NoMail /\ \A b \in Boxes : arrived'[n][b] = <<>>
      BY <1>1, <1>3, <2>1 DEF Stop, Forget, CloseSocket, PostTypeOK
    <3> QED
      BY <3>1 DEF Flow, Ordered, Before
  <2>2. CASE n # m
    BY <1>1, <1>3, <1>2, <2>2 DEF Stop, Forget, CloseSocket, PostTypeOK
  <2> QED
    BY <2>1, <2>2
<1>4. ASSUME NEW t \in Senders, NEW m \in Machines, NEW b \in Boxes, NEW lost \in BOOLEAN,
             Send(t, m, b, lost)
      PROVE  Flow(n)'
  <2> DEFINE mail == [by |-> t, no |-> posted + 1, box |-> b]
  <2>1. mail \in Mail /\ mail.no = posted + 1
    BY <1>1, <1>4 DEF Send, Mail, PostTypeOK
  <2>2. inHdr' = inHdr /\ arrived' = arrived /\ posted' = posted + 1
    BY <1>4 DEF Send
  <2>3. socket'[n] = socket[n] \/ socket'[n] = Append(socket[n], mail)
    BY <1>1, <1>4 DEF Send, NetworkSend, SendToSocket, PostTypeOK
  <2> HIDE DEF mail
  <2>4. ASSUME NEW s \in Seq(Mail), Before(s, posted + 1) PROVE Before(s, posted + 2)
    <3> SUFFICES ASSUME NEW i \in DOMAIN s PROVE s[i].no < posted + 2
      BY DEF Before
    <3>1. s[i].no \in Nat
      BY MailNo
    <3> QED
      BY <1>1, <2>4, <3>1 DEF Before
  <2>5. \A c \in Boxes : Ordered(arrived'[n][c]) /\ Before(arrived'[n][c], posted' + 1)
    BY <1>1, <2>2, <2>4 DEF Flow
  <2>6. Ordered(socket'[n]) /\ Before(socket'[n], posted' + 1)
    <3>1. Ordered(socket[n]) /\ Before(socket[n], posted + 1) /\ Before(socket[n], posted + 2)
      BY <1>1, <2>4 DEF Flow
    <3>2. /\ Ordered(Append(socket[n], mail))
          /\ posted + 1 < posted + 2 => Before(Append(socket[n], mail), posted + 2)
      BY <1>1, <2>1, <3>1, AppendMail
    <3>3. posted + 1 < posted + 2 /\ posted' + 1 = posted + 2
      BY <1>1, <2>2
    <3> QED
      BY <2>3, <3>1, <3>2, <3>3
  <2>7. \A i \in DOMAIN socket'[n] :
          socket'[n][i] = mail \/ (i \in DOMAIN socket[n] /\ socket'[n][i] = socket[n][i])
    BY <1>1, <2>1, <2>3, AppendMail
  <2>8. \A c \in Boxes : \A i \in DOMAIN socket'[n] : Before(arrived'[n][c], socket'[n][i].no)
    BY <1>1, <2>1, <2>2, <2>7 DEF Flow
  <2>9. inHdr'[n] # NoMail =>
           /\ inHdr'[n].no <= posted'
           /\ \A i \in DOMAIN socket'[n] : inHdr'[n].no < socket'[n][i].no
           /\ \A c \in Boxes : Before(arrived'[n][c], inHdr'[n].no)
    <3> SUFFICES ASSUME inHdr[n] # NoMail
                 PROVE  /\ inHdr[n].no <= posted + 1
                        /\ \A i \in DOMAIN socket'[n] : inHdr[n].no < socket'[n][i].no
                        /\ \A c \in Boxes : Before(arrived[n][c], inHdr[n].no)
      BY <2>2
    <3>1. inHdr[n].no \in Nat
      BY <1>1, MailNo
    <3>2. inHdr[n].no <= posted /\ (\A i \in DOMAIN socket[n] : inHdr[n].no < socket[n][i].no)
          /\ \A c \in Boxes : Before(arrived[n][c], inHdr[n].no)
      BY <1>1 DEF Flow
    <3> QED
      BY <1>1, <2>1, <2>7, <3>1, <3>2
  <2> QED
    BY <2>5, <2>6, <2>8, <2>9 DEF Flow
<1>5. ASSUME NEW m \in Machines, CheckPktAvail(m) PROVE Flow(n)'
  <2>1. CASE n # m
    BY <1>1, <1>5, <1>2, <2>1 DEF CheckPktAvail, ReadFromSocket, PostTypeOK
  <2>2. CASE n = m
    <3>1. socket[n] # <<>> /\ inHdr'[n] = Head(socket[n]) /\ socket'[n] = Tail(socket[n])
          /\ arrived' = arrived /\ posted' = posted
      BY <1>1, <1>5, <2>2 DEF CheckPktAvail, ReadFromSocket, PollSocket, PostTypeOK
    <3> DEFINE first == Head(socket[n])
               rest == Tail(socket[n])
    <3>2. /\ Ordered(rest) /\ Before(rest, posted + 1) /\ first.no < posted + 1
          /\ \A i \in DOMAIN rest : first.no < rest[i].no
          /\ first \in Mail
      BY <1>1, <3>1, TailMail DEF Flow
    <3>3. \A c \in Boxes : Before(arrived[n][c], first.no)
      BY <1>1, <3>1, TailMail DEF Flow
    <3>4. \A c \in Boxes : \A i \in DOMAIN rest : Before(arrived[n][c], rest[i].no)
      BY <1>1, <3>1, TailMail DEF Flow
    <3>5. first.no <= posted
      BY <1>1, <3>2, MailNo
    <3> HIDE DEF first, rest
    <3>6. inHdr'[n] = first /\ socket'[n] = rest
      BY <3>1 DEF first, rest
    <3> QED
      BY <1>1, <3>1, <3>2, <3>3, <3>4, <3>5, <3>6 DEF Flow
  <2> QED
    BY <2>1, <2>2
<1>6. ASSUME NEW m \in Machines, Deliver(m) PROVE Flow(n)'
  <2>1. CASE n # m
    <3>1. arrived'[n] = arrived[n]
      BY <1>1, <1>6, <2>1 DEF Deliver, Put, PostTypeOK
    <3> QED
      BY <1>1, <1>6, <1>2, <2>1, <3>1 DEF Deliver, PostTypeOK
  <2>2. CASE n = m
    <3> DEFINE mail == inHdr[n]
               to == inHdr[n].box
    <3>1. mail \in Mail /\ mail # NoMail
      <4>1. available[n] \in Nat /\ available[n] + 1 = IF inHdr[n] = NoMail THEN 0 ELSE 1
        BY <1>1, <1>6, <2>2 DEF Deliver, MailInv, BufferAnnounced, PostTypeOK
      <4> QED
        BY <1>1, <4>1
    <3>2. to \in Boxes
      BY <3>1, MailNo
    <3>3. /\ inHdr'[n] = NoMail /\ socket' = socket /\ posted' = posted
          /\ arrived'[n] = [arrived[n] EXCEPT ![to] = Append(@, mail)]
      BY <1>1, <1>6, <2>2 DEF Deliver, Put, PostTypeOK
    <3>4. ASSUME NEW c \in Boxes
          PROVE  arrived'[n][c] = IF c = to THEN Append(arrived[n][c], mail) ELSE arrived[n][c]
      BY <1>1, <3>2, <3>3 DEF PostTypeOK
    <3>5. /\ mail.no <= posted /\ mail.no \in Nat
          /\ \A i \in DOMAIN socket[n] : mail.no < socket[n][i].no
          /\ \A c \in Boxes : Before(arrived[n][c], mail.no)
      BY <1>1, <3>1, MailNo DEF Flow
    <3>6. mail.no < posted + 1
      BY <1>1, <3>5
    <3> HIDE DEF mail, to
    <3>7. \A c \in Boxes : Ordered(arrived'[n][c]) /\ Before(arrived'[n][c], posted + 1)
      BY <1>1, <3>1, <3>4, <3>5, <3>6, AppendMail DEF Flow
    <3>8. \A c \in Boxes : \A i \in DOMAIN socket[n] : Before(arrived'[n][c], socket[n][i].no)
      BY <1>1, <3>1, <3>4, <3>5, AppendMail DEF Flow
    <3> QED
      BY <1>1, <3>3, <3>7, <3>8 DEF Flow
  <2> QED
    BY <2>1, <2>2
<1>7. CASE UNCHANGED <<socket, inHdr, arrived, posted>>
  BY <1>7, <1>2
<1> QED
  BY <1>3, <1>4, <1>5, <1>6, <1>7
  DEF PostNext, Runs, ReceiveTooEarly, SendToNobody, Start, SendDone, AwaitMail, Sent, Receive,
      Get, pvars

\* PostOffice::Send, PostalDelivery, Receive and the network beneath them: every
\* sender that waits is answered, the buffer is never taken from empty, and what
\* a sender sends to a box arrives at most once and in order.
THEOREM MailIsSafe == PostSpec => []MailSafe
<1>1. PostSpec => []MailInv
  <2>1. MailInv /\ [PostNext]_pvars => MailInv'
    BY MailTypeStep, AnsweredStep, BufferStep, FlowStep DEF MailInv
  <2> QED
    BY <2>1, MailInitInv, PTL DEF PostSpec
<1>2. FlowInOrder => InOrderOnce
  BY DEF FlowInOrder, Flow, Ordered, InOrderOnce
<1>3. MailInv => MailSafe
  BY <1>2 DEF MailInv, MailSafe
<1> QED
  BY <1>1, <1>3, PTL

-------------------------------------------------------------------------------
(* The clock *)

Interrupts == [when : Nat, type : Devices]

Elements(s) == {s[i] : i \in DOMAIN s}
InTimeOrder(s) == \A i, j \in DOMAIN s : i <= j => s[i].when <= s[j].when
OnePerDevice(s) == \A i, j \in DOMAIN s : s[i].type = s[j].type => i = j

\* How late an interrupt can be: while threads run none is due but the timer, at
\* this very moment; in OneTick none is due for longer than the tick; and Idle
\* has not gone past any.
NotLate(e) ==
  /\ doing \in {"run", "idle"} =>
       e.when > totalTicks \/ (e.type = Timer /\ e.when = totalTicks)
  /\ doing = "due" =>
       e.when + SystemTick > totalTicks \/ (e.type = Timer /\ e.when + SystemTick = totalTicks)
  /\ doing = "woken" => e.when >= totalTicks

\* The list of interrupts to come.
PendingInv ==
  /\ InTimeOrder(pending) /\ OnePerDevice(pending)
  /\ \A t \in Devices : t \in awaited <=> \E e \in Elements(pending) : e.type = t
  /\ \A e \in Elements(pending) : last.when <= e.when /\ NotLate(e)

LastInv ==
  /\ last.when <= last.at /\ last.at <= totalTicks
  /\ last.at < last.when + SystemTick \/ (last.type = Timer /\ last.at = last.when + SystemTick)

ModeInv ==
  /\ doing \in {"run", "due"} => status \in {"user", "system"}
  /\ doing \in {"idle", "woken"} => status = "idle"

ClockInv == ClockTypeOK /\ PendingInv /\ LastInv /\ ModeInv /\ HaltsWhenDone

LEMMA DelaysIs == Delays \subseteq Nat \ {0} /\ UserTick \in Nat \ {0} /\ SystemTick \in Nat \ {0} /\ UserTick <= SystemTick
BY ClockAssumption

\* What List::SortedInsert does to the list.
LEMMA InsertIs ==
  ASSUME NEW s \in Seq(Interrupts), NEW e \in Interrupts
  PROVE  LET r == SortedInsert(s, e)
         IN  /\ r \in Seq(Interrupts)
             /\ Elements(r) = Elements(s) \cup {e}
             /\ InTimeOrder(s) => InTimeOrder(r)
             /\ OnePerDevice(s) /\ (\A f \in Elements(s) : f.type # e.type) => OnePerDevice(r)
<1> DEFINE later == {i \in DOMAIN s : e.when < s[i].when}
           p == IF later = {} THEN Len(s) + 1 ELSE CHOOSE i \in later : \A j \in later : i <= j
           n == Len(s)
           r == SortedInsert(s, e)
<1>1. n \in Nat /\ DOMAIN s = 1..n /\ (\A i \in 1..n : s[i] \in Interrupts)
  OBVIOUS
<1>2. \A x \in Interrupts : x.when \in Nat
  BY DEF Interrupts
<1>3. /\ p \in 1..(n + 1)
      /\ p \in 1..n => e.when < s[p].when
      /\ \A i \in 1..n : i < p => ~(e.when < s[i].when)
  <2>1. CASE later = {}
    BY <1>1, <2>1
  <2>2. CASE later # {}
    <3>1. later \in SUBSET Nat
      BY <1>1
    <3>2. \E i \in later : \A j \in later : i <= j
      <4> HIDE DEF later
      <4> QED
        BY <2>2, <3>1, LeastNatural
    <3>3. p \in later /\ \A j \in later : p <= j
      <4> HIDE DEF later
      <4> QED
        BY <2>2, <3>2
    <3> HIDE DEF p
    <3>4. \A i \in 1..n : i < p => i \notin later
      BY <1>1, <3>3
    <3> QED
      BY <1>1, <3>3, <3>4
  <2> QED
    BY <2>1, <2>2
<1>4. r = [i \in 1..(n + 1) |-> IF i < p THEN s[i] ELSE IF i = p THEN e ELSE s[i - 1]]
  BY DEF SortedInsert
<1> HIDE DEF later, p, n, r
<1>5. \A i \in 1..(n + 1) : r[i] = IF i < p THEN s[i] ELSE IF i = p THEN e ELSE s[i - 1]
  BY <1>4
<1>6. \A i \in 1..(n + 1) : (i < p => i \in 1..n) /\ (i > p => i - 1 \in 1..n)
  BY <1>1, <1>3
<1>7. r \in [1..(n + 1) -> Interrupts]
  BY <1>1, <1>3, <1>4, <1>6
<1>8. r \in Seq(Interrupts) /\ DOMAIN r = 1..(n + 1)
  BY <1>1, <1>7
<1>9. Elements(r) = Elements(s) \cup {e}
  <2>1. ASSUME NEW i \in 1..(n + 1) PROVE r[i] \in Elements(s) \cup {e}
    <3>1. CASE i < p
      BY <1>1, <1>5, <1>6, <3>1 DEF Elements
    <3>2. CASE i = p
      BY <1>5, <3>2
    <3>3. CASE i > p
      <4>1. r[i] = s[i - 1] /\ i - 1 \in DOMAIN s
        BY <1>1, <1>3, <1>5, <1>6, <3>3
      <4> QED
        BY <4>1 DEF Elements
    <3> QED
      BY <1>3, <3>1, <3>2, <3>3
  <2>2. e \in Elements(r)
    <3>1. r[p] = e
      BY <1>3, <1>5
    <3> QED
      BY <1>3, <1>8, <3>1 DEF Elements
  <2>3. ASSUME NEW i \in 1..n PROVE s[i] \in Elements(r)
    <3>1. CASE i < p
      <4>1. i \in 1..(n + 1) /\ r[i] = s[i]
        BY <1>1, <1>5, <3>1
      <4> QED
        BY <1>8, <4>1 DEF Elements
    <3>2. CASE ~(i < p)
      <4>1. i + 1 \in 1..(n + 1) /\ r[i + 1] = s[i]
        BY <1>1, <1>3, <1>5, <3>2
      <4> QED
        BY <1>8, <4>1 DEF Elements
    <3> QED
      BY <3>1, <3>2
  <2>4. Elements(r) \subseteq Elements(s) \cup {e}
    BY <1>8, <2>1 DEF Elements
  <2>5. Elements(s) \subseteq Elements(r)
    BY <1>1, <2>3 DEF Elements
  <2> QED
    BY <2>2, <2>4, <2>5
<1>10. ASSUME InTimeOrder(s) PROVE InTimeOrder(r)
  <2> SUFFICES ASSUME NEW i \in 1..(n + 1), NEW j \in 1..(n + 1), i < j
               PROVE  r[i].when <= r[j].when
    <3>1. \A i \in 1..(n + 1) : r[i].when \in Nat
      BY <1>2, <1>7
    <3> QED
      BY <1>1, <1>8, <3>1 DEF InTimeOrder
  <2>1. \A k \in 1..n : s[k].when \in Nat
    BY <1>1, <1>2
  <2>2. e.when \in Nat
    BY <1>2
  <2>3. CASE j < p
    <3>1. r[i] = s[i] /\ r[j] = s[j] /\ i \in 1..n /\ j \in 1..n
      BY <1>1, <1>3, <1>5, <2>3
    <3> QED
      BY <1>1, <1>10, <3>1 DEF InTimeOrder
  <2>4. CASE j = p
    <3>1. r[i] = s[i] /\ r[j] = e /\ i \in 1..n /\ i < p
      BY <1>1, <1>3, <1>5, <2>4
    <3> QED
      BY <1>3, <2>1, <2>2, <3>1
  <2>5. CASE j > p
    <3>1. r[j] = s[j - 1] /\ j - 1 \in 1..n /\ j - 1 >= p /\ p \in 1..n
      BY <1>1, <1>3, <1>5, <2>5
    <3>2. s[p].when <= s[j - 1].when /\ e.when < s[p].when
      BY <1>1, <1>3, <1>10, <3>1 DEF InTimeOrder
    <3>3. CASE i < p
      <4>1. r[i] = s[i] /\ i \in 1..n /\ i <= j - 1
        BY <1>1, <1>3, <1>5, <3>1, <3>3
      <4> QED
        BY <1>1, <1>10, <3>1, <4>1 DEF InTimeOrder
    <3>4. CASE i = p
      <4>1. r[i] = e
        BY <1>5, <3>4
      <4> QED
        BY <2>1, <2>2, <3>1, <3>2, <4>1
    <3>5. CASE i > p
      <4>1. r[i] = s[i - 1] /\ i - 1 \in 1..n /\ i - 1 <= j - 1
        BY <1>1, <1>3, <1>5, <3>5
      <4> QED
        BY <1>1, <1>10, <3>1, <4>1 DEF InTimeOrder
    <3> QED
      BY <1>3, <3>3, <3>4, <3>5
  <2> QED
    BY <1>3, <2>3, <2>4, <2>5
<1>11. ASSUME OnePerDevice(s), \A f \in Elements(s) : f.type # e.type PROVE OnePerDevice(r)
  <2>1. \A k \in 1..n : s[k].type # e.type
    BY <1>1, <1>11 DEF Elements
  <2> DEFINE from(i) == IF i < p THEN i ELSE i - 1
  <2>2. \A i \in 1..(n + 1) : i # p => from(i) \in 1..n /\ r[i] = s[from(i)]
    BY <1>1, <1>3, <1>5
  <2>3. \A i, j \in 1..(n + 1) : i # p /\ j # p /\ from(i) = from(j) => i = j
    BY <1>1, <1>3
  <2>4. r[p] = e
    BY <1>3, <1>5
  <2> HIDE DEF from
  <2> SUFFICES ASSUME NEW i \in 1..(n + 1), NEW j \in 1..(n + 1), r[i].type = r[j].type PROVE i = j
    BY <1>8 DEF OnePerDevice
  <2>5. CASE i = p \/ j = p
    BY <2>1, <2>2, <2>4, <2>5
  <2>6. CASE i # p /\ j # p
    BY <1>1, <1>11, <2>2, <2>3, <2>6 DEF OnePerDevice
  <2> QED
    BY <2>5, <2>6
<1> QED
  BY <1>8, <1>9, <1>10, <1>11 DEF r

\* What taking the first interrupt does to the list.
LEMMA TakeIs ==
  ASSUME NEW s \in Seq(Interrupts), s # <<>>, InTimeOrder(s), OnePerDevice(s)
  PROVE  /\ Head(s) \in Interrupts /\ Tail(s) \in Seq(Interrupts)
         /\ Elements(s) = Elements(Tail(s)) \cup {Head(s)}
         /\ InTimeOrder(Tail(s)) /\ OnePerDevice(Tail(s))
         /\ \A f \in Elements(Tail(s)) : Head(s).when <= f.when /\ f.type # Head(s).type
<1> DEFINE n == Len(s)
           r == Tail(s)
<1>1. /\ n \in Nat \ {0} /\ DOMAIN s = 1..n /\ (\A i \in 1..n : s[i] \in Interrupts)
      /\ r \in Seq(Interrupts) /\ Len(r) = n - 1 /\ DOMAIN r = 1..(n - 1)
      /\ \A i \in 1..(n - 1) : r[i] = s[i + 1]
      /\ Head(s) = s[1]
  OBVIOUS
<1> HIDE DEF n, r
<1>2. \A i \in 1..(n - 1) : i + 1 \in 1..n /\ 1 <= i + 1 /\ i + 1 # 1
  BY <1>1
<1>3. Elements(s) = Elements(r) \cup {s[1]}
  <2>1. ASSUME NEW i \in 1..n PROVE s[i] \in Elements(r) \cup {s[1]}
    <3>1. CASE i # 1
      <4>1. i - 1 \in 1..(n - 1) /\ r[i - 1] = s[i]
        BY <1>1, <3>1
      <4> QED
        BY <1>1, <4>1 DEF Elements
    <3> QED
      BY <3>1
  <2>2. ASSUME NEW i \in 1..(n - 1) PROVE r[i] \in Elements(s)
    BY <1>1, <1>2 DEF Elements
  <2>3. s[1] \in Elements(s)
    BY <1>1 DEF Elements
  <2>4. Elements(s) \subseteq Elements(r) \cup {s[1]}
    BY <1>1, <2>1 DEF Elements
  <2>5. Elements(r) \subseteq Elements(s)
    BY <1>1, <2>2 DEF Elements
  <2> QED
    BY <2>3, <2>4, <2>5
<1>4. InTimeOrder(r)
  <2> SUFFICES ASSUME NEW i \in 1..(n - 1), NEW j \in 1..(n - 1), i <= j PROVE r[i].when <= r[j].when
    BY <1>1 DEF InTimeOrder
  <2>1. i + 1 \in 1..n /\ j + 1 \in 1..n /\ i + 1 <= j + 1 /\ r[i] = s[i + 1] /\ r[j] = s[j + 1]
    BY <1>1, <1>2
  <2> QED
    BY <1>1, <2>1 DEF InTimeOrder
<1>5. OnePerDevice(r)
  <2> SUFFICES ASSUME NEW i \in 1..(n - 1), NEW j \in 1..(n - 1), r[i].type = r[j].type PROVE i = j
    BY <1>1 DEF OnePerDevice
  <2>1. i + 1 \in 1..n /\ j + 1 \in 1..n /\ r[i] = s[i + 1] /\ r[j] = s[j + 1]
    BY <1>1, <1>2
  <2>2. i + 1 = j + 1
    BY <1>1, <2>1 DEF OnePerDevice
  <2> QED
    BY <1>1, <2>2
<1>6. ASSUME NEW i \in 1..(n - 1) PROVE s[1].when <= r[i].when /\ r[i].type # s[1].type
  <2>1. r[i] = s[i + 1] /\ i + 1 \in 1..n /\ 1 \in 1..n /\ 1 <= i + 1 /\ i + 1 # 1
    BY <1>1, <1>2
  <2> QED
    BY <1>1, <2>1 DEF InTimeOrder, OnePerDevice
<1>7. \A f \in Elements(r) : s[1].when <= f.when /\ f.type # s[1].type
  BY <1>1, <1>6 DEF Elements
<1> QED
  BY <1>1, <1>3, <1>4, <1>5, <1>7 DEF r

\* The invariant after an interrupt was taken out and another put in, or not.
LEMMA ListKept ==
  ASSUME pending' \in Seq(Interrupts), InTimeOrder(pending'), OnePerDevice(pending'),
         \A t \in Devices : t \in awaited' <=> \E e \in Elements(pending') : e.type = t,
         \A e \in Elements(pending') : last'.when <= e.when /\ NotLate(e)'
  PROVE  PendingInv'
BY DEF PendingInv, Elements

\* CheckIfDue fires the first interrupt, at a time that is not past the others.
LEMMA FiresIs ==
  ASSUME ClockInv, NEW advance \in BOOLEAN, Fires(advance)
  PROVE  /\ totalTicks' = Now(advance) /\ totalTicks' \in Nat
         /\ pending # <<>> /\ Head(pending) \in Interrupts /\ ~OnlyTimer
         /\ Head(pending).when <= totalTicks' /\ Head(pending) \in Elements(pending)
         /\ last' = [when |-> Head(pending).when, type |-> Head(pending).type, at |-> totalTicks']
         /\ pending' \in Seq(Interrupts) /\ InTimeOrder(pending') /\ OnePerDevice(pending')
         /\ \A t \in Devices : t \in awaited' <=> \E e \in Elements(pending') : e.type = t
         /\ \A e \in Elements(pending') :
              \/ e \in Elements(pending) /\ last'.when <= e.when
              \/ e.when > totalTicks' /\ last'.when <= e.when
         /\ awaited' \subseteq Devices /\ yieldOnReturn' \in BOOLEAN
<1> DEFINE h == Head(pending)
           rest == Tail(pending)
<1>1. /\ pending # <<>> /\ h.when <= Now(advance) /\ ~OnlyTimer
      /\ totalTicks' = Now(advance)
      /\ last' = [when |-> h.when, type |-> h.type, at |-> totalTicks']
      /\ \/ h.type \in Completions /\ pending' = rest /\ awaited' = awaited \ {h.type}
         \/ \E d \in Delays : /\ pending' = SortedInsert(rest, [h EXCEPT !.when = totalTicks' + d])
                              /\ awaited' = awaited
      /\ yieldOnReturn' = (yieldOnReturn \/ h.type = Timer)
  BY DEF Fires
<1>2. /\ pending \in Seq(Interrupts) /\ InTimeOrder(pending) /\ OnePerDevice(pending)
      /\ totalTicks \in Nat /\ awaited \subseteq Devices
      /\ \A t \in Devices : t \in awaited <=> \E e \in Elements(pending) : e.type = t
  BY DEF ClockInv, ClockTypeOK, PendingInv, Interrupts
<1>3. /\ h \in Interrupts /\ rest \in Seq(Interrupts)
      /\ Elements(pending) = Elements(rest) \cup {h}
      /\ InTimeOrder(rest) /\ OnePerDevice(rest)
      /\ \A f \in Elements(rest) : h.when <= f.when /\ f.type # h.type
  BY <1>1, <1>2, TakeIs
<1>4. h.when \in Nat /\ h.type \in Devices
  BY <1>3 DEF Interrupts
<1>5. totalTicks' \in Nat
  BY <1>1, <1>2, <1>4 DEF Now
<1>6. yieldOnReturn' \in BOOLEAN
  BY <1>1
<1>7. last'.when = h.when
  BY <1>1
<1> HIDE DEF h, rest
<1>8. CASE h.type \in Completions /\ pending' = rest /\ awaited' = awaited \ {h.type}
  BY <1>1, <1>2, <1>3, <1>4, <1>5, <1>6, <1>7, <1>8 DEF h
<1>9. ASSUME NEW d \in Delays, pending' = SortedInsert(rest, [h EXCEPT !.when = totalTicks' + d]),
             awaited' = awaited
      PROVE  /\ pending' \in Seq(Interrupts) /\ InTimeOrder(pending') /\ OnePerDevice(pending')
             /\ \A t \in Devices : t \in awaited' <=> \E e \in Elements(pending') : e.type = t
             /\ \A e \in Elements(pending') :
                  \/ e \in Elements(pending) /\ last'.when <= e.when
                  \/ e.when > totalTicks' /\ last'.when <= e.when
             /\ awaited' \subseteq Devices
  <2> DEFINE w == totalTicks' + d
             next == [h EXCEPT !.when = w]
  <2>1. \A n \in Nat : n + d \in Nat /\ n + d > n
    BY DelaysIs
  <2>2. w \in Nat /\ w > totalTicks'
    BY <1>5, <2>1, Zenon
  <2>3. pending' = SortedInsert(rest, next)
    BY <1>9
  <2> HIDE DEF w
  <2>4. next \in Interrupts /\ next.type = h.type /\ next.when > totalTicks'
    <3>1. next = [when |-> w, type |-> h.type]
      BY <1>3 DEF Interrupts
    <3>2. next.when = w /\ next.type = h.type
      BY <3>1
    <3>3. next \in Interrupts
      BY <1>4, <2>2, <3>1 DEF Interrupts
    <3> HIDE DEF next
    <3> QED
      BY <2>2, <3>2, <3>3
  <2> HIDE DEF next
  <2>5. /\ pending' \in Seq(Interrupts) /\ InTimeOrder(pending') /\ OnePerDevice(pending')
        /\ Elements(pending') = Elements(rest) \cup {next}
    BY <1>3, <2>4, <2>3, InsertIs
  <2>6. \A t \in Devices : t \in awaited' <=> \E e \in Elements(pending') : e.type = t
    <3> SUFFICES ASSUME NEW t \in Devices
                 PROVE  t \in awaited <=> \E e \in Elements(pending') : e.type = t
      BY <1>9
    <3>1. t \in awaited <=> \E e \in Elements(rest) \cup {h} : e.type = t
      BY <1>2, <1>3
    <3> QED
      BY <2>4, <2>5, <3>1
  <2>7. last'.when <= next.when
    <3>1. next.when \in Nat
      BY <2>4 DEF Interrupts
    <3> QED
      BY <1>1, <1>4, <1>5, <1>7, <2>4, <3>1 DEF h
  <2> QED
    BY <1>2, <1>3, <1>7, <1>9, <2>4, <2>5, <2>6, <2>7
<1> QED
  BY <1>1, <1>3, <1>4, <1>5, <1>6, <1>8, <1>9 DEF h

\* CheckIfDue finds nothing to do, and leaves the same interrupts.
LEMMA NotDueIs ==
  ASSUME ClockInv, NEW advance \in BOOLEAN, NotDue(advance)
  PROVE  /\ pending' \in Seq(Interrupts) /\ InTimeOrder(pending') /\ OnePerDevice(pending')
         /\ Elements(pending') = Elements(pending)
         /\ UNCHANGED <<awaited, last>>
         /\ totalTicks' \in Nat /\ totalTicks <= totalTicks'
         /\ ~advance => /\ totalTicks' = totalTicks
                        /\ OnlyTimer \/ \A e \in Elements(pending) : e.when > totalTicks
         /\ advance => pending = <<>> \/ OnlyTimer
<1> DEFINE h == Head(pending)
           rest == Tail(pending)
<1>1. /\ pending \in Seq(Interrupts) /\ InTimeOrder(pending) /\ OnePerDevice(pending)
      /\ totalTicks \in Nat
  BY DEF ClockInv, ClockTypeOK, PendingInv, Interrupts
<1>2. CASE pending = <<>>
  <2>1. pending' = pending /\ totalTicks' = totalTicks /\ UNCHANGED <<awaited, last>>
    BY <1>2 DEF NotDue
  <2>2. Elements(pending) = {}
    BY <1>2 DEF Elements
  <2> QED
    BY <1>1, <1>2, <2>1, <2>2
<1>3. CASE pending # <<>>
  <2>1. /\ pending' = SortedInsert(rest, h) /\ totalTicks' = Now(advance) /\ UNCHANGED <<awaited, last>>
        /\ h.when > Now(advance) \/ OnlyTimer
    BY <1>3 DEF NotDue
  <2>2. /\ h \in Interrupts /\ rest \in Seq(Interrupts)
        /\ Elements(pending) = Elements(rest) \cup {h}
        /\ InTimeOrder(rest) /\ OnePerDevice(rest)
        /\ \A f \in Elements(rest) : h.when <= f.when /\ f.type # h.type
    BY <1>1, <1>3, TakeIs
  <2>3. \A f \in Interrupts : f.when \in Nat
    BY DEF Interrupts
  <2>4. \A f \in Elements(rest) : f \in Interrupts
    BY <2>2 DEF Elements
  <2>5. Now(advance) = IF advance /\ h.when > totalTicks THEN h.when ELSE totalTicks
    BY DEF Now
  <2> HIDE DEF h, rest
  <2>6. /\ pending' \in Seq(Interrupts) /\ InTimeOrder(pending') /\ OnePerDevice(pending')
        /\ Elements(pending') = Elements(pending)
    BY <2>1, <2>2, InsertIs
  <2>7. totalTicks' \in Nat /\ totalTicks <= totalTicks' /\ (~advance => totalTicks' = totalTicks)
    BY <1>1, <2>1, <2>2, <2>3, <2>5
  <2>8. advance => OnlyTimer
    BY <1>1, <2>1, <2>2, <2>3, <2>5
  <2>9. ASSUME ~advance, ~OnlyTimer, NEW e \in Elements(pending) PROVE e.when > totalTicks
    <3>1. h.when > totalTicks /\ h.when \in Nat
      BY <2>1, <2>2, <2>3, <2>5, <2>9
    <3>2. CASE e = h
      BY <3>1, <3>2
    <3>3. CASE e \in Elements(rest)
      BY <1>1, <2>2, <2>3, <2>4, <3>1, <3>3
    <3> QED
      BY <2>2, <2>9, <3>2, <3>3
  <2> QED
    BY <2>1, <2>6, <2>7, <2>8, <2>9
<1> QED
  BY <1>2, <1>3

LEMMA ClockInitInv == ClockInit => ClockInv
<1> SUFFICES ASSUME ClockInit PROVE ClockInv
  OBVIOUS
<1>1. ClockTypeOK
  <2>1. pending \in Seq([when : Nat, type : Devices]) /\ last \in [when : Nat, type : Devices, at : Nat]
    BY DEF ClockInit, Devices
  <2> QED
    BY <2>1 DEF ClockInit, ClockTypeOK
<1>2. PendingInv
  BY DEF ClockInit, PendingInv, InTimeOrder, OnePerDevice, Elements
<1>3. LastInv
  <2>1. last.when = 0 /\ last.at = 0 /\ totalTicks = 0
    BY DEF ClockInit
  <2> QED
    BY <2>1, DelaysIs DEF LastInv
<1> QED
  BY <1>1, <1>2, <1>3 DEF ClockInit, ClockInv, ModeInv, HaltsWhenDone

\* A step that leaves the list and time alone keeps what is said of them if the
\* interrupts are not later than the new place in the code allows.
LEMMA ListStays ==
  ASSUME ClockInv, UNCHANGED <<pending, awaited, last>>,
         totalTicks' \in Nat, totalTicks <= totalTicks',
         \A e \in Elements(pending) : NotLate(e)'
  PROVE  PendingInv' /\ LastInv'
<1>1. PendingInv'
  BY DEF ClockInv, PendingInv, InTimeOrder, OnePerDevice, Elements
<1>2. LastInv'
  <2>1. last.at \in Nat /\ totalTicks \in Nat /\ LastInv
    BY DEF ClockInv, ClockTypeOK
  <2> QED
    BY <2>1 DEF LastInv
<1> QED
  BY <1>1, <1>2

\* The times of the list.
LEMMA TimesIs ==
  ASSUME ClockInv
  PROVE  /\ totalTicks \in Nat /\ last.when \in Nat /\ last.at \in Nat
         /\ \A e \in Elements(pending) : e \in Interrupts /\ e.when \in Nat /\ NotLate(e)
         /\ pending \in Seq(Interrupts)
<1>1. pending \in Seq(Interrupts) /\ totalTicks \in Nat
      /\ last \in [when : Nat, type : Devices, at : Nat]
  BY DEF ClockInv, ClockTypeOK, Interrupts
<1>2. \A e \in Elements(pending) : e \in Interrupts
  BY <1>1 DEF Elements
<1>3. \A e \in Interrupts : e.when \in Nat
  BY DEF Interrupts
<1> QED
  BY <1>1, <1>2, <1>3 DEF ClockInv, PendingInv

\* An interrupt is fired: the list and the last interrupt, when threads, Idle or
\* OneTick look at it.
LEMMA FiredKeeps ==
  ASSUME ClockInv, NEW advance \in BOOLEAN, Fires(advance),
         doing \in {"due", "idle", "woken"}, advance = (doing = "idle"),
         doing' = IF doing = "due" THEN "due" ELSE "woken"
  PROVE  PendingInv' /\ LastInv'
<1> DEFINE h == Head(pending)
<1>1. /\ totalTicks' = Now(advance) /\ totalTicks' \in Nat
      /\ h \in Elements(pending) /\ h.when <= totalTicks' /\ ~OnlyTimer /\ pending # <<>>
      /\ last' = [when |-> h.when, type |-> h.type, at |-> totalTicks']
      /\ pending' \in Seq(Interrupts) /\ InTimeOrder(pending') /\ OnePerDevice(pending')
      /\ \A t \in Devices : t \in awaited' <=> \E e \in Elements(pending') : e.type = t
      /\ \A e \in Elements(pending') :
           \/ e \in Elements(pending) /\ last'.when <= e.when
           \/ e.when > totalTicks' /\ last'.when <= e.when
  BY FiresIs
<1>2. /\ totalTicks \in Nat /\ h.when \in Nat /\ NotLate(h)
      /\ \A e \in Elements(pending) : e.when \in Nat /\ NotLate(e)
  BY <1>1, TimesIs
<1>3. last'.when = h.when /\ last'.at = totalTicks' /\ last'.type = h.type
  BY <1>1
<1>4. totalTicks' = IF advance /\ h.when > totalTicks THEN h.when ELSE totalTicks
  BY <1>1 DEF Now
<1>5. SystemTick \in Nat \ {0}
  BY DelaysIs
<1>6. \A e \in Elements(pending') : e.when \in Nat
  <2>1. \A e \in Elements(pending') : e \in Interrupts
    BY <1>1 DEF Elements
  <2> QED
    BY <2>1 DEF Interrupts
<1> HIDE DEF h
<1>7. ASSUME NEW e \in Elements(pending') PROVE last'.when <= e.when /\ NotLate(e)'
  <2>1. \/ e \in Elements(pending) /\ last'.when <= e.when
        \/ e.when > totalTicks' /\ last'.when <= e.when
    BY <1>1
  <2>2. CASE doing = "due"
    <3>1. totalTicks' = totalTicks /\ doing' = "due"
      BY <1>4, <2>2
    <3>2. CASE e \in Elements(pending)
      BY <1>2, <2>1, <2>2, <3>1, <3>2 DEF NotLate
    <3>3. CASE e.when > totalTicks'
      <4>1. e.when + SystemTick > totalTicks
        BY <1>2, <1>5, <1>6, <3>1, <3>3
      <4> QED
        BY <2>1, <3>1, <4>1 DEF NotLate
    <3> QED
      BY <2>1, <3>2, <3>3
  <2>3. CASE doing # "due"
    <3>1. doing' = "woken"
      BY <2>3
    <3>2. e.when >= totalTicks'
      <4>1. CASE e \in Elements(pending)
        <5>1. e.when \in Nat /\ e.when >= totalTicks /\ e.when >= h.when
          BY <1>2, <1>3, <2>1, <2>3, <4>1 DEF NotLate
        <5> QED
          BY <1>2, <1>4, <5>1
      <4>2. CASE e.when > totalTicks'
        BY <1>1, <1>6, <4>2
      <4> QED
        BY <2>1, <4>1, <4>2
    <3> QED
      BY <2>1, <3>1, <3>2 DEF NotLate
  <2> QED
    BY <2>2, <2>3
<1>8. PendingInv'
  BY <1>1, <1>7, ListKept
<1>9. LastInv'
  <2>1. h.when <= totalTicks' /\ totalTicks' <= totalTicks'
    BY <1>1
  <2>2. CASE doing = "due"
    <3>1. totalTicks' = totalTicks
      BY <1>4, <2>2
    <3>2. h.when + SystemTick > totalTicks \/ (h.type = Timer /\ h.when + SystemTick = totalTicks)
      BY <1>2, <2>2 DEF NotLate
    <3>3. totalTicks < h.when + SystemTick \/ (h.type = Timer /\ totalTicks = h.when + SystemTick)
      BY <1>2, <1>5, <3>2
    <3> QED
      BY <1>3, <2>1, <3>1, <3>3 DEF LastInv
  <2>3. CASE doing # "due"
    <3>1. h.when >= totalTicks
      BY <1>2, <2>3 DEF NotLate
    <3>2. totalTicks' = h.when
      BY <1>1, <1>2, <1>4, <3>1
    <3>3. h.when < h.when + SystemTick
      BY <1>2, <1>5
    <3> QED
      BY <1>3, <2>1, <3>2, <3>3 DEF LastInv
  <2> QED
    BY <2>2, <2>3
<1> QED
  BY <1>8, <1>9

LEMMA ClockStep == ClockInv /\ [ClockNext]_kvars => ClockInv'
<1> SUFFICES ASSUME ClockInv, [ClockNext]_kvars PROVE ClockInv'
  OBVIOUS
<1>1. /\ ClockTypeOK /\ PendingInv /\ LastInv /\ ModeInv /\ HaltsWhenDone
      /\ totalTicks \in Nat /\ UserTick \in Nat /\ SystemTick \in Nat \ {0} /\ UserTick <= SystemTick
      /\ \A e \in Elements(pending) : e \in Interrupts /\ e.when \in Nat /\ NotLate(e)
  BY TimesIs, DelaysIs DEF ClockInv
<1> USE DEF Interrupts
<1>2. ASSUME NEW type \in Devices, NEW d \in Delays, Schedule(type, d) PROVE ClockInv'
  <2> DEFINE next == [when |-> totalTicks + d, type |-> type]
  <2>1. /\ doing = "run" /\ status = "system" /\ type \notin awaited
        /\ pending' = SortedInsert(pending, next) /\ awaited' = awaited \cup {type}
        /\ UNCHANGED <<totalTicks, status, doing, yieldOnReturn, last>>
    BY <1>2 DEF Schedule
  <2>2. totalTicks + d \in Nat /\ totalTicks + d > totalTicks
    BY <1>1, DelaysIs
  <2>3. next \in Interrupts /\ next.type = type /\ next.when = totalTicks + d
    BY <2>2
  <2> HIDE DEF next
  <2>4. \A f \in Elements(pending) : f.type # type
    BY <1>1, <2>1 DEF PendingInv
  <2>5. /\ pending' \in Seq(Interrupts) /\ InTimeOrder(pending') /\ OnePerDevice(pending')
        /\ Elements(pending') = Elements(pending) \cup {next}
    BY <1>1, <2>1, <2>3, <2>4, InsertIs, TimesIs DEF PendingInv
  <2>6. \A t \in Devices : t \in awaited' <=> \E e \in Elements(pending') : e.type = t
    <3> SUFFICES ASSUME NEW t \in Devices
                 PROVE  t \in awaited \/ t = type <=> \E e \in Elements(pending') : e.type = t
      BY <2>1
    <3>1. t \in awaited <=> \E e \in Elements(pending) : e.type = t
      BY <1>1 DEF PendingInv
    <3> QED
      BY <2>3, <2>5, <3>1
  <2>7. last.when <= next.when /\ next.when > totalTicks
    <3>1. last.when \in Nat /\ last.at \in Nat
      BY TimesIs
    <3> QED
      BY <1>1, <2>2, <2>3, <3>1 DEF LastInv
  <2>8. \A e \in Elements(pending') : last'.when <= e.when /\ NotLate(e)'
    BY <1>1, <2>1, <2>5, <2>7 DEF PendingInv, NotLate
  <2>9. PendingInv'
    BY <2>5, <2>6, <2>8, ListKept
  <2>10. LastInv' /\ ModeInv' /\ HaltsWhenDone'
    BY <1>1, <2>1 DEF LastInv, ModeInv, HaltsWhenDone
  <2>11. ClockTypeOK'
    BY <1>1, <2>1, <2>5 DEF ClockTypeOK
  <2> QED
    BY <2>9, <2>10, <2>11 DEF ClockInv
<1>3. CASE OneTick
  <2> DEFINE tick == IF status = "system" THEN SystemTick ELSE UserTick
  <2>1. /\ doing = "run" /\ doing' = "due" /\ totalTicks' = totalTicks + tick
        /\ UNCHANGED <<pending, status, yieldOnReturn, awaited, last>>
    BY <1>3 DEF OneTick
  <2>2. tick \in Nat /\ tick <= SystemTick
    BY <1>1
  <2> HIDE DEF tick
  <2>3. totalTicks + tick \in Nat /\ totalTicks <= totalTicks + tick
    BY <1>1, <2>2
  <2>4. ASSUME NEW e \in Elements(pending) PROVE NotLate(e)'
    <3>1. e.when > totalTicks \/ (e.type = Timer /\ e.when = totalTicks)
      BY <1>1, <2>1 DEF NotLate
    <3>2. \/ e.when + SystemTick > totalTicks + tick
          \/ e.type = Timer /\ e.when + SystemTick = totalTicks + tick
      BY <1>1, <2>2, <3>1
    <3> QED
      BY <2>1, <3>2 DEF NotLate
  <2>5. PendingInv' /\ LastInv'
    BY <2>1, <2>3, <2>4, ListStays
  <2>6. ClockTypeOK'
    BY <1>1, <2>1, <2>3 DEF ClockTypeOK
  <2> QED
    BY <1>1, <2>1, <2>5, <2>6 DEF ClockInv, ModeInv, HaltsWhenDone
<1>4. ASSUME FireDue \/ IdleWakes \/ IdleFires PROVE ClockInv'
  <2>1. PICK advance \in BOOLEAN :
          /\ Fires(advance) /\ doing \in {"due", "idle", "woken"} /\ advance = (doing = "idle")
          /\ doing' = IF doing = "due" THEN "due" ELSE "woken"
          /\ status' = status
    BY <1>4 DEF FireDue, IdleWakes, IdleFires
  <2>2. PendingInv' /\ LastInv'
    BY <2>1, FiredKeeps
  <2>3. /\ totalTicks' \in Nat /\ pending' \in Seq(Interrupts)
        /\ awaited' \subseteq Devices /\ yieldOnReturn' \in BOOLEAN
        /\ Head(pending) \in Interrupts
        /\ last' = [when |-> Head(pending).when, type |-> Head(pending).type, at |-> totalTicks']
    BY <2>1, FiresIs
  <2>4. last' \in [when : Nat, type : Devices, at : Nat]
    BY <2>3
  <2>5. ClockTypeOK'
    BY <1>1, <2>1, <2>3, <2>4 DEF ClockTypeOK
  <2> QED
    BY <1>1, <2>1, <2>2, <2>5 DEF ClockInv, ModeInv, HaltsWhenDone
<1>5. ASSUME EndTick \/ IdleEnds PROVE ClockInv'
  <2>1. /\ NotDue(FALSE) /\ doing \in {"due", "woken"} /\ doing' = "run"
        /\ yieldOnReturn' = FALSE
        /\ status' \in {"user", "system"}
    BY <1>1, <1>5 DEF EndTick, IdleEnds, ModeInv
  <2>2. /\ pending' \in Seq(Interrupts) /\ InTimeOrder(pending') /\ OnePerDevice(pending')
        /\ Elements(pending') = Elements(pending)
        /\ UNCHANGED <<awaited, last, totalTicks>>
        /\ OnlyTimer \/ \A e \in Elements(pending) : e.when > totalTicks
    BY <2>1, NotDueIs
  <2>3. ASSUME NEW e \in Elements(pending) PROVE e.when > totalTicks \/ (e.type = Timer /\ e.when = totalTicks)
    <3>1. CASE OnlyTimer
      <4>1. doing = "woken"
        BY <1>1, <2>1, <3>1 DEF OnlyTimer, ModeInv
      <4>2. e.type = Timer
        <5>1. Len(pending) = 1 /\ Head(pending).type = Timer /\ pending \in Seq(Interrupts)
          BY <3>1, TimesIs DEF OnlyTimer
        <5>2. \A i \in DOMAIN pending : pending[i] = Head(pending)
          BY <5>1
        <5> QED
          BY <5>1, <5>2 DEF Elements
      <4>3. e.when >= totalTicks
        BY <1>1, <4>1 DEF NotLate
      <4> QED
        BY <1>1, <4>2, <4>3
    <3> QED
      BY <2>2, <3>1
  <2>4. \A e \in Elements(pending') : last'.when <= e.when /\ NotLate(e)'
    BY <1>1, <2>1, <2>2, <2>3 DEF PendingInv, NotLate
  <2>5. \A t \in Devices : t \in awaited' <=> \E e \in Elements(pending') : e.type = t
    BY <1>1, <2>2 DEF PendingInv
  <2>6. PendingInv'
    BY <2>2, <2>4, <2>5, ListKept
  <2>7. LastInv' /\ ModeInv' /\ HaltsWhenDone'
    BY <1>1, <2>1, <2>2 DEF LastInv, ModeInv, HaltsWhenDone
  <2>8. ClockTypeOK'
    BY <1>1, <2>1, <2>2 DEF ClockTypeOK
  <2> QED
    BY <2>6, <2>7, <2>8 DEF ClockInv
<1>6. CASE ChangeMode
  <2>1. PendingInv' /\ LastInv'
    BY <1>1, <1>6, ListStays DEF ChangeMode, NotLate
  <2> QED
    BY <1>1, <1>6, <2>1 DEF ChangeMode, ClockInv, ClockTypeOK, ModeInv, HaltsWhenDone
<1>7. CASE Idle
  <2>1. PendingInv' /\ LastInv'
    BY <1>1, <1>7, ListStays DEF Idle, NotLate
  <2> QED
    BY <1>1, <1>7, <2>1 DEF Idle, ClockInv, ClockTypeOK, ModeInv, HaltsWhenDone
<1>8. CASE IdleHalts
  <2>1. NotDue(TRUE) /\ doing = "idle" /\ doing' = "halted" /\ UNCHANGED <<status, yieldOnReturn>>
    BY <1>8 DEF IdleHalts
  <2>2. /\ pending' \in Seq(Interrupts) /\ InTimeOrder(pending') /\ OnePerDevice(pending')
        /\ Elements(pending') = Elements(pending)
        /\ UNCHANGED <<awaited, last>>
        /\ totalTicks' \in Nat /\ totalTicks <= totalTicks'
        /\ pending = <<>> \/ OnlyTimer
    BY <2>1, NotDueIs
  <2>3. PendingInv'
    <3>1. \A t \in Devices : t \in awaited' <=> \E e \in Elements(pending') : e.type = t
      BY <1>1, <2>2 DEF PendingInv
    <3>2. \A e \in Elements(pending') : last'.when <= e.when /\ NotLate(e)'
      BY <1>1, <2>1, <2>2 DEF PendingInv, NotLate
    <3> QED
      BY <2>2, <3>1, <3>2, ListKept
  <2>4. LastInv'
    <3>1. last.at \in Nat
      BY TimesIs
    <3> QED
      BY <1>1, <2>2, <3>1 DEF LastInv
  <2>5. HaltsWhenDone'
    <3>1. \A e \in Elements(pending) : e.type = Timer
      <4>1. CASE pending = <<>>
        BY <4>1 DEF Elements
      <4>2. CASE OnlyTimer
        <5>1. Len(pending) = 1 /\ Head(pending).type = Timer /\ pending \in Seq(Interrupts)
          BY <4>2, TimesIs DEF OnlyTimer
        <5>2. \A i \in DOMAIN pending : pending[i] = Head(pending)
          BY <5>1
        <5> QED
          BY <5>1, <5>2 DEF Elements
      <4> QED
        BY <2>2, <4>1, <4>2
    <3>2. awaited \subseteq Devices
      BY <1>1 DEF ClockTypeOK
    <3>3. awaited \subseteq {Timer}
      BY <1>1, <3>1, <3>2 DEF PendingInv
    <3> QED
      BY <2>2, <3>3 DEF HaltsWhenDone
  <2>6. ClockTypeOK' /\ ModeInv'
    BY <1>1, <2>1, <2>2 DEF ClockTypeOK, ModeInv
  <2> QED
    BY <2>3, <2>4, <2>5, <2>6 DEF ClockInv
<1>9. CASE UNCHANGED kvars
  <2>1. PendingInv' /\ LastInv'
    BY <1>1, <1>9, ListStays DEF kvars, NotLate
  <2> QED
    BY <1>1, <1>9, <2>1 DEF kvars, ClockInv, ClockTypeOK, ModeInv, HaltsWhenDone
<1> QED
  BY <1>2, <1>3, <1>4, <1>5, <1>6, <1>7, <1>8, <1>9 DEF ClockNext

\* Interrupt::Schedule, OneTick, CheckIfDue and Idle: interrupts are fired in the
\* order of their times, none is lost, doubled, early or later than a tick, and
\* the machine stops only when no device but the timer has anything to report,
\* for any devices, delays and lengths of the ticks.
THEOREM ClockIsSafe == ClockSpec => []ClockSafe
<1>1. ClockSpec => []ClockInv
  BY ClockInitInv, ClockStep, PTL DEF ClockSpec
<1>2. ClockInv => FiredInOrder
  <2> SUFFICES ASSUME ClockInv, NEW i \in DOMAIN pending
               PROVE  last.when <= pending[i].when /\ \A j \in 1..i : pending[j].when <= pending[i].when
    BY DEF FiredInOrder
  <2>1. pending \in Seq(Interrupts) /\ InTimeOrder(pending)
        /\ \A e \in Elements(pending) : last.when <= e.when
    BY TimesIs DEF ClockInv, PendingInv
  <2>2. DOMAIN pending = 1..Len(pending) /\ Len(pending) \in Nat
    BY <2>1
  <2> QED
    BY <2>1, <2>2 DEF InTimeOrder, Elements
<1>3. ClockInv => NoneLost
  <2> SUFFICES ASSUME ClockInv, NEW t \in Devices
               PROVE  LET mine == {i \in DOMAIN pending : pending[i].type = t}
                      IN  IF t \in awaited THEN \E i \in mine : mine = {i} ELSE mine = {}
    BY DEF NoneLost
  <2>1. OnePerDevice(pending) /\ (t \in awaited <=> \E i \in DOMAIN pending : pending[i].type = t)
    BY DEF ClockInv, PendingInv, Elements
  <2>2. CASE t \in awaited
    <3>1. PICK i \in DOMAIN pending : pending[i].type = t
      BY <2>1, <2>2
    <3>2. {j \in DOMAIN pending : pending[j].type = t} = {i}
      BY <2>1, <3>1 DEF OnePerDevice
    <3> QED
      BY <2>2, <3>2
  <2>3. CASE t \notin awaited
    BY <2>1, <2>3
  <2> QED
    BY <2>2, <2>3
<1>4. ClockInv => Prompt
  <2> SUFFICES ASSUME ClockInv PROVE Prompt
    OBVIOUS
  <2>1. \A i \in DOMAIN pending : pending[i] \in Elements(pending)
    BY DEF Elements
  <2>2. doing = "run" => \A i \in DOMAIN pending : pending[i].when > totalTicks \/ pending[i].type = Timer
    BY <2>1, TimesIs DEF NotLate
  <2> QED
    BY <2>2 DEF ClockInv, LastInv, Prompt
<1>5. ClockInv => ClockSafe
  BY <1>2, <1>3, <1>4 DEF ClockInv, ClockSafe
<1> QED
  BY <1>1, <1>5, PTL

-------------------------------------------------------------------------------
(* The semaphores of user programs *)

\* Two entries in use never have the same name, if it is one that fits.
NamesUnique ==
  \A i, j \in bm : semTab[i].name = semTab[j].name /\ semTab[i].name \in Names \ LongNames => i = j

\* The table is filled from its begin.
FilledFromBegin == \A i \in bm, j \in Slots : j < i => j \in bm

\* Every name that Create has accepted and that fits has its entry.
CreatedKept ==
  \A name \in created \ LongNames : \E i \in bm : semTab[i].name = name

\* A process in P waits on an entry in use, the first of its name.
WaitersNamed ==
  \A p \in Callers : waitingOn[p] # NoSlot =>
    /\ waitingOn[p] \in bm
    /\ \A i \in bm : semTab[i].name = semTab[waitingOn[p]].name => waitingOn[p] <= i

\* The value of a semaphore accounts for every P and V it had. A slot that is
\* not in use has had none.
Accounted ==
  /\ \A i \in bm : semTab[i].value = semTab[i].init + signals[i] - grants[i]
  /\ \A i \in Slots \ bm : grants[i] = 0 /\ signals[i] = 0

\* A value that was not negative at first never becomes so.
NeverBelow == \A i \in bm : semTab[i].init >= 0 => semTab[i].value >= 0

UserInv ==
  /\ UserTypeOK /\ NamesUnique /\ FilledFromBegin /\ CreatedKept /\ WaitersNamed
  /\ Accounted /\ NeverBelow

-------------------------------------------------------------------------------

\* The table that UserInit makes satisfies the invariant (STable's constructor).
LEMMA UserInitInv == UserInit => UserInv
  <1> SUFFICES ASSUME UserInit PROVE UserInv
    OBVIOUS
  <1> USE SemaphoreAssumption DEF UserInit
  <1>1. UserTypeOK
    BY DEF UserTypeOK, Nothing
  <1>2. /\ NamesUnique /\ FilledFromBegin /\ CreatedKept /\ WaitersNamed
        /\ Accounted /\ NeverBelow
    BY DEF NamesUnique, FilledFromBegin, CreatedKept, WaitersNamed, Accounted, NeverBelow
  <1> QED BY <1>1, <1>2 DEF UserInv

\* STable::Create takes a free slot for a name that no entry has.
LEMMA CreateInv ==
  ASSUME UserInv, NEW p \in Callers, NEW name \in Names, NEW init \in Inits,
         NEW kept \in Names \cup {NoName}, Create(p, name, init, kept)
  PROVE  UserInv'
  <1>1. PICK slot \in Slots :
          /\ IsLeast(slot, FreeSlots)
          /\ bm' = bm \cup {slot}
          /\ semTab' = [semTab EXCEPT ![slot] = [name |-> kept, init |-> init, value |-> init]]
    BY DEF Create
  <1>2. /\ slot \notin bm /\ init \in Int
        /\ kept \in Names \ LongNames => kept = name
        /\ name \notin LongNames => kept = name
        /\ \A i \in bm : semTab[i].name # name
        /\ created' = created \cup {name}
        /\ UNCHANGED <<waitingOn, grants, signals>>
    BY <1>1, SemaphoreAssumption DEF Create, IsLeast, FreeSlots, Named
  <1>3. /\ semTab'[slot] = [name |-> kept, init |-> init, value |-> init]
        /\ \A i \in bm : semTab'[i] = semTab[i]
    BY <1>1, <1>2 DEF UserInv, UserTypeOK
  <1>4. UserTypeOK'
    BY <1>1, <1>2 DEF UserInv, UserTypeOK
  <1>5. NamesUnique' /\ CreatedKept'
    BY <1>1, <1>2, <1>3 DEF UserInv, NamesUnique, CreatedKept
  <1>6. WaitersNamed' /\ FilledFromBegin'
    <2>1. \A j \in Slots : j < slot => j \in bm
      BY <1>1 DEF IsLeast, FreeSlots, Slots
    <2>2. FilledFromBegin'
      BY <1>1, <2>1 DEF UserInv, FilledFromBegin
    <2>3. \A i \in bm : i <= slot
      BY <1>2, SemaphoreAssumption DEF UserInv, UserTypeOK, FilledFromBegin, Slots
    <2>4. WaitersNamed'
      BY <1>1, <1>2, <1>3, <2>3 DEF UserInv, WaitersNamed
    <2> QED BY <2>2, <2>4
  <1>7. Accounted' /\ NeverBelow'
    BY <1>1, <1>2, <1>3 DEF UserInv, UserTypeOK, Accounted, NeverBelow
  <1> QED BY <1>4, <1>5, <1>6, <1>7 DEF UserInv

\* STable::Wait starts a P on the entry that has the name.
LEMMA WaitInv ==
  ASSUME UserInv, NEW p \in Callers, NEW name \in Names, Wait(p, name)
  PROVE  UserInv'
  <1>1. PICK i \in Slots : IsLeast(i, Named(name)) /\ waitingOn' = [waitingOn EXCEPT ![p] = i]
    BY DEF Wait
  <1>2. /\ i \in bm /\ semTab[i].name = name
        /\ \A j \in bm : semTab[j].name = name => i <= j
        /\ UNCHANGED <<bm, semTab, created, grants, signals>>
    BY <1>1, SemaphoreAssumption DEF Wait, IsLeast, Named
  <1>3. UserTypeOK' /\ WaitersNamed'
    BY <1>1, <1>2 DEF UserInv, UserTypeOK, WaitersNamed
  <1>4. NamesUnique' /\ FilledFromBegin' /\ CreatedKept' /\ Accounted' /\ NeverBelow'
    BY <1>2 DEF UserInv, NamesUnique, FilledFromBegin, CreatedKept, Accounted, NeverBelow
  <1> QED BY <1>3, <1>4 DEF UserInv

\* Semaphore::P counts a semaphore down when its value is not 0.
LEMMA PInv ==
  ASSUME UserInv, NEW p \in Callers, P(p)
  PROVE  UserInv'
  <1> DEFINE i == waitingOn[p]
  <1>1. /\ i \in bm /\ i \in Slots /\ semTab[i].value # 0
        /\ semTab' = [semTab EXCEPT ![i].value = @ - 1]
        /\ grants' = [grants EXCEPT ![i] = @ + 1]
        /\ waitingOn' = [waitingOn EXCEPT ![p] = NoSlot]
        /\ UNCHANGED <<bm, created, signals>>
    BY DEF P, Running, UserInv, WaitersNamed, UserTypeOK
  <1> HIDE DEF i
  <1>2. /\ semTab[i] \in [name : Names \cup {NoName}, init : Int, value : Int]
        /\ semTab'[i] = [semTab[i] EXCEPT !.value = semTab[i].value - 1]
        /\ \A j \in Slots \ {i} : semTab'[j] = semTab[j]
        /\ grants'[i] = grants[i] + 1 /\ \A j \in Slots \ {i} : grants'[j] = grants[j]
    BY <1>1 DEF UserInv, UserTypeOK
  <1>3. UserTypeOK'
    BY <1>1, <1>2 DEF UserInv, UserTypeOK
  <1>4. \A j \in Slots : semTab'[j].name = semTab[j].name /\ semTab'[j].init = semTab[j].init
    BY <1>2
  <1>5. NamesUnique' /\ FilledFromBegin' /\ CreatedKept' /\ WaitersNamed'
    BY <1>1, <1>4
    DEF UserInv, UserTypeOK, NamesUnique, FilledFromBegin, CreatedKept, WaitersNamed
  <1>6. Accounted'
    <2>1. semTab'[i].value = semTab[i].value - 1
      BY <1>2
    <2>2. \A j \in bm : semTab'[j].value = semTab'[j].init + signals'[j] - grants'[j]
      <3> SUFFICES ASSUME NEW j \in bm
                   PROVE  semTab'[j].value = semTab'[j].init + signals'[j] - grants'[j]
        OBVIOUS
      <3>1. /\ j \in Slots /\ signals'[j] = signals[j] /\ signals[j] \in Int
            /\ grants[j] \in Int /\ semTab[j].init \in Int /\ semTab'[j].init = semTab[j].init
            /\ semTab[j].value = semTab[j].init + signals[j] - grants[j]
        BY <1>1, <1>4 DEF UserInv, UserTypeOK, Accounted
      <3>2. CASE j = i
        BY <1>2, <2>1, <3>1, <3>2
      <3>3. CASE j # i
        BY <1>2, <3>1, <3>3
      <3> QED BY <3>2, <3>3
    <2>3. \A j \in Slots \ bm : grants'[j] = 0 /\ signals'[j] = 0
      BY <1>1, <1>2 DEF UserInv, Accounted
    <2> QED BY <1>1, <2>2, <2>3 DEF Accounted
  <1>7. NeverBelow'
    <2> SUFFICES ASSUME NEW j \in bm, semTab[j].init >= 0
                 PROVE  semTab'[j].value >= 0
      BY <1>1, <1>4 DEF NeverBelow, UserInv, UserTypeOK
    <2>1. j \in Slots /\ semTab[j].value >= 0 /\ semTab[j].value \in Int
      BY DEF UserInv, UserTypeOK, NeverBelow
    <2>2. CASE j = i
      <3>1. semTab'[i].value = semTab[i].value - 1
        BY <1>2
      <3> QED BY <1>1, <2>1, <2>2, <3>1
    <2>3. CASE j # i
      BY <1>2, <2>1, <2>3
    <2> QED BY <2>2, <2>3
  <1> QED BY <1>3, <1>5, <1>6, <1>7 DEF UserInv

\* STable::Signal counts the semaphore of that name up.
LEMMA SignalInv ==
  ASSUME UserInv, NEW p \in Callers, NEW name \in Names, Signal(p, name)
  PROVE  UserInv'
  <1>1. PICK i \in Slots :
          /\ IsLeast(i, Named(name))
          /\ semTab' = [semTab EXCEPT ![i].value = @ + 1]
          /\ signals' = [signals EXCEPT ![i] = @ + 1]
    BY DEF Signal
  <1>2. i \in bm /\ UNCHANGED <<bm, waitingOn, created, grants>>
    BY <1>1 DEF Signal, IsLeast, Named
  <1>3. /\ semTab[i] \in [name : Names \cup {NoName}, init : Int, value : Int]
        /\ semTab'[i] = [semTab[i] EXCEPT !.value = semTab[i].value + 1]
        /\ \A j \in Slots \ {i} : semTab'[j] = semTab[j]
        /\ signals'[i] = signals[i] + 1 /\ \A j \in Slots \ {i} : signals'[j] = signals[j]
    BY <1>1 DEF UserInv, UserTypeOK
  <1>4. UserTypeOK'
    BY <1>1, <1>2, <1>3 DEF UserInv, UserTypeOK
  <1>5. \A j \in Slots : semTab'[j].name = semTab[j].name /\ semTab'[j].init = semTab[j].init
    BY <1>3
  <1>6. NamesUnique' /\ FilledFromBegin' /\ CreatedKept' /\ WaitersNamed'
    BY <1>2, <1>5
    DEF UserInv, UserTypeOK, NamesUnique, FilledFromBegin, CreatedKept, WaitersNamed
  <1>7. semTab'[i].value = semTab[i].value + 1
    BY <1>3
  <1>8. \A j \in bm :
          /\ semTab'[j].value = semTab'[j].init + signals'[j] - grants'[j]
          /\ semTab'[j].init >= 0 => semTab'[j].value >= 0
    <2> SUFFICES ASSUME NEW j \in bm
                 PROVE  /\ semTab'[j].value = semTab'[j].init + signals'[j] - grants'[j]
                        /\ semTab'[j].init >= 0 => semTab'[j].value >= 0
      OBVIOUS
    <2>1. /\ j \in Slots /\ grants'[j] = grants[j] /\ grants[j] \in Int /\ signals[j] \in Int
          /\ semTab[j].init \in Int /\ semTab[j].value \in Int /\ semTab'[j].init = semTab[j].init
          /\ semTab[j].value = semTab[j].init + signals[j] - grants[j]
          /\ semTab[j].init >= 0 => semTab[j].value >= 0
      BY <1>2, <1>5 DEF UserInv, UserTypeOK, Accounted, NeverBelow
    <2>2. CASE j = i
      BY <1>3, <1>7, <2>1, <2>2
    <2>3. CASE j # i
      BY <1>3, <2>1, <2>3
    <2> QED BY <2>2, <2>3
  <1>9. \A j \in Slots \ bm : grants'[j] = 0 /\ signals'[j] = 0
    BY <1>2, <1>3 DEF UserInv, Accounted
  <1> QED BY <1>2, <1>4, <1>6, <1>8, <1>9 DEF UserInv, Accounted, NeverBelow

\* The invariant says what the table promises.
LEMMA UserInvSafe == UserInv => SemaphoresSafe
  <1> SUFFICES ASSUME UserInv PROVE SemaphoresSafe
    OBVIOUS
  <1>1. CreatedIsFound
    <2> SUFFICES ASSUME NEW name \in Names \ LongNames
                 PROVE  /\ Cardinality(Named(name)) <= 1
                        /\ name \in created => Named(name) # {}
      BY DEF CreatedIsFound
    <2>1. name \in Names \ LongNames
      OBVIOUS
    <2>2. Cardinality(Named(name)) <= 1
      <3>1. CASE Named(name) = {}
        BY <3>1, FS_EmptySet
      <3>2. ASSUME NEW i \in Named(name)
            PROVE  Cardinality(Named(name)) <= 1
        <4>1. Named(name) = {i}
          BY <2>1, <3>2 DEF Named, UserInv, NamesUnique
        <4>2. Cardinality({i}) = 1
          BY FS_Singleton
        <4> QED BY <4>1, <4>2
      <3> QED BY <3>1, <3>2
    <2>3. name \in created => Named(name) # {}
      BY DEF Named, UserInv, CreatedKept
    <2> QED BY <2>2, <2>3
  <1>2. WaitersReachable
    BY DEF WaitersReachable, UserInv, WaitersNamed, IsLeast, Named
  <1>3. GrantsBounded
    BY DEF GrantsBounded, UserInv, UserTypeOK, Accounted, NeverBelow
  <1> QED BY <1>1, <1>2, <1>3 DEF SemaphoresSafe, UserInv

-------------------------------------------------------------------------------

\* The table of semaphores keeps its promises in every state: a semaphore that
\* was created is found by its name and by no other, whoever waits can still be
\* signalled, and no more processes pass than first value and signals allow
\* (STable, Sem, Semaphore).
THEOREM SemaphoresCorrect == UserSpec => []SemaphoresSafe
  <1>1. UserInit => UserInv
    BY UserInitInv
  <1>2. UserInv /\ [UserNext]_uvars => UserInv'
    <2> SUFFICES ASSUME UserInv, [UserNext]_uvars PROVE UserInv'
      OBVIOUS
    <2>1. CASE UNCHANGED uvars
      BY <2>1 DEF uvars, UserInv, UserTypeOK, NamesUnique, FilledFromBegin, CreatedKept, WaitersNamed,
                  Accounted, NeverBelow
    <2>2. CASE UserNext
      BY <2>2, CreateInv, WaitInv, PInv, SignalInv DEF UserNext
    <2> QED BY <2>1, <2>2
  <1> QED BY <1>1, <1>2, UserInvSafe, PTL DEF UserSpec
===============================================================================
