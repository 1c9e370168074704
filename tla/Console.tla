-------------------------------- MODULE Console --------------------------------
(***************************************************************************)
(* The console: the simulated keyboard and display of machine/console.cc,  *)
(* SynchConsole over them (threads/synchcons.cc), and the system calls of  *)
(* userprog/exception.cc that print and read.                              *)
(*                                                                         *)
(* The semaphores are the counters that Kernel shows them to be: P is one  *)
(* step that waits for a positive value, V adds one. A thread can be       *)
(* switched after any P or V, so each starts a step of its own.            *)
(***************************************************************************)
EXTENDS Integers, Sequences, FiniteSets

CONSTANTS
  Threads,
  Prints,     \* calls that print: for each Write they make, its length
  Reads,      \* sizes asked of Read
  Input,      \* what may be typed: sequences of characters
  MaxDisplay, \* bound on the characters displayed
  Eof         \* the character whose code is that of an empty buffer

Newline == "newline"
CtrlA == "ctrl-A"

ASSUME ConsoleAssumption ==
  /\ \A w \in Prints : w \in Seq(Nat \ {0}) /\ w # <<>>
  /\ Reads \subseteq Nat
  /\ \A line \in Input : line \in Seq({line[i] : i \in DOMAIN line})
  /\ MaxDisplay \in Nat

VARIABLES
  putBusy,    \* Console: a character is being output
  incoming,   \* Console: the character buffered, or Eof
  typed,      \* the keyboard: characters not yet read by the console
  readAvail, writeAvail, rLine, wLine,  \* the four semaphores
  step,       \* where each thread is
  writes,     \* the lengths of the Writes its call has still to make
  left,       \* characters still to put or to read in this Write or Read
  display,    \* history: who put each character, and whether it ends a Write
  taken,      \* history: the characters readers have taken
  putFailed     \* the ASSERT of PutChar has failed

hardware == <<putBusy, incoming, typed>>
sems == <<readAvail, writeAvail, rLine, wLine>>
cvars == <<putBusy, incoming, typed, readAvail, writeAvail, rLine, wLine,
           step, writes, left, display, taken, putFailed>>

InWrite == {"put", "wait", "written"}
InRead == {"await", "get", "line"}
Steps == {"user", "write", "read"} \cup InWrite \cup InRead

Total(w) == LET sum[i \in 0..Len(w)] == IF i = 0 THEN 0 ELSE sum[i - 1] + w[i]
            IN  sum[Len(w)]

ConsoleInit ==
  /\ putBusy = FALSE /\ incoming = Eof /\ typed \in Input
  /\ readAvail = 0 /\ writeAvail = 0 /\ rLine = 1 /\ wLine = 1
  /\ step = [t \in Threads |-> "user"]
  /\ writes = [t \in Threads |-> <<>>]
  /\ left = [t \in Threads |-> 0]
  /\ display = <<>> /\ taken = <<>>
  /\ putFailed = FALSE

Go(t, s) == step' = [step EXCEPT ![t] = s]

-------------------------------------------------------------------------------
(* Printing *)

\* PrintString and WriteF make one Write for each character; PrintInt makes one
\* for the sign and one for the digits.
StartPrint(t, w) ==
  /\ step[t] = "user"
  /\ Len(display) + Total(w) <= MaxDisplay
  /\ Go(t, "write")
  /\ writes' = [writes EXCEPT ![t] = w]
  /\ UNCHANGED <<hardware, sems, left, display, taken, putFailed>>

\* A slip: Write does not take the line.
WriteWithoutLine(t) ==
  /\ step[t] = "write"
  /\ left' = [left EXCEPT ![t] = Head(writes[t])]
  /\ Go(t, "put")
  /\ UNCHANGED <<hardware, sems, writes, display, taken, putFailed>>

\* SynchConsole::Write, WLineBlock->P.
WriteLine(t) ==
  /\ step[t] = "write"
  /\ wLine > 0
  /\ wLine' = wLine - 1
  /\ left' = [left EXCEPT ![t] = Head(writes[t])]
  /\ Go(t, "put")
  /\ UNCHANGED <<hardware, readAvail, writeAvail, rLine, writes, display, taken, putFailed>>

\* Console::PutChar: the interrupt that ends it is under way while putBusy.
PutChar(t) ==
  /\ step[t] = "put"
  /\ IF putBusy
     THEN putFailed' = TRUE /\ UNCHANGED <<putBusy, display, step>>
     ELSE /\ putBusy' = TRUE
          /\ display' = Append(display, [by |-> t, last |-> left[t] = 1])
          /\ Go(t, "wait")
          /\ UNCHANGED putFailed
  /\ UNCHANGED <<incoming, typed, sems, writes, left, taken>>

\* synchWriteAvail->P, and round the loop.
Written(t) ==
  /\ step[t] = "wait"
  /\ writeAvail > 0
  /\ writeAvail' = writeAvail - 1
  /\ left' = [left EXCEPT ![t] = @ - 1]
  /\ Go(t, IF left[t] = 1 THEN "written" ELSE "put")
  /\ UNCHANGED <<hardware, readAvail, rLine, wLine, writes, display, taken, putFailed>>

\* WLineBlock->V, and back to the caller or to its next Write.
EndWrite(t) ==
  /\ step[t] = "written"
  /\ wLine' = wLine + 1
  /\ writes' = [writes EXCEPT ![t] = Tail(@)]
  /\ Go(t, IF Len(writes[t]) = 1 THEN "user" ELSE "write")
  /\ UNCHANGED <<hardware, readAvail, writeAvail, rLine, left, display, taken, putFailed>>

\* Console::WriteDone, the interrupt.
WriteDone ==
  /\ putBusy
  /\ putBusy' = FALSE
  /\ writeAvail' = writeAvail + 1
  /\ UNCHANGED <<incoming, typed, readAvail, rLine, wLine, step, writes, left, display, taken, putFailed>>

-------------------------------------------------------------------------------
(* Reading *)

\* ReadString, ReadChar, ReadInt, and ReadF on the keyboard: one Read.
ReadCall(t, n) ==
  /\ step[t] = "user"
  /\ Go(t, "read")
  /\ left' = [left EXCEPT ![t] = n]
  /\ UNCHANGED <<hardware, sems, writes, display, taken, putFailed>>

\* SynchConsole::Read, RLineBlock->P.
ReadLine(t) ==
  /\ step[t] = "read"
  /\ rLine > 0
  /\ rLine' = rLine - 1
  /\ Go(t, IF left[t] = 0 THEN "line" ELSE "await")
  /\ UNCHANGED <<hardware, readAvail, writeAvail, wLine, writes, left, display, taken, putFailed>>

\* synchReadAvail->P.
AwaitChar(t) ==
  /\ step[t] = "await"
  /\ readAvail > 0
  /\ readAvail' = readAvail - 1
  /\ Go(t, "get")
  /\ UNCHANGED <<hardware, writeAvail, rLine, wLine, writes, left, display, taken, putFailed>>

\* Console::GetChar: Eof says that the buffer was empty, or that the character
\* typed has that code; a newline or ctrl-A ends the line and is not stored.
GetChar(t) ==
  /\ step[t] = "get"
  /\ incoming' = Eof
  /\ taken' = IF incoming = Eof THEN taken ELSE Append(taken, [by |-> t, char |-> incoming])
  /\ IF incoming = Eof
     THEN Go(t, "await") /\ UNCHANGED left
     ELSE IF incoming \in {Newline, CtrlA}
     THEN Go(t, "line") /\ UNCHANGED left
     ELSE /\ Go(t, IF left[t] = 1 THEN "line" ELSE "await")
          /\ left' = [left EXCEPT ![t] = @ - 1]
  /\ UNCHANGED <<putBusy, typed, sems, writes, display, putFailed>>

\* RLineBlock->V. What Read returns is not modelled: after no character at all
\* it is decided by a variable that was never set.
EndRead(t) ==
  /\ step[t] = "line"
  /\ rLine' = rLine + 1
  /\ Go(t, "user")
  /\ UNCHANGED <<hardware, readAvail, writeAvail, wLine, writes, left, display, taken, putFailed>>

\* What the host has of typed characters that were not read yet.
PollFile == typed # <<>>

\* Console::CheckCharAvail, the interrupt that polls the keyboard for ever.
CheckCharAvail ==
  /\ incoming = Eof
  /\ PollFile
  /\ incoming' = Head(typed) /\ typed' = Tail(typed)
  /\ readAvail' = readAvail + 1
  /\ UNCHANGED <<putBusy, writeAvail, rLine, wLine, step, writes, left, display, taken, putFailed>>

-------------------------------------------------------------------------------

ThreadStep(t) ==
  \/ WriteLine(t) \/ PutChar(t) \/ Written(t) \/ EndWrite(t)
  \/ ReadLine(t) \/ AwaitChar(t) \/ GetChar(t) \/ EndRead(t)

ConsoleNext ==
  /\ ~putFailed
  /\ \/ \E t \in Threads : ThreadStep(t) \/ (\E w \in Prints : StartPrint(t, w))
                                         \/ (\E n \in Reads : ReadCall(t, n))
     \/ WriteDone \/ CheckCharAvail

\* Interrupts come, and every thread that can run is run.
ConsoleFairness ==
  /\ WF_cvars(WriteDone) /\ WF_cvars(CheckCharAvail)
  /\ \A t \in Threads : WF_cvars(~putFailed /\ ThreadStep(t))

ConsoleSpec == ConsoleInit /\ [][ConsoleNext]_cvars

-------------------------------------------------------------------------------
(* Properties *)

\* The types of the console, the semaphores and the threads.
ConsoleTypeOK ==
  /\ putBusy \in BOOLEAN /\ putFailed \in BOOLEAN
  /\ readAvail \in Nat /\ writeAvail \in Nat /\ rLine \in 0..1 /\ wLine \in 0..1
  /\ step \in [Threads -> Steps]
  /\ left \in [Threads -> Nat]
  /\ \A t \in Threads : writes[t] \in Seq(Nat \ {0})
  /\ \A i \in DOMAIN display : display[i] \in [by : Threads, last : BOOLEAN]

\* PutChar's ASSERT never fails: the console is idle whenever a Write puts a
\* character, whatever the threads and the interrupts do in between.
NeverBusy == ~putFailed

\* The characters of one Write stand together on the display: a character that
\* does not end a Write is followed by one of the same thread.
WritesWhole ==
  \A i \in 1..(Len(display) - 1) :
    ~display[i].last => display[i + 1].by = display[i].by

\* A Write that has the display ends, whatever the other threads do.
WriteEnds == \A t \in Threads : step[t] \in InWrite ~> step[t] \notin InWrite

Buffered == IF incoming = Eof THEN <<>> ELSE <<incoming>>
Chars(s) == [i \in DOMAIN s |-> s[i].char]

\* What the first i characters of a line are without those of the code of Eof.
WithoutEof(line) ==
  LET kept[i \in 0..Len(line)] ==
        IF i = 0 THEN <<>>
        ELSE IF line[i] = Eof THEN kept[i - 1] ELSE Append(kept[i - 1], line[i])
  IN  kept

\* Nothing that is typed is lost, doubled or reordered between the keyboard
\* and the readers, except characters with the code of Eof, which are dropped:
\* what the console has not read is the end of the line that was typed, and
\* what it has read is with the readers or in the buffer.
InputKept ==
  \E line \in Input : \E k \in 0..Len(line) :
    /\ typed = SubSeq(line, k + 1, Len(line))
    /\ Chars(taken) \o Buffered = WithoutEof(line)[k]

Readers == {t \in Threads : step[t] \in InRead}

\* One thread at a time takes characters, so that a line has one reader, and a
\* character in the buffer has a V that no reader has used up.
CharAnnounced ==
  /\ \A t, u \in Readers : t = u
  /\ incoming # Eof => readAvail > 0 \/ \E t \in Threads : step[t] = "get"

\* What the console promises the calls that print and read.
ConsoleSafe == ConsoleTypeOK /\ NeverBusy /\ WritesWhole /\ InputKept /\ CharAnnounced
===============================================================================
