-------------------------------- MODULE StartUp --------------------------------
(***************************************************************************)
(* What the words of a command line make Nachos do: Initialize             *)
(* (threads/system.cc) and main (threads/main.cc) each go through the whole*)
(* line, with different flags; and the global objects that Initialize      *)
(* creates and Cleanup deletes.                                            *)
(*                                                                         *)
(* Then the tests that come with Nachos: files copied, printed, written    *)
(* and read in small pieces (filesys/fstest.cc), and two threads that take *)
(* turns (threads/threadtest.cc).                                          *)
(*                                                                         *)
(* A build is the set of the symbols its Makefile defines. "w" is any word *)
(* that is not a flag: a name, a number.                                   *)
(***************************************************************************)
EXTENDS OpenFile, SequencesExt

CONSTANTS TransferSize,    \* bytes of a piece
          Loops            \* turns of a thread

Builds == { {"USER_PROGRAM", "FILESYS_NEEDED"},
            {"THREADS", "USER_PROGRAM", "FILESYS_NEEDED", "FILESYS"},
            {"USER_PROGRAM", "FILESYS_NEEDED", "FILESYS", "NETWORK"} }

Flags == {"-d", "-rs", "-s", "-f", "-l", "-m", "-z", "-x", "-c", "-cp", "-p", "-r", "-D", "-t",
          "-o", "-n", "-q"}

-------------------------------------------------------------------------------
\* Both loops: a word takes Width(word, left) of the words that are left, itself
\* included, and the next one is looked at; a width of 0 is a failed ASSERT. The
\* result are the words looked at, with their positions, and "abort".
Looked(line, Width(_, _)) ==
  LET from[i \in 1..(Len(line) + 3)] ==
        IF i > Len(line) THEN <<>>
        ELSE LET width == Width(line[i], Len(line) - i + 1)
             IN  IF width = 0 THEN <<<<"abort", i>>>> ELSE <<<<line[i], i>>>> \o from[i + width]
  IN  from[1]

OrAbort(n, left) == IF left >= n THEN n ELSE 0

\* Initialize.
InitializeWidth(build, word, left) ==
  CASE word = "-d" -> IF left = 1 THEN 1 ELSE 2
    [] word = "-rs" -> OrAbort(2, left)
    [] word \in {"-l", "-m"} /\ "NETWORK" \in build -> OrAbort(2, left)
    [] OTHER -> 1

InitializeFlags(build) ==
  {"-d", "-rs"} \cup (IF "USER_PROGRAM" \in build THEN {"-s"} ELSE {})
    \cup (IF "FILESYS_NEEDED" \in build THEN {"-f"} ELSE {})
    \cup (IF "NETWORK" \in build THEN {"-l", "-m"} ELSE {})

Options(build, line) ==
  LET looked == Looked(line, LAMBDA word, left : InitializeWidth(build, word, left))
  IN  {looked[n][1] : n \in DOMAIN looked} \cap (InitializeFlags(build) \cup {"abort"})

\* main.
MainWidth(build, word, left) ==
  CASE word = "-x" /\ "USER_PROGRAM" \in build -> OrAbort(2, left)
    [] word = "-c" /\ "USER_PROGRAM" \in build -> IF left = 1 THEN 1 ELSE OrAbort(3, left)
    [] word = "-cp" /\ "FILESYS" \in build -> OrAbort(3, left)
    [] word \in {"-p", "-r"} /\ "FILESYS" \in build -> OrAbort(2, left)
    [] word = "-o" /\ "NETWORK" \in build -> OrAbort(2, left)
    [] OTHER -> 1

MainFlags(build) ==
  {"-z"} \cup (IF "USER_PROGRAM" \in build THEN {"-x", "-c"} ELSE {})
    \cup (IF "FILESYS" \in build THEN {"-cp", "-p", "-r", "-l", "-D", "-t"} ELSE {})
    \cup (IF "NETWORK" \in build THEN {"-o"} ELSE {})

\* The tests of the console and of the network end by halting.
UntilHalt(commands) ==
  LET ends == {n \in DOMAIN commands : commands[n][1] \in {"-c", "-o"}}
  IN  IF ends = {} THEN commands ELSE SubSeq(commands, 1, CHOOSE n \in ends : \A m \in ends : n <= m)

\* With THREADS a loop of its own takes all the words, for the number of the
\* thread test, and leaves none for the other flags.
Commands(build, line) ==
  IF "THREADS" \in build THEN <<>>
  ELSE UntilHalt(SelectSeq(Looked(line, LAMBDA word, left : MainWidth(build, word, left)),
                           LAMBDA command : command[1] \in MainFlags(build) \cup {"abort"}))

\* The thread test that is run; a "-q" without a number reads a null pointer.
ThreadTestRun(line) ==
  LET looked == Looked(line, LAMBDA word, left : IF word = "-q" THEN OrAbort(2, left) ELSE 1)
  IN  IF line # <<>> /\ Last(looked)[1] = "abort" THEN "crash"
      ELSE IF looked # <<>> /\ Last(looked)[1] = "-q" THEN "number" ELSE "first"

-------------------------------------------------------------------------------
\* The global objects, in the order in which Initialize creates them.
Created(build, options) ==
  <<"stats", "interrupt", "scheduler">>
    \o (IF "-rs" \in options THEN <<"timer">> ELSE <<>>)
    \o <<"currentThread", "pTab", "semTab", "gPhysPageBitMap", "addrLock">>
    \o (IF "USER_PROGRAM" \in build THEN <<"machine", "gSynchConsole">> ELSE <<>>)
    \o (IF "FILESYS" \in build THEN <<"synchDisk">> ELSE <<>>)
    \o (IF "FILESYS_NEEDED" \in build THEN <<"fileSystem">> ELSE <<>>)
    \o (IF "NETWORK" \in build THEN <<"postOffice">> ELSE <<>>)

\* What Cleanup deletes, in its order; a timer that was not created is null.
Deleted(build) ==
  (IF "NETWORK" \in build THEN <<"postOffice">> ELSE <<>>)
    \o (IF "USER_PROGRAM" \in build THEN <<"machine", "gSynchConsole">> ELSE <<>>)
    \o (IF "FILESYS_NEEDED" \in build THEN <<"fileSystem">> ELSE <<>>)
    \o (IF "FILESYS" \in build THEN <<"synchDisk">> ELSE <<>>)
    \o <<"timer", "scheduler", "interrupt", "addrLock", "semTab", "gPhysPageBitMap">>

\* The objects that the constructor of an object calls.
Needs(object) ==
  CASE object = "timer" -> {"interrupt", "stats"}
    [] object = "gSynchConsole" -> {"interrupt", "stats"}
    [] object = "fileSystem" -> {"synchDisk", "currentThread", "scheduler", "interrupt", "stats"}
    [] object = "postOffice" -> {"scheduler", "interrupt", "stats"}
    [] OTHER -> {}

-------------------------------------------------------------------------------
(* What is right *)

Operands(flag) ==
  CASE flag \in {"-d", "-rs", "-x", "-p", "-r", "-n", "-m", "-o", "-q"} -> 1
    [] flag \in {"-c", "-cp"} -> 2
    [] OTHER -> 0

\* The flags of a line, as the usage note of main.cc gives their operands; the
\* last -d and the last -c need none.
Meant(line) ==
  Looked(line, LAMBDA word, left :
                 IF word \in {"-d", "-c"} /\ left = 1 THEN 1 ELSE OrAbort(1 + Operands(word), left))

\* Every flag has its operands; no operand looks like a flag of a loop that does
\* not take it as the operand it is.
Plain(build, line) ==
  LET meant == Meant(line)
      starts == {meant[n][2] : n \in DOMAIN meant}
      Taker(i) == line[CHOOSE k \in starts : k <= i /\ \A l \in starts : l <= i => l <= k]
  IN  /\ \A n \in DOMAIN meant : meant[n][1] \notin {"abort", "w"}
      /\ \A i \in DOMAIN line \ starts : \A flags \in {InitializeFlags(build), MainFlags(build), {"-q"}} :
           line[i] \in flags => Taker(i) \in flags

\* A plain line has the effect the usage note describes: every flag, once and in
\* order. Known to differ: the network's reliability is -l, not -n, which takes
\* a word from or with the line; with THREADS only Initialize's flags work.
ReadAsMeant(build, line) ==
  LET meant == Meant(line)
      given == {meant[n][1] : n \in DOMAIN meant}
  IN  Plain(build, line) =>
        /\ \/ "NETWORK" \in build /\ "-l" \in given
           \/ Options(build, line) = given \cap InitializeFlags(build)
        /\ \/ "THREADS" \in build
           \/ Commands(build, line) =
                UntilHalt(SelectSeq(meant, LAMBDA m : m[1] \in MainFlags(build)))
        /\ "-q" \in given => ThreadTestRun(line) # "crash"

\* An object is created after those it needs and deleted before them; Cleanup
\* deletes all of them but three.
CreatedInOrder(build, line) ==
  LET created == Created(build, Options(build, line))
      deleted == Deleted(build)
      before(order, x, y) == \E m, n \in DOMAIN order : m < n /\ order[m] = x /\ order[n] = y
  IN  /\ \A object \in ToSet(created) : \A need \in Needs(object) \cap (ToSet(created) \cup ToSet(deleted)) :
           /\ before(created, need, object)
           /\ need \in ToSet(deleted) => before(deleted, object, need)
      /\ ToSet(deleted) \cup {"stats", "currentThread", "pTab"} = ToSet(created) \cup {"timer"}

-------------------------------------------------------------------------------
(* The tests *)

\* A file of n bytes that has just been created: whole sectors of old contents.
NewFile(n) ==
  LET sectors == (n + SectorSize - 1) \div SectorSize
  IN  [len |-> n, bytes |-> [j \in 1..(SectorSize * sectors) |-> Junk]]

Opened(file) == [file |-> file, seekPosition |-> 0]

\* OpenFile::Write and OpenFile::Read move the position by what was transferred.
Written(open, bytes) ==
  [file |-> WriteAt(open.file, bytes, open.seekPosition),
   seekPosition |-> open.seekPosition + Clipped(open.file, Len(bytes), open.seekPosition)]

\* The pieces that fread returns until the end of the host's file.
Pieces(from) ==
  LET least(x, y) == IF x < y THEN x ELSE y
      count == (Len(from) + TransferSize - 1) \div TransferSize
  IN  [k \in 1..count |-> SubSeq(from, TransferSize * (k - 1) + 1, least(TransferSize * k, Len(from)))]

\* Copy, into a file of the length of the source.
Copy(from) == FoldLeft(Written, Opened(NewFile(Len(from))), Pieces(from)).file

\* FilePrint: pieces are read until none is left.
PrintFile(file) ==
  LET from[position \in 0..(file.len + TransferSize)] ==
        LET piece == ReadAt(file, TransferSize, position)
        IN  IF piece = <<>> THEN <<>> ELSE piece \o from[position + Len(piece)]
  IN  from[0]

\* FileWrite and FileRead stop at the first piece that is not transferred whole;
\* the file of the test is created with a length, and files do not grow.
FileWrite(file, piece, n) ==
  LET after[k \in 0..n] ==
        IF k = 0 THEN Opened(file) @@ [failed |-> FALSE]
        ELSE LET open == after[k - 1]
                 whole == Clipped(open.file, Len(piece), open.seekPosition) = Len(piece)
             IN  IF open.failed THEN open ELSE Written(open, piece) @@ [failed |-> ~whole]
  IN  after[n]

FileRead(file, piece, n) ==
  \A k \in 0..(n - 1) : ReadAt(file, Len(piece), k * Len(piece)) = piece

\* What PerformanceTest reports of the writing and of the reading of a file that
\* was created with the length given.
PerformanceTest(length, piece, n) ==
  LET write == FileWrite(NewFile(length), piece, n)
  IN  <<~write.failed, FileRead(write.file, piece, n)>>

\* ThreadTest1: SimpleThread(1) is forked, SimpleThread(0) is called; a thread
\* that has looped yields to the ready list, and is at its end.
ThreadTest ==
  LET start == [current |-> 0, ready |-> <<1>>, num |-> [t \in {0, 1} |-> 0], printed |-> <<>>]
      turn(s, k) ==
        LET t == s.current
            looped == [s EXCEPT !.printed = Append(@, <<t, s.num[t]>>), !.num[t] = @ + 1,
                                !.ready = Tail(Append(@, t)), !.current = Head(Append(s.ready, t))]
            ended == [s EXCEPT !.ready = Tail(@), !.current = Head(s.ready)]
        IN  IF s.num[t] < Loops THEN looped ELSE IF s.ready = <<>> THEN s ELSE ended
      all == 2 * Loops + 2
  IN  FoldLeft(turn, start, [k \in 1..all |-> k]).printed

-------------------------------------------------------------------------------
(* What is right *)

\* What was copied is printed; the performance test succeeds with a file of the
\* size it writes, and not with the empty one that it creates.
FilesCopied(from, n) ==
  /\ PrintFile(Copy(from)) = from
  /\ from # <<>> /\ n > 0 =>
       /\ PerformanceTest(n * Len(from), from, n) = <<TRUE, TRUE>>
       /\ PerformanceTest(0, from, n) = <<FALSE, FALSE>>

\* The threads print in turn.
ThreadsTakeTurns == ThreadTest = [k \in 1..(2 * Loops) |-> <<(k - 1) % 2, (k - 1) \div 2>>]
===============================================================================
