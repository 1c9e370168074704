------------------------------- MODULE MCMachine -------------------------------
(***************************************************************************)
(* The machine that user programs run on, and computations about it: its   *)
(* instructions, its loads and stores, the conversions of the system calls *)
(* on integers, and the way of an executable into memory. A behaviour      *)
(* exercises the machine or one computation on one input.                  *)
(***************************************************************************)
EXTENDS Machine, Computations, Bitwise

vars == <<mvars, part, input>>

Primer == INSTANCE Stacks WITH Heap <- 1..10
HostSide == INSTANCE HostFiles WITH MagicNumber <- <<7, 8>>, SectorSize <- 2, NumSectors <- 2
User == INSTANCE UserPrograms WITH Execs <- 5
Switching == INSTANCE ContextSwitch
Codes == INSTANCE InstructionCodes
Starting == INSTANCE StartUp WITH SectorSize <- 4, Junk <- 9, TransferSize <- 3, Loops <- 5

MCAnd(x, y) == x & y
MCOr(x, y) == x | y
MCXor(x, y) == x ^^ y

\* The words of the programs that both simulators run.
BothDecode(w) ==
  CASE w = 0 -> [op |-> "syscall"]
    [] w = 1 -> [op |-> "alu", rs |-> 1, rt |-> 1, rd |-> 1]
    [] w = 2 -> [op |-> "load", rs |-> 1, rt |-> 2]
    [] w = 3 -> [op |-> "store", rs |-> 1, rt |-> 2]
    [] w = 4 -> [op |-> "branch", rs |-> 0, rt |-> 1, extra |-> 2]
    [] w \in {5, 7} -> [op |-> "jump", rs |-> 1, rd |-> w - 5]
    [] w = 6 -> [op |-> "alu", rs |-> 2, rt |-> 0, rd |-> 0]
    [] OTHER -> [op |-> "illegal"]
BothAlu(x, y) == (x + y + 1) % 9
Tool == INSTANCE StandAlone
          WITH Decode <- BothDecode, Alu <- BothAlu, Regs <- 0..2, StackReg <- 1, ResultReg <- 1,
               StackGap <- 1, PageSize <- 1, ArgSlots <- 2, MemSize <- 6, BreakUnit <- 4

\* The words of the machine's programs: words above 4 are illegal instructions.
MCDecode(w) ==
  CASE w = 0 -> [op |-> "syscall"]
    [] w = 1 -> [op |-> "alu", rs |-> 1, rt |-> 1, rd |-> 1]
    [] w = 2 -> [op |-> "load", rs |-> 1, rt |-> 1]
    [] w = 3 -> [op |-> "store", rs |-> 1, rt |-> 1]
    [] w = 4 -> [op |-> "branch", rs |-> 0, rt |-> 1, extra |-> -1]
    [] w = 5 -> [op |-> "jump", rs |-> 1, rd |-> 1]
    [] OTHER -> [op |-> "illegal"]
MCAlu(x, y) == (x + y + 1) % 4
MCImages ==
  LET pages(words) == [v \in 0..(Len(words) - 1) |-> [o \in Offsets |-> words[v + 1]]]
  IN  {pages(<<0, 2>>), pages(<<0>>)}
ProcessSymmetry == Permutations(Processes)

Lines == UNION {[1..n -> {Minus, 0, 1, 2, 7, 8, 9, 10}] : n \in 0..4}

\* input.txt: the one of the repository, and some of zero to four groups, more
\* than there are processes for.
Inputs ==
  LET groups == {<<<<3>>, <<1, 2>>>>, <<<<2>>, <<2>>, <<1>>>>, <<<<0>>>>}
      lines(n) == {<<<<<<n>>>>>> \o rest : rest \in [1..n -> groups]}
  IN  UNION {lines(n) : n \in {0, 1, 2, 4}}
        \cup {<<<<<<3>>>>, <<<<4>>, <<2>>, <<1>>>>, <<<<5>>, <<3>>, <<4>>, <<1>>>>, <<<<8>>, <<5>>, <<2>>>>>>}

\* Command lines: all short ones, and longer ones of the flags that take words.
CommandLines ==
  UNION {[1..n -> Starting!Flags \cup {"w"}] : n \in 0..2}
    \cup UNION {[1..n -> {"-cp", "-f", "-x", "-rs", "-c", "-l", "-q", "w"}] : n \in 3..4}

\* Words of the stand-alone simulator's command line, and arguments of programs.
ToolWords == {<<>>, <<"a">>, <<"-">>, <<"-", "t">>, <<"-", "m">>, <<"-", "m", "r">>}
Strings == UNION {[1..n -> {1}] : n \in 0..2}

\* The worlds of the conversions: wrong files with at most one section.
MCWorlds ==
  Converting!Worlds(0) \cup Converting!Worlds(1)
    \cup {w \in Converting!Worlds(2) : w.opens /\ w.magic /\ w.omagic}

ToolInit ==
  \/ part = "both" /\ input \in [0..3 -> 0..7] \X {0, 3} \X (1..5)
  \/ part = "arguments" /\ input \in UNION {[1..n -> Strings] : n \in 0..4}
  \/ part = "options" /\ input \in UNION {[1..n -> ToolWords] : n \in 0..5}
  \/ part = "sections" /\ input \in [1..2 -> [inFile : BOOLEAN, at : 0..6, size : 0..6]]
  \/ part = "conversion" /\ input \in MCWorlds

LibraryInit ==
  \/ part = "stack" /\ input \in (UNION {[1..n -> {-1, 1, 2}] : n \in 0..5}) \X (1..3)
  \/ part = "bitmap" /\
       \E nitems \in 1..5 :
         \E first \in [1..nitems -> {"mark", "clear"}], call \in Maps!Calls(nitems) :
           input \in {nitems} \X [0..((nitems - 1) \div 3) -> {0, 5, 7}]
                      \X {Append([k \in 1..nitems |-> <<first[k], <<k - 1, 0>>>>], call)}
  \/ part = "host" /\ input \in UNION {[1..n -> HostSide!Calls] : n \in 0..3}
  \/ part = "diskfile" /\
       input \in (UNION {[1..n -> (0..1) \X {<<1, 2>>, <<3, 4>>}] : n \in 0..3}) \X (1..4)

Init ==
  /\ MachineInit
  /\ \/ part = "machine" /\ input = <<>>
     \/ part = "instruction" /\ input \in Ops \X Words \X Words
     \/ part = "access"
        /\ input \in Access!Stores \X [0..3 -> 0..1] \X (-1..4) \X (0..15) \X {0, 10, 15}
     \/ part = "line" /\ input \in Lines
     \/ part = "list" /\ input \in [1..4 -> Queue!Calls]
     \/ part = "int" /\ input \in MinInt..MaxInt
     \/ part = "taps" /\ input \in Inputs \X {0, 1, 12}
     \/ part = "sort" /\ input \in UNION {[1..n -> 1..4] : n \in 0..4}
     \/ part = "executable" /\
          input \in ((0..6) \X {0, 1, 4} \X (0..6) \X {0, 1} \X {0, 2}) \X (-1..3)
     \/ part = "switch" /\ input \in Switching!Hosts
     \/ part = "code" /\ input \in Codes!Words
     \/ part = "start" /\ input \in Starting!Builds \X CommandLines
     \/ part = "test" /\ input \in (UNION {[1..n -> {1, 2}] : n \in 0..7}) \X (0..3)
     \/ ToolInit \/ LibraryInit

Next == part = "machine" /\ MachineNext /\ UNCHANGED <<part, input>>

Spec == Init /\ [][Next]_vars

\* The assembly code of every host switches between threads, the words of the
\* instructions mean the same to all tools, and a program that keeps to the rules
\* of the processor runs the same in both simulators; the stand-alone one finds
\* its words, the program its arguments; the primer's tests pop what they pushed.
\* A stack is last-in first-out; an object of the stub build reads
\* and writes at its own offset, and the file of the disk gives back what was
\* written.
ToolsRight ==
  /\ part = "switch" => Switching!SwitchesRight(input)
  /\ part = "code" => Codes!CodesAgree(input)
  /\ part = "both" =>
       Tool!SameRun([v \in 0..3 |-> [o \in {0} |-> input[1][v]]],
                    [reg \in 0..2 |-> IF reg = 1 THEN input[2] ELSE 0], input[3])
  /\ part = "sections" => Tool!ProgramFits(input)
  /\ part = "options" => Tool!LineRead(input)
  /\ part = "arguments" => Tool!ArgumentsFound(input)
  /\ part = "stack" => Primer!StacksRight(input[1], input[2]) /\ Primer!TestsRight
  /\ part = "host" => HostSide!OffsetsAreOwn(input)
  /\ part = "diskfile" => HostSide!DiskKept(input[1], input[2])

\* The programs of the water taps send every student to the tap that is free
\* first, for as many groups as there are processes, and only once; the programs
\* that sort do, except sort.c; a command line starts what it means, and the
\* tests copy files and take turns.
ExamplesRight ==
  /\ part = "taps" => User!TapsRight(input[1], input[2])
  /\ part = "sort" => User!SortsRight(input) /\ User!ExitsRight(Len(input))
  /\ part = "start" =>
       Starting!ReadAsMeant(input[1], input[2]) /\ Starting!CreatedInOrder(input[1], input[2])
  /\ part = "test" => Starting!FilesCopied(input[1], input[2]) /\ Starting!ThreadsTakeTurns

\* The programs around the kernel, on every host, and those that run on it do what
\* they are for.
ProgramsRight == ToolsRight /\ ExamplesRight

\* The taps of the repository's example are those of its output.txt.
ASSUME ExampleRight ==
  LET group == <<<<5>>, <<3>>, <<4>>, <<1>>>> IN User!Taps(group) = <<<<1>>, <<2>>, <<2>>, <<1>>>>

\* Where the highest bit of a number is, and where an old break comes to.
ASSUME ToolNumbers ==
  /\ \A bits \in SUBSET (0..7) : Tool!BitsCounted(bits)
  /\ \A o0 \in 0..20 : Tool!BreakBehind(o0)
===============================================================================
