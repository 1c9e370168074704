------------------------------ MODULE Computations ------------------------------
(***************************************************************************)
(* The computations that the rest of the system relies on, each on any     *)
(* input that the code can give it: instructions and memory accesses, the  *)
(* library of the kernel, and the way of an executable into memory. A      *)
(* behaviour is one computation on one input.                              *)
(***************************************************************************)
EXTENDS Instructions, IntCalls

CONSTANTS
  ByteValues,      \* the number of values of a byte
  BitsInWord,      \* of the host, on which the bitmaps are
  ImagePageSize, ImageStackSize           \* of an address space

ASSUME ImageAssumption == ImagePageSize \in Nat \ {0} /\ ImageStackSize \in Nat

ASSUME BitsAssumption == BitsInWord \in Nat \ {0}

VARIABLES part, input

Access == INSTANCE MemoryAccess WITH Base <- ByteValues
Queue == INSTANCE LinkedList
Maps == INSTANCE BitMaps
Executable == INSTANCE Executables WITH PageSize <- ImagePageSize, UserStackSize <- ImageStackSize
Converting == INSTANCE Conversions

\* A number without bits adds none to another.
ASSUME BytesAssumption ==
  /\ ByteValues \in Nat /\ ByteValues >= 2
  /\ \A x \in 0..(Access!Place[Access!WordSize] - 1) : BitOr(0, x) = x

\* What an instruction computes is what arithmetic defines, and the same in both
\* simulators but for the differences listed; what is stored is read back.
InstructionsRight ==
  /\ part = "instruction" =>
       LET op == input[1] x == input[2] y == input[3]
       IN  /\ Exact(op, x, y, Simulated(op, x, y))
           /\ Differ(op, x, y) \/ Simulated(op, x, y) = Executed(op, x, y)
  /\ part = "access" => Access!ReadsBack(input[1], input[2], input[3], input[4], input[5])

\* A list is a sequence, and a bitmap a set; ReadInt and PrintInt are exact, in both stages.
LibraryRight ==
  /\ part = "list" => Queue!IsSequence(input)
  /\ part = "bitmap" => Maps!IsSet(input[1], input[2], input[3])
  /\ part = "line" => ReadsExactly(input) /\ StagesAgree(input)
  /\ part = "int" => RoundTrip(input) /\ SamePrinted(input)

\* What the rest of the system takes the processor and the library for, they are.
ComputationsRight == InstructionsRight /\ LibraryRight

\* A program that is accepted comes into memory as it was linked; a converted
\* file is whole or cannot be taken for one that is.
ImageLoaded ==
  /\ part = "executable" => Executable!LoadedRight(input[1], input[2])
  /\ part = "conversion" => Converting!OutputsWhole(input)
===============================================================================
