------------------------------ MODULE MemoryAccess ------------------------------
(***************************************************************************)
(* The loads and stores of machine/mipssim.cc with the reads and writes of *)
(* machine/translate.cc below them. Memory is a little-endian array of     *)
(* bytes, four to a word; addresses run from 0 and are translated to       *)
(* themselves.                                                             *)
(***************************************************************************)
EXTENDS Integers, FiniteSets

CONSTANTS Base,                  \* the number of values of a byte
          BitAnd(_, _), BitOr(_, _)    \* & and | of C

WordSize == 4

\* What byte n of a word counts, and how many numbers have n bytes.
Place[n \in 0..WordSize] == IF n = 0 THEN 1 ELSE Base * Place[n - 1]

AccessSize(op) == CASE op \in {"LB", "LBU", "SB"} -> 1
                    [] op \in {"LH", "LHU", "SH"} -> 2
                    [] OTHER -> WordSize

\* Byte i of a word; the number that n bytes spell; a number of n bytes with its
\* sign copied to the left.
ByteOf(x, i) == (x \div Place[i]) % Base
WordOf(byte) == byte[0] + Base * (byte[1] + Base * (byte[2] + Base * byte[3]))
SignCopied(x, n) == IF 2 * x >= Place[n] THEN x + Place[WordSize] - Place[n] ELSE x

OutOfPlace == <<"fault">>   \* AddressErrorException
Aborts == <<"abort">>   \* an ASSERT of the simulator

\* Machine::Translate: alignment, and the end of the page table.
Translated(mem, a, n) == a % n = 0 /\ a \in DOMAIN mem

\* ReadMem and WriteMem of n bytes.
Fetched(mem, a, n) ==
  WordOf([i \in 0..(WordSize - 1) |-> IF i < n THEN mem[a + i] ELSE 0])
Stored(mem, a, n, x) ==
  [b \in DOMAIN mem |-> IF b \in a..(a + n - 1) THEN ByteOf(x, b - a) ELSE mem[b]]

\* The loads of OneInstruction, into a register that holds old. Those of a part
\* of a word are written for any address, but asserted to be of a whole word.
SimulatedLoad(op, mem, a, old) ==
  LET n == AccessSize(op)
      value == Fetched(mem, a, n)
      right == [i \in 0..(WordSize - 1) |-> IF i = 0 THEN ByteOf(value, 3) ELSE ByteOf(old, i)]
  IN  IF op \in {"LWL", "LWR"} /\ a % WordSize # 0 THEN Aborts
      ELSE IF ~Translated(mem, a, n) THEN OutOfPlace
      ELSE CASE op \in {"LB", "LH"} -> SignCopied(value, n)
             [] op = "LWR" -> WordOf(right)
             [] OTHER -> value

\* The stores of OneInstruction: the memory after.
SimulatedStore(op, mem, a, x) ==
  IF op \in {"SWL", "SWR"} /\ a % WordSize # 0 THEN Aborts
  ELSE IF ~Translated(mem, a, AccessSize(op)) THEN OutOfPlace
  ELSE IF op = "SWR" THEN [mem EXCEPT ![a + 3] = ByteOf(x, 0)]
  ELSE Stored(mem, a, AccessSize(op), x)

\* The loads and stores of bin/execute.c, which neither faults nor waits for the
\* next instruction: any address will do. LWL keeps what the register had.
ExecutedLoad(op, mem, a, old) ==
  LET word == Fetched(mem, a - (a % WordSize), WordSize)
      shifted(x, left) == IF left >= 0 THEN (x * Place[left]) % Place[WordSize]
                          ELSE ((IF 2 * x >= Place[WordSize] THEN x - Place[WordSize] ELSE x)
                                  \div Place[-left]) % Place[WordSize]
  IN  CASE op = "LWL" -> BitOr(old, shifted(word, a % WordSize))
        [] op = "LWR" -> BitOr(IF a % WordSize = 0 THEN 0
                            ELSE BitAnd(shifted(Place[WordSize] - 1, a % WordSize), old),
                            shifted(word, -((-a) % WordSize)))
        [] op \in {"LB", "LH"} -> SignCopied(Fetched(mem, a, AccessSize(op)), AccessSize(op))
        [] OTHER -> Fetched(mem, a, AccessSize(op))

ExecutedStore(op, mem, a, x) ==
  IF op \in {"SWL", "SWR"} THEN Aborts ELSE Stored(mem, a, AccessSize(op), x)

-------------------------------------------------------------------------------
(* What is right *)

Stores == {"SB", "SH", "SW", "SWL", "SWR"}
Bytes(op) == IF op = "SWR" THEN 1 ELSE AccessSize(op)
LoadsOf(op) == CASE op = "SB" -> {"LB", "LBU"} [] op = "SH" -> {"LH", "LHU"}
                 [] op = "SW" -> {"LW"} [] op = "SWL" -> {"LWL"} [] op = "SWR" -> {"LWR"}

\* What is stored is read back by the loads of its kind: its low bytes, and
\* above them its sign, nothing, or what the register had; no other byte of
\* memory changes, and an address that is out of place changes nothing. The
\* other simulator agrees on whole bytes, half words and words.
ReadsBack(op, mem, a, x, old) ==
  LET after == SimulatedStore(op, mem, a, x)
      n     == Bytes(op)
      low   == x % Place[n]
  IN  IF after \in {OutOfPlace, Aborts}
      THEN a % AccessSize(op) # 0 \/ a \notin DOMAIN mem
      ELSE /\ Cardinality({b \in DOMAIN mem : after[b] # mem[b]}) <= n
           /\ \A load \in LoadsOf(op) :
                LET y == SimulatedLoad(load, after, a, old)
                    executed == ExecutedLoad(load, after, a, old)
                IN  /\ y % Place[n] = low
                    /\ CASE load = "LWL" -> executed = BitOr(old, y)
                         [] load = "LWR" -> executed = Fetched(after, a, WordSize)
                         [] OTHER -> executed = y /\ after = ExecutedStore(op, mem, a, x)
                    /\ y \div Place[n] =
                         CASE load \in {"LB", "LH"} -> SignCopied(low, n) \div Place[n]
                           [] load = "LWR" -> old \div Place[n]
                           [] OTHER -> 0
===============================================================================
