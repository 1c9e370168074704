------------------------------ MODULE Instructions ------------------------------
(***************************************************************************)
(* What the arithmetic, logic, shift, compare, multiply and divide         *)
(* instructions compute, twice: in the simulator that Nachos runs user     *)
(* programs on (machine/mipssim.cc) and in the stand-alone one that comes  *)
(* with its tools (bin/execute.c).                                         *)
(*                                                                         *)
(* A register holds W bits, the unsigned number they spell. An immediate   *)
(* operand is a field of half a word. The host is an i386: it shifts a     *)
(* signed number by copying the sign.                                      *)
(***************************************************************************)
EXTENDS Integers, Sequences

CONSTANTS W,
          BitAnd(_, _), BitOr(_, _), BitXor(_, _)    \* &, | and ^ of C

ASSUME WordAssumption == W \in Nat \ {0} /\ W % 2 = 0

PowerOfTwo[n \in 0..(2 * W)] == IF n = 0 THEN 1 ELSE 2 * PowerOfTwo[n - 1]

Modulus == PowerOfTwo[W]
SignBit == PowerOfTwo[W - 1]
Words == 0..(Modulus - 1)
Wrap(n) == n % Modulus
Neg(x) == x >= SignBit                          \* x & SIGN_BIT
Signed(x) == IF Neg(x) THEN x - Modulus ELSE x
Inverted(x) == Modulus - 1 - x

\* An operand that has no bit but those of x adds none to it.
ASSUME BitwiseAssumption ==
  \A x, y \in Words : BitAnd(y, Inverted(x)) = 0 => BitOr(x, y) = BitOr(x, x)

Half == W \div 2
Low(x) == x % PowerOfTwo[Half]                 \* & 0xffff
High(x) == x \div PowerOfTwo[Half]
Extended(x) == IF Low(x) >= PowerOfTwo[Half - 1] THEN Wrap(Low(x) - PowerOfTwo[Half]) ELSE Low(x)

\* The shifts of the host.
ShiftLeft(x, n) == Wrap(x * PowerOfTwo[n])
Arithmetic(x, n) == Wrap(Signed(x) \div PowerOfTwo[n])
Logical(x, n) == x \div PowerOfTwo[n]

\* Division in C rounds towards zero.
Distance0(n) == IF n < 0 THEN -n ELSE n
Quotient(n, m) == LET q == Distance0(n) \div Distance0(m)
                  IN  IF (n < 0) = (m < 0) THEN q ELSE -q
Remainder(n, m) == n - m * Quotient(n, m)

Value(x) == <<"value", x>>
Pair(hi, lo) == <<"pair", hi, lo>>
Truth(b) == Value(IF b THEN 1 ELSE 0)
Trap == <<"trap">>     \* RaiseException(OverflowException)
Crash == <<"crash">>   \* the host's own arithmetic exception

-------------------------------------------------------------------------------
(* mipssim.cc *)

\* A slip: the carry out of the low word is lost.
AddedNoCarry(s) ==
  [s EXCEPT !.lo = Wrap(@ + s.bLo), !.hi = Wrap(@ + s.bHi), !.over = s.a \div 2 = 0]

\* One bit of a is set: the shifted b is added to the double word.
Added(s) ==
  LET lo == Wrap(s.lo + s.bLo)
  IN  [s EXCEPT !.lo = lo, !.hi = Wrap(@ + (IF lo < s.bLo THEN 1 ELSE 0) + s.bHi),
                !.over = s.a \div 2 = 0]

ShiftedOn(s) ==
  [s EXCEPT !.bHi = Wrap(2 * @) + (IF Neg(s.bLo) THEN 1 ELSE 0),
            !.bLo = Wrap(2 * @), !.a = Arithmetic(@, 1)]

\* Mult: one bit of a at a time, from the lowest; negative operands are made
\* positive first, and the double word is negated at the end.
Mult(a0, b0, signedArith) ==
  LET magnitude(x) == IF signedArith /\ Neg(x) THEN Wrap(-x) ELSE x
      start == [a |-> magnitude(a0), bLo |-> magnitude(b0), bHi |-> 0,
                lo |-> 0, hi |-> 0, over |-> FALSE]
      turn(s) == LET t == IF s.a % 2 = 1 THEN Added(s) ELSE s
                 IN  IF t.over THEN t ELSE ShiftedOn(t)
      loop[i \in 0..W] ==
        IF i = 0 THEN start ELSE IF loop[i - 1].over THEN loop[i - 1] ELSE turn(loop[i - 1])
      end == loop[W]
      lo == Wrap(Inverted(end.lo) + 1)
  IN  CASE a0 = 0 \/ b0 = 0 -> Pair(0, 0)
        [] signedArith /\ Neg(a0) # Neg(b0) /\ a0 # 0 /\ b0 # 0 ->
             Pair(Wrap(Inverted(end.hi) + (IF lo = 0 THEN 1 ELSE 0)), lo)
        [] OTHER -> Pair(end.hi, end.lo)

\* ADD, ADDI and SUB trap when the sign of the result is wrong.
AddTrapping(x, y) ==
  LET sum == Wrap(x + y)
  IN  IF Neg(x) = Neg(y) /\ Neg(x) # Neg(sum) THEN Trap ELSE Value(sum)
SubTrapping(x, y) ==
  LET diff == Wrap(x - y)
  IN  IF Neg(x) # Neg(y) /\ Neg(x) # Neg(diff) THEN Trap ELSE Value(diff)

\* DIV and DIVU: 0 for a zero divisor; the host cannot divide its least number
\* by -1.
DivSigned(x, y) ==
  IF y = 0 THEN Pair(0, 0)
  ELSE IF Signed(x) = -SignBit /\ Signed(y) = -1 THEN Crash
  ELSE Pair(Wrap(Remainder(Signed(x), Signed(y))), Wrap(Quotient(Signed(x), Signed(y))))
DivUnsigned(x, y) == IF y = 0 THEN Pair(0, 0) ELSE Pair(x % y, x \div y)

\* The cases of OneInstruction that write a register from two operands: rs and
\* rt, or rs and the immediate, or the number shifted and the amount.
SimulatedArithmetic(op, x, y) ==
  CASE op = "ADD" -> AddTrapping(x, y)
    [] op = "ADDI" -> AddTrapping(x, Extended(y))
    [] op = "ADDIU" -> Value(Wrap(x + Extended(y)))
    [] op = "ADDU" -> Value(Wrap(x + y))
    [] op = "SUB" -> SubTrapping(x, y)
    [] op = "SUBU" -> Value(Wrap(x - y))
    [] op = "DIV" -> DivSigned(x, y)
    [] op = "DIVU" -> DivUnsigned(x, y)
    [] op = "MULT" -> Mult(x, y, TRUE)
    [] op = "MULTU" -> Mult(x, y, FALSE)

SimulatedLogic(op, x, y) ==
  CASE op = "AND" -> Value(BitAnd(x, y))
    [] op = "ANDI" -> Value(BitAnd(x, Low(y)))
    [] op = "NOR" -> Value(Inverted(BitOr(x, y)))
    [] op = "OR" -> Value(BitOr(x, x))        \* rs | rs, in the code too
    [] op = "ORI" -> Value(BitOr(x, Low(y)))
    [] op = "XOR" -> Value(BitXor(x, y))
    [] op = "XORI" -> Value(BitXor(x, Low(y)))
    [] op = "LUI" -> Value(Wrap(Extended(y) * PowerOfTwo[Half]))

SimulatedShift(op, x, y) ==
  CASE op \in {"SLL", "SLLV"} -> Value(ShiftLeft(x, y % W))
    [] op \in {"SRA", "SRAV", "SRL", "SRLV"} -> Value(Arithmetic(x, y % W))

SimulatedCompare(op, x, y) ==
  CASE op = "SLT" -> Truth(Signed(x) < Signed(y))
    [] op = "SLTI" -> Truth(Signed(x) < Signed(Extended(y)))
    [] op = "SLTIU" -> Truth(x < Extended(y))
    [] op = "SLTU" -> Truth(x < y)
    [] op = "BEQ" -> Truth(x = y)
    [] op = "BNE" -> Truth(x # y)
    [] op \in {"BGEZ", "BGEZAL"} -> Truth(~Neg(x))
    [] op = "BGTZ" -> Truth(Signed(x) > 0)
    [] op = "BLEZ" -> Truth(Signed(x) <= 0)
    [] op \in {"BLTZ", "BLTZAL"} -> Truth(Neg(x))

ArithmeticOps == {"ADD", "ADDI", "ADDIU", "ADDU", "SUB", "SUBU", "DIV", "DIVU", "MULT", "MULTU"}
LogicOps == {"AND", "ANDI", "NOR", "OR", "ORI", "XOR", "XORI", "LUI"}
ShiftOps == {"SLL", "SLLV", "SRA", "SRAV", "SRL", "SRLV"}
CompareOps == {"SLT", "SLTI", "SLTIU", "SLTU", "BEQ", "BNE", "BGEZ", "BGEZAL",
               "BGTZ", "BLEZ", "BLTZ", "BLTZAL"}
Ops == ArithmeticOps \cup LogicOps \cup ShiftOps \cup CompareOps

Simulated(op, x, y) ==
  CASE op \in ArithmeticOps -> SimulatedArithmetic(op, x, y)
    [] op \in LogicOps -> SimulatedLogic(op, x, y)
    [] op \in ShiftOps -> SimulatedShift(op, x, y)
    [] op \in CompareOps -> SimulatedCompare(op, x, y)

-------------------------------------------------------------------------------
(* execute.c *)

\* The high word of a product from its half words, without the carries.
HighProduct(x, y) ==
  LET part(n) == Signed(Wrap(n)) \div PowerOfTwo[Half]
  IN  Wrap(High(x) * High(y) + part(High(x) * Low(y)) + part(High(y) * Low(x)))

ExecutedMult(x, y) ==
  LET a == IF Neg(x) THEN Wrap(-x) ELSE x
      b == IF Neg(y) THEN Wrap(-y) ELSE y
      lo == Wrap(Inverted(Wrap(a * b)) + 1)
  IN  IF Neg(x) = Neg(y) THEN Pair(HighProduct(a, b), Wrap(a * b))
      ELSE Pair(Wrap(Inverted(HighProduct(a, b)) + (IF lo = 0 THEN 1 ELSE 0)), lo)

ExecutedArithmetic(op, x, y) ==
  CASE op \in {"ADD", "ADDU"} -> Value(Wrap(x + y))
    [] op \in {"ADDI", "ADDIU"} -> Value(Wrap(x + Extended(y)))
    [] op \in {"SUB", "SUBU"} -> Value(Wrap(x - y))
    [] op = "DIV" -> IF y = 0 THEN Crash ELSE DivSigned(x, y)
    [] op = "DIVU" -> IF y = 0 THEN Crash ELSE DivUnsigned(x, y)
    [] op = "MULT" -> ExecutedMult(x, y)
    [] op = "MULTU" -> Pair(HighProduct(x, y), Wrap(x * y))

ExecutedLogic(op, x, y) ==
  CASE op = "AND" -> Value(BitAnd(x, y))
    [] op = "ANDI" -> Value(BitAnd(x, Extended(y)))
    [] op = "NOR" -> Value(Inverted(BitOr(x, y)))
    [] op = "OR" -> Value(BitOr(x, y))
    [] op = "ORI" -> Value(BitOr(x, Extended(y)))
    [] op = "XOR" -> Value(BitXor(x, y))
    [] op = "XORI" -> Value(BitXor(x, Extended(y)))
    [] op = "LUI" -> Value(Wrap(y * PowerOfTwo[Half]))

\* The i386 takes the amount of a shift modulo the word.
ExecutedShift(op, x, y) ==
  CASE op \in {"SLL", "SLLV"} -> Value(ShiftLeft(x, y % W))
    [] op \in {"SRL", "SRLV"} -> Value(Logical(x, y % W))
    [] op \in {"SRA", "SRAV"} -> Value(Arithmetic(x, y % W))

ExecutedCompare(op, x, y) ==
  CASE op = "SLT" -> Truth(Signed(x) < Signed(y))
    [] op = "SLTI" -> Truth(Signed(x) < Signed(Extended(y)))
    [] op = "SLTIU" -> Truth(x < Extended(y))
    [] op = "SLTU" -> Truth(x < y)
    [] op = "BEQ" -> Truth(x = y)
    [] op = "BNE" -> Truth(x # y)
    [] op \in {"BGEZ", "BGEZAL"} -> Truth(Signed(x) >= 0)
    [] op = "BGTZ" -> Truth(Signed(x) > 0)
    [] op = "BLEZ" -> Truth(Signed(x) <= 0)
    [] op \in {"BLTZ", "BLTZAL"} -> Truth(Signed(x) < 0)

Executed(op, x, y) ==
  CASE op \in ArithmeticOps -> ExecutedArithmetic(op, x, y)
    [] op \in LogicOps -> ExecutedLogic(op, x, y)
    [] op \in ShiftOps -> ExecutedShift(op, x, y)
    [] op \in CompareOps -> ExecutedCompare(op, x, y)
-------------------------------------------------------------------------------
(* What is right *)

\* Where the two simulators are known to differ: OR in mipssim.cc; the logical
\* right shifts there, which copy the sign; the logical immediates here, which
\* are extended with it; the high word of a product here; what traps there; and
\* a zero divisor.
Differ(op, x, y) ==
  \/ op = "OR" /\ BitAnd(y, Inverted(x)) # 0
  \/ op \in {"SRL", "SRLV"} /\ Neg(x) /\ y % W # 0
  \/ op \in {"ANDI", "ORI", "XORI"} /\ Extended(y) # Low(y)
  \/ op \in {"MULT", "MULTU"} /\ Executed(op, x, y)[2] # Simulated(op, x, y)[2]
  \/ op \in {"ADD", "ADDI", "SUB"} /\ Simulated(op, x, y) = Trap
  \/ op \in {"DIV", "DIVU"} /\ y = 0

Representable(n) == n \in -SignBit..(SignBit - 1)

\* The trap exactly when a sum or difference is not representable.
OrTrap(n, result) ==
  IF Representable(n) THEN result[1] = "value" /\ Signed(result[2]) = n ELSE result = Trap

\* The result of op on x and y is the one arithmetic defines: a sum or difference,
\* a double word for a product, a quotient and a remainder.
Exact(op, x, y, result) ==
  /\ op = "ADD" => OrTrap(Signed(x) + Signed(y), result)
  /\ op = "ADDI" => OrTrap(Signed(x) + Signed(Extended(y)), result)
  /\ op = "SUB" => OrTrap(Signed(x) - Signed(y), result)
  /\ op = "MULTU" => result[2] * Modulus + result[3] = x * y
  /\ op = "MULT" => result[2] * Modulus + result[3] = (Signed(x) * Signed(y)) % PowerOfTwo[2 * W]
  /\ op = "DIVU" /\ y # 0 => result[3] * y + result[2] = x /\ result[2] < y
  /\ op = "DIV" /\ y # 0 =>
       IF result = Crash THEN ~Representable(-Signed(x))
       ELSE /\ Signed(result[3]) * Signed(y) + Signed(result[2]) = Signed(x)
            /\ Distance0(Signed(result[2])) < Distance0(Signed(y))
            /\ Signed(result[2]) # 0 => Neg(result[2]) = Neg(x)
===============================================================================
