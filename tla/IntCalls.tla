-------------------------------- MODULE IntCalls --------------------------------
(***************************************************************************)
(* The conversions of the system calls ReadInt and PrintInt                *)
(* (userprog/exception.cc), between an int and the characters typed or     *)
(* displayed. A character is its distance from '0', so that a digit is its *)
(* own value.                                                              *)
(***************************************************************************)
EXTENDS Integers, Sequences, SequencesExt

CONSTANT MaxInt   \* the greatest int: the code's constants are its digits

\* It is one less than a power of two, so that its last digit is not 9: the code's
\* comparison with the digit after the last one needs that. It has three digits at
\* least: the buffer of the earlier stage, a character shorter, has room for one
\* and a newline.
ASSUME MaxIntAssumption == MaxInt \in Nat /\ MaxInt > 99 /\ MaxInt % 10 # 9

Minus == -3
MinInt == -MaxInt - 1
Int32(n) == ((n + MaxInt + 1) % (2 * MaxInt + 2)) - MaxInt - 1

PowerOfTen[d \in 0..MaxInt] == IF d = 0 THEN 1 ELSE 10 * PowerOfTen[d - 1]
DigitsOfMaxInt == CHOOSE d \in 1..MaxInt : PowerOfTen[d - 1] <= MaxInt /\ MaxInt < PowerOfTen[d]

-------------------------------------------------------------------------------

\* C's n / 10 and n % 10.
Tenth(n) == IF n < 0 THEN -((-n) \div 10) ELSE n \div 10
LastDigit(n) == n - 10 * Tenth(n)

\* The do-while loop of PrintInt: the digits of n, the last one first.
Digits(n) ==
  LET rest[i \in 0..DigitsOfMaxInt] == IF i = 0 THEN n ELSE Tenth(rest[i - 1])
      size == CHOOSE i \in 1..DigitsOfMaxInt :
                rest[i] <= 0 /\ \A j \in 1..(i - 1) : rest[j] > 0
  IN  [i \in 1..size |-> LastDigit(rest[i - 1])]

\* SC_PrintInt: what its Writes display. Negating the least int leaves it as it
\* is, and the loop stops after one digit that is none.
PrintInt(n) ==
  IF n < 0 THEN <<Minus>> \o Reverse(Digits(Int32(-n))) ELSE Reverse(Digits(n))

-------------------------------------------------------------------------------

\* The comparison with INT_MAX and INT_MIN.
TooBig(num, digit, negative) ==
  \/ num > MaxInt \div 10
  \/ num = MaxInt \div 10 /\ digit > (MaxInt % 10) + (IF negative THEN 1 ELSE 0)

\* SC_ReadInt, once it has read the characters buf: 0 for what is not a number
\* or is out of range, after the digits seen so far have been thrown away. (A line
\* that fills the buffer of a hundred characters, and the end of input, it has
\* answered with -2 and -1 before.)
ReadInt(buf) ==
  LET negative == buf # <<>> /\ buf[1] = Minus
      first == IF negative THEN 2 ELSE 1
      refused == [num |-> 0, ele |-> 0, over |-> TRUE]
      turn(s, digit) ==
        IF s.ele = DigitsOfMaxInt \/ digit \notin 0..9 \/ TooBig(s.num, digit, negative)
        THEN refused
        ELSE LET num == Int32(s.num * 10 + digit)
             IN  [s EXCEPT !.num = num, !.ele = IF num # 0 THEN @ + 1 ELSE @]
      loop[i \in 0..Len(buf)] ==
        IF i < first THEN [num |-> 0, ele |-> 0, over |-> FALSE]
        ELSE IF loop[i - 1].over THEN loop[i - 1] ELSE turn(loop[i - 1], buf[i])
      num == loop[Len(buf)].num
  IN  IF negative THEN Int32(-num) ELSE num

-------------------------------------------------------------------------------
(* The same calls in the earlier stage, nachos-1,2. *)

\* MAX_INT_LENGTH there: one character less than the greatest int has.
EarlyLength == DigitsOfMaxInt - 1

\* ReadInt reads that many characters and takes the last four bits of each.
EarlyReadInt(line) ==
  LET buf == IF Len(line) <= EarlyLength THEN line ELSE SubSeq(line, 1, EarlyLength)
      negative == buf # <<>> /\ buf[1] = Minus
      number[i \in 0..Len(buf)] ==
        IF i < (IF negative THEN 2 ELSE 1) THEN 0 ELSE 10 * number[i - 1] + (buf[i] % 16)
  IN  IF negative THEN -number[Len(buf)] ELSE number[Len(buf)]

\* PrintInt puts a newline, which it does not display, behind the digits in a
\* buffer of that length: the digits it displays may be past its end.
EarlyPrintInt(n) ==
  LET digits == Digits(IF n < 0 THEN Int32(-n) ELSE n)
  IN  [shown |-> (IF n < 0 THEN <<Minus>> ELSE <<>>) \o Reverse(digits),
       overrun |-> Len(digits) >= EarlyLength]

-------------------------------------------------------------------------------
(* What is right *)

\* The number that digits spell in the usual notation.
Spelled(digits) ==
  LET value[i \in 0..Len(digits)] == IF i = 0 THEN 0 ELSE 10 * value[i - 1] + digits[i]
  IN  value[Len(digits)]

IsNumber(line) ==
  LET digits == IF line # <<>> /\ line[1] = Minus THEN Tail(line) ELSE line
  IN  digits # <<>> /\ \A i \in DOMAIN digits : digits[i] \in 0..9

\* The two stages read the same number from a line that is one and fits in the
\* shorter buffer, and display the same; the earlier one stays within its
\* buffer for the numbers that leave room for a newline.
StagesAgree(line) ==
  IsNumber(line) /\ Len(line) <= EarlyLength => EarlyReadInt(line) = ReadInt(line)
SamePrinted(n) ==
  /\ EarlyPrintInt(n).shown = PrintInt(n)
  /\ LET least == PowerOfTen[EarlyLength - 1]
     IN  n # MinInt => (EarlyPrintInt(n).overrun <=> n \notin -(least - 1)..(least - 1))

\* ReadInt returns the int that a line denotes, and 0 for every other line.
ReadsExactly(line) ==
  LET negative == line # <<>> /\ line[1] = Minus
      number == IF negative THEN -Spelled(Tail(line)) ELSE Spelled(line)
  IN  ReadInt(line) = IF IsNumber(line) /\ number \in MinInt..MaxInt THEN number ELSE 0

\* What PrintInt displays, ReadInt reads back, except for the least int.
RoundTrip(n) == n # MinInt => ReadInt(PrintInt(n)) = n
===============================================================================
