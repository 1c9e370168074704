------------------------------ MODULE UserPrograms ------------------------------
(***************************************************************************)
(* The user programs. Of nachos-3: main (test/main.c) runs SinhVien, the   *)
(* students (test/SinhVien.c), and VoiNuoc, the water taps                 *)
(* (test/VoiNuoc.c), one after the other for each group of students. They  *)
(* hand over to each other in files: input.txt has the number of groups    *)
(* and a line for each, information.txt the number of the group whose turn *)
(* it is and its line, output.txt the taps. A file is a sequence of lines, *)
(* a line a sequence of numbers, a number the sequence of its digits. All  *)
(* lines end with a newline. ReadF at the end of a file leaves the         *)
(* character read before where it is.                                      *)
(*                                                                         *)
(* Of both stages: those that sort and multiply (test/bubblesort.c,        *)
(* test/sort.c, test/matmult.c, and test/bubbleSort.c of nachos-1,2). Their*)
(* loops are folds over the sequence of what their counters run through.   *)
(***************************************************************************)
EXTENDS Integers, Sequences, SequencesExt

CONSTANT Execs   \* the calls of Exec that find a slot: slots are not given back

ConvertToInt(s) == FoldLeft(LAMBDA num, digit : num * 10 + digit, 0, s)

\* The digits come last first and are then reversed in place.
ConvertToString(n) ==
  LET rest[i \in 0..n] == IF i = 0 THEN n ELSE rest[i - 1] \div 10
      size == CHOOSE i \in 1..(n + 1) : rest[i - 1] \div 10 = 0 /\ \A j \in 1..(i - 1) : rest[j] > 0
  IN  Reverse([i \in 1..size |-> rest[i - 1] % 10])

\* A slip: the line with the number of groups is not skipped.
SinhVienFromTop(f) ==
  LET t == ConvertToInt(f.information[1][1]) + 1
      line == IF t <= Len(f.input) THEN f.input[t] ELSE <<>>
  IN  [f EXCEPT !.information = <<<<ConvertToString(t)>>, line>>]

\* SinhVien: it counts the groups in information.txt, which it writes anew with
\* the line that comes t lines after the first; past the end of input.txt it
\* reads the same newline again and again, as many times as it needs.
SinhVien(f) ==
  LET t == ConvertToInt(f.information[1][1]) + 1
      line == IF t < Len(f.input) THEN f.input[t + 1] ELSE <<>>
  IN  [f EXCEPT !.information = <<<<ConvertToString(t)>>, line>>]

\* The taps for a line. An empty line reads as one student who needs no water.
Taps(line) ==
  LET students == IF line = <<>> THEN <<<<>>>> ELSE line
      turn(s, student) ==
        LET k == ConvertToInt(student)
        IN  IF s.tap1 <= s.tap2
            THEN [s EXCEPT !.tap1 = @ + k, !.written = Append(@, <<1>>)]
            ELSE [s EXCEPT !.tap2 = @ + k, !.written = Append(@, <<2>>)]
  IN  FoldLeft(turn, [tap1 |-> 0, tap2 |-> 0, written |-> <<>>], students).written

\* VoiNuoc: it skips the lines of the groups before. In an empty file it looks
\* for a newline that never comes.
VoiNuoc(f) ==
  LET t == ConvertToInt(f.information[1][1])
  IN  IF t > 1 /\ f.output = <<>> THEN [f EXCEPT !.ends = FALSE]
      ELSE [f EXCEPT !.output =
              SubSeq(f.output, 1, IF t - 1 < Len(f.output) THEN t - 1 ELSE Len(f.output))
                \o <<Taps(f.information[2])>>]

\* main: CreateF empties output.txt, and an Exec that fails is passed over.
Main(f) ==
  LET N == ConvertToInt(f.input[1][1])
      round[i \in 0..N] ==
        IF i = 0 THEN [f EXCEPT !.output = <<>>]
        ELSE IF ~round[i - 1].ends THEN round[i - 1]
        ELSE LET led == IF 2 * i - 1 <= Execs THEN SinhVien(round[i - 1]) ELSE round[i - 1]
             IN  IF 2 * i <= Execs THEN VoiNuoc(led) ELSE led
  IN  round[N]

-------------------------------------------------------------------------------
(* What is right *)

\* The water that the first j of a group take from a tap.
Load(group, taps, tap, j) ==
  FoldLeft(LAMBDA x, i : x + IF taps[i] = <<tap>> THEN ConvertToInt(group[i]) ELSE 0,
           0, [i \in 1..j |-> i])

\* Started with a count of 0, main ends, and every group for which there were
\* processes left has a line: each student is sent to the tap that is free
\* first. Started again without a new information.txt, it never ends.
TapsRight(input, count) ==
  LET end == Main([input |-> input, information |-> <<<<ConvertToString(count)>>, <<>>, <<>>>>,
                   output |-> <<<<<<1>>>>>>, ends |-> TRUE])
      groups == IF 2 * (Len(input) - 1) <= Execs THEN Len(input) - 1 ELSE Execs \div 2
  IN  IF count > 0 /\ groups > 0 THEN ~end.ends
      ELSE /\ end.ends
           /\ Len(end.output) = groups
           /\ \A g \in 1..groups :
                LET group == input[g + 1]  taps == end.output[g]
                IN  /\ Len(taps) = Len(group)
                    /\ \A j \in DOMAIN taps :
                         LET mine  == taps[j][1]
                         IN  Load(group, taps, mine, j - 1) <= Load(group, taps, 3 - mine, j - 1)

-------------------------------------------------------------------------------
(* Sorting and multiplying *)

\* from, from + 1, ..., to
Up(from, to) == [i \in 1..(IF to < from THEN 0 ELSE to - from + 1) |-> from + i - 1]

\* The pairs of an outer counter i in 0..n-1 and an inner one.
Loops(n, inner(_)) ==
  FlattenSeq([k \in 1..n |-> [m \in 1..Len(inner(k - 1)) |-> <<k - 1, inner(k - 1)[m]>>]])

Swapped(a, i, j) == [a EXCEPT ![i + 1] = a[j + 1], ![j + 1] = a[i + 1]]

\* The indices of C arrays start at 0. before(x, y) tells that x is to come
\* before y.
Exchange(a, before(_, _), pairs) ==
  FoldLeft(LAMBDA s, p : IF before(s[p[2] + 1], s[p[1] + 1]) THEN Swapped(s, p[1], p[2]) ELSE s,
           a, pairs)

SortAscend(a) ==
  Exchange(a, LAMBDA x, y : x < y, Loops(Len(a), LAMBDA i : Up(i + 1, Len(a) - 1)))
SortDescend(a) ==
  Exchange(a, LAMBDA x, y : x > y, Loops(Len(a), LAMBDA i : Up(i + 1, Len(a) - 1)))

\* The stage before runs the inner loop from the end.
EarlySort(a) ==
  Exchange(a, LAMBDA x, y : x < y, Loops(Len(a), LAMBDA i : Reverse(Up(i + 1, Len(a) - 1))))

\* sort.c: its inner loop starts at i, where a bubble sort would start at 0.
Sort(a) ==
  FoldLeft(LAMBDA s, p : IF s[p[2] + 1] > s[p[2] + 2] THEN Swapped(s, p[2], p[2] + 1) ELSE s,
           a, Loops(Len(a) - 1, LAMBDA i : Up(i, Len(a) - 2 - i)))
SortExit(n) == Sort([i \in 1..n |-> n - i + 1])[1]

\* matmult.c with Dim = n: A[i][k] = i, B[k][j] = j.
MatMultExit(n) ==
  LET C[i \in 0..(n - 1), j \in 0..(n - 1)] == FoldLeft(LAMBDA c, k : c + i * j, 0, Up(0, n - 1))
  IN  C[n - 1, n - 1]

-------------------------------------------------------------------------------
(* What is right *)

Occurrences(a, x) == {i \in DOMAIN a : a[i] = x}
Permuted(a, b) ==
  /\ Len(a) = Len(b)
  /\ \A i \in DOMAIN a : Cardinality(Occurrences(a, a[i])) = Cardinality(Occurrences(b, a[i]))

\* The three bubble sorts return the elements they were given, in order.
SortsRight(a) ==
  /\ \A s \in {SortAscend(a), EarlySort(a)} :
       Permuted(a, s) /\ \A i \in 1..(Len(a) - 1) : s[i] <= s[i + 1]
  /\ LET s == SortDescend(a)
     IN  Permuted(a, s) /\ \A i \in 1..(Len(a) - 1) : s[i] >= s[i + 1]

\* sort.c loses no element but exits with n - 1, where the comment on its Exit
\* says 0 and the least element is 1: the first element is compared only once.
ExitsRight(n) ==
  /\ n > 1 => SortExit(n) = n - 1
  /\ n > 0 => MatMultExit(n) = n * (n - 1) * (n - 1)
===============================================================================
