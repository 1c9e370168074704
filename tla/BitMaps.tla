-------------------------------- MODULE BitMaps --------------------------------
(***************************************************************************)
(* The bitmaps that pages, process slots, descriptors, semaphores and disk *)
(* sectors are allocated from (userprog/bitmap.cc): an array of words, of  *)
(* which the last may have more bits than the map. The other modules take  *)
(* a bitmap for the set of its marked bits.                                *)
(***************************************************************************)
EXTENDS Integers, Sequences, FiniteSets

CONSTANT BitsInWord

PowerOfTwo[n \in 0..BitsInWord] == IF n = 0 THEN 1 ELSE 2 * PowerOfTwo[n - 1]

Words == 0..(PowerOfTwo[BitsInWord] - 1)

Bit(which) == PowerOfTwo[which % BitsInWord]
WordOf(which) == which \div BitsInWord
NumWords(nitems) == (nitems + (BitsInWord - 1)) \div BitsInWord

InRange(m, which) == which >= 0 /\ which < m.numBits

\* Test of a bit that is in range; Mark and Clear.
Test(m, which) == (m.map[WordOf(which)] \div Bit(which)) % 2 = 1
Mark(m, which) == IF Test(m, which) THEN m ELSE [m EXCEPT !.map[WordOf(which)] = @ + Bit(which)]
Clear(m, which) == IF Test(m, which) THEN [m EXCEPT !.map[WordOf(which)] = @ - Bit(which)] ELSE m

\* The constructor clears the bits of the map, and no others of what new returns.
NewBitMap(nitems, junk) ==
  LET raw == [numBits |-> nitems, numWords |-> NumWords(nitems), map |-> junk]
      cleared[i \in 0..nitems] == IF i = 0 THEN raw ELSE Clear(cleared[i - 1], i - 1)
  IN  cleared[nitems]

\* The first clear bit from a to b, marked: the result and the map; -2 is an
\* assertion that fails.
FindFrom(m, a, b) ==
  LET stops == {i \in a..b : InRange(m, i) => ~Test(m, i)}
      first == CHOOSE i \in stops : \A j \in stops : i <= j
  IN  IF stops = {} THEN [result |-> -1, m |-> m]
      ELSE IF ~InRange(m, first) THEN [result |-> -2, m |-> m]
      ELSE [result |-> first, m |-> Mark(m, first)]

Find(m) == FindFrom(m, 0, m.numBits - 1)

NumClear(m) == Cardinality({i \in 0..(m.numBits - 1) : ~Test(m, i)})

\* What is listed by a debugging dump: the marked bits.
Listed(m) == {i \in 0..(m.numBits - 1) : Test(m, i)}

\* All words go to the file and come from it.
WriteBack(m) == [w \in 0..(m.numWords - 1) |-> m.map[w]]
FetchFrom(m, file) == [m EXCEPT !.map = file]

-------------------------------------------------------------------------------
(* What is right *)

Calls(nitems) ==
  {"find", "reload"} \X {<<0, 0>>}
    \cup {"mark", "clear"} \X ((-1..nitems) \X {0})
    \cup {"findin"} \X ((-1..nitems) \X (0..nitems))

\* A call on a bitmap, and on the set of its marked bits.
OnBitMap(m, call) ==
  LET a == call[2][1] b == call[2][2]
      kept(n) == [result |-> 0, m |-> n]
  IN  CASE call[1] = "find" -> Find(m)
        [] call[1] = "findin" -> FindFrom(m, a, b)
        [] call[1] = "reload" -> kept(FetchFrom(NewBitMap(m.numBits, m.map), WriteBack(m)))
        [] call[1] = "mark" -> IF InRange(m, a) THEN kept(Mark(m, a)) ELSE [result |-> -2, m |-> m]
        [] call[1] = "clear" -> IF InRange(m, a) THEN kept(Clear(m, a)) ELSE [result |-> -2, m |-> m]

OnSet(s, nitems, call) ==
  LET a == call[2][1]
      free == (IF call[1] = "find" THEN 0..(nitems - 1) ELSE a..call[2][2]) \ s
      least == CHOOSE i \in free : \A j \in free : i <= j
      kept(t) == [result |-> 0, s |-> t]
      fails == [result |-> -2, s |-> s]
  IN  CASE call[1] = "reload" -> kept(s)
        [] call[1] \in {"find", "findin"} ->
             IF free = {} THEN [result |-> -1, s |-> s]
             ELSE IF least \notin 0..(nitems - 1) THEN fails
             ELSE [result |-> least, s |-> s \cup {least}]
        [] call[1] = "mark" -> IF a \in 0..(nitems - 1) THEN kept(s \cup {a}) ELSE fails
        [] call[1] = "clear" -> IF a \in 0..(nitems - 1) THEN kept(s \ {a}) ELSE fails

\* Whatever the words held before, a bitmap is the set of its marked bits, after
\* any calls; an assertion stops a call that names a bit the map does not have.
IsSet(nitems, junk, calls) ==
  LET bits[n \in 0..Len(calls)] ==
        IF n = 0 THEN [result |-> 0, m |-> NewBitMap(nitems, junk)]
        ELSE OnBitMap(bits[n - 1].m, calls[n])
      set[n \in 0..Len(calls)] ==
        IF n = 0 THEN [result |-> 0, s |-> {}] ELSE OnSet(set[n - 1].s, nitems, calls[n])
  IN  \A n \in 0..Len(calls) :
        /\ bits[n].result = set[n].result
        /\ Listed(bits[n].m) = set[n].s
        /\ NumClear(bits[n].m) = nitems - Cardinality(set[n].s)
===============================================================================
