------------------------------- MODULE Conversions -------------------------------
(***************************************************************************)
(* The two tools that convert a COFF file (bin/coff2noff.c and             *)
(* bin/coff2flat.c) as programs of the host: what they leave behind when   *)
(* the input is short or of the wrong kind, when the output cannot be made *)
(* or written, and when they are stopped. What the converted bytes are is  *)
(* the matter of module Executables.                                       *)
(*                                                                         *)
(* A world says what goes wrong: opens and creates (the two files),        *)
(* readable (the number of reads that give all bytes), writable (the       *)
(* writes that do), magic and omagic (the kinds of headers), kinds (of the *)
(* sections), and stop (the steps that are taken before the host stops).   *)
(***************************************************************************)
EXTENDS Integers, Sequences

\* A section "sbss" is uninitialized and follows on one that came before.
Kinds == {"code", "data", "bss", "sbss", "empty", "other"}

\* The output: whether it is there, the sections copied into it, and whether its
\* last piece is: the header of a NOFF file, the blank word of a flat one.
Output == [there |-> FALSE, copied |-> <<>>, ended |-> FALSE]

Start == [reads |-> 0, writes |-> 0, exit |-> "none", out |-> Output,
          data |-> FALSE]

\* An error ends the tool; coff2noff removes its output then.
Fails(s, unlinks) == [s EXCEPT !.exit = "failed", !.out.there = @ /\ ~unlinks]

Read(world, s, unlinks) ==
  IF s.reads < world.readable THEN [s EXCEPT !.reads = @ + 1] ELSE Fails(s, unlinks)

\* A write to an output that could not be made fails, too: only then is it
\* found out, for what is tested behind both opens is the input.
Writes(world, s, unlinks, written) ==
  IF s.out.there /\ s.writes < world.writable
  THEN [s EXCEPT !.writes = @ + 1, !.out = written] ELSE Fails(s, unlinks)

Opens(world, s) == IF world.opens THEN s ELSE Fails(s, FALSE)
Creates(world, s) == [s EXCEPT !.out.there = world.creates]

\* The headers: each is read, and then the number in it looked at.
ReadsHeader(world, s, right, unlinks) ==
  LET read == Read(world, s, unlinks)
  IN  IF read.exit = "none" /\ ~right THEN Fails(read, unlinks) ELSE read

\* The copy of section i.
Copies(world, s, i, unlinks) ==
  LET read == Read(world, s, unlinks)
  IN  IF read.exit = "none"
      THEN Writes(world, read, unlinks, [read.out EXCEPT !.copied = Append(@, i)])
      ELSE read

\* coff2noff, section i. One that holds nothing is passed over.
NoffSection(world, s, i) ==
  CASE world.kinds[i] \in {"empty", "bss"} -> s
    [] world.kinds[i] = "sbss" ->
         IF \E j \in 1..(i - 1) : world.kinds[j] \in {"bss", "sbss"} THEN Fails(s, TRUE) ELSE s
    [] world.kinds[i] = "code" -> Copies(world, s, i, TRUE)
    [] world.kinds[i] = "data" ->
         IF s.data THEN Fails(s, TRUE) ELSE Copies(world, [s EXCEPT !.data = TRUE], i, TRUE)
    [] OTHER -> Fails(s, TRUE)

\* coff2flat, section i: all but the uninitialized ones, the empty ones too, of
\* which nothing has to be read and no room is needed.
FlatSection(world, s, i) ==
  CASE world.kinds[i] \in {"bss", "sbss"} -> s
    [] world.kinds[i] = "empty" ->
         IF s.out.there THEN [s EXCEPT !.out.copied = Append(@, i)] ELSE Fails(s, FALSE)
    [] OTHER -> Copies(world, s, i, FALSE)

Ends(world, s, unlinks) ==
  LET written == Writes(world, s, unlinks, [s.out EXCEPT !.ended = TRUE])
  IN  IF written.exit = "none" THEN [written EXCEPT !.exit = "done"] ELSE written

\* main of coff2noff: room for the header is left first, and it is written last.
NoffStep(world, s, n) ==
  CASE n = 1 -> Opens(world, s)
    [] n = 2 -> Creates(world, s)
    [] n = 3 -> ReadsHeader(world, s, world.magic, TRUE)
    [] n = 4 -> ReadsHeader(world, s, world.omagic, TRUE)
    [] n = 5 -> Read(world, s, TRUE)
    [] n \in 6..(5 + Len(world.kinds)) -> NoffSection(world, s, n - 5)
    [] OTHER -> Ends(world, s, TRUE)

\* main of coff2flat: behind all sections a blank word, at the end of the stack.
FlatStep(world, s, n) ==
  CASE n = 1 -> Opens(world, s)
    [] n = 2 -> Creates(world, s)
    [] n = 3 -> ReadsHeader(world, s, world.magic, FALSE)
    [] n = 4 -> ReadsHeader(world, s, world.omagic, FALSE)
    [] n = 5 -> Read(world, s, FALSE)
    [] n \in 6..(5 + Len(world.kinds)) -> FlatSection(world, s, n - 5)
    [] OTHER -> Ends(world, s, FALSE)

\* The steps of a tool up to its end, an error or a stop.
Steps(world) == 6 + Len(world.kinds)
GoesOn(world, s, n) == s.exit = "none" /\ n <= world.stop

Coff2Noff(world) ==
  LET after[n \in 0..Steps(world)] ==
        IF n = 0 THEN Start
        ELSE IF GoesOn(world, after[n - 1], n) THEN NoffStep(world, after[n - 1], n)
        ELSE after[n - 1]
  IN  after[Steps(world)]

Coff2Flat(world) ==
  LET after[n \in 0..Steps(world)] ==
        IF n = 0 THEN Start
        ELSE IF GoesOn(world, after[n - 1], n) THEN FlatStep(world, after[n - 1], n)
        ELSE after[n - 1]
  IN  after[Steps(world)]

-------------------------------------------------------------------------------
(* What is right *)

\* The sections in their order, but those of a kind that is left out.
Copied(kinds, left) ==
  LET upTo[i \in 0..Len(kinds)] ==
        IF i = 0 THEN <<>> ELSE IF kinds[i] \in left THEN upTo[i - 1] ELSE Append(upTo[i - 1], i)
  IN  upTo[Len(kinds)]

\* Whatever goes wrong and whenever the host stops: a file that has its last
\* piece is whole, for that piece is written last, and the tool has said so; a
\* NOFF file is not left behind by a tool that says it failed; and both tools
\* fail on what is not a COFF file of the MIPS.
OutputsWhole(world) ==
  LET noff == Coff2Noff(world)
      flat == Coff2Flat(world)
  IN  /\ noff.out.there /\ noff.out.ended =>
           noff.exit = "done" /\ noff.out.copied = Copied(world.kinds, {"empty", "bss", "sbss"})
      /\ flat.out.there /\ flat.out.ended =>
           flat.exit = "done" /\ flat.out.copied = Copied(world.kinds, {"bss", "sbss"})
      /\ noff.exit = "done" => noff.out.there /\ noff.out.ended
      /\ flat.exit = "done" => flat.out.there /\ flat.out.ended
      /\ noff.exit = "failed" => ~noff.out.there
      /\ ~(world.magic /\ world.omagic) => "done" \notin {noff.exit, flat.exit}

\* Every world with so many sections.
Worlds(sections) ==
  [opens : BOOLEAN, creates : BOOLEAN, magic : BOOLEAN, omagic : BOOLEAN,
   readable : 0..(3 + sections), writable : 0..(1 + sections),
   kinds : [1..sections -> Kinds], stop : 0..(6 + sections)]
===============================================================================
