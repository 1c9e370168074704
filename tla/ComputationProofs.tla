--------------------------- MODULE ComputationProofs ---------------------------
(***************************************************************************)
(* Proofs about the computations that MCMachine checks on small inputs:    *)
(* that they are right on every input and for every value of the           *)
(* constants (Instructions, MemoryAccess, Executables, Conversions).       *)
(***************************************************************************)
EXTENDS LibraryProofs

\* Steps, each of which is known to lead somewhere only from where the steps before
\* it lead, and the series that they make.
AreGuarded(step, fine, S, L, base) ==
  /\ fine \in [0..L -> SUBSET S] /\ base \in fine[0]
  /\ \A n \in 1..L : step[n] \in [fine[n - 1] -> fine[n]]
IsGuarded(f, step, fine, S, L, base) ==
  /\ f \in [0..L -> S] /\ f[0] = base
  /\ \A n \in 1..L : f[n] = step[n][f[n - 1]]
  /\ \A n \in 0..L : f[n] \in fine[n]

\* A function that is defined by recursion exists, with such steps too.
LEMMA GuardedExists ==
  ASSUME NEW S, NEW L \in Nat, NEW fine, NEW base, NEW step, AreGuarded(step, fine, S, L, base)
  PROVE  \E f : IsGuarded(f, step, fine, S, L, base)
  <1> USE DEF AreGuarded
  <1> DEFINE whole == [n \in 1..L |-> [x \in S |-> IF x \in fine[n - 1] THEN step[n][x] ELSE base]]
  <1>1. base \in S /\ 0 \in 0..L /\ \A n \in 1..L : n - 1 \in 0..L /\ n \in 0..L
    OBVIOUS
  <1>2. ASSUME NEW n \in 1..L, NEW x \in S
        PROVE  (IF x \in fine[n - 1] THEN step[n][x] ELSE base) \in S
    <2>1. CASE x \in fine[n - 1]
      <3>1. step[n][x] \in fine[n]
        BY <2>1
      <3> QED BY <1>1, <2>1, <3>1
    <2>2. CASE x \notin fine[n - 1]
      BY <1>1, <2>2
    <2> QED BY <2>1, <2>2
  <1>3. whole \in StepsOf(S, L)
    BY <1>2 DEF StepsOf
  <1> HIDE DEF whole
  <1>4. PICK f : IsSeries(f, S, L, base, whole)
    BY <1>1, <1>3, RecursiveExists
  <1>5. f \in [0..L -> S] /\ f[0] = base /\ \A n \in 1..L : f[n] = whole[n][f[n - 1]]
    BY <1>4 DEF IsSeries
  <1> DEFINE Good == {n \in 0..L : f[n] \in fine[n]}
  <1>6. ASSUME NEW n \in 1..L, f[n - 1] \in fine[n - 1]
        PROVE  f[n] = step[n][f[n - 1]] /\ f[n] \in fine[n]
    <2>1. f[n - 1] \in S
      BY <1>1, <1>5
    <2>2. whole[n][f[n - 1]] = step[n][f[n - 1]]
      BY <1>6, <2>1 DEF whole
    <2> QED BY <1>5, <1>6, <2>2
  <1>7. 0 \in Good
    BY <1>1, <1>5
  <1>8. \A n \in (0 + 1)..L : n - 1 \in Good => n \in Good
    BY <1>1, <1>6
  <1>9. \A n \in 0..L : n \in Good
    <2> HIDE DEF Good
    <2> QED BY <1>1, <1>7, <1>8, UpTo, Zenon
  <1>10. IsGuarded(f, step, fine, S, L, base)
    BY <1>1, <1>5, <1>6, <1>9 DEF IsGuarded
  <1> QED BY <1>10

-------------------------------------------------------------------------------
(* The conversion of a COFF file *)

AnyWorld ==
  [opens : BOOLEAN, creates : BOOLEAN, magic : BOOLEAN, omagic : BOOLEAN,
   readable : Nat, writable : Nat, kinds : Seq(Converting!Kinds), stop : Nat]

OutputStates == [there : BOOLEAN, copied : Seq(Nat), ended : BOOLEAN]
ToolStates ==
  [reads : Nat, writes : Nat, exit : {"none", "failed", "done"}, out : OutputStates, data : BOOLEAN]

\* A tool that starts has done nothing.
LEMMA StartIs ==
  /\ Converting!Start \in ToolStates /\ Converting!Start.exit = "none"
  /\ ~Converting!Start.out.there /\ ~Converting!Start.out.ended
  /\ Converting!Start.out.copied = <<>>
  BY DEF Converting!Start, Converting!Output, ToolStates, OutputStates

\* The output after an error, with the sections that were copied.
LEMMA FailsIs ==
  ASSUME NEW s \in ToolStates, NEW unlinks \in BOOLEAN
  PROVE  LET f == Converting!Fails(s, unlinks)
         IN  /\ f \in ToolStates /\ f.exit = "failed"
             /\ f.out.ended = s.out.ended /\ (f.out.there => s.out.there /\ ~unlinks)
  <1> DEFINE out == [s.out EXCEPT !.there = @ /\ ~unlinks]
  <1>1. out \in OutputStates /\ out.ended = s.out.ended /\ (out.there => s.out.there /\ ~unlinks)
    BY DEF ToolStates, OutputStates
  <1>2. Converting!Fails(s, unlinks) = [s EXCEPT !.exit = "failed", !.out = out]
    BY DEF Converting!Fails, ToolStates, OutputStates
  <1> HIDE DEF out
  <1> QED BY <1>1, <1>2 DEF ToolStates

\* A read gives what was asked for, or is an error.
LEMMA ReadIs ==
  ASSUME NEW world \in AnyWorld, NEW s \in ToolStates, s.exit = "none", NEW unlinks \in BOOLEAN
  PROVE  LET r == Converting!Read(world, s, unlinks)
         IN  /\ r \in ToolStates /\ r.exit \in {"none", "failed"}
             /\ r.exit = "none" => r.out = s.out
             /\ r.exit = "failed" => r.out.ended = s.out.ended /\ (r.out.there => s.out.there /\ ~unlinks)
  <1>1. CASE s.reads < world.readable
    <2>1. Converting!Read(world, s, unlinks) = [s EXCEPT !.reads = @ + 1]
      BY <1>1 DEF Converting!Read
    <2> QED BY <2>1 DEF ToolStates
  <1>2. CASE ~(s.reads < world.readable)
    <2>1. Converting!Read(world, s, unlinks) = Converting!Fails(s, unlinks)
      BY <1>2 DEF Converting!Read
    <2> QED BY <2>1, FailsIs
  <1> QED BY <1>1, <1>2

\* A write puts all of its bytes into an output that is there, or is an error.
LEMMA WritesIs ==
  ASSUME NEW world \in AnyWorld, NEW s \in ToolStates, s.exit = "none", NEW unlinks \in BOOLEAN,
         NEW written \in OutputStates
  PROVE  LET w == Converting!Writes(world, s, unlinks, written)
         IN  /\ w \in ToolStates /\ w.exit \in {"none", "failed"}
             /\ w.exit = "none" => w.out = written /\ s.out.there
             /\ w.exit = "failed" => w.out.ended = s.out.ended /\ (w.out.there => s.out.there /\ ~unlinks)
  <1>1. CASE s.out.there /\ s.writes < world.writable
    <2>1. Converting!Writes(world, s, unlinks, written) = [s EXCEPT !.writes = @ + 1, !.out = written]
      BY <1>1 DEF Converting!Writes
    <2>2. Converting!Writes(world, s, unlinks, written)
            = [reads |-> s.reads, writes |-> s.writes + 1, exit |-> s.exit, out |-> written,
               data |-> s.data]
      BY <2>1 DEF ToolStates
    <2> QED BY <1>1, <2>2 DEF ToolStates
  <1>2. CASE ~(s.out.there /\ s.writes < world.writable)
    <2>1. Converting!Writes(world, s, unlinks, written) = Converting!Fails(s, unlinks)
      BY <1>2 DEF Converting!Writes
    <2> QED BY <2>1, FailsIs
  <1> QED BY <1>1, <1>2

\* A section is copied whole, or there is an error.
LEMMA CopiesIs ==
  ASSUME NEW world \in AnyWorld, NEW s \in ToolStates, s.exit = "none", NEW unlinks \in BOOLEAN,
         NEW i \in Nat
  PROVE  LET c == Converting!Copies(world, s, i, unlinks)
         IN  /\ c \in ToolStates /\ c.exit \in {"none", "failed"}
             /\ c.exit = "none" => /\ c.out.copied = Append(s.out.copied, i)
                                   /\ c.out.ended = s.out.ended
             /\ c.exit = "failed" => c.out.ended = s.out.ended /\ (unlinks => ~c.out.there)
  <1> DEFINE r == Converting!Read(world, s, unlinks)
             out == [r.out EXCEPT !.copied = Append(@, i)]
             more == Append(s.out.copied, i)
  <1>1. /\ r \in ToolStates /\ r.exit \in {"none", "failed"}
        /\ r.exit = "none" => r.out = s.out
        /\ r.exit = "failed" => r.out.ended = s.out.ended /\ (r.out.there => s.out.there /\ ~unlinks)
    BY ReadIs
  <1>2. Converting!Copies(world, s, i, unlinks) =
          IF r.exit = "none" THEN Converting!Writes(world, r, unlinks, out) ELSE r
    BY DEF Converting!Copies
  <1> HIDE DEF r
  <1>3. CASE r.exit = "none"
    <2>1. s.out \in OutputStates /\ r.out = s.out
      BY <1>1, <1>3 DEF ToolStates
    <2>2. more \in Seq(Nat) /\ out = [s.out EXCEPT !.copied = more]
      BY <2>1 DEF OutputStates
    <2> HIDE DEF out, more
    <2>3. /\ out \in OutputStates /\ out.copied = more
          /\ out.ended = s.out.ended /\ out.there = s.out.there
      BY <2>1, <2>2 DEF OutputStates
    <2>4. LET w == Converting!Writes(world, r, unlinks, out)
          IN  /\ w \in ToolStates /\ w.exit \in {"none", "failed"}
              /\ w.exit = "none" => w.out = out /\ r.out.there
              /\ w.exit = "failed" => w.out.ended = r.out.ended /\ (w.out.there => r.out.there /\ ~unlinks)
      BY <1>1, <1>3, <2>3, WritesIs
    <2> QED BY <1>2, <1>3, <2>1, <2>3, <2>4 DEF more
  <1>4. CASE r.exit # "none"
    BY <1>1, <1>2, <1>4
  <1> QED BY <1>3, <1>4

\* The sections up to each that are not left out.
CopiedUpTo(kinds, left) ==
  CHOOSE k : k = [i \in 0..Len(kinds) |->
                    IF i = 0 THEN <<>> ELSE IF kinds[i] \in left THEN k[i - 1] ELSE Append(k[i - 1], i)]

\* They are what the recursion says.
LEMMA CopiedUpToIs ==
  ASSUME NEW kinds \in Seq(Converting!Kinds), NEW left
  PROVE  /\ CopiedUpTo(kinds, left)[0] = <<>>
         /\ \A i \in 1..Len(kinds) :
              CopiedUpTo(kinds, left)[i] = IF kinds[i] \in left THEN CopiedUpTo(kinds, left)[i - 1]
                                           ELSE Append(CopiedUpTo(kinds, left)[i - 1], i)
         /\ Converting!Copied(kinds, left) = CopiedUpTo(kinds, left)[Len(kinds)]
  <1> DEFINE L == Len(kinds)
             S == Seq(Nat)
             empty == <<>>
             step == [i \in 1..L |-> [x \in S |-> IF kinds[i] \in left THEN x ELSE Append(x, i)]]
             Rule(k) == [i \in 0..L |->
                           IF i = 0 THEN <<>> ELSE IF kinds[i] \in left THEN k[i - 1] ELSE Append(k[i - 1], i)]
             u == CopiedUpTo(kinds, left)
  <1>1. L \in Nat /\ empty \in S /\ step \in StepsOf(S, L)
    BY DEF StepsOf
  <1>2. Converting!Copied(kinds, left) = u[L]
    BY DEF Converting!Copied, CopiedUpTo
  <1>3. u = CHOOSE k : k = Rule(k)
    BY DEF CopiedUpTo
  <1> HIDE DEF L, S, empty, step, u
  <1>4. PICK f : IsSeries(f, S, L, empty, step)
    BY <1>1, RecursiveExists
  <1>5. f \in [0..L -> S] /\ f[0] = <<>> /\ \A i \in 1..L : f[i] = step[i][f[i - 1]]
    BY <1>4 DEF IsSeries, empty
  <1>6. ASSUME NEW i \in 0..L PROVE f[i] = Rule(f)[i]
    <2>1. CASE i = 0
      BY <1>1, <1>5, <2>1
    <2>2. CASE i # 0
      <3>1. i \in 1..L /\ i - 1 \in 0..L /\ f[i - 1] \in S
        BY <1>1, <1>5, <2>2
      <3>2. step[i][f[i - 1]] = IF kinds[i] \in left THEN f[i - 1] ELSE Append(f[i - 1], i)
        BY <3>1 DEF step
      <3> QED BY <1>5, <2>2, <3>1, <3>2
    <2> QED BY <2>1, <2>2
  <1>7. f = Rule(f)
    BY <1>5, <1>6
  <1>8. u = Rule(u)
    BY <1>3, <1>7
  <1>9. \A i \in 0..L :
          u[i] = IF i = 0 THEN <<>> ELSE IF kinds[i] \in left THEN u[i - 1] ELSE Append(u[i - 1], i)
    BY <1>8
  <1>10. 0 \in 0..L /\ \A i \in 1..L : i \in 0..L /\ i # 0
    BY <1>1
  <1>11. u[0] = <<>>
    BY <1>9, <1>10
  <1>12. \A i \in 1..L : u[i] = IF kinds[i] \in left THEN u[i - 1] ELSE Append(u[i - 1], i)
    BY <1>9, <1>10
  <1> QED BY <1>2, <1>11, <1>12 DEF u, L

\* What is true of a tool that has taken n steps, if it could take them.
ToolInv(world, s, n, left, unlinks) ==
  /\ s \in ToolStates
  /\ s.exit \in {"none", "failed"} => ~s.out.ended
  /\ s.exit = "none" /\ n <= world.stop =>
       /\ s.out.copied = CopiedUpTo(world.kinds, left)[IF n <= 5 THEN 0 ELSE n - 5]
       /\ n <= 1 => ~s.out.there
       /\ n >= 3 => world.magic
       /\ n >= 4 => world.omagic
       /\ n < Converting!Steps(world)
  /\ s.exit = "failed" /\ unlinks => ~s.out.there
  /\ s.exit = "done" =>
       /\ s.out.there /\ s.out.ended /\ world.magic /\ world.omagic
       /\ s.out.copied = Converting!Copied(world.kinds, left)

\* The steps before the sections are those of both tools.
LEMMA HeaderStep ==
  ASSUME NEW world \in AnyWorld, NEW n \in 1..5, NEW left, NEW unlinks \in BOOLEAN, NEW s,
         ToolInv(world, s, n - 1, left, unlinks), Converting!GoesOn(world, s, n),
         NEW t,
         n = 1 => t = Converting!Opens(world, s),
         n = 2 => t = Converting!Creates(world, s),
         n = 3 => t = Converting!ReadsHeader(world, s, world.magic, unlinks),
         n = 4 => t = Converting!ReadsHeader(world, s, world.omagic, unlinks),
         n = 5 => t = Converting!Read(world, s, unlinks)
  PROVE  ToolInv(world, t, n, left, unlinks)
  <1>1. /\ s \in ToolStates /\ s.exit = "none" /\ ~s.out.ended /\ n <= world.stop
        /\ s.out.copied = CopiedUpTo(world.kinds, left)[0]
        /\ n <= 2 => ~s.out.there
        /\ n >= 4 => world.magic
        /\ n >= 5 => world.omagic
    BY DEF ToolInv, Converting!GoesOn, AnyWorld
  <1>2. world.magic \in BOOLEAN /\ world.omagic \in BOOLEAN /\ world.creates \in BOOLEAN /\ FALSE \in BOOLEAN
        /\ Len(world.kinds) \in Nat
    BY DEF AnyWorld
  <1>3. n < Converting!Steps(world)
    BY <1>2 DEF Converting!Steps
  <1>4. ASSUME NEW right \in BOOLEAN
        PROVE  LET h == Converting!ReadsHeader(world, s, right, unlinks)
               IN  /\ h \in ToolStates /\ h.exit \in {"none", "failed"} /\ h.out.ended = s.out.ended
                   /\ h.exit = "none" => h.out = s.out /\ right
                   /\ h.exit = "failed" /\ unlinks => ~h.out.there
    <2> DEFINE r == Converting!Read(world, s, unlinks)
    <2>1. /\ r \in ToolStates /\ r.exit \in {"none", "failed"}
          /\ r.exit = "none" => r.out = s.out
          /\ r.exit = "failed" => r.out.ended = s.out.ended /\ (r.out.there => s.out.there /\ ~unlinks)
      BY <1>1, ReadIs
    <2>2. Converting!ReadsHeader(world, s, right, unlinks) =
            IF r.exit = "none" /\ ~right THEN Converting!Fails(r, unlinks) ELSE r
      BY DEF Converting!ReadsHeader
    <2> HIDE DEF r
    <2>3. LET f == Converting!Fails(r, unlinks)
          IN  /\ f \in ToolStates /\ f.exit = "failed"
              /\ f.out.ended = r.out.ended /\ (f.out.there => r.out.there /\ ~unlinks)
      BY <2>1, FailsIs
    <2> QED BY <2>1, <2>2, <2>3
  <1>5. CASE n = 1
    <2> DEFINE no == FALSE
               f == Converting!Fails(s, no)
    <2>1. t = IF world.opens THEN s ELSE f
      BY <1>5 DEF Converting!Opens
    <2>2. no \in BOOLEAN
      OBVIOUS
    <2> HIDE DEF no
    <2>3. /\ f \in ToolStates /\ f.exit = "failed"
          /\ f.out.ended = s.out.ended /\ (f.out.there => s.out.there /\ ~no)
      BY <1>1, <2>2, FailsIs, Zenon
    <2> HIDE DEF f
    <2>4. ~s.out.there
      BY <1>1, <1>5
    <2> QED BY <1>1, <1>3, <1>5, <2>1, <2>3, <2>4 DEF ToolInv
  <1>6. CASE n = 2
    <2>1. t = [s EXCEPT !.out.there = world.creates]
      BY <1>6 DEF Converting!Creates
    <2>2. /\ t \in ToolStates /\ t.exit = s.exit /\ t.out.ended = s.out.ended
          /\ t.out.copied = s.out.copied
      BY <1>1, <1>2, <2>1 DEF ToolStates, OutputStates
    <2> QED BY <1>1, <1>3, <1>6, <2>2 DEF ToolInv
  <1>7. CASE n = 3
    <2>1. t = Converting!ReadsHeader(world, s, world.magic, unlinks)
      BY <1>7
    <2> QED BY <1>1, <1>2, <1>3, <1>4, <1>7, <2>1 DEF ToolInv
  <1>8. CASE n = 4
    <2>1. t = Converting!ReadsHeader(world, s, world.omagic, unlinks)
      BY <1>8
    <2> QED BY <1>1, <1>2, <1>3, <1>4, <1>8, <2>1 DEF ToolInv
  <1>9. CASE n = 5
    <2>1. t = Converting!Read(world, s, unlinks)
      BY <1>9
    <2>2. /\ t \in ToolStates /\ t.exit \in {"none", "failed"}
          /\ t.exit = "none" => t.out = s.out
          /\ t.exit = "failed" => t.out.ended = s.out.ended /\ (t.out.there => s.out.there /\ ~unlinks)
      BY <1>1, <2>1, ReadIs
    <2> QED BY <1>1, <1>3, <1>9, <2>2 DEF ToolInv
  <1> QED BY <1>5, <1>6, <1>7, <1>8, <1>9

\* Section i, of coff2noff.
LEMMA NoffSectionStep ==
  ASSUME NEW world \in AnyWorld, NEW n \in 6..(5 + Len(world.kinds)), NEW s,
         ToolInv(world, s, n - 1, {"empty", "bss", "sbss"}, TRUE), Converting!GoesOn(world, s, n)
  PROVE  ToolInv(world, Converting!NoffSection(world, s, n - 5), n, {"empty", "bss", "sbss"}, TRUE)
  <1> DEFINE i == n - 5
             yes == TRUE
             kind == world.kinds[i]
             t == Converting!NoffSection(world, s, i)
             left == {"empty", "bss", "sbss"}
             u == CopiedUpTo(world.kinds, left)
             more == Append(s.out.copied, i)
  <1>1. Len(world.kinds) \in Nat /\ world.kinds \in Seq(Converting!Kinds)
    BY DEF AnyWorld
  <1>2. i \in 1..Len(world.kinds) /\ i \in Nat
    BY <1>1
  <1>3. u[i] = IF kind \in left THEN u[i - 1] ELSE Append(u[i - 1], i)
    BY <1>1, <1>2, CopiedUpToIs
  <1>4. kind \in Converting!Kinds
    BY <1>1, <1>2
  <1> HIDE DEF u, left
  <1>5. /\ s \in ToolStates /\ s.exit = "none" /\ ~s.out.ended /\ n <= world.stop
        /\ s.out.copied = u[i - 1] /\ world.magic /\ world.omagic
    <2>1. n - 1 >= 5 /\ n - 1 <= world.stop /\ i - 1 = (IF n - 1 <= 5 THEN 0 ELSE n - 1 - 5)
      BY <1>1 DEF AnyWorld, Converting!GoesOn
    <2> QED BY <2>1 DEF ToolInv, Converting!GoesOn, u, left
  <1>6. n < Converting!Steps(world) /\ i = (IF n <= 5 THEN 0 ELSE n - 5) /\ n > 5
    BY <1>1 DEF Converting!Steps
  <1>7. yes \in BOOLEAN /\ yes
    OBVIOUS
  <1> DEFINE Fine(x) == /\ x \in ToolStates /\ x.exit \in {"none", "failed"} /\ ~x.out.ended
                        /\ x.exit = "none" => x.out.copied = u[i]
                        /\ x.exit = "failed" => ~x.out.there
  <1>8. ASSUME NEW r \in ToolStates, r.exit = "none", r.out = s.out, u[i] = more
        PROVE  Fine(Converting!Copies(world, r, i, yes))
    <2> DEFINE c == Converting!Copies(world, r, i, yes)
    <2> HIDE DEF yes
    <2>1. /\ c \in ToolStates /\ c.exit \in {"none", "failed"}
          /\ c.exit = "none" => /\ c.out.copied = Append(r.out.copied, i)
                                /\ c.out.ended = r.out.ended
          /\ c.exit = "failed" => c.out.ended = r.out.ended /\ (yes => ~c.out.there)
      BY <1>2, <1>7, <1>8, CopiesIs
    <2> HIDE DEF c
    <2>2. Fine(c)
      BY <1>5, <1>7, <1>8, <2>1
    <2> QED BY <2>2 DEF c
  <1>9. Fine(Converting!Fails(s, yes))
    <2> DEFINE f == Converting!Fails(s, yes)
    <2> HIDE DEF yes
    <2>1. /\ f \in ToolStates /\ f.exit = "failed"
          /\ f.out.ended = s.out.ended /\ (f.out.there => s.out.there /\ ~yes)
      BY <1>5, <1>7, FailsIs
    <2> HIDE DEF f
    <2>2. Fine(f)
      BY <1>5, <1>7, <2>1
    <2> QED BY <2>2 DEF f
  <1>10. Fine(t)
    <2> HIDE DEF Fine
    <2>1. CASE kind \in {"empty", "bss"}
      <3>1. t = s /\ u[i] = s.out.copied
        BY <1>3, <1>5, <2>1 DEF Converting!NoffSection, left
      <3> HIDE DEF t
      <3> QED BY <1>5, <3>1 DEF Fine
    <2>2. CASE kind = "code"
      <3>1. t = Converting!Copies(world, s, i, yes)
        BY <2>2 DEF Converting!NoffSection
      <3>2. u[i] = more
        BY <1>3, <1>5, <2>2 DEF left
      <3> QED BY <1>5, <1>8, <3>1, <3>2
    <2>3. CASE kind = "data"
      <3> DEFINE r == [s EXCEPT !.data = TRUE]
      <3>1. t = IF s.data THEN Converting!Fails(s, yes) ELSE Converting!Copies(world, r, i, yes)
        BY <2>3 DEF Converting!NoffSection
      <3>2. r \in ToolStates /\ r.exit = "none" /\ r.out = s.out
        BY <1>5 DEF ToolStates
      <3>3. u[i] = more
        BY <1>3, <1>5, <2>3 DEF left
      <3> HIDE DEF r
      <3> QED BY <1>8, <1>9, <3>1, <3>2, <3>3
    <2>4. CASE kind = "other"
      <3>1. t = Converting!Fails(s, yes)
        BY <2>4 DEF Converting!NoffSection
      <3> QED BY <1>9, <3>1
    <2>5. CASE kind = "sbss"
      <3> DEFINE before == \E j \in 1..(i - 1) : world.kinds[j] \in {"bss", "sbss"}
      <3>1. t = (IF before THEN Converting!Fails(s, yes) ELSE s) /\ u[i] = s.out.copied
        BY <1>3, <1>5, <2>5 DEF Converting!NoffSection, left
      <3> HIDE DEF t, before
      <3>2. CASE before
        BY <1>9, <3>1, <3>2
      <3>3. CASE ~before
        BY <1>5, <3>1, <3>3 DEF Fine
      <3> QED BY <3>2, <3>3
    <2> QED BY <1>4, <2>1, <2>2, <2>3, <2>4, <2>5 DEF Converting!Kinds
  <1> HIDE DEF t, i
  <1> QED BY <1>5, <1>6, <1>10 DEF ToolInv, t, i, u, left

\* Section i, of coff2flat.
LEMMA FlatSectionStep ==
  ASSUME NEW world \in AnyWorld, NEW n \in 6..(5 + Len(world.kinds)), NEW s,
         ToolInv(world, s, n - 1, {"bss", "sbss"}, FALSE), Converting!GoesOn(world, s, n)
  PROVE  ToolInv(world, Converting!FlatSection(world, s, n - 5), n, {"bss", "sbss"}, FALSE)
  <1> DEFINE i == n - 5
             no == FALSE
             kind == world.kinds[i]
             t == Converting!FlatSection(world, s, i)
             left == {"bss", "sbss"}
             u == CopiedUpTo(world.kinds, left)
             more == Append(s.out.copied, i)
  <1>1. Len(world.kinds) \in Nat /\ world.kinds \in Seq(Converting!Kinds)
    BY DEF AnyWorld
  <1>2. i \in 1..Len(world.kinds) /\ i \in Nat
    BY <1>1
  <1>3. u[i] = IF kind \in left THEN u[i - 1] ELSE Append(u[i - 1], i)
    BY <1>1, <1>2, CopiedUpToIs
  <1> HIDE DEF u, left
  <1>4. /\ s \in ToolStates /\ s.exit = "none" /\ ~s.out.ended /\ n <= world.stop
        /\ s.out.copied = u[i - 1] /\ world.magic /\ world.omagic
    <2>1. n - 1 >= 5 /\ n - 1 <= world.stop /\ i - 1 = (IF n - 1 <= 5 THEN 0 ELSE n - 1 - 5)
      BY <1>1 DEF AnyWorld, Converting!GoesOn
    <2> QED BY <2>1 DEF ToolInv, Converting!GoesOn, u, left
  <1>5. n < Converting!Steps(world) /\ i = (IF n <= 5 THEN 0 ELSE n - 5) /\ n > 5
    BY <1>1 DEF Converting!Steps
  <1>6. no \in BOOLEAN
    OBVIOUS
  <1> DEFINE Fine(x) == /\ x \in ToolStates /\ x.exit \in {"none", "failed"} /\ ~x.out.ended
                        /\ x.exit = "none" => x.out.copied = u[i]
  <1>7. Fine(t)
    <2>1. CASE kind \in {"bss", "sbss"}
      <3>1. t = s /\ u[i] = s.out.copied
        BY <1>3, <1>4, <2>1 DEF Converting!FlatSection, left
      <3> HIDE DEF t
      <3> QED BY <1>4, <3>1
    <2>2. CASE kind = "empty"
      <3>1. t = IF s.out.there THEN [s EXCEPT !.out.copied = more] ELSE Converting!Fails(s, no)
        BY <2>2 DEF Converting!FlatSection
      <3>2. u[i] = more
        BY <1>3, <1>4, <2>2 DEF left
      <3>3. more \in Seq(Nat) /\ s.out \in OutputStates
        BY <1>2, <1>4 DEF ToolStates, OutputStates
      <3> HIDE DEF more, t
      <3>4. CASE s.out.there
        <4> DEFINE out == [s.out EXCEPT !.copied = more]
        <4>1. out \in OutputStates /\ out.copied = more /\ out.ended = s.out.ended
          BY <3>3 DEF OutputStates
        <4>2. t = [s EXCEPT !.out = out]
          BY <1>4, <3>1, <3>4 DEF ToolStates
        <4> HIDE DEF out
        <4>3. t \in ToolStates /\ t.exit = s.exit /\ t.out = out
          BY <1>4, <4>1, <4>2 DEF ToolStates
        <4> QED BY <1>4, <3>2, <4>1, <4>3
      <3>5. CASE ~s.out.there
        <4> DEFINE f == Converting!Fails(s, no)
        <4> HIDE DEF no
        <4>1. f \in ToolStates /\ f.exit = "failed" /\ f.out.ended = s.out.ended
          BY <1>4, <1>6, FailsIs
        <4> HIDE DEF f
        <4> QED BY <1>4, <3>1, <3>5, <4>1 DEF f
      <3> QED BY <3>4, <3>5
    <2>3. CASE kind \notin {"bss", "sbss", "empty"}
      <3> DEFINE c == Converting!Copies(world, s, i, no)
      <3>1. t = c
        BY <2>3 DEF Converting!FlatSection
      <3>2. u[i] = more
        BY <1>3, <1>4, <2>3 DEF left
      <3> HIDE DEF no
      <3>3. /\ c \in ToolStates /\ c.exit \in {"none", "failed"}
            /\ c.exit = "none" => c.out.copied = more /\ c.out.ended = s.out.ended
            /\ c.exit = "failed" => c.out.ended = s.out.ended
        BY <1>2, <1>4, <1>6, CopiesIs
      <3> HIDE DEF c, t
      <3> QED BY <1>4, <3>1, <3>2, <3>3
    <2> QED BY <2>1, <2>2, <2>3
  <1> HIDE DEF t, i
  <1> QED BY <1>4, <1>5, <1>7 DEF ToolInv, t, i, u, left

\* The last piece of the output.
LEMMA EndStep ==
  ASSUME NEW world \in AnyWorld, NEW left, NEW unlinks \in BOOLEAN, NEW s,
         ToolInv(world, s, Converting!Steps(world) - 1, left, unlinks),
         Converting!GoesOn(world, s, Converting!Steps(world))
  PROVE  ToolInv(world, Converting!Ends(world, s, unlinks), Converting!Steps(world), left, unlinks)
  <1> DEFINE last == Converting!Steps(world)
             t == Converting!Ends(world, s, unlinks)
             out == [s.out EXCEPT !.ended = TRUE]
             w == Converting!Writes(world, s, unlinks, out)
  <1>1. Len(world.kinds) \in Nat /\ world.kinds \in Seq(Converting!Kinds)
    BY DEF AnyWorld
  <1>2. last \in Nat /\ last >= 6 /\ last - 1 = 5 + Len(world.kinds)
    BY <1>1 DEF Converting!Steps
  <1>3. Converting!Copied(world.kinds, left) = CopiedUpTo(world.kinds, left)[Len(world.kinds)]
    BY <1>1, CopiedUpToIs
  <1> HIDE DEF last
  <1>4. /\ s \in ToolStates /\ s.exit = "none" /\ ~s.out.ended
        /\ s.out.copied = Converting!Copied(world.kinds, left) /\ world.magic /\ world.omagic
    <2>1. /\ last - 1 >= 5 /\ last - 1 <= world.stop
          /\ Len(world.kinds) = (IF last - 1 <= 5 THEN 0 ELSE last - 1 - 5)
      BY <1>1, <1>2 DEF AnyWorld, Converting!GoesOn, last
    <2>2. s.exit = "none" /\ ToolInv(world, s, last - 1, left, unlinks)
      BY DEF Converting!GoesOn, last
    <2> HIDE DEF last
    <2>3. s.out.copied = CopiedUpTo(world.kinds, left)[IF last - 1 <= 5 THEN 0 ELSE last - 1 - 5]
      BY <2>1, <2>2 DEF ToolInv
    <2>4. s.out.copied = Converting!Copied(world.kinds, left)
      BY <1>3, <2>1, <2>3
    <2>5. s \in ToolStates /\ ~s.out.ended /\ world.magic /\ world.omagic
      BY <1>2, <2>1, <2>2 DEF ToolInv
    <2> QED BY <2>2, <2>4, <2>5
  <1>5. out \in OutputStates /\ out.ended /\ out.there = s.out.there /\ out.copied = s.out.copied
    BY <1>4 DEF ToolStates, OutputStates
  <1> HIDE DEF out
  <1>6. /\ w \in ToolStates /\ w.exit \in {"none", "failed"}
        /\ w.exit = "none" => w.out = out /\ s.out.there
        /\ w.exit = "failed" => w.out.ended = s.out.ended /\ (w.out.there => s.out.there /\ ~unlinks)
    BY <1>4, <1>5, WritesIs
  <1>7. t = IF w.exit = "none" THEN [w EXCEPT !.exit = "done"] ELSE w
    BY DEF Converting!Ends, out
  <1> HIDE DEF w, t
  <1>8. CASE w.exit = "none"
    <2>1. t \in ToolStates /\ t.exit = "done" /\ t.out = w.out
      BY <1>6, <1>7, <1>8 DEF ToolStates
    <2>2. ToolInv(world, t, last, left, unlinks)
      BY <1>4, <1>5, <1>6, <1>8, <2>1 DEF ToolInv
    <2> QED BY <2>2 DEF t, last
  <1>9. CASE w.exit = "failed"
    <2>1. t = w
      BY <1>7, <1>9
    <2>2. ToolInv(world, t, last, left, unlinks)
      BY <1>4, <1>6, <1>9, <2>1 DEF ToolInv
    <2> QED BY <2>2 DEF t, last
  <1> QED BY <1>6, <1>8, <1>9

\* A tool that cannot take a step is as it was.
LEMMA StandStill ==
  ASSUME NEW world \in AnyWorld, NEW n \in Nat \ {0}, NEW left, NEW unlinks \in BOOLEAN, NEW s,
         ToolInv(world, s, n - 1, left, unlinks), ~Converting!GoesOn(world, s, n)
  PROVE  ToolInv(world, s, n, left, unlinks)
  <1>1. ~(s.exit = "none" /\ n <= world.stop)
    BY DEF Converting!GoesOn
  <1> QED BY <1>1 DEF ToolInv

\* Every step of coff2noff keeps to what is true of it, and so does every step of
\* coff2flat.
LEMMA StepKeeps ==
  ASSUME NEW world \in AnyWorld, NEW n \in 1..Converting!Steps(world), NEW s
  PROVE  /\ /\ ToolInv(world, s, n - 1, {"empty", "bss", "sbss"}, TRUE)
            /\ Converting!GoesOn(world, s, n)
            => ToolInv(world, Converting!NoffStep(world, s, n), n, {"empty", "bss", "sbss"}, TRUE)
         /\ /\ ToolInv(world, s, n - 1, {"bss", "sbss"}, FALSE)
            /\ Converting!GoesOn(world, s, n)
            => ToolInv(world, Converting!FlatStep(world, s, n), n, {"bss", "sbss"}, FALSE)
  <1> DEFINE noff == Converting!NoffStep(world, s, n)
             flat == Converting!FlatStep(world, s, n)
             yes == TRUE
             no == FALSE
  <1>1. Len(world.kinds) \in Nat /\ Converting!Steps(world) = 6 + Len(world.kinds)
    BY DEF AnyWorld, Converting!Steps
  <1>2. yes \in BOOLEAN /\ no \in BOOLEAN
    OBVIOUS
  <1>3. CASE n \in 1..5
    <2>1. n = 1 => noff = Converting!Opens(world, s) /\ flat = Converting!Opens(world, s)
      BY DEF Converting!NoffStep, Converting!FlatStep
    <2>2. n = 2 => noff = Converting!Creates(world, s) /\ flat = Converting!Creates(world, s)
      BY DEF Converting!NoffStep, Converting!FlatStep
    <2>3. n = 3 => /\ noff = Converting!ReadsHeader(world, s, world.magic, yes)
                   /\ flat = Converting!ReadsHeader(world, s, world.magic, no)
      BY DEF Converting!NoffStep, Converting!FlatStep
    <2>4. n = 4 => /\ noff = Converting!ReadsHeader(world, s, world.omagic, yes)
                   /\ flat = Converting!ReadsHeader(world, s, world.omagic, no)
      BY DEF Converting!NoffStep, Converting!FlatStep
    <2>5. n = 5 => noff = Converting!Read(world, s, yes) /\ flat = Converting!Read(world, s, no)
      BY DEF Converting!NoffStep, Converting!FlatStep
    <2> HIDE DEF yes, no, noff, flat
    <2>6. ASSUME ToolInv(world, s, n - 1, {"empty", "bss", "sbss"}, yes), Converting!GoesOn(world, s, n)
          PROVE  ToolInv(world, noff, n, {"empty", "bss", "sbss"}, yes)
      BY <1>2, <1>3, <2>1, <2>2, <2>3, <2>4, <2>5, <2>6, HeaderStep
    <2>7. ASSUME ToolInv(world, s, n - 1, {"bss", "sbss"}, no), Converting!GoesOn(world, s, n)
          PROVE  ToolInv(world, flat, n, {"bss", "sbss"}, no)
      BY <1>2, <1>3, <2>1, <2>2, <2>3, <2>4, <2>5, <2>7, HeaderStep
    <2> QED BY <2>6, <2>7 DEF yes, no, noff, flat
  <1>4. CASE n \in 6..(5 + Len(world.kinds))
    <2>1. /\ noff = Converting!NoffSection(world, s, n - 5)
          /\ flat = Converting!FlatSection(world, s, n - 5)
      BY <1>1, <1>4 DEF Converting!NoffStep, Converting!FlatStep
    <2> HIDE DEF noff, flat
    <2> QED BY <1>4, <2>1, NoffSectionStep, FlatSectionStep DEF noff, flat
  <1>5. CASE n = 6 + Len(world.kinds)
    <2>1. noff = Converting!Ends(world, s, yes) /\ flat = Converting!Ends(world, s, no)
      <3>1. n \notin {1, 2, 3, 4, 5} /\ ~(n \in 6..(5 + Len(world.kinds)))
        BY <1>1, <1>5
      <3>2. noff = Converting!Ends(world, s, yes)
        BY <3>1 DEF Converting!NoffStep
      <3>3. flat = Converting!Ends(world, s, no)
        BY <3>1 DEF Converting!FlatStep
      <3> QED BY <3>2, <3>3
    <2> HIDE DEF yes, no, noff, flat
    <2>2. n = Converting!Steps(world)
      BY <1>1, <1>5
    <2>3. ASSUME ToolInv(world, s, n - 1, {"empty", "bss", "sbss"}, yes), Converting!GoesOn(world, s, n)
          PROVE  ToolInv(world, noff, n, {"empty", "bss", "sbss"}, yes)
      BY <1>2, <2>1, <2>2, <2>3, EndStep
    <2>4. ASSUME ToolInv(world, s, n - 1, {"bss", "sbss"}, no), Converting!GoesOn(world, s, n)
          PROVE  ToolInv(world, flat, n, {"bss", "sbss"}, no)
      BY <1>2, <2>1, <2>2, <2>4, EndStep
    <2> QED BY <2>3, <2>4 DEF yes, no, noff, flat
  <1>6. n \in 1..5 \/ n \in 6..(5 + Len(world.kinds)) \/ n = 6 + Len(world.kinds)
    BY <1>1
  <1> QED BY <1>3, <1>4, <1>5, <1>6

\* Before its first step.
LEMMA StartKeeps ==
  ASSUME NEW world \in AnyWorld, NEW left, NEW unlinks \in BOOLEAN
  PROVE  ToolInv(world, Converting!Start, 0, left, unlinks)
  <1>1. /\ CopiedUpTo(world.kinds, left)[0] = <<>>
        /\ Len(world.kinds) \in Nat
    BY CopiedUpToIs DEF AnyWorld
  <1> QED BY <1>1, StartIs DEF ToolInv, Converting!Steps

\* coff2noff in the end, whatever goes wrong.
LEMMA NoffIs ==
  ASSUME NEW world \in AnyWorld
  PROVE  ToolInv(world, Converting!Coff2Noff(world), Converting!Steps(world), {"empty", "bss", "sbss"}, TRUE)
  <1> DEFINE L == Converting!Steps(world)
             S == ToolStates
             start == Converting!Start
             Moved(x, n) == IF Converting!GoesOn(world, x, n) THEN Converting!NoffStep(world, x, n) ELSE x
             Fine(x, n) == ToolInv(world, x, n, {"empty", "bss", "sbss"}, TRUE)
             Rule(k) == [n \in 0..L |->
                           IF n = 0 THEN start
                           ELSE IF Converting!GoesOn(world, k[n - 1], n)
                                THEN Converting!NoffStep(world, k[n - 1], n) ELSE k[n - 1]]
             after == CHOOSE k : k = Rule(k)
  <1>1. L \in Nat
    BY DEF AnyWorld, Converting!Steps
  <1>2. Converting!Coff2Noff(world) = after[L]
    BY DEF Converting!Coff2Noff
  <1> HIDE DEF after, L, start
  <1>3. Fine(start, 0)
    <2>1. TRUE \in BOOLEAN
      OBVIOUS
    <2> QED BY <2>1, StartKeeps DEF start
  <1>4. ASSUME NEW x, NEW n \in 1..L, Fine(x, n - 1) PROVE Fine(Moved(x, n), n)
    <2>1. TRUE \in BOOLEAN /\ n \in Nat \ {0}
      BY <1>1
    <2> QED BY <1>4, <2>1, StepKeeps, StandStill DEF L
  <1> DEFINE fine == [n \in 0..L |-> {x \in S : Fine(x, n)}]
             step == [n \in 1..L |-> [x \in fine[n - 1] |-> Moved(x, n)]]
  <1>5. \A x, n : Fine(x, n) => x \in S
    BY DEF ToolInv
  <1> HIDE DEF Fine, Moved, S
  <1>6. 0 \in 0..L /\ \A n \in 1..L : n - 1 \in 0..L /\ n \in 0..L /\ n # 0
    BY <1>1
  <1>7. fine \in [0..L -> SUBSET S] /\ start \in fine[0]
    BY <1>3, <1>5, <1>6
  <1>8. \A n \in 1..L : step[n] \in [fine[n - 1] -> fine[n]]
    <2> SUFFICES ASSUME NEW n \in 1..L, NEW x \in fine[n - 1] PROVE Moved(x, n) \in fine[n]
      OBVIOUS
    <2> QED BY <1>4, <1>5, <1>6
  <1>9. \E f : IsGuarded(f, step, fine, S, L, start)
    <2>1. AreGuarded(step, fine, S, L, start)
      BY <1>7, <1>8 DEF AreGuarded
    <2> HIDE DEF step, fine
    <2> QED BY <1>1, <2>1, GuardedExists
  <1>10. PICK f \in [0..L -> S] :
           /\ f[0] = start
           /\ \A n \in 1..L : f[n] = Moved(f[n - 1], n)
           /\ \A n \in 0..L : Fine(f[n], n)
    BY <1>6, <1>9 DEF IsGuarded
  <1>11. f = Rule(f)
    <2>1. ASSUME NEW n \in 0..L PROVE f[n] = Rule(f)[n]
      <3>1. CASE n = 0
        BY <1>10, <2>1, <3>1
      <3>2. CASE n # 0
        <4>1. n \in 1..L
          BY <1>1, <2>1, <3>2
        <4> QED BY <1>10, <3>2, <4>1 DEF Moved
      <3> QED BY <3>1, <3>2
    <2> QED BY <2>1
  <1>12. after = Rule(after)
    BY <1>11 DEF after
  <1>13. after[0] = start /\ \A n \in 1..L : after[n] = Moved(after[n - 1], n)
    <2>1. \A n \in 0..L : after[n] = Rule(after)[n]
      BY <1>12
    <2> QED BY <1>6, <2>1 DEF Moved
  <1> DEFINE Good == {n \in 0..L : Fine(after[n], n)}
  <1>14. 0 \in Good
    BY <1>3, <1>6, <1>13
  <1>15. \A n \in (0 + 1)..L : n - 1 \in Good => n \in Good
    BY <1>4, <1>6, <1>13
  <1>16. \A n \in 0..L : n \in Good
    <2> HIDE DEF Good
    <2> QED BY <1>1, <1>6, <1>14, <1>15, UpTo, Zenon
  <1>17. Fine(Converting!Coff2Noff(world), L)
    BY <1>1, <1>2, <1>16
  <1> QED BY <1>17 DEF Fine, L

\* coff2flat in the end, whatever goes wrong.
LEMMA FlatIs ==
  ASSUME NEW world \in AnyWorld
  PROVE  ToolInv(world, Converting!Coff2Flat(world), Converting!Steps(world), {"bss", "sbss"}, FALSE)
  <1> DEFINE L == Converting!Steps(world)
             S == ToolStates
             start == Converting!Start
             Moved(x, n) == IF Converting!GoesOn(world, x, n) THEN Converting!FlatStep(world, x, n) ELSE x
             Fine(x, n) == ToolInv(world, x, n, {"bss", "sbss"}, FALSE)
             Rule(k) == [n \in 0..L |->
                           IF n = 0 THEN start
                           ELSE IF Converting!GoesOn(world, k[n - 1], n)
                                THEN Converting!FlatStep(world, k[n - 1], n) ELSE k[n - 1]]
             after == CHOOSE k : k = Rule(k)
  <1>1. L \in Nat
    BY DEF AnyWorld, Converting!Steps
  <1>2. Converting!Coff2Flat(world) = after[L]
    BY DEF Converting!Coff2Flat
  <1> HIDE DEF after, L, start
  <1>3. Fine(start, 0)
    <2>1. FALSE \in BOOLEAN
      OBVIOUS
    <2> QED BY <2>1, StartKeeps DEF start
  <1>4. ASSUME NEW x, NEW n \in 1..L, Fine(x, n - 1) PROVE Fine(Moved(x, n), n)
    <2>1. FALSE \in BOOLEAN /\ n \in Nat \ {0}
      BY <1>1
    <2> QED BY <1>4, <2>1, StepKeeps, StandStill DEF L
  <1> DEFINE fine == [n \in 0..L |-> {x \in S : Fine(x, n)}]
             step == [n \in 1..L |-> [x \in fine[n - 1] |-> Moved(x, n)]]
  <1>5. \A x, n : Fine(x, n) => x \in S
    BY DEF ToolInv
  <1> HIDE DEF Fine, Moved, S
  <1>6. 0 \in 0..L /\ \A n \in 1..L : n - 1 \in 0..L /\ n \in 0..L /\ n # 0
    BY <1>1
  <1>7. fine \in [0..L -> SUBSET S] /\ start \in fine[0]
    BY <1>3, <1>5, <1>6
  <1>8. \A n \in 1..L : step[n] \in [fine[n - 1] -> fine[n]]
    <2> SUFFICES ASSUME NEW n \in 1..L, NEW x \in fine[n - 1] PROVE Moved(x, n) \in fine[n]
      OBVIOUS
    <2> QED BY <1>4, <1>5, <1>6
  <1>9. \E f : IsGuarded(f, step, fine, S, L, start)
    <2>1. AreGuarded(step, fine, S, L, start)
      BY <1>7, <1>8 DEF AreGuarded
    <2> HIDE DEF step, fine
    <2> QED BY <1>1, <2>1, GuardedExists
  <1>10. PICK f \in [0..L -> S] :
           /\ f[0] = start
           /\ \A n \in 1..L : f[n] = Moved(f[n - 1], n)
           /\ \A n \in 0..L : Fine(f[n], n)
    BY <1>6, <1>9 DEF IsGuarded
  <1>11. f = Rule(f)
    <2>1. ASSUME NEW n \in 0..L PROVE f[n] = Rule(f)[n]
      <3>1. CASE n = 0
        BY <1>10, <2>1, <3>1
      <3>2. CASE n # 0
        <4>1. n \in 1..L
          BY <1>1, <2>1, <3>2
        <4> QED BY <1>10, <3>2, <4>1 DEF Moved
      <3> QED BY <3>1, <3>2
    <2> QED BY <2>1
  <1>12. after = Rule(after)
    BY <1>11 DEF after
  <1>13. after[0] = start /\ \A n \in 1..L : after[n] = Moved(after[n - 1], n)
    <2>1. \A n \in 0..L : after[n] = Rule(after)[n]
      BY <1>12
    <2> QED BY <1>6, <2>1 DEF Moved
  <1> DEFINE Good == {n \in 0..L : Fine(after[n], n)}
  <1>14. 0 \in Good
    BY <1>3, <1>6, <1>13
  <1>15. \A n \in (0 + 1)..L : n - 1 \in Good => n \in Good
    BY <1>4, <1>6, <1>13
  <1>16. \A n \in 0..L : n \in Good
    <2> HIDE DEF Good
    <2> QED BY <1>1, <1>6, <1>14, <1>15, UpTo, Zenon
  <1>17. Fine(Converting!Coff2Flat(world), L)
    BY <1>1, <1>2, <1>16
  <1> QED BY <1>17 DEF Fine, L

\* Whatever goes wrong with a conversion and whenever the host stops, for any number
\* of sections of any kinds: a file that has its last piece is whole and the tool has
\* said so, a NOFF file is not left behind by a tool that says it failed, and neither
\* tool accepts what is no COFF file of the MIPS (main of coff2noff.c and coff2flat.c).
THEOREM OutputsAreWhole == \A world \in AnyWorld : Converting!OutputsWhole(world)
  <1> SUFFICES ASSUME NEW world \in AnyWorld PROVE Converting!OutputsWhole(world)
    OBVIOUS
  <1> DEFINE noff == Converting!Coff2Noff(world)
             flat == Converting!Coff2Flat(world)
  <1>1. ToolInv(world, noff, Converting!Steps(world), {"empty", "bss", "sbss"}, TRUE)
    BY NoffIs
  <1>2. ToolInv(world, flat, Converting!Steps(world), {"bss", "sbss"}, FALSE)
    BY FlatIs
  <1> HIDE DEF noff, flat
  <1>3. /\ noff.exit \in {"none", "failed", "done"} /\ flat.exit \in {"none", "failed", "done"}
        /\ noff.exit \in {"none", "failed"} => ~noff.out.ended
        /\ flat.exit \in {"none", "failed"} => ~flat.out.ended
        /\ noff.exit = "failed" => ~noff.out.there
        /\ noff.exit = "done" =>
             /\ noff.out.there /\ noff.out.ended /\ world.magic /\ world.omagic
             /\ noff.out.copied = Converting!Copied(world.kinds, {"empty", "bss", "sbss"})
        /\ flat.exit = "done" =>
             /\ flat.out.there /\ flat.out.ended /\ world.magic /\ world.omagic
             /\ flat.out.copied = Converting!Copied(world.kinds, {"bss", "sbss"})
    BY <1>1, <1>2 DEF ToolInv, ToolStates
  <1> QED BY <1>3 DEF Converting!OutputsWhole, noff, flat

-------------------------------------------------------------------------------
(* The way of an executable into memory *)

\* The least number of units of size P that hold n.
LEMMA RoundUpIs ==
  ASSUME NEW n \in Nat, NEW P \in Nat \ {0}
  PROVE  /\ Executable!DivRoundUp(n, P) \in Nat
         /\ n <= Executable!DivRoundUp(n, P) * P
         /\ Executable!DivRoundUp(n, P) * P < n + P
  <1> DEFINE q == n \div P
             r == n % P
  <1>1. q \in Int /\ r \in 0..(P - 1) /\ n = P * q + r
    OBVIOUS
  <1>2. q >= 0
    BY <1>1
  <1>3. CASE r = 0
    <2>1. Executable!DivRoundUp(n, P) = q
      BY <1>3 DEF Executable!DivRoundUp
    <2> QED BY <1>1, <1>2, <1>3, <2>1
  <1>4. CASE r # 0
    <2>1. Executable!DivRoundUp(n, P) = q + 1
      BY <1>4 DEF Executable!DivRoundUp
    <2>2. (q + 1) * P = P * q + P
      BY <1>1
    <2> QED BY <1>1, <1>2, <1>4, <2>1, <2>2
  <1> QED BY <1>3, <1>4

\* A lesser page ends where a greater one begins, or before.
LEMMA PagesInOrder ==
  ASSUME NEW m \in Int, NEW n \in Int, NEW P \in Nat \ {0}, m < n
  PROVE  m * P + P <= n * P
  <1> DEFINE d == n - m - 1
  <1>1. d \in Nat /\ n = m + 1 + d
    OBVIOUS
  <1>2. n * P = m * P + P + d * P
    BY <1>1
  <1>3. d * P >= 0
    BY <1>1
  <1>4. d * P \in Int /\ n * P \in Int /\ m * P \in Int
    BY <1>1
  <1> HIDE DEF d
  <1> QED BY <1>2, <1>3, <1>4

\* What the loader computes of the sizes of the segments.
LEMMA SizesAre ==
  ASSUME NEW code \in Nat, NEW data \in Nat
  PROVE  LET codePages == Executable!NumCodePages(code)
             dataPages == Executable!NumDataPages(code, data)
             lastCode  == Executable!LastCodePageSize(code)
             behind    == codePages * ImagePageSize - code
         IN  /\ codePages \in Nat /\ dataPages \in Nat
             /\ behind \in 0..(ImagePageSize - 1)
             /\ lastCode = ImagePageSize - behind
             /\ Executable!FirstDataPageSize(code, data) = IF data < behind THEN data ELSE behind
             /\ data < behind => dataPages = 0
             /\ data >= behind => /\ data - behind <= dataPages * ImagePageSize
                                  /\ dataPages * ImagePageSize < data - behind + ImagePageSize
  <1> DEFINE codePages == Executable!NumCodePages(code)
             dataPages == Executable!NumDataPages(code, data)
             codeSpace == codePages * ImagePageSize
             behind    == codeSpace - code
  <1>1. ImagePageSize \in Nat \ {0}
    BY ImageAssumption
  <1>2. codePages \in Nat /\ code <= codeSpace /\ codeSpace < code + ImagePageSize
    BY <1>1, RoundUpIs DEF Executable!NumCodePages
  <1>3. (codePages - 1) * ImagePageSize = codeSpace - ImagePageSize /\ codeSpace \in Int
    BY <1>1, <1>2
  <1>4. Executable!LastCodePageSize(code) = code - (codePages - 1) * ImagePageSize
    BY DEF Executable!LastCodePageSize
  <1> HIDE DEF codePages, codeSpace
  <1>5. behind \in 0..(ImagePageSize - 1) /\ Executable!LastCodePageSize(code) = ImagePageSize - behind
    BY <1>1, <1>2, <1>3, <1>4
  <1>6. Executable!TempDataSize(code, data) = data - behind
    BY <1>1, <1>5 DEF Executable!TempDataSize
  <1>7. Executable!FirstDataPageSize(code, data) = IF data < behind THEN data ELSE behind
    BY <1>1, <1>5, <1>6 DEF Executable!FirstDataPageSize
  <1>8. CASE data < behind
    <2>1. dataPages = 0
      BY <1>5, <1>6, <1>8 DEF Executable!NumDataPages
    <2> QED BY <1>2, <1>5, <1>7, <1>8, <2>1 DEF codePages, codeSpace
  <1>9. CASE data >= behind
    <2>1. data - behind \in Nat
      BY <1>5, <1>9
    <2>2. dataPages = Executable!DivRoundUp(data - behind, ImagePageSize)
      BY <1>5, <1>6, <1>9, <2>1 DEF Executable!NumDataPages
    <2>3. /\ dataPages \in Nat /\ data - behind <= dataPages * ImagePageSize
          /\ dataPages * ImagePageSize < data - behind + ImagePageSize
      BY <1>1, <2>1, <2>2, RoundUpIs
    <2>4. ~(data < behind)
      BY <1>5, <1>9
    <2> HIDE DEF dataPages
    <2> QED BY <1>2, <1>5, <1>7, <1>9, <2>3, <2>4 DEF codePages, codeSpace, dataPages
  <1> QED BY <1>5, <1>8, <1>9

\* What the linker has at an address: code from 0, data behind it, then zeroes.
LinkedAt(code, data, address) ==
  CASE address < code -> Executable!Code(address)
    [] address \in code..(code + data - 1) -> Executable!Data(address - code)
    [] OTHER -> Executable!Zero

\* The page that the loader takes the size of from a variable nobody sets.
IsLastDataPage(code, data, page) ==
  /\ Executable!NumDataPages(code, data) > 0
  /\ page = Executable!NumCodePages(code) + Executable!NumDataPages(code, data) - 1

\* A program comes into memory as it was linked, whatever the sizes of its
\* segments and of a page: each byte of each page is the one that the linker has
\* at its address, only in the last page of data there are zeroes from the offset
\* on that lastDataPageSize happens to have (AddrSpace::AddrSpace).
THEOREM LoadedAsLinked ==
  ASSUME NEW code \in Nat, NEW data \in Nat, NEW lastDataPageSize \in Int,
         NEW page \in Nat, NEW offset \in 0..(ImagePageSize - 1)
  PROVE  Executable!LoadedByte(code, data, lastDataPageSize, page, offset) =
           IF IsLastDataPage(code, data, page) /\ offset >= lastDataPageSize THEN Executable!Zero
           ELSE LinkedAt(code, data, page * ImagePageSize + offset)
  <1> DEFINE codePages == Executable!NumCodePages(code)
             dataPages == Executable!NumDataPages(code, data)
             lastCode  == Executable!LastCodePageSize(code)
             firstData == Executable!FirstDataPageSize(code, data)
             start     == page * ImagePageSize
             codeSpace == codePages * ImagePageSize
             dataSpace == dataPages * ImagePageSize
             behind    == codeSpace - code
             from      == (page - codePages) * ImagePageSize + firstData + offset
             byte      == Executable!LoadedByte(code, data, lastDataPageSize, page, offset)
  <1>1. ImagePageSize \in Nat \ {0} /\ offset \in 0..(ImagePageSize - 1)
    BY ImageAssumption
  <1>2. /\ codePages \in Nat /\ dataPages \in Nat /\ behind \in 0..(ImagePageSize - 1)
        /\ lastCode = ImagePageSize - behind
        /\ firstData = IF data < behind THEN data ELSE behind
        /\ data < behind => dataPages = 0
        /\ data >= behind => data - behind <= dataSpace /\ dataSpace < data - behind + ImagePageSize
    BY SizesAre
  <1>3. start \in Nat /\ codeSpace \in Nat /\ dataSpace \in Nat
    BY <1>1, <1>2
  <1>4. from = start - codeSpace + firstData + offset
    <2>1. (page - codePages) * ImagePageSize = start - codeSpace
      BY <1>1, <1>2
    <2> QED BY <2>1
  <1>5. byte = CASE page < codePages - 1 -> Executable!Code(start + offset)
                 [] page = codePages - 1 ->
                      IF offset < lastCode THEN Executable!Code(start + offset)
                      ELSE IF offset < lastCode + firstData THEN Executable!Data(offset - lastCode)
                      ELSE Executable!Zero
                 [] page - codePages \in 0..(dataPages - 1) ->
                      IF /\ from < data
                         /\ page - codePages < dataPages - 1 \/ offset < lastDataPageSize
                      THEN Executable!Data(from) ELSE Executable!Zero
                 [] OTHER -> Executable!Zero
    BY DEF Executable!LoadedByte
  <1>6. CASE page < codePages - 1
    <2>1. start + ImagePageSize <= codeSpace - ImagePageSize
      <3>1. start + ImagePageSize <= (codePages - 1) * ImagePageSize
        BY <1>1, <1>2, <1>6, PagesInOrder
      <3>2. (codePages - 1) * ImagePageSize = codeSpace - ImagePageSize
        BY <1>1, <1>2
      <3> QED BY <3>1, <3>2
    <2> HIDE DEF codePages, dataPages, lastCode, firstData, start, codeSpace, dataSpace, from, byte
    <2>2. byte = Executable!Code(start + offset)
      BY <1>2, <1>5, <1>6
    <2>3. start + offset < code
      BY <1>1, <1>2, <1>3, <2>1
    <2>4. ~IsLastDataPage(code, data, page)
      BY <1>2, <1>6 DEF IsLastDataPage, codePages, dataPages
    <2> QED BY <2>2, <2>3, <2>4 DEF LinkedAt, byte, start
  <1>7. CASE page = codePages - 1
    <2>1. start = codeSpace - ImagePageSize
      BY <1>1, <1>2, <1>7
    <2> HIDE DEF codePages, dataPages, lastCode, firstData, start, codeSpace, dataSpace, from
    <2>2. ~(page < codePages - 1) /\ ~(page - codePages \in 0..(dataPages - 1))
      BY <1>2, <1>7
    <2>3. byte = IF offset < lastCode THEN Executable!Code(start + offset)
                 ELSE IF offset < lastCode + firstData THEN Executable!Data(offset - lastCode)
                 ELSE Executable!Zero
      BY <1>5, <1>7, <2>2
    <2> HIDE DEF byte
    <2>4. ~IsLastDataPage(code, data, page)
      BY <1>2, <1>7 DEF IsLastDataPage, codePages, dataPages
    <2>5. /\ offset < lastCode <=> start + offset < code
          /\ offset - lastCode = start + offset - code
      BY <1>1, <1>2, <1>3, <2>1
    <2>6. offset >= lastCode =>
            (offset < lastCode + firstData <=> start + offset \in code..(code + data - 1))
      BY <1>1, <1>2, <1>3, <2>1
    <2>7. LinkedAt(code, data, start + offset) = byte
      BY <1>1, <1>2, <1>3, <2>3, <2>5, <2>6 DEF LinkedAt
    <2> QED BY <2>4, <2>7 DEF byte, start
  <1>8. CASE page - codePages \in 0..(dataPages - 1)
    <2>1. start >= codeSpace
      <3>1. CASE page = codePages
        BY <1>1, <1>2, <3>1
      <3>2. CASE page # codePages
        BY <1>1, <1>2, <1>3, <1>8, <3>2, PagesInOrder
      <3> QED BY <3>1, <3>2
    <2> HIDE DEF codePages, dataPages, lastCode, firstData, start, codeSpace, dataSpace, from
    <2>2. ~(page < codePages - 1) /\ ~(page = codePages - 1)
      BY <1>2, <1>8
    <2>3. byte = IF /\ from < data
                    /\ page - codePages < dataPages - 1 \/ offset < lastDataPageSize
                 THEN Executable!Data(from) ELSE Executable!Zero
      BY <1>5, <1>8, <2>2
    <2> HIDE DEF byte
    <2>4. data >= behind /\ dataPages > 0
      BY <1>2, <1>3, <1>8
    <2>5. from = start + offset - code /\ start + offset >= code
      BY <1>1, <1>2, <1>3, <1>4, <2>1, <2>4
    <2>6. from < data <=> start + offset \in code..(code + data - 1)
      BY <1>1, <1>3, <2>5
    <2>7. LinkedAt(code, data, start + offset) = IF from < data THEN Executable!Data(from) ELSE Executable!Zero
      BY <1>1, <1>3, <2>5, <2>6 DEF LinkedAt
    <2>8. page - codePages < dataPages - 1 <=> ~IsLastDataPage(code, data, page)
      BY <1>2, <1>8, <2>4 DEF IsLastDataPage, codePages, dataPages
    <2>9. CASE IsLastDataPage(code, data, page) /\ offset >= lastDataPageSize
      <3>1. byte = Executable!Zero
        BY <1>1, <2>3, <2>8, <2>9
      <3> QED BY <2>9, <3>1 DEF byte
    <2>10. CASE ~(IsLastDataPage(code, data, page) /\ offset >= lastDataPageSize)
      <3>1. byte = IF from < data THEN Executable!Data(from) ELSE Executable!Zero
        BY <1>1, <2>3, <2>8, <2>10
      <3> QED BY <2>7, <2>10, <3>1 DEF byte, start
    <2> QED BY <2>9, <2>10
  <1>9. CASE page >= codePages /\ ~(page - codePages \in 0..(dataPages - 1))
    <2>1. page >= codePages + dataPages
      BY <1>2, <1>9
    <2>2. start >= codeSpace + dataSpace
      <3> DEFINE loaded == codePages + dataPages
      <3>1. loaded \in Nat /\ loaded * ImagePageSize = codeSpace + dataSpace
        BY <1>1, <1>2
      <3> HIDE DEF loaded, codePages, dataPages, codeSpace, dataSpace
      <3>2. CASE page = loaded
        BY <1>3, <3>1, <3>2
      <3>3. CASE loaded < page
        <4>1. loaded * ImagePageSize + ImagePageSize <= start
          BY <1>1, <3>1, <3>3, PagesInOrder
        <4> HIDE DEF start
        <4> QED BY <1>1, <1>3, <3>1, <4>1
      <3>4. page = loaded \/ loaded < page
        BY <2>1, <3>1 DEF loaded
      <3> QED BY <3>2, <3>3, <3>4
    <2> HIDE DEF codePages, dataPages, lastCode, firstData, start, codeSpace, dataSpace, from
    <2>3. ~(page < codePages - 1) /\ ~(page = codePages - 1)
      BY <1>2, <1>9
    <2>4. byte = Executable!Zero
      BY <1>5, <1>9, <2>3
    <2> HIDE DEF byte
    <2>5. start + offset >= code + data
      BY <1>1, <1>2, <1>3, <2>2
    <2>6. LinkedAt(code, data, start + offset) = Executable!Zero
      BY <1>1, <1>3, <2>5 DEF LinkedAt
    <2> QED BY <2>4, <2>6 DEF byte, start
  <1> QED BY <1>2, <1>6, <1>7, <1>8, <1>9

\* An address space has room for the code, all data and the stack, and its pages
\* reach as far as the loader copies (AddrSpace::AddrSpace).
THEOREM LoadedFits ==
  ASSUME NEW code \in Nat, NEW data \in Nat, NEW bss \in Nat
  PROVE  LET numPages == Executable!NumPages(code, data, bss)
         IN  /\ code + data + bss + ImageStackSize <= numPages * ImagePageSize
             /\ Executable!NumCodePages(code) + Executable!NumDataPages(code, data) <= numPages
  <1> DEFINE numPages  == Executable!NumPages(code, data, bss)
             codePages == Executable!NumCodePages(code)
             dataPages == Executable!NumDataPages(code, data)
             all       == code + data + bss + ImageStackSize
  <1>1. ImagePageSize \in Nat \ {0} /\ ImageStackSize \in Nat /\ all \in Nat
    BY ImageAssumption
  <1>2. numPages \in Nat /\ all <= numPages * ImagePageSize
    BY <1>1, RoundUpIs DEF Executable!NumPages
  <1>3. /\ codePages \in Nat /\ dataPages \in Nat
        /\ codePages * ImagePageSize - code \in 0..(ImagePageSize - 1)
        /\ data < codePages * ImagePageSize - code => dataPages = 0
        /\ data >= codePages * ImagePageSize - code =>
             dataPages * ImagePageSize < data - (codePages * ImagePageSize - code) + ImagePageSize
    BY SizesAre
  <1>4. (codePages + dataPages) * ImagePageSize = codePages * ImagePageSize + dataPages * ImagePageSize
    BY <1>1, <1>3
  <1>5. (codePages + dataPages) * ImagePageSize < all + ImagePageSize
    <2> DEFINE c == codePages * ImagePageSize
               d == dataPages * ImagePageSize
    <2>1. c \in Nat /\ d \in Nat /\ (dataPages = 0 => d = 0)
      BY <1>1, <1>3
    <2>2. /\ c - code \in 0..(ImagePageSize - 1) /\ (data < c - code => d = 0)
          /\ data >= c - code => d < data - (c - code) + ImagePageSize
      BY <1>3, <2>1
    <2> HIDE DEF c, d
    <2>3. c + d < all + ImagePageSize
      BY <1>1, <2>1, <2>2
    <2> QED BY <1>4, <2>3 DEF c, d
  <1>6. ~(numPages < codePages + dataPages)
    <2>1. SUFFICES ASSUME numPages < codePages + dataPages PROVE FALSE
      OBVIOUS
    <2>2. numPages * ImagePageSize + ImagePageSize <= (codePages + dataPages) * ImagePageSize
      BY <1>1, <1>2, <1>3, <2>1, PagesInOrder
    <2> DEFINE a == numPages * ImagePageSize
               b == (codePages + dataPages) * ImagePageSize
    <2>3. a \in Int /\ b \in Int
      BY <1>1, <1>2, <1>3
    <2> HIDE DEF a, b
    <2> QED BY <1>1, <1>2, <1>5, <2>2, <2>3 DEF a, b
  <1> HIDE DEF numPages, codePages, dataPages
  <1> QED BY <1>2, <1>3, <1>6 DEF numPages, codePages, dataPages

Sizes == [1..5 -> Nat]

\* Where the linker puts the sections, one behind the other.
LEMMA LinkedIs ==
  ASSUME NEW sizes \in Sizes
  PROVE  LET sections == Executable!Linked(sizes)
         IN  /\ sections = [i \in 1..5 |-> sections[i]] /\ Len(sections) = 5
             /\ sections[1] = [name |-> ".text", size |-> sizes[1], paddr |-> 0]
             /\ sections[2] = [name |-> ".rdata", size |-> sizes[2], paddr |-> sizes[1]]
             /\ sections[3] = [name |-> ".data", size |-> sizes[3], paddr |-> sizes[1] + sizes[2]]
             /\ sections[4] = [name |-> ".sbss", size |-> sizes[4],
                               paddr |-> sizes[1] + sizes[2] + sizes[3]]
             /\ sections[5] = [name |-> ".bss", size |-> sizes[5],
                               paddr |-> sizes[1] + sizes[2] + sizes[3] + sizes[4]]
  <1> DEFINE sections == Executable!Linked(sizes)
             Rule(k) == [i \in 1..5 |-> IF i = 1 THEN 0 ELSE k[i - 1] + sizes[i - 1]]
             start == CHOOSE k : k = Rule(k)
             f == [i \in 1..5 |-> CASE i = 1 -> 0
                                    [] i = 2 -> sizes[1]
                                    [] i = 3 -> sizes[1] + sizes[2]
                                    [] i = 4 -> sizes[1] + sizes[2] + sizes[3]
                                    [] OTHER -> sizes[1] + sizes[2] + sizes[3] + sizes[4]]
  <1>1. sections = [i \in 1..5 |-> [name |-> Executable!LinkedNames[i], size |-> sizes[i],
                                    paddr |-> start[i]]]
    BY DEF Executable!Linked
  <1>2. f = Rule(f)
    BY DEF Sizes
  <1> HIDE DEF f, start, sections
  <1>3. start = Rule(start)
    BY <1>2 DEF start
  <1>4. /\ start[1] = 0 /\ start[2] = start[1] + sizes[1] /\ start[3] = start[2] + sizes[2]
        /\ start[4] = start[3] + sizes[3] /\ start[5] = start[4] + sizes[4]
    BY <1>3
  <1>5. \A i \in 1..5 : sizes[i] \in Nat
    BY DEF Sizes
  <1>6. /\ start[2] = sizes[1] /\ start[3] = sizes[1] + sizes[2]
        /\ start[4] = sizes[1] + sizes[2] + sizes[3]
        /\ start[5] = sizes[1] + sizes[2] + sizes[3] + sizes[4]
    BY <1>4, <1>5
  <1>7. /\ Executable!LinkedNames[1] = ".text" /\ Executable!LinkedNames[2] = ".rdata"
        /\ Executable!LinkedNames[3] = ".data" /\ Executable!LinkedNames[4] = ".sbss"
        /\ Executable!LinkedNames[5] = ".bss"
    BY DEF Executable!LinkedNames
  <1>8. \A i \in 1..5 : sections[i] = [name |-> Executable!LinkedNames[i], size |-> sizes[i],
                                       paddr |-> start[i]]
    BY <1>1
  <1>9. Len(sections) = 5
    BY <1>1
  <1> QED BY <1>1, <1>4, <1>6, <1>7, <1>8, <1>9 DEF sections

Header(code, initData, uninitData, accepted) ==
  [code |-> code, initData |-> initData, uninitData |-> uninitData, accepted |-> accepted]

\* The assignments to one field of a header.
LEMMA HeaderIs ==
  ASSUME NEW c, NEW d, NEW u, NEW a, NEW n
  PROVE  LET h == Header(c, d, u, a)
         IN  /\ h.code = c /\ h.initData = d /\ h.uninitData = u /\ h.accepted = a
             /\ [h EXCEPT !.accepted = n] = Header(c, d, u, n)
             /\ [h EXCEPT !.code = n] = Header(n, d, u, a)
             /\ [h EXCEPT !.initData = n] = Header(c, n, u, a)
             /\ [h EXCEPT !.uninitData = n] = Header(c, d, n, a)
  <1> DEFINE h == Header(c, d, u, a)
  <1>1. h \in [code : {c, n}, initData : {d, n}, uninitData : {u, n}, accepted : {a, n}]
    BY DEF Header
  <1>2. h.code = c /\ h.initData = d /\ h.uninitData = u /\ h.accepted = a
    BY DEF Header
  <1> HIDE DEF h
  <1>3. /\ [h EXCEPT !.accepted = n] = Header(c, d, u, n)
        /\ [h EXCEPT !.code = n] = Header(n, d, u, a)
        /\ [h EXCEPT !.initData = n] = Header(c, n, u, a)
        /\ [h EXCEPT !.uninitData = n] = Header(c, d, n, a)
    BY <1>1, <1>2 DEF Header
  <1> QED BY <1>2, <1>3 DEF h

Accepted(c, d, u) == Header(c, d, u, TRUE)
HeaderRefused(c, d, u) == Header(c, d, u, FALSE)

\* What a section adds to a header.
LEMMA AddSectionIs ==
  ASSUME NEW c, NEW d, NEW u, NEW section
  PROVE  /\ section.size = 0 => Executable!AddSection(Accepted(c, d, u), section) = Accepted(c, d, u)
         /\ section.size # 0 /\ section.name = ".text" =>
              Executable!AddSection(Accepted(c, d, u), section) =
                Accepted(Executable!Segment(section), d, u)
         /\ section.size # 0 /\ section.name \in {".data", ".rdata"} =>
              Executable!AddSection(Accepted(c, d, u), section) =
                IF d.size # 0 THEN HeaderRefused(c, d, u) ELSE Accepted(c, Executable!Segment(section), u)
         /\ section.size # 0 /\ section.name \in {".bss", ".sbss"} =>
              /\ u.size = 0 => Executable!AddSection(Accepted(c, d, u), section) =
                                 Accepted(c, d, Executable!Segment(section))
              /\ u.size # 0 /\ section.paddr = u.virtualAddr + u.size =>
                   Executable!AddSection(Accepted(c, d, u), section) = HeaderRefused(c, d, u)
  <1> DEFINE h == Accepted(c, d, u)
             new == Executable!Segment(section)
             added == Executable!AddSection(h, section)
  <1> DEFINE yes == TRUE
             no == FALSE
             g == Header(c, d, u, yes)
  <1> HIDE DEF yes, no, new
  <1>1. /\ g.code = c /\ g.initData = d /\ g.uninitData = u /\ g.accepted = yes
        /\ [g EXCEPT !.accepted = no] = Header(c, d, u, no)
        /\ [g EXCEPT !.code = new] = Header(new, d, u, yes)
        /\ [g EXCEPT !.initData = new] = Header(c, new, u, yes)
        /\ [g EXCEPT !.uninitData = new] = Header(c, d, new, yes)
    <2>1. [g EXCEPT !.accepted = no] = Header(c, d, u, no)
      BY HeaderIs
    <2> QED BY <2>1, HeaderIs
  <1>2. h.code = c /\ h.initData = d /\ h.uninitData = u /\ h.accepted = TRUE
    BY <1>1 DEF yes, Accepted
  <1>3. /\ [h EXCEPT !.accepted = FALSE] = HeaderRefused(c, d, u)
        /\ [h EXCEPT !.code = new] = Accepted(new, d, u)
        /\ [h EXCEPT !.initData = new] = Accepted(c, new, u)
        /\ [h EXCEPT !.uninitData = new] = Accepted(c, d, new)
    BY <1>1, Zenon DEF yes, no, Accepted, HeaderRefused
  <1>4. section.size = 0 => added = h
    BY DEF Executable!AddSection
  <1> HIDE DEF h, new
  <1>5. section.size # 0 /\ section.name = ".text" => added = [h EXCEPT !.code = new]
    BY <1>2 DEF Executable!AddSection, new
  <1>6. section.size # 0 /\ section.name \in {".data", ".rdata"} =>
          added = IF d.size # 0 THEN [h EXCEPT !.accepted = FALSE] ELSE [h EXCEPT !.initData = new]
    BY <1>2 DEF Executable!AddSection, new
  <1>7. section.size # 0 /\ section.name \in {".bss", ".sbss"} =>
          /\ u.size = 0 => added = [h EXCEPT !.uninitData = new]
          /\ u.size # 0 /\ section.paddr = u.virtualAddr + u.size =>
               added = [h EXCEPT !.accepted = FALSE]
    BY <1>2 DEF Executable!AddSection, new
  <1> HIDE DEF added
  <1>8. h = Accepted(c, d, u) /\ new = Executable!Segment(section)
    BY DEF h, new
  <1> QED BY <1>3, <1>4, <1>5, <1>6, <1>7, <1>8 DEF added

\* A header that is refused stays as it is.
LEMMA RefusedStays ==
  ASSUME NEW c, NEW d, NEW u, NEW section
  PROVE  Executable!AddSection(HeaderRefused(c, d, u), section) = HeaderRefused(c, d, u)
  BY DEF Executable!AddSection, HeaderRefused, Header

\* The header that coff2noff makes of linked sections.
LEMMA NoffHeaderIs ==
  ASSUME NEW sizes \in Sizes
  PROVE  LET header == Executable!NoffHeader(Executable!Linked(sizes))
         IN  /\ header.accepted <=> (sizes[2] = 0 \/ sizes[3] = 0) /\ (sizes[4] = 0 \/ sizes[5] = 0)
             /\ header.accepted =>
                  /\ header.code = [virtualAddr |-> 0, size |-> sizes[1]]
                  /\ header.initData.size = sizes[2] + sizes[3]
                  /\ sizes[2] + sizes[3] # 0 => header.initData.virtualAddr = sizes[1]
                  /\ header.uninitData.size = sizes[4] + sizes[5]
  <1> DEFINE sections == Executable!Linked(sizes)
             Add(h, i) == Executable!AddSection(h, sections[i])
             Rule(k) == [i \in 0..5 |-> IF i = 0 THEN Executable!NoHeader ELSE Add(k[i - 1], i)]
             header == CHOOSE k : k = Rule(k)
             h0 == Executable!NoHeader
             h1 == Add(h0, 1)
             h2 == Add(h1, 2)
             h3 == Add(h2, 3)
             h4 == Add(h3, 4)
             h5 == Add(h4, 5)
             f == [i \in 0..5 |-> IF i = 0 THEN h0 ELSE IF i = 1 THEN h1 ELSE IF i = 2 THEN h2
                                  ELSE IF i = 3 THEN h3 ELSE IF i = 4 THEN h4 ELSE h5]
             z == Executable!NoSegment
             c == [virtualAddr |-> 0, size |-> sizes[1]]
             p2 == Executable!Segment(sections[2])
             p3 == Executable!Segment(sections[3])
             p4 == Executable!Segment(sections[4])
             p5 == Executable!Segment(sections[5])
  <1>1. /\ Len(sections) = 5
        /\ sections[1] = [name |-> ".text", size |-> sizes[1], paddr |-> 0]
        /\ sections[2] = [name |-> ".rdata", size |-> sizes[2], paddr |-> sizes[1]]
        /\ sections[3] = [name |-> ".data", size |-> sizes[3], paddr |-> sizes[1] + sizes[2]]
        /\ sections[4] = [name |-> ".sbss", size |-> sizes[4],
                          paddr |-> sizes[1] + sizes[2] + sizes[3]]
        /\ sections[5] = [name |-> ".bss", size |-> sizes[5],
                          paddr |-> sizes[1] + sizes[2] + sizes[3] + sizes[4]]
    BY LinkedIs
  <1>2. \A i \in 1..5 : sizes[i] \in Nat
    BY DEF Sizes
  <1> HIDE DEF sections
  <1>3. Executable!NoffHeader(sections) = header[5]
    BY <1>1 DEF Executable!NoffHeader
  <1>4. header[5] = h5
    <2> HIDE DEF Add
    <2>1. f = Rule(f)
      <3> HIDE DEF h1, h2, h3, h4, h5
      <3>1. /\ f[0] = h0 /\ f[1] = h1 /\ f[2] = h2 /\ f[3] = h3 /\ f[4] = h4 /\ f[5] = h5
            /\ f = [i \in 0..5 |-> f[i]]
        OBVIOUS
      <3> HIDE DEF f
      <3>2. /\ f[1] = Add(f[0], 1) /\ f[2] = Add(f[1], 2) /\ f[3] = Add(f[2], 3)
            /\ f[4] = Add(f[3], 4) /\ f[5] = Add(f[4], 5)
        BY <3>1 DEF h1, h2, h3, h4, h5
      <3>3. ASSUME NEW i \in 0..5 PROVE f[i] = Rule(f)[i]
        BY <3>1, <3>2
      <3> QED BY <3>1, <3>3
    <2> HIDE DEF h0, h1, h2, h3, h4, h5, f, header
    <2>2. header = Rule(header)
      BY <2>1 DEF header
    <2>3. /\ header[0] = h0 /\ header[1] = Add(header[0], 1) /\ header[2] = Add(header[1], 2)
          /\ header[3] = Add(header[2], 3) /\ header[4] = Add(header[3], 4)
          /\ header[5] = Add(header[4], 5)
      BY <2>2 DEF h0
    <2> QED BY <2>3 DEF h1, h2, h3, h4, h5
  <1> HIDE DEF header, f, h0, h1, h2, h3, h4, h5
  <1>5. z.size = 0 /\ z.virtualAddr = 0 /\ z = [virtualAddr |-> 0, size |-> 0]
    BY DEF Executable!NoSegment
  <1>6. /\ p2 = [virtualAddr |-> sizes[1], size |-> sizes[2]]
        /\ p3 = [virtualAddr |-> sizes[1] + sizes[2], size |-> sizes[3]]
        /\ p4 = [virtualAddr |-> sizes[1] + sizes[2] + sizes[3], size |-> sizes[4]]
        /\ p5 = [virtualAddr |-> sizes[1] + sizes[2] + sizes[3] + sizes[4], size |-> sizes[5]]
        /\ Executable!Segment(sections[1]) = c
    BY <1>1 DEF Executable!Segment
  <1>7. /\ p2.size = sizes[2] /\ p3.size = sizes[3] /\ p4.size = sizes[4] /\ p5.size = sizes[5]
        /\ p2.virtualAddr = sizes[1] /\ p3.virtualAddr = sizes[1] + sizes[2]
        /\ p4.virtualAddr + p4.size = sections[5].paddr
    BY <1>1, <1>6
  <1>8. /\ sections[1].size = sizes[1] /\ sections[1].name = ".text"
        /\ sections[2].size = sizes[2] /\ sections[2].name \in {".data", ".rdata"}
        /\ sections[3].size = sizes[3] /\ sections[3].name \in {".data", ".rdata"}
        /\ sections[4].size = sizes[4] /\ sections[4].name \in {".bss", ".sbss"}
        /\ sections[5].size = sizes[5] /\ sections[5].name \in {".bss", ".sbss"}
    BY <1>1
  <1>9. h1 = Accepted(c, z, z)
    <2>1. h0 = Accepted(z, z, z)
      BY DEF h0, Accepted, Header, Executable!NoHeader
    <2>2. sizes[1] = 0 => c = z
      BY <1>5
    <2> HIDE DEF c, z
    <2> QED BY <1>6, <1>8, <2>1, <2>2, AddSectionIs DEF h1
  <1> HIDE DEF c, z, p2, p3, p4, p5
  <1>10. h2 = Accepted(c, IF sizes[2] = 0 THEN z ELSE p2, z)
    BY <1>5, <1>8, <1>9, AddSectionIs DEF h2, p2
  <1> DEFINE d2 == IF sizes[2] = 0 THEN z ELSE p2
             d3 == IF sizes[3] = 0 THEN d2 ELSE p3
             u4 == IF sizes[4] = 0 THEN z ELSE p4
             u5 == IF sizes[5] = 0 THEN u4 ELSE p5
  <1>11. d2.size = sizes[2]
    BY <1>5, <1>7
  <1>12. CASE sizes[2] # 0 /\ sizes[3] # 0
    <2> HIDE DEF d2
    <2>1. h3 = HeaderRefused(c, d2, z)
      BY <1>8, <1>10, <1>11, <1>12, AddSectionIs DEF h3, d2
    <2>2. h4 = HeaderRefused(c, d2, z)
      BY <2>1, RefusedStays DEF h4
    <2>3. h5 = HeaderRefused(c, d2, z)
      BY <2>2, RefusedStays DEF h5
    <2>4. ~h5.accepted
      BY <2>3 DEF HeaderRefused, Header
    <2> QED BY <1>3, <1>4, <1>12, <2>4 DEF sections
  <1>13. CASE sizes[2] = 0 \/ sizes[3] = 0
    <2>1. h3 = Accepted(c, d3, z)
      <3> HIDE DEF d2
      <3> QED BY <1>8, <1>10, <1>11, <1>13, AddSectionIs DEF h3, d2, p3
    <2>2. d3.size = sizes[2] + sizes[3] /\ (sizes[2] + sizes[3] # 0 => d3.virtualAddr = sizes[1])
      BY <1>2, <1>5, <1>7, <1>13
    <2> HIDE DEF d2, d3
    <2>3. h4 = Accepted(c, d3, u4)
      BY <1>5, <1>8, <2>1, AddSectionIs DEF h4, p4
    <2>4. CASE sizes[4] # 0 /\ sizes[5] # 0
      <3>1. u4 = p4 /\ u4.size # 0 /\ sections[5].paddr = u4.virtualAddr + u4.size
        BY <1>7, <2>4
      <3> HIDE DEF u4
      <3>2. h5 = HeaderRefused(c, d3, u4)
        BY <1>8, <2>3, <2>4, <3>1, AddSectionIs DEF h5
      <3>3. ~h5.accepted
        BY <3>2 DEF HeaderRefused, Header
      <3> QED BY <1>3, <1>4, <2>4, <3>3 DEF sections
    <2>5. CASE sizes[4] = 0 \/ sizes[5] = 0
      <3>1. u4.size = sizes[4] /\ u5.size = sizes[4] + sizes[5]
        BY <1>2, <1>5, <1>7, <2>5
      <3> HIDE DEF u4
      <3>2. h5 = Accepted(c, d3, u5)
        BY <1>8, <2>3, <2>5, <3>1, AddSectionIs DEF h5, p5
      <3> HIDE DEF u5
      <3>3. h5.accepted /\ h5.code = c /\ h5.initData = d3 /\ h5.uninitData = u5
        BY <3>2 DEF Accepted, Header
      <3> QED BY <1>3, <1>4, <1>13, <2>2, <2>5, <3>1, <3>3 DEF sections, c
    <2> QED BY <2>4, <2>5
  <1> QED BY <1>12, <1>13

\* The greatest of the numbers of a set that has one is in it.
LEMMA GreatestIs ==
  ASSUME NEW s \in SUBSET Int, NEW n \in s, \A j \in s : j <= n
  PROVE  (CHOOSE i \in s : \A j \in s : j <= i) \in s
  <1> DEFINE Topmost(i) == i \in s /\ \A j \in s : j <= i
  <1>1. Topmost(n)
    OBVIOUS
  <1>2. Topmost(CHOOSE i : Topmost(i))
    <2> HIDE DEF Topmost
    <2> QED BY <1>1
  <1> QED BY <1>2

\* The tools agree on linked sections.
LEMMA ToolsAgreeOnLinked ==
  ASSUME NEW sizes \in Sizes
  PROVE  Executable!ToolsAgree(Executable!Linked(sizes))
  <1> DEFINE sections == Executable!Linked(sizes)
             Size(i) == sections[i].size
             At(i) == sections[i].paddr
  <1>1. /\ Len(sections) = 5 /\ DOMAIN sections = 1..5
        /\ sections[1].name = ".text" /\ sections[2].name = ".rdata" /\ sections[3].name = ".data"
        /\ sections[4].name = ".sbss" /\ sections[5].name = ".bss"
        /\ At(1) = 0 /\ At(2) = At(1) + Size(1) /\ At(3) = At(2) + Size(2)
        /\ At(4) = At(3) + Size(3) /\ At(5) = At(4) + Size(4)
        /\ Size(1) \in Nat /\ Size(2) \in Nat /\ Size(3) \in Nat /\ Size(4) \in Nat /\ Size(5) \in Nat
    <2>1. \A i \in 1..5 : sizes[i] \in Nat
      BY DEF Sizes
    <2>2. /\ sections = [i \in 1..5 |-> sections[i]] /\ Len(sections) = 5
          /\ sections[1] = [name |-> ".text", size |-> sizes[1], paddr |-> 0]
          /\ sections[2] = [name |-> ".rdata", size |-> sizes[2], paddr |-> sizes[1]]
          /\ sections[3] = [name |-> ".data", size |-> sizes[3], paddr |-> sizes[1] + sizes[2]]
          /\ sections[4] = [name |-> ".sbss", size |-> sizes[4],
                            paddr |-> sizes[1] + sizes[2] + sizes[3]]
          /\ sections[5] = [name |-> ".bss", size |-> sizes[5],
                            paddr |-> sizes[1] + sizes[2] + sizes[3] + sizes[4]]
      BY LinkedIs
    <2> HIDE DEF sections
    <2> QED BY <2>1, <2>2
  <1> HIDE DEF sections
  <1>2. /\ At(2) \in Nat /\ At(3) \in Nat /\ At(4) \in Nat /\ At(5) \in Nat
    BY <1>1
  <1>3. Executable!FlatLength(sections) = At(5) + Size(5) + ImageStackSize
    <2> DEFINE Rule(k) == [i \in 0..5 |->
                             IF i = 0 THEN 0
                             ELSE IF sections[i].paddr + sections[i].size > k[i - 1]
                                  THEN sections[i].paddr + sections[i].size ELSE k[i - 1]]
               top == CHOOSE k : k = Rule(k)
               f == [i \in 0..5 |-> IF i = 0 THEN 0 ELSE At(i) + Size(i)]
    <2>1. f = Rule(f)
      <3>1. /\ f[0] = 0 /\ f[1] = At(1) + Size(1) /\ f[2] = At(2) + Size(2) /\ f[3] = At(3) + Size(3)
            /\ f[4] = At(4) + Size(4) /\ f[5] = At(5) + Size(5) /\ f = [i \in 0..5 |-> f[i]]
        OBVIOUS
      <3> HIDE DEF f
      <3>2. /\ Rule(f)[0] = f[0] /\ Rule(f)[1] = f[1] /\ Rule(f)[2] = f[2] /\ Rule(f)[3] = f[3]
            /\ Rule(f)[4] = f[4] /\ Rule(f)[5] = f[5]
        BY <1>1, <1>2, <3>1
      <3>3. \A i \in 0..5 : f[i] = Rule(f)[i]
        <4> HIDE DEF Rule
        <4> QED BY <3>2
      <3> QED BY <3>1, <3>3
    <2>2. Executable!FlatLength(sections) = top[5] + ImageStackSize
      BY <1>1 DEF Executable!FlatLength
    <2> HIDE DEF top, f
    <2>3. top = Rule(top)
      BY <2>1 DEF top
    <2>4. \A i \in 0..5 : top[i] = IF i = 0 THEN 0
                                   ELSE IF sections[i].paddr + sections[i].size > top[i - 1]
                                        THEN sections[i].paddr + sections[i].size ELSE top[i - 1]
      BY <2>3
    <2>5. top[0] = 0 /\ top[1] = At(1) + Size(1) /\ top[2] = At(2) + Size(2)
      BY <1>1, <1>2, <2>4
    <2>6. top[3] = At(3) + Size(3) /\ top[4] = At(4) + Size(4) /\ top[5] = At(5) + Size(5)
      BY <1>1, <1>2, <2>4, <2>5
    <2> QED BY <2>2, <2>6
  <1>4. ASSUME NEW address \in Nat
        PROVE  Executable!FlatByte(sections, address) = Executable!ExecutedByte(sections, address)
    <2> DEFINE copied == {i \in DOMAIN sections : sections[i].name \notin {".bss", ".sbss"}}
               Rule(k) == [i \in 1..5 |->
                             IF i = 1 THEN 0
                             ELSE k[i - 1] + IF i - 1 \in copied THEN sections[i - 1].size ELSE 0]
               start == CHOOSE k : k = Rule(k)
               flat == {i \in copied : address - start[i] \in Executable!Bytes(sections, i)}
               held == {i \in DOMAIN sections :
                          /\ sections[i].name \notin {".bss", ".sbss"}
                          /\ address - sections[i].paddr \in Executable!Bytes(sections, i)}
               f == [i \in 1..5 |-> IF i = 5 THEN At(4) ELSE At(i)]
    <2>1. copied = {1, 2, 3}
      BY <1>1
    <2>2. f = Rule(f)
      <3>1. f[1] = 0 /\ f[2] = At(2) /\ f[3] = At(3) /\ f[4] = At(4) /\ f[5] = At(4)
            /\ f = [i \in 1..5 |-> f[i]]
        BY <1>1
      <3> HIDE DEF f, copied
      <3>2. /\ Rule(f)[1] = f[1] /\ Rule(f)[2] = f[2] /\ Rule(f)[3] = f[3] /\ Rule(f)[4] = f[4]
            /\ Rule(f)[5] = f[5]
        BY <1>1, <1>2, <2>1, <3>1
      <3>3. \A i \in 1..5 : f[i] = Rule(f)[i]
        <4> HIDE DEF Rule
        <4> QED BY <3>2
      <3> QED BY <3>1, <3>3
    <2>3. Executable!FlatByte(sections, address) =
            IF flat = {} THEN Executable!Blank
            ELSE LET i == CHOOSE i \in flat : TRUE IN <<i, address - start[i]>>
      BY <1>1 DEF Executable!FlatByte
    <2>4. Executable!ExecutedByte(sections, address) =
            IF held = {} THEN Executable!Blank
            ELSE LET i == CHOOSE i \in held : \A j \in held : j <= i
                 IN  <<i, address - sections[i].paddr>>
      BY DEF Executable!ExecutedByte
    <2> HIDE DEF start, f, copied
    <2>5. start = Rule(start)
      BY <2>2 DEF start
    <2>6. \A i \in 1..5 :
            start[i] = IF i = 1 THEN 0
                       ELSE start[i - 1] + IF i - 1 \in copied THEN sections[i - 1].size ELSE 0
      BY <2>5
    <2>7. start[1] = At(1) /\ start[2] = At(2) /\ start[3] = At(3)
      BY <1>1, <1>2, <2>1, <2>6
    <2>8. flat = held
      <3>1. held = {i \in copied : address - sections[i].paddr \in Executable!Bytes(sections, i)}
        BY DEF copied
      <3> HIDE DEF held
      <3> QED BY <2>1, <2>7, <3>1
    <2>9. \A i \in flat : i \in {1, 2, 3} /\ address - At(i) \in 0..(Size(i) - 1) /\ start[i] = At(i)
      BY <2>1, <2>7 DEF Executable!Bytes
    <2>10. \A i, j \in flat : i = j
      <3>1. SUFFICES ASSUME NEW i \in flat, NEW j \in flat, i < j PROVE FALSE
        BY <2>9
      <3>2. address < At(i) + Size(i) /\ address >= At(j) /\ i \in {1, 2, 3} /\ j \in {1, 2, 3}
        <4>1. /\ i \in {1, 2, 3} /\ address - At(i) \in 0..(Size(i) - 1)
              /\ j \in {1, 2, 3} /\ address - At(j) \in 0..(Size(j) - 1)
          BY <2>9
        <4> HIDE DEF flat
        <4>2. At(i) \in Int /\ At(j) \in Int /\ Size(i) \in Int /\ Size(j) \in Int
          BY <1>1, <1>2, <4>1
        <4> HIDE DEF At, Size
        <4> QED BY <4>1, <4>2
      <3> HIDE DEF flat
      <3>3. At(i) + Size(i) <= At(j)
        <4>1. (i = 1 /\ j = 2) \/ (i = 1 /\ j = 3) \/ (i = 2 /\ j = 3)
          BY <3>1, <3>2
        <4> QED BY <1>1, <1>2, <4>1
      <3>4. At(i) \in Int /\ At(j) \in Int /\ Size(i) \in Int
        BY <1>1, <1>2, <3>2
      <3> HIDE DEF At, Size
      <3> QED BY <3>2, <3>3, <3>4
    <2> HIDE DEF flat, held
    <2>11. CASE flat = {}
      BY <2>3, <2>4, <2>8, <2>11
    <2>12. CASE flat # {}
      <3> DEFINE i == CHOOSE m \in flat : TRUE
                 k == CHOOSE m \in flat : \A j \in flat : j <= m
      <3>1. PICK n \in flat : TRUE
        BY <2>12
      <3>2. n \in {1, 2, 3} /\ \A j \in flat : j = n
        BY <2>9, <2>10
      <3>3. \A j \in flat : j <= n
        BY <3>2
      <3>4. i \in flat
        BY <3>1
      <3>5. k \in flat
        <4>1. flat \in SUBSET Int
          BY <2>9
        <4> QED BY <3>1, <3>3, <4>1, GreatestIs
      <3>6. i = k /\ i \in {1, 2, 3} /\ start[i] = At(i)
        <4> HIDE DEF i, k
        <4>1. i = n /\ k = n
          BY <3>2, <3>4, <3>5
        <4> QED BY <2>9, <3>1, <3>2, <4>1
      <3> QED BY <2>3, <2>4, <2>8, <2>12, <3>6
    <2> QED BY <2>11, <2>12
  <1>5. At(5) + Size(5) + ImageStackSize \in Nat
    BY <1>1, <1>2, ImageAssumption
  <1>6. \A address \in 0..(Executable!FlatLength(sections) - 1) : address \in Nat
    BY <1>3, <1>5
  <1> QED BY <1>3, <1>4, <1>6 DEF Executable!ToolsAgree, sections

\* Every program that the linker may make comes into memory byte for byte as it was
\* linked, with room for its stack, but for the zeroes that the last page of data may
\* keep; a program with two kinds of initialized or of uninitialized data is refused;
\* and the tools agree on all bytes (coff2noff.c, coff2flat.c, AddrSpace::AddrSpace).
THEOREM LoadedIsRight ==
  \A sizes \in Sizes, lastDataPageSize \in Int : Executable!LoadedRight(sizes, lastDataPageSize)
  <1> SUFFICES ASSUME NEW sizes \in Sizes, NEW lastDataPageSize \in Int
               PROVE  Executable!LoadedRight(sizes, lastDataPageSize)
    OBVIOUS
  <1> DEFINE sections == Executable!Linked(sizes)
             header == Executable!NoffHeader(sections)
             code == header.code.size
             data == header.initData.size
             bss == header.uninitData.size
             pages == Executable!NumPages(code, data, bss)
             P == ImagePageSize
  <1>1. Executable!ToolsAgree(sections)
    BY ToolsAgreeOnLinked
  <1>2. /\ sizes[1] \in Nat /\ sizes[2] \in Nat /\ sizes[3] \in Nat /\ sizes[4] \in Nat
        /\ sizes[5] \in Nat
    BY DEF Sizes
  <1>3. /\ header.accepted <=> (sizes[2] = 0 \/ sizes[3] = 0) /\ (sizes[4] = 0 \/ sizes[5] = 0)
        /\ header.accepted =>
             /\ header.code = [virtualAddr |-> 0, size |-> sizes[1]]
             /\ header.initData.size = sizes[2] + sizes[3]
             /\ sizes[2] + sizes[3] # 0 => header.initData.virtualAddr = sizes[1]
             /\ header.uninitData.size = sizes[4] + sizes[5]
    BY NoffHeaderIs
  <1>4. /\ sections[1] = [name |-> ".text", size |-> sizes[1], paddr |-> 0]
        /\ sections[2] = [name |-> ".rdata", size |-> sizes[2], paddr |-> sizes[1]]
        /\ sections[3] = [name |-> ".data", size |-> sizes[3], paddr |-> sizes[1] + sizes[2]]
        /\ sections[5] = [name |-> ".bss", size |-> sizes[5],
                          paddr |-> sizes[1] + sizes[2] + sizes[3] + sizes[4]]
    BY LinkedIs
  <1> HIDE DEF sections, header
  <1>5. P \in Nat \ {0} /\ ImageStackSize \in Nat
    BY ImageAssumption
  <1>6. ASSUME header.accepted
        PROVE  /\ code = sizes[1] /\ data = sizes[2] + sizes[3] /\ bss = sizes[4] + sizes[5]
               /\ code \in Nat /\ data \in Nat /\ bss \in Nat
               /\ pages * P \in Int /\ pages \in Nat
               /\ code + data + bss + ImageStackSize <= pages * P
    <2>1. /\ code = sizes[1] /\ data = sizes[2] + sizes[3] /\ bss = sizes[4] + sizes[5]
      BY <1>3, <1>6
    <2>2. code \in Nat /\ data \in Nat /\ bss \in Nat
      BY <1>2, <2>1
    <2> HIDE DEF code, data, bss
    <2>3. code + data + bss + ImageStackSize <= pages * P
      BY <2>2, LoadedFits
    <2>4. pages \in Nat
      <3>1. code + data + bss + ImageStackSize \in Nat
        BY <1>5, <2>2
      <3> QED BY <1>5, <3>1, RoundUpIs DEF Executable!NumPages
    <2> QED BY <1>5, <2>1, <2>2, <2>3, <2>4
  <1>7. ASSUME header.accepted, NEW address \in Nat
        PROVE  Executable!LinkedByte(sections, address) = LinkedAt(code, data, address)
    <2>1. /\ sections[1].size = code /\ sections[1].paddr = 0
          /\ sections[2].size = sizes[2] /\ sections[2].paddr = code
          /\ sections[3].size = sizes[3] /\ sections[3].paddr = code + sizes[2]
      BY <1>4, <1>6, <1>7
    <2> HIDE DEF code
    <2>2. Executable!LinkedByte(sections, address) =
            CASE address - 0 \in 0..(code - 1) -> Executable!Code(address - 0)
              [] address - code \in 0..(sizes[2] - 1) -> Executable!Data(address - code)
              [] address - (code + sizes[2]) \in 0..(sizes[3] - 1) ->
                   Executable!Data(address - (code + sizes[2]))
              [] OTHER -> Executable!Zero
      BY <2>1 DEF Executable!LinkedByte
    <2> DEFINE byte == Executable!LinkedByte(sections, address)
    <2> HIDE DEF byte
    <2>3. code \in Nat /\ data = sizes[2] + sizes[3] /\ (sizes[2] = 0 \/ sizes[3] = 0)
      BY <1>3, <1>6, <1>7
    <2> HIDE DEF data
    <2>4. CASE address < code
      <3>1. /\ address - 0 \in 0..(code - 1) /\ address - 0 = address
            /\ ~(address - code \in 0..(sizes[2] - 1))
            /\ ~(address - (code + sizes[2]) \in 0..(sizes[3] - 1))
        BY <1>2, <2>3, <2>4
      <3>2. byte = Executable!Code(address)
        BY <2>2, <3>1 DEF byte
      <3>3. LinkedAt(code, data, address) = Executable!Code(address)
        BY <1>2, <2>3, <2>4 DEF LinkedAt
      <3> QED BY <3>2, <3>3 DEF byte
    <2>5. CASE address \in code..(code + data - 1)
      <3>1. ~(address - 0 \in 0..(code - 1))
        BY <2>3, <2>5
      <3>2. CASE sizes[3] = 0
        <4>1. /\ address - code \in 0..(sizes[2] - 1)
              /\ ~(address - (code + sizes[2]) \in 0..(sizes[3] - 1))
          BY <1>2, <2>3, <2>5, <3>2
        <4> QED BY <1>2, <2>2, <2>3, <2>5, <3>1, <4>1 DEF LinkedAt, byte
      <3>3. CASE sizes[3] # 0
        <4>1. /\ ~(address - code \in 0..(sizes[2] - 1)) /\ sizes[2] = 0
              /\ address - (code + sizes[2]) \in 0..(sizes[3] - 1)
              /\ address - (code + sizes[2]) = address - code
          BY <1>2, <2>3, <2>5, <3>3
        <4>2. byte = Executable!Data(address - code)
          BY <2>2, <3>1, <4>1 DEF byte
        <4>3. LinkedAt(code, data, address) = Executable!Data(address - code)
          BY <1>2, <2>3, <2>5 DEF LinkedAt
        <4> QED BY <4>2, <4>3 DEF byte
      <3> QED BY <3>2, <3>3
    <2>6. CASE address >= code + data
      <3>1. /\ ~(address - 0 \in 0..(code - 1)) /\ ~(address - code \in 0..(sizes[2] - 1))
            /\ ~(address - (code + sizes[2]) \in 0..(sizes[3] - 1))
            /\ ~(address < code) /\ ~(address \in code..(code + data - 1))
        BY <1>2, <2>3, <2>6
      <3>2. byte = Executable!Zero
        BY <2>2, <3>1 DEF byte
      <3> QED BY <3>1, <3>2 DEF LinkedAt, byte
    <2>7. address < code \/ address \in code..(code + data - 1) \/ address >= code + data
      BY <1>2, <2>3
    <2> QED BY <2>4, <2>5, <2>6, <2>7
  <1>8. ASSUME header.accepted, NEW address \in Nat
        PROVE  Executable!EarlyByte(header, address) = LinkedAt(code, data, address)
    <2> DEFINE from == header.initData.virtualAddr
               byte == Executable!EarlyByte(header, address)
    <2>1. header.code.virtualAddr = 0 /\ (data # 0 => from = code) /\ code \in Nat /\ data \in Nat
      BY <1>3, <1>6, <1>8
    <2>2. byte = CASE address - from \in 0..(data - 1) -> Executable!Data(address - from)
                   [] address - 0 \in 0..(code - 1) -> Executable!Code(address - 0)
                   [] OTHER -> Executable!Zero
      BY <2>1 DEF Executable!EarlyByte
    <2> HIDE DEF from, code, data, byte
    <2>3. address - 0 = address
      OBVIOUS
    <2>4. CASE data = 0
      <3>1. ~(address - from \in 0..(data - 1)) /\ ~(address \in code..(code + data - 1))
        <4>1. 0..(data - 1) = {}
          BY <2>4
        <4> QED BY <2>1, <2>4, <4>1
      <3>2. address < code <=> address \in 0..(code - 1)
        BY <2>1
      <3> QED BY <2>2, <2>3, <3>1, <3>2 DEF LinkedAt, byte
    <2>5. CASE data # 0
      <3>1. from = code /\ (address - code \in 0..(data - 1) <=> address \in code..(code + data - 1))
            /\ (address < code <=> address \in 0..(code - 1))
            /\ ~(address < code /\ address - code \in 0..(data - 1))
        BY <2>1, <2>5
      <3>2. byte = CASE address \in code..(code + data - 1) -> Executable!Data(address - code)
                     [] address < code -> Executable!Code(address)
                     [] OTHER -> Executable!Zero
        BY <2>2, <2>3, <3>1
      <3> QED BY <3>1, <3>2 DEF LinkedAt, byte
    <2> QED BY <2>4, <2>5
  <1>9. ASSUME header.accepted, NEW address \in 0..(pages * P - 1)
        PROVE  Executable!EarlyByte(header, address) = Executable!LinkedByte(sections, address)
    <2>1. address \in Nat
      BY <1>6, <1>9
    <2> QED BY <1>7, <1>8, <1>9, <2>1
  <1>10. ASSUME header.accepted
         PROVE  sections[5].paddr + sizes[5] + ImageStackSize <= pages * P
    <2>1. sections[5].paddr + sizes[5] + ImageStackSize = code + data + bss + ImageStackSize
      <3>1. sections[5].paddr = sizes[1] + sizes[2] + sizes[3] + sizes[4]
        BY <1>4
      <3>2. code = sizes[1] /\ data = sizes[2] + sizes[3] /\ bss = sizes[4] + sizes[5]
        BY <1>6, <1>10
      <3> HIDE DEF code, data, bss
      <3> QED BY <1>2, <1>5, <3>1, <3>2
    <2> QED BY <1>6, <1>10, <2>1
  <1>11. ASSUME header.accepted, NEW page \in 0..(pages - 1), NEW offset \in 0..(P - 1)
         PROVE  LET byte == Executable!LoadedByte(code, data, lastDataPageSize, page, offset)
                IN  \/ byte = Executable!LinkedByte(sections, page * P + offset)
                    \/ /\ byte = Executable!Zero /\ offset >= lastDataPageSize
                       /\ page = Executable!NumCodePages(code) + Executable!NumDataPages(code, data) - 1
                       /\ Executable!NumDataPages(code, data) > 0
    <2>1. page \in Nat /\ offset \in Nat /\ code \in Nat /\ data \in Nat
      BY <1>5, <1>6, <1>11
    <2>2. page * P + offset \in Nat
      BY <1>5, <2>1
    <2>3. Executable!LinkedByte(sections, page * P + offset) = LinkedAt(code, data, page * P + offset)
      BY <1>7, <1>11, <2>2
    <2> HIDE DEF code, data
    <2>4. Executable!LoadedByte(code, data, lastDataPageSize, page, offset) =
            IF IsLastDataPage(code, data, page) /\ offset >= lastDataPageSize THEN Executable!Zero
            ELSE LinkedAt(code, data, page * P + offset)
      BY <2>1, LoadedAsLinked
    <2> QED BY <2>3, <2>4 DEF IsLastDataPage
  <1> HIDE DEF code, data, bss, pages
  <1>12. /\ header.accepted <=> (sizes[2] = 0 \/ sizes[3] = 0) /\ (sizes[4] = 0 \/ sizes[5] = 0)
         /\ header.accepted =>
              /\ \A address \in 0..(pages * P - 1) :
                   Executable!EarlyByte(header, address) = Executable!LinkedByte(sections, address)
              /\ sections[5].paddr + sizes[5] + ImageStackSize <= pages * P
              /\ \A page \in 0..(pages - 1), offset \in 0..(P - 1) :
                   LET byte == Executable!LoadedByte(code, data, lastDataPageSize, page, offset)
                   IN  \/ byte = Executable!LinkedByte(sections, page * P + offset)
                       \/ /\ byte = Executable!Zero /\ offset >= lastDataPageSize
                          /\ page = Executable!NumCodePages(code)
                                    + Executable!NumDataPages(code, data) - 1
                          /\ Executable!NumDataPages(code, data) > 0
    BY <1>3, <1>9, <1>10, <1>11
  <1> QED BY <1>1, <1>12, Zenon
          DEF Executable!LoadedRight, sections, header, code, data, bss, pages
-------------------------------------------------------------------------------
(* What the instructions compute *)

\* The powers of two.
LEMMA PowersOfTwoAre ==
  /\ PowerOfTwo[0] = 1
  /\ \A n \in 1..(2 * W) : PowerOfTwo[n] = 2 * PowerOfTwo[n - 1]
  /\ \A n \in 0..(2 * W) : PowerOfTwo[n] \in Nat \ {0}
  <1> DEFINE L == 2 * W
             power == PowerOfTwo
  <1>1. L \in Nat
    BY WordAssumption
  <1>2. power = CHOOSE k : k = [n \in 0..L |-> IF n = 0 THEN 1 ELSE 2 * k[n - 1]]
    BY DEF PowerOfTwo
  <1> HIDE DEF L, power
  <1>3. /\ power[0] = 1
        /\ \A n \in 1..L : power[n] = 2 * power[n - 1]
        /\ \A n \in 0..L : power[n] \in Nat \ {0}
    BY <1>1, <1>2, DoublesAre
  <1> QED BY <1>3 DEF power, L

\* The power of a sum.
LEMMA PowerOfSum ==
  ASSUME NEW m \in 0..(2 * W), NEW n \in 0..(2 * W), m + n \in 0..(2 * W)
  PROVE  PowerOfTwo[m + n] = PowerOfTwo[m] * PowerOfTwo[n]
  <1> DEFINE L == 2 * W
             power == PowerOfTwo
             Good == {k \in 0..n : power[m + k] = power[m] * power[k]}
  <1>1. L \in Nat /\ m \in 0..L /\ n \in 0..L /\ m + n \in 0..L
    BY WordAssumption
  <1>2. /\ power[0] = 1 /\ \A k \in 1..L : power[k] = 2 * power[k - 1]
        /\ \A k \in 0..L : power[k] \in Nat \ {0}
    BY PowersOfTwoAre
  <1> HIDE DEF L, power
  <1>3. 0 \in Good
    BY <1>1, <1>2
  <1>4. ASSUME NEW k \in (0 + 1)..n, k - 1 \in Good PROVE k \in Good
    <2>1. /\ k \in 1..L /\ m + k \in 1..L /\ (m + k) - 1 = m + (k - 1) /\ k \in 0..n
          /\ k - 1 \in 0..L /\ m + (k - 1) \in 0..L
      BY <1>1, <1>4
    <2>2. power[m + k] = 2 * power[(m + k) - 1] /\ power[k] = 2 * power[k - 1]
      BY <1>2, <2>1
    <2>3. power[m + (k - 1)] = power[m] * power[k - 1]
      BY <1>4
    <2> DEFINE p == power[m]
               q == power[k - 1]
    <2>4. p \in Nat /\ q \in Nat
      BY <1>1, <1>2, <2>1
    <2>5. power[m + k] = 2 * (p * q)
      BY <2>1, <2>2, <2>3
    <2> HIDE DEF p, q
    <2>6. 2 * (p * q) = p * (2 * q)
      BY <2>4
    <2>7. power[m + k] = power[m] * power[k]
      BY <2>2, <2>5, <2>6 DEF p, q
    <2> QED BY <2>1, <2>7
  <1>5. \A k \in 0..n : k \in Good
    <2>1. n \in Nat /\ 0 \in 0..n
      BY <1>1
    <2> HIDE DEF Good
    <2> QED BY <1>3, <1>4, <2>1, UpTo
  <1> QED BY <1>1, <1>5 DEF power

\* A greater power is no less.
LEMMA PowersRiseByTwo ==
  ASSUME NEW m \in 0..(2 * W), NEW n \in 0..(2 * W), m <= n
  PROVE  PowerOfTwo[m] <= PowerOfTwo[n]
  <1> DEFINE k == n - m
             p == PowerOfTwo[m]
             q == PowerOfTwo[k]
  <1>1. k \in 0..(2 * W) /\ m + k = n
    BY WordAssumption
  <1>2. PowerOfTwo[n] = p * q
    BY <1>1, PowerOfSum
  <1>3. p \in Nat \ {0} /\ q \in Nat \ {0}
    BY <1>1, PowersOfTwoAre
  <1> HIDE DEF p, q
  <1>4. p * q = p + p * (q - 1) /\ p * (q - 1) >= 0
    BY <1>3
  <1> QED BY <1>2, <1>3, <1>4 DEF p

\* The numbers of a word: the sign bit is half of them, and half a word holds its
\* root.
LEMMA WordIs ==
  /\ W \in Nat /\ W >= 2 /\ Half \in 1..(W - 1) /\ Half + Half = W
  /\ Modulus \in Nat /\ SignBit \in Nat /\ Modulus = 2 * SignBit /\ SignBit >= 2
  /\ Words = 0..(Modulus - 1)
  /\ PowerOfTwo[Half] \in Nat /\ PowerOfTwo[Half - 1] \in Nat
  /\ PowerOfTwo[Half] = 2 * PowerOfTwo[Half - 1] /\ PowerOfTwo[Half - 1] >= 1
  /\ PowerOfTwo[Half] * PowerOfTwo[Half] = Modulus
  /\ PowerOfTwo[2 * W] = Modulus * Modulus
  <1>1. W \in Nat /\ W >= 2 /\ Half \in 1..(W - 1) /\ Half + Half = W
    BY WordAssumption DEF Half
  <1>2. /\ Half \in 0..(2 * W) /\ Half \in 1..(2 * W) /\ W \in 1..(2 * W) /\ W - 1 \in 1..(2 * W)
        /\ W \in 0..(2 * W) /\ W + W = 2 * W /\ W + W \in 0..(2 * W) /\ Half + Half \in 0..(2 * W)
        /\ (W - 1) - 1 \in 0..(2 * W) /\ Half - 1 \in 0..(2 * W)
    BY <1>1
  <1>3. /\ PowerOfTwo[Half] = 2 * PowerOfTwo[Half - 1] /\ PowerOfTwo[W] = 2 * PowerOfTwo[W - 1]
        /\ PowerOfTwo[W - 1] = 2 * PowerOfTwo[(W - 1) - 1]
    BY <1>2, PowersOfTwoAre
  <1>4. /\ PowerOfTwo[Half] \in Nat /\ PowerOfTwo[Half - 1] \in Nat \ {0} /\ PowerOfTwo[W] \in Nat
        /\ PowerOfTwo[W - 1] \in Nat /\ PowerOfTwo[(W - 1) - 1] \in Nat \ {0}
    BY <1>1, <1>2, PowersOfTwoAre
  <1>5. PowerOfTwo[Half] * PowerOfTwo[Half] = PowerOfTwo[W]
    BY <1>1, <1>2, PowerOfSum
  <1>6. PowerOfTwo[2 * W] = PowerOfTwo[W] * PowerOfTwo[W]
    BY <1>2, PowerOfSum
  <1> QED BY <1>1, <1>3, <1>4, <1>5, <1>6 DEF Modulus, SignBit, Words

\* Numbers that differ by multiples of the modulus are the same word.
LEMMA WrapIs ==
  /\ \A n \in Int : Wrap(n) \in Words
  /\ \A n \in Words : Wrap(n) = n
  /\ \A n \in Modulus..(2 * Modulus - 1) : Wrap(n) = n - Modulus
  /\ \A n \in -Modulus..-1 : Wrap(n) = n + Modulus
  /\ \A n, k \in Int : Wrap(n + k * Modulus) = Wrap(n)
  /\ \A n \in Int : \E k \in Int : n = Wrap(n) + k * Modulus
  <1> DEFINE M == Modulus
  <1>1. M \in Nat \ {0} /\ Words = 0..(M - 1) /\ \A n : Wrap(n) = n % M
    BY WordIs DEF Wrap
  <1> HIDE DEF M
  <1>2. ASSUME NEW n \in Int PROVE n % M \in 0..(M - 1) /\ n = (n % M) + (n \div M) * M /\ n \div M \in Int
    BY <1>1
  <1>3. ASSUME NEW n \in 0..(M - 1) PROVE n % M = n
    BY <1>1
  <1>4. ASSUME NEW n \in Int, NEW k \in Int PROVE (n + k * M) % M = n % M
    <2> DEFINE q == n \div M
               r == n % M
               t == n + k * M
               q2 == t \div M
               r2 == t % M
    <2>1. n = r + q * M /\ r \in 0..(M - 1) /\ q \in Int
      BY <1>2
    <2>2. t \in Int /\ k * M \in Int
      BY <1>1
    <2>3. t = r2 + q2 * M /\ r2 \in 0..(M - 1) /\ q2 \in Int
      BY <1>2, <2>2
    <2> HIDE DEF q, r, q2, r2
    <2> DEFINE d == q + k - q2
    <2>4. r2 - r = d * M /\ d \in Int
      <3>1. d * M = q * M + k * M - q2 * M /\ d \in Int
        BY <1>1, <2>1, <2>3
      <3>2. q * M \in Int /\ k * M \in Int /\ q2 * M \in Int
        BY <1>1, <2>1, <2>3
      <3> QED BY <2>1, <2>3, <3>1, <3>2
    <2> HIDE DEF d, t
    <2>5. d = 0
      <3>1. CASE d >= 1
        <4>1. d * M >= M
          BY <1>1, <2>4, <3>1
        <4> QED BY <1>1, <2>1, <2>3, <2>4, <4>1
      <3>2. CASE d <= -1
        <4>1. d * M <= -M
          <5>1. (-d) * M >= M /\ d * M = -((-d) * M)
            BY <1>1, <2>4, <3>2
          <5> QED BY <1>1, <2>4, <5>1
        <4> QED BY <1>1, <2>1, <2>3, <2>4, <4>1
      <3> QED BY <2>4, <3>1, <3>2
    <2>6. r2 = r
      BY <1>1, <2>1, <2>3, <2>4, <2>5
    <2> QED BY <2>6 DEF r, r2, t
  <1>5. ASSUME NEW n \in M..(2 * M - 1) PROVE n % M = n - M
    <2>1. n - M \in 0..(M - 1) /\ n - M + 1 * M = n /\ n - M \in Int /\ 1 \in Int
      BY <1>1
    <2>2. (n - M + 1 * M) % M = (n - M) % M
      BY <1>4, <2>1
    <2> QED BY <1>3, <2>1, <2>2
  <1>6. ASSUME NEW n \in -M..-1 PROVE n % M = n + M
    <2>1. n + M \in 0..(M - 1) /\ n + 1 * M = n + M /\ n \in Int /\ 1 \in Int
      BY <1>1
    <2>2. (n + 1 * M) % M = n % M
      BY <1>4, <2>1
    <2> QED BY <1>3, <2>1, <2>2
  <1> QED BY <1>1, <1>2, <1>3, <1>4, <1>5, <1>6 DEF M

\* The number that a word spells with its sign.
LEMMA SignedIs ==
  /\ \A x \in Words : /\ Signed(x) \in -SignBit..(SignBit - 1) /\ (Neg(x) <=> Signed(x) < 0)
                      /\ Wrap(Signed(x)) = x /\ (Signed(x) = x \/ Signed(x) = x - Modulus)
  /\ \A n \in -SignBit..(SignBit - 1) : Signed(Wrap(n)) = n /\ Wrap(n) \in Words
  /\ \A x \in Words : Signed(x) = 0 <=> x = 0
  <1> DEFINE S == SignBit
             M == Modulus
  <1>1. S \in Nat /\ M = 2 * S /\ S >= 2 /\ Words = 0..(M - 1) /\ M \in Nat
    BY WordIs
  <1>2. \A x : (Neg(x) <=> x >= S) /\ Signed(x) = IF x >= S THEN x - M ELSE x
    BY DEF Neg, Signed
  <1>3. /\ \A n \in 0..(M - 1) : Wrap(n) = n
        /\ \A n \in -M..-1 : Wrap(n) = n + M
    BY <1>1, WrapIs
  <1> HIDE DEF S, M
  <1>4. ASSUME NEW x \in 0..(M - 1)
        PROVE  /\ Signed(x) \in -S..(S - 1) /\ (Neg(x) <=> Signed(x) < 0)
               /\ Wrap(Signed(x)) = x /\ (Signed(x) = x \/ Signed(x) = x - M)
               /\ Signed(x) = 0 <=> x = 0
    <2>1. CASE x >= S
      <3>1. Signed(x) = x - M /\ x - M \in -M..-1 /\ (x - M) + M = x
        BY <1>1, <1>2, <2>1
      <3>2. Wrap(x - M) = x
        BY <1>3, <3>1
      <3> QED BY <1>1, <1>2, <2>1, <3>1, <3>2
    <2>2. CASE ~(x >= S)
      <3>1. Signed(x) = x /\ Wrap(x) = x
        BY <1>1, <1>2, <1>3, <2>2
      <3> QED BY <1>1, <1>2, <2>2, <3>1
    <2> QED BY <2>1, <2>2
  <1>5. ASSUME NEW n \in -S..(S - 1) PROVE Signed(Wrap(n)) = n /\ Wrap(n) \in 0..(M - 1)
    <2>1. CASE n >= 0
      <3>1. Wrap(n) = n
        BY <1>1, <1>3, <2>1
      <3> QED BY <1>1, <1>2, <2>1, <3>1
    <2>2. CASE n < 0
      <3>1. Wrap(n) = n + M
        BY <1>1, <1>3, <2>2
      <3>2. Signed(n + M) = n
        BY <1>1, <1>2, <2>2
      <3> QED BY <1>1, <2>2, <3>1, <3>2
    <2> QED BY <2>1, <2>2
  <1> QED BY <1>1, <1>4, <1>5 DEF S, M

\* The immediate operand is a word, its low half extended with its sign.
LEMMA ExtendedIs ==
  ASSUME NEW y \in Words
  PROVE  /\ Extended(y) \in Words /\ Low(y) \in Words
         /\ Extended(y) = Low(y) \/ Extended(y) = Wrap(Low(y) - PowerOfTwo[Half])
         /\ \E k \in Int : y = Low(y) + k * PowerOfTwo[Half]
  <1> DEFINE H == PowerOfTwo[Half]
             G == PowerOfTwo[Half - 1]
             l == y % H
  <1>1. /\ H \in Nat /\ G \in Nat /\ H = 2 * G /\ G >= 1 /\ H * H = Modulus /\ Modulus \in Nat
        /\ Words = 0..(Modulus - 1)
    BY WordIs
  <1>2. Low(y) = l /\ Extended(y) = IF l >= G THEN Wrap(l - H) ELSE l
    BY DEF Low, Extended
  <1> HIDE DEF H, G
  <1>3. y \in Nat /\ l \in 0..(H - 1) /\ y = l + (y \div H) * H /\ y \div H \in Int
    <2>1. y \in Nat /\ H \in Nat \ {0}
      BY <1>1
    <2> QED BY <2>1
  <1> HIDE DEF l
  <1>4. H <= Modulus
    <2>1. H * H = H + H * (H - 1) /\ H * (H - 1) >= 0
      BY <1>1
    <2> QED BY <1>1, <2>1
  <1>5. l \in Words
    BY <1>1, <1>3, <1>4
  <1>6. l - H \in Int
    BY <1>1, <1>3
  <1>7. Wrap(l - H) \in Words
    BY <1>6, WrapIs
  <1> QED BY <1>2, <1>3, <1>5, <1>7 DEF H

\* A sum or difference of what two words spell wraps to that of the words.
LEMMA WrapOfSigned ==
  ASSUME NEW x \in Words, NEW y \in Words
  PROVE  /\ Wrap(Signed(x) + Signed(y)) = Wrap(x + y)
         /\ Wrap(Signed(x) - Signed(y)) = Wrap(x - y)
  <1>1. /\ x \in Int /\ y \in Int /\ Modulus \in Nat
        /\ \A n, k \in Int : Wrap(n + k * Modulus) = Wrap(n)
    BY WordIs, WrapIs
  <1>2. Signed(x) \in Int /\ Signed(y) \in Int /\ (Signed(x) = x \/ Signed(x) = x - Modulus)
        /\ (Signed(y) = y \/ Signed(y) = y - Modulus)
    BY <1>1, SignedIs DEF Signed
  <1>3. PICK j \in {0, -1} : Signed(x) = x + j * Modulus
    BY <1>1, <1>2
  <1>4. PICK k \in {0, -1} : Signed(y) = y + k * Modulus
    BY <1>1, <1>2
  <1>5. /\ Signed(x) + Signed(y) = (x + y) + (j + k) * Modulus /\ x + y \in Int /\ j + k \in Int
        /\ Signed(x) - Signed(y) = (x - y) + (j - k) * Modulus /\ x - y \in Int /\ j - k \in Int
    BY <1>1, <1>2, <1>3, <1>4
  <1> QED BY <1>1, <1>5

\* A sum traps exactly when it is not representable, and so does a difference.
LEMMA SumsAreExact ==
  ASSUME NEW x \in Words, NEW y \in Words
  PROVE  /\ OrTrap(Signed(x) + Signed(y), AddTrapping(x, y))
         /\ AddTrapping(x, y) = Trap \/ AddTrapping(x, y) = Value(Wrap(x + y))
         /\ OrTrap(Signed(x) - Signed(y), SubTrapping(x, y))
         /\ SubTrapping(x, y) = Trap \/ SubTrapping(x, y) = Value(Wrap(x - y))
  <1> DEFINE S == SignBit
             a == Signed(x)
             b == Signed(y)
  <1>1. S \in Nat /\ S >= 2 /\ Modulus = 2 * S /\ Words = 0..(Modulus - 1)
    BY WordIs
  <1>2. a \in -S..(S - 1) /\ b \in -S..(S - 1) /\ (Neg(x) <=> a < 0) /\ (Neg(y) <=> b < 0)
    BY SignedIs
  <1>3. /\ \A n \in -S..(S - 1) : Signed(Wrap(n)) = n /\ Wrap(n) \in Words
        /\ \A w \in Words : Neg(w) <=> Signed(w) < 0
        /\ Wrap(x + y) = Wrap(a + b) /\ Wrap(x - y) = Wrap(a - b)
    BY SignedIs, WrapOfSigned
  <1>4. \A n : Representable(n) <=> n \in -S..(S - 1)
    BY DEF Representable
  <1> HIDE DEF S, a, b
  <1>5. ASSUME NEW n \in (-2 * S)..(2 * S - 2), ~(n \in -S..(S - 1))
        PROVE  Neg(Wrap(n)) <=> n >= 0
    <2>1. CASE n >= 0
      <3>1. n >= S /\ n \in 0..(Modulus - 1)
        BY <1>1, <1>5, <2>1
      <3>2. Wrap(n) = n
        BY <1>1, <3>1, WrapIs
      <3> QED BY <2>1, <3>1, <3>2 DEF Neg, S
    <2>2. CASE n < 0
      <3>1. n < -S /\ n \in -Modulus..-1 /\ n + Modulus < S /\ n + Modulus \in Int
        BY <1>1, <1>5, <2>2
      <3>2. Wrap(n) = n + Modulus
        BY <3>1, WrapIs
      <3>3. ~Neg(Wrap(n))
        BY <1>1, <3>1, <3>2 DEF Neg, S
      <3> QED BY <2>2, <3>3
    <2> QED BY <1>1, <1>5, <2>1, <2>2
  <1>6. a + b \in (-2 * S)..(2 * S - 2) /\ a - b \in (-2 * S)..(2 * S - 1)
    BY <1>1, <1>2
  <1>7. OrTrap(a + b, AddTrapping(x, y))
    <2> DEFINE sum == Wrap(x + y)
               traps == Neg(x) = Neg(y) /\ Neg(x) # Neg(sum)
    <2>1. AddTrapping(x, y) = IF traps THEN Trap ELSE Value(sum)
      BY DEF AddTrapping
    <2>2. CASE a + b \in -S..(S - 1)
      <3>1. Signed(sum) = a + b /\ sum \in Words
        BY <1>3, <2>2
      <3>2. Neg(sum) <=> a + b < 0
        BY <1>3, <3>1
      <3>3. ~traps
        BY <1>1, <1>2, <3>2 DEF Neg
      <3>4. AddTrapping(x, y) = Value(sum)
        BY <2>1, <3>3
      <3> QED BY <1>4, <2>2, <3>1, <3>4 DEF OrTrap, Value
    <2>3. CASE ~(a + b \in -S..(S - 1))
      <3>1. Neg(sum) <=> a + b >= 0
        BY <1>3, <1>5, <1>6, <2>3
      <3>2. traps
        BY <1>1, <1>2, <2>3, <3>1 DEF Neg
      <3> QED BY <1>4, <2>1, <2>3, <3>2 DEF OrTrap
    <2> QED BY <2>2, <2>3
  <1>8. OrTrap(a - b, SubTrapping(x, y))
    <2> DEFINE sum == Wrap(x - y)
               traps == Neg(x) # Neg(y) /\ Neg(x) # Neg(sum)
    <2>1. SubTrapping(x, y) = IF traps THEN Trap ELSE Value(sum)
      BY DEF SubTrapping
    <2>2. CASE a - b \in -S..(S - 1)
      <3>1. Signed(sum) = a - b /\ sum \in Words
        BY <1>3, <2>2
      <3>2. Neg(sum) <=> a - b < 0
        BY <1>3, <3>1
      <3>3. ~traps
        BY <1>1, <1>2, <3>2 DEF Neg
      <3>4. SubTrapping(x, y) = Value(sum)
        BY <2>1, <3>3
      <3> QED BY <1>4, <2>2, <3>1, <3>4 DEF OrTrap, Value
    <2>3. CASE ~(a - b \in -S..(S - 1))
      <3>1. CASE a - b = 2 * S - 1
        <4>1. a - b \in 0..(Modulus - 1)
          BY <1>1, <3>1
        <4>2. sum = 2 * S - 1
          BY <1>1, <1>3, <3>1, <4>1, WrapIs
        <4>3. Neg(sum)
          BY <1>1, <4>2 DEF Neg, S
        <4>4. traps
          BY <1>1, <1>2, <3>1, <4>3 DEF Neg
        <4> QED BY <1>4, <2>1, <2>3, <4>4 DEF OrTrap
      <3>2. CASE a - b # 2 * S - 1
        <4>1. a - b \in (-2 * S)..(2 * S - 2)
          BY <1>1, <1>6, <3>2
        <4>2. Neg(sum) <=> a - b >= 0
          BY <1>3, <1>5, <2>3, <4>1
        <4>3. traps
          BY <1>1, <1>2, <2>3, <4>2 DEF Neg
        <4> QED BY <1>4, <2>1, <2>3, <4>3 DEF OrTrap
      <3> QED BY <3>1, <3>2
    <2> QED BY <2>2, <2>3
  <1> QED BY <1>7, <1>8 DEF AddTrapping, SubTrapping, a, b

\* Division rounds towards zero.
LEMMA QuotientIs ==
  ASSUME NEW a \in Int, NEW b \in Int, b # 0
  PROVE  /\ Quotient(a, b) \in Int /\ Remainder(a, b) \in Int
         /\ Quotient(a, b) * b + Remainder(a, b) = a
         /\ Distance0(Remainder(a, b)) < Distance0(b)
         /\ Remainder(a, b) # 0 => (Remainder(a, b) < 0 <=> a < 0)
         /\ Distance0(Quotient(a, b)) <= Distance0(a)
         /\ Quotient(a, b) > 0 => (a < 0 <=> b < 0)
         /\ Distance0(Quotient(a, b)) = Distance0(a) /\ a # 0 => Distance0(b) = 1
  <1> DEFINE n == Distance0(a)
             m == Distance0(b)
             p == n \div m
             k == n % m
             q == Quotient(a, b)
             r == Remainder(a, b)
  <1>1. /\ n \in Nat /\ m \in Nat \ {0} /\ (a < 0 => a = -n) /\ (a >= 0 => a = n)
        /\ (b < 0 => b = -m) /\ (b >= 0 => b = m)
    BY DEF Distance0
  <1>2. q = IF (a < 0) = (b < 0) THEN p ELSE -p
    BY DEF Quotient
  <1>3. r = a - b * q
    BY DEF Remainder
  <1> HIDE DEF n, m, q, r
  <1>4. p \in Int /\ k \in 0..(m - 1) /\ n = p * m + k
    BY <1>1
  <1> HIDE DEF p, k
  <1>5. p \in Nat
    <2>1. CASE p < 0
      <3>1. p * m = (-p) * (-m) /\ (-p) * m >= m /\ (-p) * m = -(p * m)
        BY <1>1, <1>4, <2>1
      <3> QED BY <1>1, <1>4, <3>1
    <2> QED BY <1>4, <2>1
  <1>6. p <= p * m /\ p * m \in Nat
    <2>1. p * m = p + p * (m - 1) /\ p * (m - 1) >= 0
      BY <1>1, <1>5
    <2> QED BY <1>1, <1>5, <2>1
  <1>7. p <= n
    BY <1>1, <1>4, <1>5, <1>6
  <1>8. p = n /\ n # 0 => m = 1
    <2>1. ASSUME p = n, n # 0, m # 1 PROVE FALSE
      <3>1. p * m = p + p * (m - 1) /\ p * (m - 1) >= p
        BY <1>1, <1>5, <2>1
      <3> QED BY <1>1, <1>4, <1>5, <2>1, <3>1
    <2> QED BY <2>1
  <1>9. q \in Int /\ Distance0(q) = p /\ (q > 0 => (a < 0 <=> b < 0))
    BY <1>2, <1>5 DEF Distance0
  <1>10. /\ (a >= 0 => r = k) /\ (a < 0 => r = -k)
    <2>1. CASE a >= 0 /\ b >= 0
      <3>1. q = p /\ b * q = p * m
        BY <1>1, <1>2, <1>5, <2>1
      <3> QED BY <1>1, <1>3, <1>4, <1>6, <2>1, <3>1
    <2>2. CASE a >= 0 /\ b < 0
      <3>1. q = -p /\ b * q = (-m) * (-p) /\ (-m) * (-p) = p * m
        BY <1>1, <1>2, <1>5, <2>2
      <3> QED BY <1>1, <1>3, <1>4, <1>6, <2>2, <3>1
    <2>3. CASE a < 0 /\ b >= 0
      <3>1. q = -p /\ b * q = m * (-p) /\ m * (-p) = -(p * m)
        BY <1>1, <1>2, <1>5, <2>3
      <3> QED BY <1>1, <1>3, <1>4, <1>6, <2>3, <3>1
    <2>4. CASE a < 0 /\ b < 0
      <3>1. q = p /\ b * q = (-m) * p /\ (-m) * p = -(p * m)
        BY <1>1, <1>2, <1>5, <2>4
      <3> QED BY <1>1, <1>3, <1>4, <1>6, <2>4, <3>1
    <2> QED BY <2>1, <2>2, <2>3, <2>4
  <1>11. q * b + r = a
    <2>1. b * q \in Int /\ q * b = b * q
      BY <1>9
    <2> QED BY <1>3, <2>1
  <1>12. r \in Int /\ Distance0(r) < m /\ (r # 0 => (r < 0 <=> a < 0))
    BY <1>1, <1>4, <1>10 DEF Distance0
  <1>13. a # 0 => n # 0
    BY <1>1
  <1> QED BY <1>7, <1>8, <1>9, <1>11, <1>12, <1>13 DEF q, r, n, m

\* The results of an instruction are told apart by what they are.
LEMMA ResultsAre ==
  /\ \A v : /\ Value(v)[1] = "value" /\ Value(v)[2] = v
            /\ Value(v) # Trap /\ Value(v) # Crash
  /\ \A hi, lo : /\ Pair(hi, lo)[2] = hi /\ Pair(hi, lo)[3] = lo
                 /\ Pair(hi, lo) # Trap /\ Pair(hi, lo) # Crash
  BY DEF Value, Pair, Trap, Crash

\* A division is exact, and crashes only when the quotient is not representable.
LEMMA DivisionsAreExact ==
  ASSUME NEW x \in Words, NEW y \in Words, y # 0
  PROVE  /\ DivUnsigned(x, y)[3] * y + DivUnsigned(x, y)[2] = x
         /\ DivUnsigned(x, y)[2] < y
         /\ \/ DivSigned(x, y) = Crash /\ ~Representable(-Signed(x))
            \/ /\ DivSigned(x, y) # Crash
               /\ Signed(DivSigned(x, y)[3]) * Signed(y) + Signed(DivSigned(x, y)[2]) = Signed(x)
               /\ Distance0(Signed(DivSigned(x, y)[2])) < Distance0(Signed(y))
               /\ Signed(DivSigned(x, y)[2]) # 0 => Neg(DivSigned(x, y)[2]) = Neg(x)
  <1> DEFINE S == SignBit
             a == Signed(x)
             b == Signed(y)
             q == Quotient(a, b)
             r == Remainder(a, b)
  <1>1. /\ S \in Nat /\ S >= 2 /\ x \in Nat /\ y \in Nat
        /\ a \in -S..(S - 1) /\ b \in -S..(S - 1) /\ b # 0 /\ (Neg(x) <=> a < 0)
    <2>1. S \in Nat /\ S >= 2 /\ x \in Nat /\ y \in Nat
      BY WordIs
    <2>2. a \in -S..(S - 1) /\ b \in -S..(S - 1) /\ b # 0
      BY SignedIs
    <2>3. Neg(x) <=> a < 0
      BY SignedIs
    <2> QED BY <2>1, <2>2, <2>3
  <1>2. /\ DivUnsigned(x, y)[3] * y + DivUnsigned(x, y)[2] = x
        /\ DivUnsigned(x, y)[2] < y
    <2>1. DivUnsigned(x, y)[3] = x \div y /\ DivUnsigned(x, y)[2] = x % y
      BY ResultsAre DEF DivUnsigned
    <2>2. x \in Nat /\ y \in Nat \ {0}
      BY <1>1
    <2>3. (x \div y) * y + (x % y) = x /\ (x % y) < y
      BY <2>2
    <2> QED BY <2>1, <2>3
  <1>3. a \in Int /\ b \in Int
    BY <1>1
  <1>4. /\ q \in Int /\ r \in Int /\ q * b + r = a /\ Distance0(r) < Distance0(b)
        /\ r # 0 => (r < 0 <=> a < 0)
        /\ Distance0(q) <= Distance0(a) /\ (q > 0 => (a < 0 <=> b < 0))
        /\ Distance0(q) = Distance0(a) /\ a # 0 => Distance0(b) = 1
    BY <1>1, <1>3, QuotientIs
  <1>5. DivSigned(x, y) = IF a = -S /\ b = -1 THEN Crash ELSE Pair(Wrap(r), Wrap(q))
    BY DEF DivSigned
  <1> HIDE DEF q, r, a, b, S
  <1>6. CASE a = -S /\ b = -1
    <2>1. ~Representable(-a)
      BY <1>1, <1>6 DEF Representable, S
    <2> QED BY <1>2, <1>5, <1>6, <2>1 DEF a
  <1>7. CASE ~(a = -S /\ b = -1)
    <2>1. r \in -S..(S - 1)
      BY <1>1, <1>4 DEF Distance0
    <2>2. q \in -S..(S - 1)
      <3>1. q >= -S /\ q <= S
        BY <1>1, <1>4 DEF Distance0
      <3>2. q # S
        <4>1. ASSUME q = S PROVE FALSE
          <5>1. a < 0 <=> b < 0
            BY <1>1, <1>4, <4>1
          <5>2. Distance0(q) = S /\ Distance0(a) <= S
            BY <1>1, <4>1 DEF Distance0
          <5>3. Distance0(a) = S /\ a = -S
            BY <1>1, <1>4, <5>2 DEF Distance0
          <5>4. Distance0(b) = 1 /\ b < 0
            BY <1>1, <1>4, <5>1, <5>2, <5>3
          <5>5. b = -1
            BY <1>1, <5>4 DEF Distance0
          <5> QED BY <1>7, <5>3, <5>5
        <4> QED BY <4>1
      <3> QED BY <1>1, <1>4, <3>1, <3>2
    <2>3. Signed(Wrap(r)) = r /\ Signed(Wrap(q)) = q /\ Wrap(r) \in Words
      BY <2>1, <2>2, SignedIs DEF S
    <2>4. Neg(Wrap(r)) <=> r < 0
      BY <2>3, SignedIs
    <2>5. r # 0 => Neg(Wrap(r)) = Neg(x)
      BY <1>1, <1>4, <2>4 DEF Neg
    <2>6. DivSigned(x, y)[3] = Wrap(q) /\ DivSigned(x, y)[2] = Wrap(r) /\ DivSigned(x, y) # Crash
      BY <1>5, <1>7, ResultsAre
    <2> QED BY <1>2, <1>4, <2>3, <2>5, <2>6 DEF a, b
  <1> QED BY <1>6, <1>7

\* The sum of two double words, word by word, as long as it is a double word.
LEMMA DoubleSumIs ==
  ASSUME NEW lo \in Words, NEW hi \in Words, NEW bLo \in Words, NEW bHi \in Words,
         (hi * Modulus + lo) + (bHi * Modulus + bLo) < Modulus * Modulus,
         NEW lo2, lo2 = Wrap(lo + bLo),
         NEW hi2, hi2 = Wrap(hi + (IF lo2 < bLo THEN 1 ELSE 0) + bHi)
  PROVE  /\ hi2 * Modulus + lo2 = (hi * Modulus + lo) + (bHi * Modulus + bLo)
         /\ lo2 \in Words /\ hi2 \in Words
  <1> DEFINE M == Modulus
             carry == IF lo2 < bLo THEN 1 ELSE 0
             high == hi + carry + bHi
  <1>1. /\ M \in Nat \ {0} /\ lo \in 0..(M - 1) /\ hi \in 0..(M - 1)
        /\ bLo \in 0..(M - 1) /\ bHi \in 0..(M - 1) /\ Words = 0..(M - 1)
    BY WordIs
  <1>2. /\ \A n \in 0..(M - 1) : Wrap(n) = n
        /\ \A n \in M..(2 * M - 1) : Wrap(n) = n - M
    BY <1>1, WrapIs
  <1>3. (hi * M + lo) + (bHi * M + bLo) < M * M
    OBVIOUS
  <1>4. hi2 = Wrap(high)
    OBVIOUS
  <1> HIDE DEF M
  <1>5. lo2 \in 0..(M - 1) /\ lo2 + carry * M = lo + bLo /\ carry \in {0, 1}
    <2>1. CASE lo + bLo < M
      <3>1. lo2 = lo + bLo
        BY <1>1, <1>2, <2>1
      <3>2. ~(lo2 < bLo)
        BY <1>1, <3>1
      <3> QED BY <1>1, <2>1, <3>1, <3>2
    <2>2. CASE lo + bLo >= M
      <3>1. lo2 = lo + bLo - M
        BY <1>1, <1>2, <2>2
      <3>2. lo2 < bLo
        BY <1>1, <3>1
      <3> QED BY <1>1, <2>2, <3>1, <3>2
    <2> QED BY <1>1, <2>1, <2>2
  <1> HIDE DEF carry
  <1>6. high \in Nat /\ high * M + lo2 = (hi * M + lo) + (bHi * M + bLo)
    <2>1. high \in Nat /\ high * M = hi * M + carry * M + bHi * M
      BY <1>1, <1>5
    <2>2. hi * M \in Int /\ carry * M \in Int /\ bHi * M \in Int
      BY <1>1, <1>5
    <2> QED BY <1>1, <1>5, <2>1, <2>2
  <1> HIDE DEF high
  <1>7. high < M
    <2>1. high * M < M * M
      <3> DEFINE sum == (hi * M + lo) + (bHi * M + bLo)
                 all == M * M
                 rest == high * M
      <3>1. rest \in Int /\ all \in Int /\ sum \in Int /\ rest + lo2 = sum /\ sum < all
        BY <1>1, <1>3, <1>6
      <3>2. lo2 >= 0 /\ lo2 \in Int
        BY <1>1, <1>5
      <3> HIDE DEF sum, all, rest
      <3>3. rest < all
        BY <3>1, <3>2
      <3> QED BY <3>3 DEF rest, all
    <2>2. ASSUME high >= M PROVE FALSE
      <3>1. high * M = M * M + (high - M) * M /\ (high - M) * M >= 0
        BY <1>1, <1>6, <2>2
      <3> QED BY <1>1, <1>6, <2>1, <3>1
    <2> QED BY <1>1, <1>6, <2>2
  <1>8. hi2 = high
    BY <1>1, <1>2, <1>4, <1>6, <1>7
  <1>9. hi2 * M + lo2 = (hi * M + lo) + (bHi * M + bLo) /\ lo2 \in 0..(M - 1) /\ hi2 \in 0..(M - 1)
    <2>1. hi2 \in 0..(M - 1)
      BY <1>1, <1>6, <1>7, <1>8
    <2> QED BY <1>5, <1>6, <1>8, <2>1
  <1> QED BY <1>1, <1>9 DEF M

\* Twice a double word, word by word, as long as it is a double word.
LEMMA DoubleTwiceIs ==
  ASSUME NEW lo \in Words, NEW hi \in Words,
         NEW lo2, lo2 = Wrap(2 * lo),
         NEW hi2, hi2 = Wrap(2 * hi) + (IF Neg(lo) THEN 1 ELSE 0)
  PROVE  /\ lo2 \in Words /\ hi2 \in Words
         /\ 2 * (hi * Modulus + lo) < Modulus * Modulus =>
              hi2 * Modulus + lo2 = 2 * (hi * Modulus + lo)
  <1> DEFINE M == Modulus
             S == SignBit
             carry == IF Neg(lo) THEN 1 ELSE 0
  <1>1. /\ M \in Nat \ {0} /\ S \in Nat /\ M = 2 * S /\ lo \in 0..(M - 1) /\ hi \in 0..(M - 1)
        /\ Words = 0..(M - 1)
    BY WordIs
  <1>2. /\ \A n \in 0..(M - 1) : Wrap(n) = n
        /\ \A n \in M..(2 * M - 1) : Wrap(n) = n - M
    BY <1>1, WrapIs
  <1>3. (Neg(lo) <=> lo >= S) /\ hi2 = Wrap(2 * hi) + carry
    BY DEF Neg
  <1> HIDE DEF M, S
  <1>4. lo2 \in 0..(M - 1) /\ lo2 + carry * M = 2 * lo /\ carry \in {0, 1}
    <2>1. CASE lo >= S
      <3>1. lo2 = 2 * lo - M /\ carry = 1
        BY <1>1, <1>2, <1>3, <2>1
      <3> QED BY <1>1, <2>1, <3>1
    <2>2. CASE lo < S
      <3>1. lo2 = 2 * lo /\ carry = 0
        BY <1>1, <1>2, <1>3, <2>2
      <3> QED BY <1>1, <2>2, <3>1
    <2> QED BY <1>1, <2>1, <2>2
  <1> HIDE DEF carry
  <1>5. (hi < S => hi2 = 2 * hi + carry) /\ hi2 \in 0..(M - 1)
    <2>1. CASE hi >= S
      <3>1. Wrap(2 * hi) = 2 * hi - M
        BY <1>1, <1>2, <2>1
      <3> QED BY <1>1, <1>3, <1>4, <2>1, <3>1
    <2>2. CASE hi < S
      <3>1. Wrap(2 * hi) = 2 * hi
        BY <1>1, <1>2, <2>2
      <3> QED BY <1>1, <1>3, <1>4, <2>2, <3>1
    <2> QED BY <1>1, <2>1, <2>2
  <1>6. ASSUME 2 * (hi * M + lo) < M * M PROVE hi2 * M + lo2 = 2 * (hi * M + lo)
    <2>1. hi < S
      <3>1. ASSUME hi >= S PROVE FALSE
        <4>1. 2 * (hi * M) = M * M + 2 * ((hi - S) * M) /\ (hi - S) * M >= 0
          <5>1. hi * M = S * M + (hi - S) * M /\ (hi - S) * M >= 0 /\ M * M = 2 * (S * M)
            BY <1>1, <3>1
          <5>2. hi * M \in Int /\ S * M \in Int /\ (hi - S) * M \in Int /\ M * M \in Int
            BY <1>1
          <5> QED BY <5>1, <5>2
        <4>2. hi * M \in Int /\ (hi - S) * M \in Int /\ M * M \in Int
          BY <1>1
        <4> QED BY <1>1, <1>6, <4>1, <4>2
      <3> QED BY <1>1, <3>1
    <2>2. hi2 * M = 2 * (hi * M) + carry * M
      BY <1>1, <1>4, <1>5, <2>1
    <2> DEFINE h == hi * M
               h2 == hi2 * M
               c == carry * M
    <2>3. h \in Int /\ h2 \in Int /\ c \in Int /\ h2 = 2 * h + c /\ lo2 + c = 2 * lo
      BY <1>1, <1>4, <1>5, <2>2
    <2>4. lo \in Int /\ lo2 \in Int
      BY <1>1, <1>4
    <2> HIDE DEF h, h2, c
    <2>5. h2 + lo2 = 2 * (h + lo)
      BY <2>3, <2>4
    <2> QED BY <2>5 DEF h, h2
  <1> QED BY <1>1, <1>4, <1>5, <1>6 DEF M

\* The state of a multiplication, its double words, and one turn of its loop.
MultStates == [a : Words, bLo : Words, bHi : Words, lo : Words, hi : Words, over : BOOLEAN]
Product(s) == s.hi * Modulus + s.lo
Addend(s) == s.bHi * Modulus + s.bLo
AddedIfOdd(s) == IF s.a % 2 = 1 THEN Added(s) ELSE s
Turned(s) == IF AddedIfOdd(s).over THEN AddedIfOdd(s) ELSE ShiftedOn(AddedIfOdd(s))

LEMMA AddedIs ==
  ASSUME NEW s \in MultStates
  PROVE  /\ Added(s) \in MultStates /\ Added(s).a = s.a /\ Addend(Added(s)) = Addend(s)
         /\ (Added(s).over <=> s.a \div 2 = 0)
         /\ Product(s) + Addend(s) < Modulus * Modulus =>
              Product(Added(s)) = Product(s) + Addend(s)
  <1> DEFINE lo2 == Wrap(s.lo + s.bLo)
             hi2 == Wrap(s.hi + (IF lo2 < s.bLo THEN 1 ELSE 0) + s.bHi)
             t == Added(s)
             done == s.a \div 2 = 0
  <1>1. /\ s.a \in Words /\ s.bLo \in Words /\ s.bHi \in Words /\ s.lo \in Words /\ s.hi \in Words
        /\ s = [a |-> s.a, bLo |-> s.bLo, bHi |-> s.bHi, lo |-> s.lo, hi |-> s.hi, over |-> s.over]
    BY DEF MultStates
  <1>2. t = [s EXCEPT !.lo = lo2, !.hi = hi2, !.over = done]
    BY DEF Added
  <1>3. lo2 \in Words /\ hi2 \in Words
    <2>1. Words \subseteq Nat
      BY WordIs
    <2>2. s.lo + s.bLo \in Int /\ s.hi + (IF lo2 < s.bLo THEN 1 ELSE 0) + s.bHi \in Int
      BY <1>1, <2>1
    <2> QED BY <2>2, WrapIs
  <1>4. Product(s) + Addend(s) < Modulus * Modulus =>
          hi2 * Modulus + lo2 = Product(s) + Addend(s)
    BY <1>1, DoubleSumIs DEF Product, Addend
  <1>5. done \in BOOLEAN
    OBVIOUS
  <1> HIDE DEF lo2, hi2, done
  <1>6. /\ t \in MultStates /\ t.a = s.a /\ t.bLo = s.bLo /\ t.bHi = s.bHi /\ t.lo = lo2 /\ t.hi = hi2
        /\ t.over = done
    <2>1. t = [a |-> s.a, bLo |-> s.bLo, bHi |-> s.bHi, lo |-> lo2, hi |-> hi2, over |-> done]
      BY <1>2, <1>1
    <2> HIDE DEF t
    <2> QED BY <1>1, <1>3, <1>5, <2>1 DEF MultStates
  <1>7. t.over <=> s.a \div 2 = 0
    BY <1>6 DEF done
  <1> QED BY <1>4, <1>6, <1>7 DEF Product, Addend

LEMMA ShiftedOnIs ==
  ASSUME NEW s \in MultStates
  PROVE  /\ ShiftedOn(s) \in MultStates /\ Product(ShiftedOn(s)) = Product(s)
         /\ ShiftedOn(s).over = s.over
         /\ Signed(ShiftedOn(s).a) = Signed(s.a) \div 2
         /\ 2 * Addend(s) < Modulus * Modulus => Addend(ShiftedOn(s)) = 2 * Addend(s)
  <1> DEFINE lo2 == Wrap(2 * s.bLo)
             hi2 == Wrap(2 * s.bHi) + (IF Neg(s.bLo) THEN 1 ELSE 0)
             a2 == Arithmetic(s.a, 1)
             t == ShiftedOn(s)
  <1>1. /\ s.a \in Words /\ s.bLo \in Words /\ s.bHi \in Words /\ s.lo \in Words /\ s.hi \in Words
        /\ s = [a |-> s.a, bLo |-> s.bLo, bHi |-> s.bHi, lo |-> s.lo, hi |-> s.hi, over |-> s.over]
        /\ s.over \in BOOLEAN
    BY DEF MultStates
  <1>2. t = [s EXCEPT !.bHi = hi2, !.bLo = lo2, !.a = a2]
    BY DEF ShiftedOn
  <1>3. /\ lo2 \in Words /\ hi2 \in Words
        /\ 2 * Addend(s) < Modulus * Modulus => hi2 * Modulus + lo2 = 2 * Addend(s)
    BY <1>1, DoubleTwiceIs DEF Addend
  <1>4. a2 \in Words /\ Signed(a2) = Signed(s.a) \div 2
    <2>1. PowerOfTwo[1] = 2
      BY WordIs, PowersOfTwoAre
    <2>2. Signed(s.a) \in -SignBit..(SignBit - 1) /\ SignBit \in Nat /\ SignBit >= 2
      BY <1>1, SignedIs, WordIs
    <2> DEFINE h == Signed(s.a) \div 2
    <2>3. h \in -SignBit..(SignBit - 1)
      BY <2>2
    <2>4. a2 = Wrap(h)
      BY <2>1 DEF Arithmetic
    <2> HIDE DEF h
    <2>5. Signed(a2) = h /\ a2 \in Words
      BY <2>3, <2>4, SignedIs
    <2> QED BY <2>5 DEF h
  <1> HIDE DEF lo2, hi2, a2
  <1>5. /\ t \in MultStates /\ t.a = a2 /\ t.bLo = lo2 /\ t.bHi = hi2 /\ t.lo = s.lo /\ t.hi = s.hi
        /\ t.over = s.over
    <2>1. t = [a |-> a2, bLo |-> lo2, bHi |-> hi2, lo |-> s.lo, hi |-> s.hi, over |-> s.over]
      BY <1>2, <1>1
    <2> HIDE DEF t
    <2> QED BY <1>1, <1>3, <1>4, <2>1 DEF MultStates
  <1> QED BY <1>3, <1>4, <1>5 DEF Product, Addend

\* A turn keeps the words words.
LEMMA TurnIsTyped ==
  ASSUME NEW s \in MultStates
  PROVE  Turned(s) \in MultStates /\ AddedIfOdd(s) \in MultStates
  <1>1. AddedIfOdd(s) \in MultStates
    BY AddedIs DEF AddedIfOdd
  <1>2. ShiftedOn(AddedIfOdd(s)) \in MultStates
    BY <1>1, ShiftedOnIs
  <1> QED BY <1>1, <1>2 DEF Turned

\* Before turn n the n lowest bits of a have been multiplied, b is shifted n
\* times, and a holds the bits that are left, with the sign.
Multiplied(a0, b0, n, s) ==
  /\ s.over => Product(s) = b0 * a0
  /\ ~s.over =>
       \E l \in 0..(PowerOfTwo[n] - 1) :
         /\ Product(s) = b0 * l /\ Addend(s) = b0 * PowerOfTwo[n]
         /\ Signed(a0) = l + PowerOfTwo[n] * Signed(s.a)

LEMMA TurnMultiplies ==
  ASSUME NEW a0 \in Words, NEW b0 \in Words, NEW n \in 0..(W - 1), NEW s \in MultStates, ~s.over,
         Multiplied(a0, b0, n, s)
  PROVE  Multiplied(a0, b0, n + 1, Turned(s))
  <1> DEFINE M == Modulus
             S == SignBit
             P == PowerOfTwo[n]
             Q == PowerOfTwo[n + 1]
             x == s.a
             g == Signed(x)
             d == x % 2
             h == g \div 2
             t == AddedIfOdd(s)
  <1>1. /\ M \in Nat /\ S \in Nat /\ M = 2 * S /\ S >= 2 /\ Words = 0..(M - 1)
        /\ x \in 0..(M - 1) /\ b0 \in 0..(M - 1) /\ a0 \in 0..(M - 1)
    BY WordIs DEF MultStates
  <1>2. P \in Nat \ {0} /\ Q = 2 * P /\ Q <= M /\ n + 1 \in 0..W
    <2>1. /\ W \in Nat /\ n \in 0..(2 * W) /\ n + 1 \in 1..(2 * W) /\ n + 1 \in 0..(2 * W)
          /\ W \in 0..(2 * W) /\ n + 1 <= W /\ (n + 1) - 1 = n /\ n + 1 \in 0..W
      BY WordIs
    <2>2. Q <= PowerOfTwo[W]
      BY <2>1, PowersRiseByTwo
    <2>3. P \in Nat \ {0} /\ Q = 2 * P
      BY <2>1, PowersOfTwoAre
    <2> QED BY <2>1, <2>2, <2>3 DEF Modulus
  <1>3. g \in Int /\ (g = x \/ g = x - M)
    BY <1>1, SignedIs DEF Signed
  <1>4. PICK l \in 0..(P - 1) : /\ Product(s) = b0 * l /\ Addend(s) = b0 * P
                                /\ Signed(a0) = l + P * g
    BY DEF Multiplied
  <1>5. Product(s) = b0 * l /\ Addend(s) = b0 * P /\ Signed(a0) = l + P * g
    BY <1>4
  <1> DEFINE l2 == l + d * P
  <1> HIDE DEF M, S, P, Q
  <1>6. d \in {0, 1} /\ g = 2 * h + d /\ h \in Int
    <2>1. x = 2 * (x \div 2) + d /\ d \in {0, 1} /\ x \div 2 \in Int
      BY <1>1
    <2>2. g = 2 * h + (g % 2) /\ g % 2 \in {0, 1} /\ h \in Int
      BY <1>3
    <2> HIDE DEF d, h, g, x
    <2> QED BY <1>1, <1>3, <2>1, <2>2
  <1>7. \A k \in 0..M : b0 * k < M * M
    <2> TAKE k \in 0..M
    <2>1. b0 * k <= b0 * M /\ b0 * M = M * M - (M - b0) * M /\ (M - b0) * M >= M
      <3>1. b0 * M = b0 * k + b0 * (M - k) /\ b0 * (M - k) >= 0
        BY <1>1
      <3>2. b0 * M = M * M - (M - b0) * M
        BY <1>1
      <3>3. (M - b0) * M = M + (M - b0 - 1) * M /\ (M - b0 - 1) * M >= 0
        BY <1>1
      <3> QED BY <1>1, <3>1, <3>2, <3>3
    <2>2. M > 0
      BY <1>1
    <2> QED BY <1>1, <2>1, <2>2
  <1> HIDE DEF d, h, g, x
  <1>8. l2 \in 0..(Q - 1) /\ l + P \in 0..M /\ Q \in 0..M
    BY <1>1, <1>2, <1>6
  <1>9. b0 * l + b0 * P = b0 * (l + P) /\ 2 * (b0 * P) = b0 * Q
    BY <1>1, <1>2
  <1>10. Product(t) = b0 * l2 /\ Addend(t) = b0 * P /\ t.a = x /\ t \in MultStates
    <2>1. CASE d = 1
      <3>1. Product(s) + Addend(s) < M * M
        <4>1. Product(s) + Addend(s) = b0 * (l + P)
          BY <1>5, <1>9
        <4> QED BY <1>7, <1>8, <4>1
      <3>2. t = Added(s)
        BY <2>1 DEF AddedIfOdd, d, x
      <3>3. l2 = l + P
        BY <1>2, <2>1
      <3>4. Product(t) = Product(s) + Addend(s) /\ Addend(t) = Addend(s) /\ t.a = x /\ t \in MultStates
        BY <3>1, <3>2, AddedIs DEF M, x
      <3> QED BY <1>5, <1>9, <3>3, <3>4
    <2>2. CASE d = 0
      <3>1. t = s
        BY <2>2 DEF AddedIfOdd, d, x
      <3>2. l2 = l
        BY <1>2, <2>2
      <3> QED BY <1>5, <3>1, <3>2 DEF x
    <2> QED BY <1>6, <2>1, <2>2
  <1> HIDE DEF l2
  <1>11. CASE t.over
    <2>1. d = 1
      <3>1. d = 0 => t = s
        BY DEF AddedIfOdd, d, x
      <3> QED BY <1>6, <1>11, <3>1
    <2>2. x \div 2 = 0
      <3>1. t = Added(s)
        BY <2>1 DEF AddedIfOdd, d, x
      <3> QED BY <1>11, <3>1, AddedIs DEF x
    <2>3. x = 1
      <3>1. x = 2 * (x \div 2) + d
        BY <1>1 DEF d
      <3> QED BY <1>1, <2>1, <2>2, <3>1
    <2>4. g = 1
      BY <1>1, <2>3 DEF g, Signed, Neg, S
    <2>5. Signed(a0) = l2 /\ l2 >= 0
      <3>1. P * g = P
        BY <1>2, <2>4
      <3> QED BY <1>2, <1>5, <2>1, <3>1 DEF l2
    <2>6. a0 = l2
      <3>1. Signed(a0) = a0 \/ Signed(a0) = a0 - M
        BY DEF Signed, M
      <3>2. l2 \in Nat
        BY <1>8, <2>5
      <3> QED BY <1>1, <2>5, <3>1, <3>2 DEF Signed, Neg, S, M
    <2>7. Turned(s) = t
      BY <1>11 DEF Turned
    <2> QED BY <1>10, <1>11, <2>6, <2>7 DEF Multiplied
  <1>12. CASE ~t.over
    <2> DEFINE u == ShiftedOn(t)
    <2>1. Turned(s) = u
      BY <1>12 DEF Turned
    <2>2. 2 * Addend(t) < M * M
      BY <1>7, <1>8, <1>9, <1>10
    <2>3. /\ Product(u) = Product(t) /\ u.over = t.over /\ Addend(u) = 2 * Addend(t)
          /\ Signed(u.a) = h
      BY <1>10, <2>2, ShiftedOnIs DEF M, h, g
    <2>4. Addend(u) = b0 * Q
      BY <1>9, <1>10, <2>3
    <2>5. Signed(a0) = l2 + Q * h
      <3>1. P * g = 2 * (P * h) + P * d /\ P * d = d * P /\ Q * h = 2 * (P * h)
        BY <1>2, <1>6
      <3>2. P * h \in Int /\ d * P \in Int /\ l \in Int
        BY <1>2, <1>6
      <3> QED BY <1>5, <3>1, <3>2 DEF l2
    <2> HIDE DEF u
    <2>6. ~u.over
      BY <1>12, <2>3
    <2> QED BY <1>8, <1>10, <2>1, <2>3, <2>4, <2>5, <2>6 DEF Multiplied, Q
  <1> QED BY <1>11, <1>12

\* The loop of a multiplication, from two magnitudes on.
Magnitude(x, signedArith) == IF signedArith /\ Neg(x) THEN Wrap(-x) ELSE x
FirstState(a0, b0) == [a |-> a0, bLo |-> b0, bHi |-> 0, lo |-> 0, hi |-> 0, over |-> FALSE]
Turning(f, a0, b0) ==
  [i \in 0..W |->
     IF i = 0 THEN FirstState(a0, b0) ELSE IF f[i - 1].over THEN f[i - 1] ELSE Turned(f[i - 1])]
TurnsOf(a0, b0) == CHOOSE f : f = Turning(f, a0, b0)

LEMMA MultipliesIs ==
  ASSUME NEW a0 \in Words, NEW b0 \in Words
  PROVE  /\ TurnsOf(a0, b0)[W] \in MultStates
         /\ Product(TurnsOf(a0, b0)[W]) = b0 * a0
  <1> DEFINE first == FirstState(a0, b0)
             step == [n \in 1..W |-> [s \in MultStates |-> IF s.over THEN s ELSE Turned(s)]]
             turns == TurnsOf(a0, b0)
  <1>1. /\ W \in Nat \ {0} /\ Modulus \in Nat /\ Words = 0..(Modulus - 1) /\ 0 \in Words
        /\ a0 \in Nat /\ b0 \in Nat
    BY WordIs
  <1>2. first \in MultStates /\ step \in StepsOf(MultStates, W)
    <2>1. first \in MultStates
      BY <1>1 DEF FirstState, MultStates
    <2>2. ASSUME NEW n \in 1..W, NEW s \in MultStates
          PROVE  (IF s.over THEN s ELSE Turned(s)) \in MultStates
      BY TurnIsTyped
    <2> QED BY <2>1, <2>2 DEF StepsOf
  <1> HIDE DEF first, step
  <1>3. \E f : IsSeries(f, MultStates, W, first, step)
    BY <1>1, <1>2, RecursiveExists
  <1>4. PICK f \in [0..W -> MultStates] : f[0] = first /\ \A n \in 1..W : f[n] = step[n][f[n - 1]]
    BY <1>3 DEF IsSeries
  <1>5. ASSUME NEW i \in 0..W PROVE f[i] = Turning(f, a0, b0)[i]
    <2>1. CASE i = 0
      BY <1>4, <2>1 DEF Turning, first
    <2>2. CASE i # 0
      <3>1. i \in 1..W /\ i - 1 \in 0..W
        BY <1>1, <1>5, <2>2
      <3>2. f[i - 1] \in MultStates
        BY <1>4, <3>1
      <3>3. step[i][f[i - 1]] = IF f[i - 1].over THEN f[i - 1] ELSE Turned(f[i - 1])
        BY <3>1, <3>2 DEF step
      <3> QED BY <1>4, <2>2, <3>1, <3>3 DEF Turning
    <2> QED BY <2>1, <2>2
  <1>6. f = Turning(f, a0, b0)
    BY <1>4, <1>5 DEF Turning
  <1>7. turns = Turning(turns, a0, b0)
    BY <1>6 DEF TurnsOf
  <1> HIDE DEF turns
  <1>8. turns[0] = first
    BY <1>1, <1>7 DEF Turning, first
  <1>9. ASSUME NEW i \in 1..W
        PROVE  turns[i] = IF turns[i - 1].over THEN turns[i - 1] ELSE Turned(turns[i - 1])
    <2>1. i \in 0..W /\ i # 0
      BY <1>1
    <2> QED BY <1>7, <2>1 DEF Turning
  <1> DEFINE Good == {i \in 0..W : turns[i] \in MultStates /\ Multiplied(a0, b0, i, turns[i])}
  <1>10. 0 \in Good
    <2>1. /\ first \in MultStates /\ first.over = FALSE /\ Product(first) = 0 /\ Addend(first) = b0
          /\ first.a = a0
      BY <1>1, <1>2 DEF FirstState, first, Product, Addend
    <2>2. PowerOfTwo[0] = 1 /\ SignBit \in Nat
      BY PowersOfTwoAre, WordIs
    <2>3. Signed(a0) \in Int
      BY <2>2, SignedIs
    <2>4. 0 \in 0..(PowerOfTwo[0] - 1) /\ b0 * 0 = 0 /\ b0 * PowerOfTwo[0] = b0
          /\ Signed(a0) = 0 + PowerOfTwo[0] * Signed(a0)
      BY <1>1, <2>2, <2>3
    <2>5. Multiplied(a0, b0, 0, first)
      BY <2>1, <2>4 DEF Multiplied
    <2> QED BY <1>1, <1>8, <2>1, <2>5
  <1>11. ASSUME NEW i \in (0 + 1)..W, i - 1 \in Good PROVE i \in Good
    <2> DEFINE s == turns[i - 1]
    <2>1. i \in 1..W /\ i - 1 \in 0..(W - 1) /\ (i - 1) + 1 = i /\ i \in 0..W
      BY <1>1
    <2>2. s \in MultStates /\ Multiplied(a0, b0, i - 1, s)
      BY <1>11
    <2>3. turns[i] = IF s.over THEN s ELSE Turned(s)
      BY <1>9, <2>1
    <2> HIDE DEF s
    <2>4. CASE s.over
      BY <2>1, <2>2, <2>3, <2>4 DEF Multiplied
    <2>5. CASE ~s.over
      <3>1. Multiplied(a0, b0, (i - 1) + 1, Turned(s)) /\ Turned(s) \in MultStates
        BY <2>1, <2>2, <2>5, TurnMultiplies, TurnIsTyped
      <3> QED BY <2>1, <2>3, <2>5, <3>1
    <2> QED BY <2>4, <2>5
  <1>12. \A i \in 0..W : i \in Good
    <2>1. W \in Nat /\ 0 \in Nat /\ 0 \in 0..W
      BY <1>1
    <2> HIDE DEF Good
    <2> QED BY <1>10, <1>11, <2>1, UpTo
  <1> DEFINE s == turns[W]
  <1>13. s \in MultStates /\ Multiplied(a0, b0, W, s)
    BY <1>1, <1>12
  <1> HIDE DEF s
  <1>14. Product(s) = b0 * a0
    <2>1. CASE s.over
      BY <1>13, <2>1 DEF Multiplied
    <2>2. CASE ~s.over
      <3>1. PICK l \in 0..(Modulus - 1) :
               Product(s) = b0 * l /\ Signed(a0) = l + Modulus * Signed(s.a)
        BY <1>13, <2>2 DEF Multiplied, Modulus
      <3>2. s.a \in Words /\ SignBit \in Nat
        BY <1>13, WordIs DEF MultStates
      <3>3. Signed(s.a) \in Int /\ Signed(a0) \in Int
        BY <3>2, SignedIs
      <3>4. Wrap(l + Signed(s.a) * Modulus) = Wrap(l) /\ Wrap(l) = l
        <4>1. l \in Int /\ l \in Words
          BY <1>1
        <4>2. /\ \A n, k \in Int : Wrap(n + k * Modulus) = Wrap(n)
              /\ \A n \in Words : Wrap(n) = n
          BY WrapIs
        <4> QED BY <3>3, <4>1, <4>2
      <3>5. Modulus * Signed(s.a) = Signed(s.a) * Modulus
        BY <1>1, <3>3
      <3>6. Wrap(Signed(a0)) = a0
        BY SignedIs
      <3>7. l = a0
        BY <3>1, <3>4, <3>5, <3>6
      <3> QED BY <3>1, <3>7
    <2> QED BY <2>1, <2>2
  <1> QED BY <1>13, <1>14 DEF s, turns

\* A number and its residue.
LEMMA ResidueIs ==
  ASSUME NEW N \in Nat \ {0}, NEW n \in (-N)..(N - 1)
  PROVE  n % N = IF n < 0 THEN n + N ELSE n
  <1> DEFINE r == n % N
             q == n \div N
  <1>1. r \in 0..(N - 1) /\ q \in Int /\ n = r + q * N
    OBVIOUS
  <1> HIDE DEF r, q
  <1>2. CASE n >= 0
    BY <1>2 DEF r
  <1>3. CASE n < 0
    <2>1. q = -1
      <3>1. CASE q >= 0
        <4>1. q * N >= 0
          BY <1>1, <3>1
        <4> QED BY <1>1, <1>3, <4>1
      <3>2. CASE q <= -2
        <4>1. q * N = -((-q) * N) /\ (-q) * N = 2 * N + ((-q) - 2) * N /\ ((-q) - 2) * N >= 0
          BY <1>1, <3>2
        <4> QED BY <1>1, <4>1
      <3> QED BY <1>1, <3>1, <3>2
    <2>2. n = r - N
      BY <1>1, <2>1
    <2> QED BY <1>1, <1>3, <2>2 DEF r
  <1> QED BY <1>2, <1>3

\* What a multiplication is made of.
LEMMA MultIs ==
  ASSUME NEW x \in Words, NEW y \in Words, NEW signedArith \in BOOLEAN
  PROVE  LET end == TurnsOf(Magnitude(x, signedArith), Magnitude(y, signedArith))[W]
             lo  == Wrap(Inverted(end.lo) + 1)
         IN  /\ x = 0 \/ y = 0 => Mult(x, y, signedArith) = Pair(0, 0)
             /\ x # 0 /\ y # 0 /\ signedArith /\ Neg(x) # Neg(y) =>
                  Mult(x, y, signedArith) =
                    Pair(Wrap(Inverted(end.hi) + (IF lo = 0 THEN 1 ELSE 0)), lo)
             /\ x # 0 /\ y # 0 /\ ~(signedArith /\ Neg(x) # Neg(y)) =>
                  Mult(x, y, signedArith) = Pair(end.hi, end.lo)
  <1> DEFINE end == TurnsOf(Magnitude(x, signedArith), Magnitude(y, signedArith))[W]
             lo  == Wrap(Inverted(end.lo) + 1)
  <1>1. Mult(x, y, signedArith) =
          CASE x = 0 \/ y = 0 -> Pair(0, 0)
            [] signedArith /\ Neg(x) # Neg(y) /\ x # 0 /\ y # 0 ->
                 Pair(Wrap(Inverted(end.hi) + (IF lo = 0 THEN 1 ELSE 0)), lo)
            [] OTHER -> Pair(end.hi, end.lo)
    BY Zenon DEF Mult, TurnsOf, Turning, FirstState, Turned, AddedIfOdd, Magnitude
  <1> HIDE DEF end
  <1>2. \/ x = 0 \/ y = 0
        \/ signedArith /\ Neg(x) # Neg(y) /\ x # 0 /\ y # 0
        \/ x # 0 /\ y # 0 /\ ~(signedArith /\ Neg(x) # Neg(y))
    OBVIOUS
  <1> QED BY <1>1, <1>2 DEF end

\* The magnitude of a word is its distance from zero.
LEMMA MagnitudeIs ==
  ASSUME NEW x \in Words, NEW signedArith \in BOOLEAN
  PROVE  /\ Magnitude(x, signedArith) \in Words
         /\ Magnitude(x, signedArith) = IF signedArith THEN Distance0(Signed(x)) ELSE x
  <1>1. /\ Modulus \in Nat \ {0} /\ SignBit \in Nat /\ Modulus = 2 * SignBit /\ SignBit >= 2
        /\ Words = 0..(Modulus - 1)
    BY WordIs
  <1>2. (Neg(x) <=> x >= SignBit) /\ Signed(x) = IF x >= SignBit THEN x - Modulus ELSE x
    BY DEF Neg, Signed
  <1>3. CASE signedArith /\ x >= SignBit
    <2>1. -x \in -Modulus..-1
      BY <1>1, <1>3
    <2>2. Wrap(-x) = -x + Modulus
      BY <2>1, WrapIs
    <2> QED BY <1>1, <1>2, <1>3, <2>2 DEF Magnitude, Distance0
  <1>4. CASE ~(signedArith /\ x >= SignBit)
    <2>1. Magnitude(x, signedArith) = x
      BY <1>2, <1>4 DEF Magnitude
    <2> QED BY <1>1, <1>2, <1>4, <2>1 DEF Distance0
  <1> QED BY <1>3, <1>4

\* The double word whose halves are the negation of another, word by word.
LEMMA DoubleNegatedIs ==
  ASSUME NEW hi \in Words, NEW lo \in Words, hi # 0 \/ lo # 0,
         NEW lo2, lo2 = Wrap(Inverted(lo) + 1),
         NEW hi2, hi2 = Wrap(Inverted(hi) + (IF lo2 = 0 THEN 1 ELSE 0))
  PROVE  hi2 * Modulus + lo2 = Modulus * Modulus - (hi * Modulus + lo)
  <1> DEFINE M == Modulus
             carry == IF lo2 = 0 THEN 1 ELSE 0
  <1>1. M \in Nat \ {0} /\ hi \in 0..(M - 1) /\ lo \in 0..(M - 1) /\ Words = 0..(M - 1)
    BY WordIs
  <1>2. /\ \A n \in 0..(M - 1) : Wrap(n) = n
        /\ \A n \in M..(2 * M - 1) : Wrap(n) = n - M
    BY <1>1, WrapIs
  <1>3. /\ Inverted(lo) + 1 = M - lo /\ Inverted(hi) = M - 1 - hi /\ hi2 = Wrap(Inverted(hi) + carry)
    BY <1>1 DEF Inverted
  <1> HIDE DEF M, carry
  <1>4. /\ lo2 = (IF lo = 0 THEN 0 ELSE M - lo)
        /\ carry = (IF lo = 0 THEN 1 ELSE 0)
    <2>1. CASE lo = 0
      <3>1. M - lo \in M..(2 * M - 1) /\ M - lo = M
        BY <1>1, <2>1
      <3>2. lo2 = 0
        BY <1>1, <1>2, <1>3, <3>1
      <3> QED BY <2>1, <3>2 DEF carry
    <2>2. CASE lo # 0
      <3>1. M - lo \in 0..(M - 1)
        BY <1>1, <2>2
      <3>2. lo2 = M - lo /\ lo2 # 0
        BY <1>1, <1>2, <1>3, <3>1
      <3> QED BY <2>2, <3>2 DEF carry
    <2> QED BY <2>1, <2>2
  <1>5. M - 1 - hi + carry \in 0..(M - 1)
    BY <1>1, <1>4
  <1>6. hi2 = M - 1 - hi + carry
    BY <1>2, <1>3, <1>5
  <1>7. hi2 * M = M * M - M - hi * M + carry * M
    <2>1. (M - 1 - hi + carry) * M = M * M - M - hi * M + carry * M
      BY <1>1, <1>4
    <2> QED BY <1>6, <2>1
  <1>8. hi2 * M + lo2 = M * M - (hi * M + lo)
    <2> DEFINE all == M * M
               h == hi * M
               h2 == hi2 * M
    <2>1. all \in Int /\ h \in Int /\ h2 \in Int /\ h2 = all - M - h + carry * M
      BY <1>1, <1>4, <1>6, <1>7
    <2> HIDE DEF all, h, h2
    <2>2. h2 + lo2 = all - (h + lo)
      BY <1>1, <1>4, <2>1
    <2> QED BY <2>2 DEF all, h, h2
  <1> QED BY <1>8 DEF M

\* A product of two distances, with its sign, as a double word.
LEMMA SignedProductIs ==
  ASSUME NEW N \in Nat \ {0}, NEW a \in Int, NEW b \in Int,
         Distance0(b) * Distance0(a) < N
  PROVE  /\ (a < 0 <=> b < 0) => (a * b) % N = Distance0(b) * Distance0(a)
         /\ ~(a < 0 <=> b < 0) /\ a # 0 /\ b # 0 =>
              /\ (a * b) % N = N - Distance0(b) * Distance0(a)
              /\ Distance0(b) * Distance0(a) # 0
         /\ a = 0 \/ b = 0 => (a * b) % N = 0
  <1> DEFINE n == Distance0(a)
             m == Distance0(b)
             p == m * n
  <1>1. n \in Nat /\ m \in Nat /\ (a < 0 => a = -n) /\ (a >= 0 => a = n)
        /\ (b < 0 => b = -m) /\ (b >= 0 => b = m)
    BY DEF Distance0
  <1>2. p < N
    OBVIOUS
  <1> HIDE DEF n, m
  <1>3. p \in Nat
    BY <1>1
  <1>4. ASSUME a < 0 <=> b < 0 PROVE (a * b) % N = p
    <2>1. a * b = p
      <3>1. CASE a < 0
        <4>1. a * b = (-n) * (-m) /\ (-n) * (-m) = n * m /\ n * m = p
          BY <1>1, <1>4, <3>1
        <4> QED BY <4>1
      <3>2. CASE a >= 0
        <4>1. a * b = n * m /\ n * m = p
          BY <1>1, <1>4, <3>2
        <4> QED BY <4>1
      <3> QED BY <3>1, <3>2
    <2>2. p \in (-N)..(N - 1) /\ ~(p < 0)
      BY <1>2, <1>3
    <2> HIDE DEF p
    <2> QED BY <2>1, <2>2, ResidueIs
  <1>5. ASSUME ~(a < 0 <=> b < 0), a # 0, b # 0 PROVE (a * b) % N = N - p /\ p # 0
    <2>1. a * b = -p
      <3>1. CASE a < 0
        <4>1. a * b = (-n) * m /\ (-n) * m = -(n * m) /\ n * m = p
          BY <1>1, <1>5, <3>1
        <4> QED BY <4>1
      <3>2. CASE a >= 0
        <4>1. a * b = n * (-m) /\ n * (-m) = -(n * m) /\ n * m = p
          BY <1>1, <1>5, <3>2
        <4> QED BY <4>1
      <3> QED BY <3>1, <3>2
    <2>2. p # 0
      <3>1. n >= 1 /\ m >= 1
        BY <1>1, <1>5
      <3>2. m * n = n + (m - 1) * n /\ (m - 1) * n >= 0
        BY <1>1, <3>1
      <3> QED BY <1>1, <3>1, <3>2
    <2>3. -p \in (-N)..(N - 1) /\ -p < 0
      BY <1>2, <1>3, <2>2
    <2> HIDE DEF p
    <2>4. (-p) % N = -p + N
      BY <2>3, ResidueIs
    <2> QED BY <1>3, <2>1, <2>2, <2>4
  <1>6. ASSUME a = 0 \/ b = 0 PROVE (a * b) % N = 0
    <2>1. a * b = 0
      BY <1>6
    <2> QED BY <2>1
  <1> QED BY <1>4, <1>5, <1>6 DEF n, m

\* Two distances from zero have a double word for product.
LEMMA ProductFits ==
  ASSUME NEW x \in Words, NEW y \in Words
  PROVE  y * x < Modulus * Modulus
  <1> DEFINE M == Modulus
  <1>1. M \in Nat \ {0} /\ x \in 0..(M - 1) /\ y \in 0..(M - 1)
    BY WordIs
  <1> HIDE DEF M
  <1>2. y * M = y * x + y * (M - x) /\ y * (M - x) >= 0 /\ y * x \in Int /\ y * (M - x) \in Int
    BY <1>1
  <1>3. M * M = y * M + (M - y) * M /\ (M - y) * M \in Int /\ y * M \in Int /\ M * M \in Int
    BY <1>1
  <1>4. (M - y) * M = M + (M - y - 1) * M /\ (M - y - 1) * M >= 0 /\ (M - y - 1) * M \in Int
    BY <1>1
  <1> DEFINE p == y * x
             q == y * (M - x)
             r == (M - y - 1) * M
             all == M * M
  <1>5. /\ all = (p + q) + (M + r) /\ p \in Int /\ q \in Int /\ r \in Int /\ q >= 0 /\ r >= 0
        /\ all \in Int
    BY <1>2, <1>3, <1>4
  <1> HIDE DEF p, q, r, all
  <1>6. p < all
    BY <1>1, <1>5
  <1> QED BY <1>6 DEF p, all, M

\* A product is exact, and its low word the product of the words.
LEMMA UnsignedProductsAreExact ==
  ASSUME NEW x \in Words, NEW y \in Words
  PROVE  /\ \E hi, lo \in Words : Mult(x, y, FALSE) = Pair(hi, lo) /\ lo = Wrap(x * y)
         /\ Mult(x, y, FALSE)[2] * Modulus + Mult(x, y, FALSE)[3] = x * y
  <1> DEFINE no == FALSE
             end == TurnsOf(x, y)[W]
  <1>1. Modulus \in Nat \ {0} /\ x \in Nat /\ y \in Nat /\ 0 \in Words
    BY WordIs
  <1>2. no \in BOOLEAN /\ ~no
    OBVIOUS
  <1> HIDE DEF no
  <1>3. Magnitude(x, no) = x /\ Magnitude(y, no) = y
    BY <1>2 DEF Magnitude
  <1>4. /\ x = 0 \/ y = 0 => Mult(x, y, no) = Pair(0, 0)
        /\ x # 0 /\ y # 0 => Mult(x, y, no) = Pair(end.hi, end.lo)
    BY <1>2, <1>3, MultIs
  <1>5. end.hi \in Words /\ end.lo \in Words /\ end.hi * Modulus + end.lo = y * x
    BY MultipliesIs DEF MultStates, Product
  <1> HIDE DEF end
  <1> DEFINE Exactly == /\ \E hi, lo \in Words : Mult(x, y, no) = Pair(hi, lo) /\ lo = Wrap(x * y)
                        /\ Mult(x, y, no)[2] * Modulus + Mult(x, y, no)[3] = x * y
  <1>6. ASSUME x = 0 \/ y = 0 PROVE Exactly
    <2>1. x * y = 0 /\ Wrap(0) = 0 /\ 0 * Modulus + 0 = 0
      BY <1>1, <1>6, WrapIs
    <2>2. Mult(x, y, no) = Pair(0, 0)
      BY <1>4, <1>6
    <2> QED BY <1>1, <2>1, <2>2, ResultsAre
  <1>7. ASSUME x # 0, y # 0 PROVE Exactly
    <2>1. Mult(x, y, no) = Pair(end.hi, end.lo)
      BY <1>4, <1>7
    <2>2. y * x = x * y /\ end.hi \in Int /\ end.lo \in Int
      <3>1. x \in Int /\ y \in Int /\ \A n \in Words : n \in Int
        BY WordIs
      <3>2. end.hi \in Int /\ end.lo \in Int
        BY <1>5, <3>1
      <3>3. y * x = x * y
        BY <3>1
      <3> QED BY <3>2, <3>3
    <2>3. Wrap(end.lo + end.hi * Modulus) = Wrap(end.lo) /\ Wrap(end.lo) = end.lo
      BY <1>5, <2>2, WrapIs
    <2>4. end.lo + end.hi * Modulus = x * y
      BY <1>1, <1>5, <2>2
    <2>5. end.lo = Wrap(x * y)
      BY <2>3, <2>4
    <2> QED BY <1>5, <2>1, <2>2, <2>5, ResultsAre
  <1>8. Exactly
    BY <1>6, <1>7
  <1> QED BY Zenon, <1>8 DEF no

LEMMA SignedProductsAreExact ==
  ASSUME NEW x \in Words, NEW y \in Words
  PROVE  /\ Mult(x, y, TRUE)[2] * Modulus + Mult(x, y, TRUE)[3] =
              (Signed(x) * Signed(y)) % (Modulus * Modulus)
         /\ \E hi, lo \in Words :
              /\ Mult(x, y, TRUE) = Pair(hi, lo)
              /\ lo = IF Neg(x) = Neg(y) THEN Wrap(Magnitude(x, TRUE) * Magnitude(y, TRUE))
                      ELSE Wrap(Inverted(Wrap(Magnitude(x, TRUE) * Magnitude(y, TRUE))) + 1)
  <1> DEFINE yes == TRUE
             a == Signed(x)
             b == Signed(y)
             n == Magnitude(x, yes)
             m == Magnitude(y, yes)
             end == TurnsOf(n, m)[W]
             lo2 == Wrap(Inverted(end.lo) + 1)
             hi2 == Wrap(Inverted(end.hi) + (IF lo2 = 0 THEN 1 ELSE 0))
             N == Modulus * Modulus
  <1>1. Modulus \in Nat \ {0} /\ Modulus >= 2 /\ x \in Nat /\ y \in Nat /\ 0 \in Words
        /\ Words = 0..(Modulus - 1)
    BY WordIs
  <1>2. yes \in BOOLEAN /\ yes
    OBVIOUS
  <1> HIDE DEF yes
  <1>3. n \in Words /\ m \in Words /\ n = Distance0(a) /\ m = Distance0(b)
    BY <1>2, MagnitudeIs
  <1>4. /\ x = 0 \/ y = 0 => Mult(x, y, yes) = Pair(0, 0)
        /\ x # 0 /\ y # 0 /\ Neg(x) # Neg(y) => Mult(x, y, yes) = Pair(hi2, lo2)
        /\ x # 0 /\ y # 0 /\ ~(Neg(x) # Neg(y)) => Mult(x, y, yes) = Pair(end.hi, end.lo)
    BY <1>2, MultIs
  <1>5. a \in Int /\ b \in Int /\ (a = 0 <=> x = 0) /\ (b = 0 <=> y = 0)
        /\ (Neg(x) <=> a < 0) /\ (Neg(y) <=> b < 0)
    <2>1. SignBit \in Nat
      BY WordIs
    <2>2. a \in Int /\ b \in Int
      BY <2>1, SignedIs
    <2>3. (a = 0 <=> x = 0) /\ (b = 0 <=> y = 0) /\ (Neg(x) <=> a < 0) /\ (Neg(y) <=> b < 0)
      BY SignedIs
    <2> QED BY <2>2, <2>3
  <1>6. N \in Nat \ {0}
    <2>1. Modulus * Modulus = Modulus + (Modulus - 1) * Modulus /\ (Modulus - 1) * Modulus >= 0
      BY <1>1
    <2> QED BY <1>1, <2>1
  <1> HIDE DEF n, m, a, b, end
  <1>7. end.hi \in Words /\ end.lo \in Words /\ end.hi * Modulus + end.lo = m * n
    BY <1>3, MultipliesIs DEF MultStates, Product, end
  <1>8. Distance0(b) * Distance0(a) < N
    BY <1>3, ProductFits
  <1> HIDE DEF N
  <1>9. /\ (a < 0 <=> b < 0) => (a * b) % N = m * n
        /\ ~(a < 0 <=> b < 0) /\ a # 0 /\ b # 0 => (a * b) % N = N - m * n /\ m * n # 0
        /\ a = 0 \/ b = 0 => (a * b) % N = 0
    BY <1>3, <1>5, <1>6, <1>8, SignedProductIs
  <1>10. Wrap(n * m) = end.lo
    <2>1. end.hi \in Int /\ end.lo \in Int /\ n \in Int /\ m \in Int
      BY <1>1, <1>3, <1>7
    <2>2. Wrap(end.lo + end.hi * Modulus) = Wrap(end.lo) /\ Wrap(end.lo) = end.lo
      BY <1>7, <2>1, WrapIs
    <2>3. end.lo + end.hi * Modulus = n * m
      BY <1>1, <1>7, <2>1
    <2> QED BY <2>2, <2>3
  <1>11. hi2 \in Words /\ lo2 \in Words
    <2>1. Inverted(end.lo) + 1 \in Int
      BY <1>1, <1>7 DEF Inverted
    <2>2. Inverted(end.hi) + (IF lo2 = 0 THEN 1 ELSE 0) \in Int
      BY <1>1, <1>7 DEF Inverted
    <2> QED BY <2>1, <2>2, WrapIs
  <1> DEFINE low == IF Neg(x) = Neg(y) THEN Wrap(n * m) ELSE Wrap(Inverted(Wrap(n * m)) + 1)
  <1> DEFINE Exactly == /\ Mult(x, y, yes)[2] * Modulus + Mult(x, y, yes)[3] = (a * b) % N
                        /\ \E hi, lo \in Words : Mult(x, y, yes) = Pair(hi, lo) /\ lo = low
  <1>12. ASSUME x = 0 \/ y = 0 PROVE Exactly
    <2>1. Mult(x, y, yes) = Pair(0, 0)
      BY <1>4, <1>12
    <2>2. n * m = 0
      <3>1. n = 0 \/ m = 0
        BY <1>3, <1>5, <1>12 DEF Distance0
      <3>2. n \in Int /\ m \in Int
        BY <1>1, <1>3
      <3> QED BY <3>1, <3>2
    <2>3. Wrap(0) = 0 /\ Wrap(Modulus) = 0
      <3>1. Modulus \in Modulus..(2 * Modulus - 1)
        BY <1>1
      <3>2. Wrap(0) = 0 /\ Wrap(Modulus) = Modulus - Modulus
        BY <1>1, <3>1, WrapIs
      <3> QED BY <1>1, <3>2
    <2>4. Inverted(0) + 1 = Modulus
      BY <1>1 DEF Inverted
    <2>5. low = 0
      BY <2>2, <2>3, <2>4
    <2>6. (a * b) % N = 0 /\ 0 * Modulus + 0 = 0
      BY <1>1, <1>5, <1>9, <1>12
    <2> HIDE DEF low
    <2> QED BY <1>1, <2>1, <2>5, <2>6, ResultsAre
  <1>13. ASSUME x # 0, y # 0, Neg(x) = Neg(y) PROVE Exactly
    <2>1. Mult(x, y, yes) = Pair(end.hi, end.lo)
      BY <1>4, <1>13
    <2>2. a < 0 <=> b < 0
      BY <1>5, <1>13
    <2>3. (a * b) % N = end.hi * Modulus + end.lo
      BY <1>7, <1>9, <2>2
    <2>4. low = end.lo
      BY <1>10, <1>13
    <2> HIDE DEF low
    <2> QED BY <1>7, <2>1, <2>3, <2>4, ResultsAre
  <1>14. ASSUME x # 0, y # 0, Neg(x) # Neg(y) PROVE Exactly
    <2>1. Mult(x, y, yes) = Pair(hi2, lo2)
      BY <1>4, <1>14
    <2>2. ~(a < 0 <=> b < 0)
      BY <1>5, <1>14 DEF Neg
    <2>3. (a * b) % N = N - m * n /\ m * n # 0
      BY <1>5, <1>9, <1>14, <2>2
    <2>4. end.hi # 0 \/ end.lo # 0
      <3>1. ASSUME end.hi = 0, end.lo = 0 PROVE FALSE
        <4>1. end.hi * Modulus + end.lo = 0
          BY <1>1, <3>1
        <4> QED BY <1>7, <2>3, <4>1
      <3> QED BY <3>1
    <2>5. hi2 * Modulus + lo2 = Modulus * Modulus - (end.hi * Modulus + end.lo)
      BY <1>7, <2>4, DoubleNegatedIs
    <2>6. (a * b) % N = hi2 * Modulus + lo2
      BY <1>7, <2>3, <2>5 DEF N
    <2>7. low = lo2
      BY <1>10, <1>14
    <2> HIDE DEF low, hi2, lo2
    <2> QED BY <1>11, <2>1, <2>6, <2>7, ResultsAre
  <1> HIDE DEF low
  <1>15. Exactly
    BY <1>12, <1>13, <1>14
  <1> QED BY Zenon, <1>15 DEF low, a, b, N, yes, n, m

\* LUI shifts the low half alone: the extension of its sign falls off.
LEMMA UpperIs ==
  ASSUME NEW y \in Words
  PROVE  Wrap(Extended(y) * PowerOfTwo[Half]) = Wrap(y * PowerOfTwo[Half])
  <1> DEFINE H == PowerOfTwo[Half]
             M == Modulus
             e == Extended(y)
  <1>1. H \in Nat /\ H * H = M /\ M \in Nat /\ y \in Int
    BY WordIs
  <1>2. /\ e \in Words /\ Low(y) \in Words /\ (e = Low(y) \/ e = Wrap(Low(y) - H))
        /\ \E k \in Int : y = Low(y) + k * H
    BY ExtendedIs
  <1>3. e \in Int /\ Low(y) \in Int
    BY <1>2, WordIs
  <1>4. /\ \A n, k \in Int : Wrap(n + k * M) = Wrap(n)
        /\ \A n \in Int : \E k \in Int : n = Wrap(n) + k * M
    BY WrapIs
  <1> HIDE DEF H, M, e
  <1>5. PICK j \in Int : y = Low(y) + j * H
    BY <1>2
  <1>6. \E k \in Int : y = e + k * H
    <2>1. CASE e = Low(y)
      BY <1>5, <2>1
    <2>2. CASE e = Wrap(Low(y) - H)
      <3>1. Low(y) - H \in Int
        BY <1>1, <1>3
      <3>2. PICK k \in Int : Low(y) - H = e + k * M
        BY <1>4, <2>2, <3>1
      <3>3. y = e + (k * H + 1 + j) * H
        <4>1. (k * H + 1 + j) * H = (k * H) * H + H + j * H /\ (k * H) * H = k * M
          BY <1>1
        <4>2. k * M \in Int /\ j * H \in Int
          BY <1>1
        <4> QED BY <1>1, <1>3, <1>5, <3>2, <4>1, <4>2
      <3>4. k * H + 1 + j \in Int
        BY <1>1
      <3> QED BY <3>3, <3>4
    <2> QED BY <1>2, <2>1, <2>2
  <1>7. PICK k \in Int : y = e + k * H
    BY <1>6
  <1>8. y * H = e * H + k * M
    <2>1. (e + k * H) * H = e * H + k * (H * H)
      BY <1>1, <1>3
    <2> QED BY <1>1, <1>7, <2>1
  <1>9. e * H \in Int
    BY <1>1, <1>3
  <1>10. Wrap(y * H) = Wrap(e * H)
    BY <1>4, <1>8, <1>9
  <1> QED BY <1>10 DEF H, e

\* A right shift that copies the sign is the other one, where there is no sign or
\* no shift.
LEMMA RightShiftIs ==
  ASSUME NEW x \in Words, NEW n \in 0..(W - 1), ~Neg(x) \/ n = 0
  PROVE  Arithmetic(x, n) = Logical(x, n)
  <1>1. /\ Modulus \in Nat /\ Words = 0..(Modulus - 1) /\ SignBit \in Nat /\ W \in Nat
    BY WordIs
  <1>2. PowerOfTwo[n] \in Nat \ {0} /\ PowerOfTwo[0] = 1
    <2>1. n \in 0..(2 * W)
      BY <1>1
    <2> QED BY <2>1, PowersOfTwoAre
  <1>3. CASE ~Neg(x)
    <2> DEFINE p == PowerOfTwo[n]
               d == x \div p
    <2>1. p \in Nat \ {0} /\ x \in Nat
      BY <1>1, <1>2
    <2> HIDE DEF p
    <2>2. x = d * p + (x % p) /\ d \in Nat /\ x % p >= 0 /\ x % p \in Int
      BY <2>1
    <2> HIDE DEF d
    <2>3. d * p = d + d * (p - 1) /\ d * (p - 1) >= 0
      BY <2>1, <2>2
    <2>4. d <= x
      BY <2>1, <2>2, <2>3
    <2>5. d \in Words
      BY <1>1, <2>1, <2>2, <2>4
    <2>6. Wrap(d) = d
      BY <2>5, WrapIs
    <2>7. Signed(x) = x
      BY <1>3 DEF Signed
    <2> QED BY <2>6, <2>7 DEF Arithmetic, Logical, d, p
  <1>4. CASE n = 0
    <2>1. Signed(x) \in Int /\ Wrap(Signed(x)) = x /\ x \in Int
      BY <1>1, SignedIs
    <2>2. Signed(x) \div 1 = Signed(x) /\ x \div 1 = x
      BY <2>1
    <2> QED BY <1>2, <1>4, <2>1, <2>2 DEF Arithmetic, Logical
  <1> QED BY <1>3, <1>4

\* The two multiplications.
SignedMult(x, y) == Mult(x, y, TRUE)
UnsignedMult(x, y) == Mult(x, y, FALSE)
SignedMagnitude(x) == IF Neg(x) THEN Wrap(-x) ELSE x

LEMMA MultsAreExact ==
  ASSUME NEW x \in Words, NEW y \in Words
  PROVE  /\ UnsignedMult(x, y)[2] * Modulus + UnsignedMult(x, y)[3] = x * y
         /\ \E hi, lo \in Words : UnsignedMult(x, y) = Pair(hi, lo) /\ lo = Wrap(x * y)
         /\ SignedMult(x, y)[2] * Modulus + SignedMult(x, y)[3] =
              (Signed(x) * Signed(y)) % (Modulus * Modulus)
         /\ \E hi, lo \in Words :
              /\ SignedMult(x, y) = Pair(hi, lo)
              /\ lo = IF Neg(x) = Neg(y) THEN Wrap(SignedMagnitude(x) * SignedMagnitude(y))
                      ELSE Wrap(Inverted(Wrap(SignedMagnitude(x) * SignedMagnitude(y))) + 1)
  <1>1. \A w : Magnitude(w, TRUE) = SignedMagnitude(w)
    BY DEF Magnitude, SignedMagnitude
  <1>2. /\ UnsignedMult(x, y)[2] * Modulus + UnsignedMult(x, y)[3] = x * y
        /\ \E hi, lo \in Words : UnsignedMult(x, y) = Pair(hi, lo) /\ lo = Wrap(x * y)
    BY Zenon, UnsignedProductsAreExact DEF UnsignedMult
  <1>3. /\ SignedMult(x, y)[2] * Modulus + SignedMult(x, y)[3] =
             (Signed(x) * Signed(y)) % (Modulus * Modulus)
        /\ \E hi, lo \in Words :
             /\ SignedMult(x, y) = Pair(hi, lo)
             /\ lo = IF Neg(x) = Neg(y) THEN Wrap(SignedMagnitude(x) * SignedMagnitude(y))
                     ELSE Wrap(Inverted(Wrap(SignedMagnitude(x) * SignedMagnitude(y))) + 1)
    <2> DEFINE a == Magnitude(x, TRUE)
               b == Magnitude(y, TRUE)
               product == Mult(x, y, TRUE)
    <2>1. /\ product[2] * Modulus + product[3] = (Signed(x) * Signed(y)) % (Modulus * Modulus)
          /\ \E hi, lo \in Words :
               /\ product = Pair(hi, lo)
               /\ lo = IF Neg(x) = Neg(y) THEN Wrap(a * b)
                       ELSE Wrap(Inverted(Wrap(a * b)) + 1)
      BY Zenon, SignedProductsAreExact
    <2>2. a = SignedMagnitude(x) /\ b = SignedMagnitude(y) /\ product = SignedMult(x, y)
      BY Zenon, <1>1 DEF SignedMult
    <2> HIDE DEF a, b, product
    <2> QED BY Zenon, <2>1, <2>2
  <1> QED BY Zenon, <1>2, <1>3

\* The instructions by kind, as both simulators tell them apart.
LEMMA KindsAre ==
  ASSUME NEW op \in Ops, NEW x, NEW y
  PROVE  /\ op \in ArithmeticOps => /\ Simulated(op, x, y) = SimulatedArithmetic(op, x, y)
                                    /\ Executed(op, x, y) = ExecutedArithmetic(op, x, y)
         /\ op \in LogicOps => /\ Simulated(op, x, y) = SimulatedLogic(op, x, y)
                               /\ Executed(op, x, y) = ExecutedLogic(op, x, y)
         /\ op \in ShiftOps => /\ Simulated(op, x, y) = SimulatedShift(op, x, y)
                               /\ Executed(op, x, y) = ExecutedShift(op, x, y)
         /\ op \in CompareOps => /\ Simulated(op, x, y) = SimulatedCompare(op, x, y)
                                 /\ Executed(op, x, y) = ExecutedCompare(op, x, y)
  <1>1. /\ op \in ArithmeticOps => op \notin LogicOps /\ op \notin ShiftOps /\ op \notin CompareOps
        /\ op \in LogicOps => op \notin ArithmeticOps /\ op \notin ShiftOps /\ op \notin CompareOps
        /\ op \in ShiftOps => op \notin ArithmeticOps /\ op \notin LogicOps /\ op \notin CompareOps
        /\ op \in CompareOps => op \notin ArithmeticOps /\ op \notin LogicOps /\ op \notin ShiftOps
    BY DEF ArithmeticOps, LogicOps, ShiftOps, CompareOps
  <1> QED BY <1>1 DEF Simulated, Executed

\* The instructions of arithmetic one by one.
LEMMA ArithmeticIs ==
  ASSUME NEW op \in ArithmeticOps, NEW x, NEW y
  PROVE  /\ op = "ADD" => /\ Simulated(op, x, y) = AddTrapping(x, y)
                          /\ Executed(op, x, y) = Value(Wrap(x + y))
         /\ op = "ADDI" => /\ Simulated(op, x, y) = AddTrapping(x, Extended(y))
                           /\ Executed(op, x, y) = Value(Wrap(x + Extended(y)))
         /\ op = "ADDIU" => Simulated(op, x, y) = Executed(op, x, y)
         /\ op = "ADDU" => Simulated(op, x, y) = Executed(op, x, y)
         /\ op = "SUB" => /\ Simulated(op, x, y) = SubTrapping(x, y)
                          /\ Executed(op, x, y) = Value(Wrap(x - y))
         /\ op = "SUBU" => Simulated(op, x, y) = Executed(op, x, y)
         /\ op = "DIV" => /\ Simulated(op, x, y) = DivSigned(x, y)
                          /\ y # 0 => Executed(op, x, y) = DivSigned(x, y)
         /\ op = "DIVU" => /\ Simulated(op, x, y) = DivUnsigned(x, y)
                           /\ y # 0 => Executed(op, x, y) = DivUnsigned(x, y)
         /\ op = "MULT" => /\ Simulated(op, x, y) = SignedMult(x, y)
                           /\ Executed(op, x, y) = ExecutedMult(x, y)
         /\ op = "MULTU" => /\ Simulated(op, x, y) = UnsignedMult(x, y)
                            /\ Executed(op, x, y) = Pair(HighProduct(x, y), Wrap(x * y))
  <1>1. /\ Simulated(op, x, y) = SimulatedArithmetic(op, x, y)
        /\ Executed(op, x, y) = ExecutedArithmetic(op, x, y)
    BY KindsAre DEF Ops
  <1>2. SimulatedArithmetic(op, x, y) =
          CASE op = "ADD" -> AddTrapping(x, y)
            [] op = "ADDI" -> AddTrapping(x, Extended(y))
            [] op = "ADDIU" -> Value(Wrap(x + Extended(y)))
            [] op = "ADDU" -> Value(Wrap(x + y))
            [] op = "SUB" -> SubTrapping(x, y)
            [] op = "SUBU" -> Value(Wrap(x - y))
            [] op = "DIV" -> DivSigned(x, y)
            [] op = "DIVU" -> DivUnsigned(x, y)
            [] op = "MULT" -> SignedMult(x, y)
            [] op = "MULTU" -> UnsignedMult(x, y)
    BY Zenon DEF SimulatedArithmetic, SignedMult, UnsignedMult
  <1>3. /\ op = "ADD" => SimulatedArithmetic(op, x, y) = AddTrapping(x, y)
        /\ op = "ADDI" => SimulatedArithmetic(op, x, y) = AddTrapping(x, Extended(y))
        /\ op = "ADDIU" => SimulatedArithmetic(op, x, y) = Value(Wrap(x + Extended(y)))
        /\ op = "ADDU" => SimulatedArithmetic(op, x, y) = Value(Wrap(x + y))
        /\ op = "SUB" => SimulatedArithmetic(op, x, y) = SubTrapping(x, y)
        /\ op = "SUBU" => SimulatedArithmetic(op, x, y) = Value(Wrap(x - y))
        /\ op = "DIV" => SimulatedArithmetic(op, x, y) = DivSigned(x, y)
        /\ op = "DIVU" => SimulatedArithmetic(op, x, y) = DivUnsigned(x, y)
        /\ op = "MULT" => SimulatedArithmetic(op, x, y) = SignedMult(x, y)
        /\ op = "MULTU" => SimulatedArithmetic(op, x, y) = UnsignedMult(x, y)
    BY <1>2
  <1>4. /\ op = "ADD" => ExecutedArithmetic(op, x, y) = Value(Wrap(x + y))
        /\ op = "ADDI" => ExecutedArithmetic(op, x, y) = Value(Wrap(x + Extended(y)))
        /\ op = "ADDIU" => ExecutedArithmetic(op, x, y) = Value(Wrap(x + Extended(y)))
        /\ op = "ADDU" => ExecutedArithmetic(op, x, y) = Value(Wrap(x + y))
        /\ op = "SUB" => ExecutedArithmetic(op, x, y) = Value(Wrap(x - y))
        /\ op = "SUBU" => ExecutedArithmetic(op, x, y) = Value(Wrap(x - y))
        /\ op = "DIV" /\ y # 0 => ExecutedArithmetic(op, x, y) = DivSigned(x, y)
        /\ op = "DIVU" /\ y # 0 => ExecutedArithmetic(op, x, y) = DivUnsigned(x, y)
        /\ op = "MULT" => ExecutedArithmetic(op, x, y) = ExecutedMult(x, y)
        /\ op = "MULTU" => ExecutedArithmetic(op, x, y) = Pair(HighProduct(x, y), Wrap(x * y))
    BY DEF ExecutedArithmetic
  <1> QED BY <1>1, <1>3, <1>4

\* What the simulator computes is what arithmetic defines.
LEMMA InstructionsAreExact ==
  ASSUME NEW op \in Ops, NEW x \in Words, NEW y \in Words
  PROVE  Exact(op, x, y, Simulated(op, x, y))
  <1> DEFINE r == Simulated(op, x, y)
  <1>1. /\ op = "ADD" => r = AddTrapping(x, y)
        /\ op = "ADDI" => r = AddTrapping(x, Extended(y))
        /\ op = "SUB" => r = SubTrapping(x, y)
        /\ op = "DIV" => r = DivSigned(x, y)
        /\ op = "DIVU" => r = DivUnsigned(x, y)
        /\ op = "MULT" => r = SignedMult(x, y)
        /\ op = "MULTU" => r = UnsignedMult(x, y)
    <2>1. op \in {"ADD", "ADDI", "SUB", "DIV", "DIVU", "MULT", "MULTU"} => op \in ArithmeticOps
      BY DEF ArithmeticOps
    <2> QED BY <2>1, ArithmeticIs
  <1>2. Extended(y) \in Words
    BY ExtendedIs
  <1>3. OrTrap(Signed(x) + Signed(y), AddTrapping(x, y))
    BY SumsAreExact
  <1>4. OrTrap(Signed(x) + Signed(Extended(y)), AddTrapping(x, Extended(y)))
    BY <1>2, SumsAreExact
  <1>5. OrTrap(Signed(x) - Signed(y), SubTrapping(x, y))
    BY SumsAreExact
  <1>6. UnsignedMult(x, y)[2] * Modulus + UnsignedMult(x, y)[3] = x * y
    BY MultsAreExact
  <1>7. SignedMult(x, y)[2] * Modulus + SignedMult(x, y)[3] =
          (Signed(x) * Signed(y)) % PowerOfTwo[2 * W]
    <2>1. SignedMult(x, y)[2] * Modulus + SignedMult(x, y)[3] =
            (Signed(x) * Signed(y)) % (Modulus * Modulus)
      BY MultsAreExact
    <2>2. PowerOfTwo[2 * W] = Modulus * Modulus
      BY WordIs
    <2> QED BY Zenon, <2>1, <2>2
  <1>8. y # 0 => /\ DivUnsigned(x, y)[3] * y + DivUnsigned(x, y)[2] = x
                 /\ DivUnsigned(x, y)[2] < y
    BY DivisionsAreExact
  <1>9. y # 0 =>
          IF DivSigned(x, y) = Crash THEN ~Representable(-Signed(x))
          ELSE /\ Signed(DivSigned(x, y)[3]) * Signed(y) + Signed(DivSigned(x, y)[2]) = Signed(x)
               /\ Distance0(Signed(DivSigned(x, y)[2])) < Distance0(Signed(y))
               /\ Signed(DivSigned(x, y)[2]) # 0 => Neg(DivSigned(x, y)[2]) = Neg(x)
    BY DivisionsAreExact
  <1> HIDE DEF r
  <1>10. /\ op = "ADD" => OrTrap(Signed(x) + Signed(y), r)
         /\ op = "ADDI" => OrTrap(Signed(x) + Signed(Extended(y)), r)
         /\ op = "SUB" => OrTrap(Signed(x) - Signed(y), r)
    BY Zenon, <1>1, <1>3, <1>4, <1>5
  <1>11. /\ op = "MULTU" => r[2] * Modulus + r[3] = x * y
         /\ op = "MULT" => r[2] * Modulus + r[3] = (Signed(x) * Signed(y)) % PowerOfTwo[2 * W]
         /\ op = "DIVU" /\ y # 0 => r[3] * y + r[2] = x /\ r[2] < y
    BY Zenon, <1>1, <1>6, <1>7, <1>8
  <1>12. op = "DIV" /\ y # 0 =>
           IF r = Crash THEN ~Representable(-Signed(x))
           ELSE /\ Signed(r[3]) * Signed(y) + Signed(r[2]) = Signed(x)
                /\ Distance0(Signed(r[2])) < Distance0(Signed(y))
                /\ Signed(r[2]) # 0 => Neg(r[2]) = Neg(x)
    BY Zenon, <1>1, <1>9
  <1> QED BY Zenon, <1>10, <1>11, <1>12 DEF Exact, r

\* The two simulators compute the same but for the differences listed.
LEMMA SimulatorsAgree ==
  ASSUME NEW op \in Ops, NEW x \in Words, NEW y \in Words
  PROVE  Differ(op, x, y) \/ Simulated(op, x, y) = Executed(op, x, y)
  <1>1. CASE op \in ArithmeticOps
    <2>1. CASE op = "ADD"
      <3>1. AddTrapping(x, y) = Trap \/ AddTrapping(x, y) = Value(Wrap(x + y))
        BY SumsAreExact
      <3>2. /\ Simulated(op, x, y) = AddTrapping(x, y)
            /\ Executed(op, x, y) = Value(Wrap(x + y))
        BY <1>1, <2>1, ArithmeticIs
      <3> QED BY <2>1, <3>1, <3>2 DEF Differ
    <2>2. CASE op = "ADDI"
      <3>1. \/ AddTrapping(x, Extended(y)) = Trap
            \/ AddTrapping(x, Extended(y)) = Value(Wrap(x + Extended(y)))
        BY ExtendedIs, SumsAreExact
      <3>2. /\ Simulated(op, x, y) = AddTrapping(x, Extended(y))
            /\ Executed(op, x, y) = Value(Wrap(x + Extended(y)))
        BY <1>1, <2>2, ArithmeticIs
      <3> QED BY <2>2, <3>1, <3>2 DEF Differ
    <2>3. CASE op = "SUB"
      <3>1. SubTrapping(x, y) = Trap \/ SubTrapping(x, y) = Value(Wrap(x - y))
        BY SumsAreExact
      <3>2. /\ Simulated(op, x, y) = SubTrapping(x, y)
            /\ Executed(op, x, y) = Value(Wrap(x - y))
        BY <1>1, <2>3, ArithmeticIs
      <3> QED BY <2>3, <3>1, <3>2 DEF Differ
    <2>4. CASE op \in {"ADDIU", "ADDU", "SUBU"}
      BY <1>1, <2>4, ArithmeticIs
    <2>5. CASE op \in {"DIV", "DIVU"}
      <3>1. y # 0 => Simulated(op, x, y) = Executed(op, x, y)
        BY <1>1, <2>5, ArithmeticIs
      <3> QED BY <2>5, <3>1 DEF Differ
    <2>6. CASE op = "MULTU"
      <3>1. PICK hi \in Words, lo \in Words : UnsignedMult(x, y) = Pair(hi, lo) /\ lo = Wrap(x * y)
        BY MultsAreExact
      <3>2. Simulated(op, x, y) = UnsignedMult(x, y)
            /\ Executed(op, x, y) = Pair(HighProduct(x, y), Wrap(x * y))
        BY <1>1, <2>6, ArithmeticIs
      <3>3. Simulated(op, x, y) = Pair(hi, lo) /\ Executed(op, x, y) = Pair(HighProduct(x, y), lo)
        BY Zenon, <3>1, <3>2
      <3> QED BY <2>6, <3>3, ResultsAre DEF Differ
    <2>7. CASE op = "MULT"
      <3> DEFINE a == SignedMagnitude(x)
                 b == SignedMagnitude(y)
      <3>1. PICK hi \in Words, lo \in Words :
              /\ SignedMult(x, y) = Pair(hi, lo)
              /\ lo = IF Neg(x) = Neg(y) THEN Wrap(a * b)
                      ELSE Wrap(Inverted(Wrap(a * b)) + 1)
        BY MultsAreExact
      <3>2. a = (IF Neg(x) THEN Wrap(-x) ELSE x) /\ b = (IF Neg(y) THEN Wrap(-y) ELSE y)
        BY DEF SignedMagnitude
      <3>3. Simulated(op, x, y) = Pair(hi, lo) /\ Executed(op, x, y) = ExecutedMult(x, y)
        BY <1>1, <2>7, <3>1, ArithmeticIs
      <3> HIDE DEF a, b
      <3>4. \E h : ExecutedMult(x, y) = Pair(h, lo)
        BY <3>1, <3>2 DEF ExecutedMult
      <3>5. PICK h : Executed(op, x, y) = Pair(h, lo)
        BY <3>3, <3>4
      <3>6. Executed(op, x, y)[2] = Simulated(op, x, y)[2] => h = hi
        BY <3>3, <3>5, ResultsAre
      <3> QED BY <2>7, <3>3, <3>5, <3>6 DEF Differ
    <2> QED BY <1>1, <2>1, <2>2, <2>3, <2>4, <2>5, <2>6, <2>7 DEF ArithmeticOps
  <1>2. CASE op \in LogicOps
    <2>1. /\ Simulated(op, x, y) = SimulatedLogic(op, x, y)
          /\ Executed(op, x, y) = ExecutedLogic(op, x, y)
      BY <1>2, KindsAre
    <2>2. CASE op = "LUI"
      BY <2>1, <2>2, UpperIs DEF SimulatedLogic, ExecutedLogic
    <2>3. CASE op = "OR"
      <3>1. BitAnd(y, Inverted(x)) = 0 => BitOr(x, y) = BitOr(x, x)
        BY BitwiseAssumption
      <3> QED BY <2>1, <2>3, <3>1 DEF Differ, SimulatedLogic, ExecutedLogic
    <2>4. CASE op \in {"ANDI", "ORI", "XORI"}
      BY <2>1, <2>4 DEF Differ, SimulatedLogic, ExecutedLogic
    <2>5. CASE op \in {"AND", "NOR", "XOR"}
      BY <2>1, <2>5 DEF SimulatedLogic, ExecutedLogic
    <2> QED BY <1>2, <2>2, <2>3, <2>4, <2>5 DEF LogicOps
  <1>3. CASE op \in ShiftOps
    <2>1. y % W \in 0..(W - 1)
      BY WordIs
    <2>2. ~Neg(x) \/ y % W = 0 => Arithmetic(x, y % W) = Logical(x, y % W)
      BY <2>1, RightShiftIs
    <2>3. /\ Simulated(op, x, y) = SimulatedShift(op, x, y)
          /\ Executed(op, x, y) = ExecutedShift(op, x, y)
      BY <1>3, KindsAre
    <2> QED BY <1>3, <2>2, <2>3 DEF Differ, SimulatedShift, ExecutedShift, ShiftOps
  <1>4. CASE op \in CompareOps
    <2>1. (Neg(x) <=> Signed(x) < 0) /\ (~Neg(x) <=> Signed(x) >= 0)
      <3>1. SignBit \in Nat
        BY WordIs
      <3>2. Signed(x) \in Int /\ (Neg(x) <=> Signed(x) < 0)
        BY <3>1, SignedIs
      <3> QED BY <3>2
    <2>2. Truth(Neg(x)) = Truth(Signed(x) < 0) /\ Truth(~Neg(x)) = Truth(Signed(x) >= 0)
      BY <2>1 DEF Truth
    <2>3. /\ Simulated(op, x, y) = SimulatedCompare(op, x, y)
          /\ Executed(op, x, y) = ExecutedCompare(op, x, y)
      BY <1>4, KindsAre
    <2> QED BY <1>4, <2>2, <2>3 DEF SimulatedCompare, ExecutedCompare, CompareOps
  <1> QED BY <1>1, <1>2, <1>3, <1>4 DEF Ops

-------------------------------------------------------------------------------
(* What is stored is read back *)

\* The instance of the memory counts the members of a set as this module does.
LEMMA SameCount ==
  ASSUME NEW S
  PROVE  Access!Cardinality(S) = Cardinality(S)
  BY DEF Access!Cardinality, Cardinality

\* What the bytes of a word count.
LEMMA PlacesAre ==
  /\ Access!Place[0] = 1 /\ Access!Place[1] = ByteValues
  /\ Access!Place[2] = ByteValues * ByteValues
  /\ Access!Place[3] = ByteValues * (ByteValues * ByteValues)
  /\ Access!Place[4] = ByteValues * (ByteValues * (ByteValues * ByteValues))
  <1> DEFINE B == ByteValues
             Rule(k) == [n \in 0..4 |-> IF n = 0 THEN 1 ELSE B * k[n - 1]]
             step == [n \in 1..4 |-> [x \in Nat |-> B * x]]
             one == 1
             place == Access!Place
  <1>1. B \in Nat
    BY BytesAssumption
  <1>2. place = CHOOSE k : k = Rule(k)
    BY DEF Access!Place, Access!WordSize
  <1> HIDE DEF B, place
  <1>3. step \in StepsOf(Nat, 4) /\ one \in Nat /\ 4 \in Nat
    BY <1>1 DEF StepsOf
  <1> HIDE DEF step, one
  <1>4. \E f : IsSeries(f, Nat, 4, one, step)
    BY <1>3, RecursiveExists
  <1>5. PICK f \in [0..4 -> Nat] : f[0] = 1 /\ \A n \in 1..4 : f[n] = step[n][f[n - 1]]
    BY <1>4 DEF one, IsSeries
  <1>6. ASSUME NEW n \in 0..4 PROVE f[n] = Rule(f)[n]
    <2>1. CASE n = 0
      BY <1>5, <2>1
    <2>2. CASE n # 0
      <3>1. n \in 1..4 /\ n - 1 \in 0..4
        BY <1>6, <2>2
      <3>2. f[n - 1] \in Nat
        BY <1>5, <3>1
      <3>3. step[n][f[n - 1]] = B * f[n - 1]
        BY <3>1, <3>2 DEF step
      <3> QED BY <1>5, <2>2, <3>1, <3>3
    <2> QED BY <2>1, <2>2
  <1>7. f = Rule(f)
    BY <1>5, <1>6
  <1>8. place = Rule(place)
    BY <1>2, <1>7
  <1>9. \A n \in 0..4 : place[n] = IF n = 0 THEN 1 ELSE B * place[n - 1]
    BY <1>8
  <1>10. place[0] = 1 /\ place[1] = B * place[0] /\ place[2] = B * place[1]
         /\ place[3] = B * place[2] /\ place[4] = B * place[3]
    BY <1>9
  <1>11. B * 1 = B
    BY <1>1
  <1>12. place[1] = B /\ place[2] = B * B /\ place[3] = B * (B * B) /\ place[4] = B * (B * (B * B))
    BY <1>10, <1>11
  <1> QED BY <1>10, <1>12 DEF place, B

\* The number that four bytes spell.
Bytes == 0..(ByteValues - 1)
FourBytes(b0, b1, b2, b3) == b0 + ByteValues * (b1 + ByteValues * (b2 + ByteValues * b3))

\* One byte more.
LEMMA ByteMore ==
  ASSUME NEW p \in Nat \ {0}, NEW b \in Bytes, NEW u \in 0..(p - 1)
  PROVE  b + ByteValues * u \in 0..(ByteValues * p - 1)
  <1>1. ByteValues \in Nat \ {0} /\ b \in 0..(ByteValues - 1)
    BY BytesAssumption DEF Bytes
  <1>2. ByteValues * p = ByteValues * u + ByteValues * (p - u)
    BY <1>1
  <1>3. ByteValues * (p - u) = ByteValues + ByteValues * (p - u - 1) /\ ByteValues * (p - u - 1) >= 0
    BY <1>1
  <1>4. ByteValues * u \in Nat
    BY <1>1
  <1> DEFINE all == ByteValues * p
             part0 == ByteValues * u
             rest == ByteValues * (p - u - 1)
  <1>5. all = part0 + ByteValues + rest /\ rest >= 0 /\ rest \in Int /\ part0 \in Nat /\ all \in Int
    BY <1>1, <1>2, <1>3, <1>4
  <1> HIDE DEF all, part0, rest
  <1>6. b + part0 \in 0..(all - 1)
    BY <1>1, <1>5
  <1> QED BY <1>6 DEF part0, all

\* The bytes of the number that bytes spell are those bytes.
LEMMA FourBytesAre ==
  ASSUME NEW b0 \in Bytes, NEW b1 \in Bytes, NEW b2 \in Bytes, NEW b3 \in Bytes,
         NEW x, x = FourBytes(b0, b1, b2, b3)
  PROVE  /\ x \in 0..(Access!Place[4] - 1)
         /\ Access!ByteOf(x, 0) = b0 /\ Access!ByteOf(x, 1) = b1
         /\ Access!ByteOf(x, 2) = b2 /\ Access!ByteOf(x, 3) = b3
         /\ x % Access!Place[1] = b0 /\ x % Access!Place[2] = FourBytes(b0, b1, 0, 0)
         /\ x % Access!Place[4] = x
         /\ x \div Access!Place[1] = b1 + ByteValues * (b2 + ByteValues * b3)
  <1> DEFINE B == ByteValues
             p2 == B * B
             p3 == B * p2
             p4 == B * p3
             u2 == b2 + B * b3
             u1 == b1 + B * u2
             r2 == b0 + B * b1
             r3 == b0 + B * (b1 + B * b2)
  <1>1. B \in Nat \ {0} /\ b0 \in 0..(B - 1) /\ b1 \in 0..(B - 1) /\ b2 \in 0..(B - 1)
        /\ b3 \in 0..(B - 1) /\ x = b0 + B * u1
    BY BytesAssumption DEF Bytes, FourBytes
  <1>2. /\ Access!Place[0] = 1 /\ Access!Place[1] = B /\ Access!Place[2] = p2
        /\ Access!Place[3] = p3 /\ Access!Place[4] = p4
    BY PlacesAre
  <1>3. \A q \in Nat \ {0} : \A b \in 0..(B - 1), u \in 0..(q - 1) : b + B * u \in 0..(B * q - 1)
    BY ByteMore DEF Bytes
  <1>4. \A m \in Nat \ {0} : \A q \in Int, r \in 0..(m - 1) :
          (q * m + r) \div m = q /\ (q * m + r) % m = r
    BY DivisionIs
  <1> HIDE DEF B
  <1>5. p2 \in Nat \ {0}
    <2>1. B * B = B + B * (B - 1) /\ B * (B - 1) >= 0
      BY <1>1
    <2> QED BY <1>1, <2>1
  <1>6. u2 \in 0..(p2 - 1) /\ r2 \in 0..(p2 - 1)
    BY <1>1, <1>3
  <1>7. p3 \in Nat \ {0}
    <2>1. B * p2 = p2 + (B - 1) * p2 /\ (B - 1) * p2 >= 0
      BY <1>1, <1>5
    <2> QED BY <1>1, <1>5, <2>1
  <1>8. u1 \in 0..(p3 - 1)
    BY <1>1, <1>3, <1>5, <1>6
  <1>9. r3 \in 0..(p3 - 1)
    <2>1. b1 + B * b2 \in 0..(p2 - 1)
      BY <1>1, <1>3
    <2> QED BY <1>1, <1>3, <1>5, <2>1
  <1>10. p4 \in Nat \ {0} /\ x \in 0..(p4 - 1)
    <2>1. B * p3 = p3 + (B - 1) * p3 /\ (B - 1) * p3 >= 0
      BY <1>1, <1>7
    <2>2. p4 \in Nat \ {0}
      BY <1>1, <1>7, <2>1
    <2> QED BY <1>1, <1>3, <1>7, <1>8, <2>2
  <1>11. x = u2 * p2 + r2 /\ x = b3 * p3 + r3 /\ x = u1 * B + b0
    BY <1>1, <1>5
  <1>12. u1 = u2 * B + b1 /\ u2 = b3 * B + b2 /\ b3 = 0 * B + b3
    BY <1>1, <1>5
  <1>13. u1 \in Int /\ u2 \in Int /\ b3 \in Int /\ 0 \in Int
    BY <1>1, <1>6, <1>8
  <1> HIDE DEF u1, u2, r2, r3, p2, p3, p4
  <1>14. /\ x \div B = u1 /\ x % B = b0 /\ x \div p2 = u2 /\ x % p2 = r2 /\ x \div p3 = b3
    <2>1. (u1 * B + b0) \div B = u1 /\ (u1 * B + b0) % B = b0
      BY <1>1, <1>4, <1>13
    <2>2. (u2 * p2 + r2) \div p2 = u2 /\ (u2 * p2 + r2) % p2 = r2
      BY <1>4, <1>5, <1>6, <1>13
    <2>3. (b3 * p3 + r3) \div p3 = b3
      BY <1>4, <1>7, <1>9, <1>13
    <2> QED BY <1>11, <2>1, <2>2, <2>3
  <1>15. u1 % B = b1 /\ u2 % B = b2 /\ b3 % B = b3
    <2>1. (u2 * B + b1) % B = b1 /\ (b3 * B + b2) % B = b2 /\ (0 * B + b3) % B = b3
      BY <1>1, <1>4, <1>13
    <2> QED BY <1>12, <2>1
  <1>16. x \div 1 = x /\ x % p4 = x
    BY <1>10
  <1>17. /\ Access!ByteOf(x, 0) = b0 /\ Access!ByteOf(x, 1) = b1
         /\ Access!ByteOf(x, 2) = b2 /\ Access!ByteOf(x, 3) = b3
    BY <1>2, <1>14, <1>15, <1>16 DEF Access!ByteOf, B
  <1>18. r2 = FourBytes(b0, b1, 0, 0)
    <2>1. B * 0 = 0 /\ 0 + 0 = 0 /\ b1 + 0 = b1
      BY <1>1
    <2> QED BY <2>1 DEF FourBytes, r2, B
  <1>19. u1 = b1 + ByteValues * (b2 + ByteValues * b3)
    BY DEF u1, u2, B
  <1> QED BY <1>2, <1>10, <1>14, <1>16, <1>17, <1>18, <1>19

\* A number less than what a byte counts is a byte and less than one byte less.
LEMMA ByteLess ==
  ASSUME NEW p \in Nat \ {0}, NEW x \in 0..(ByteValues * p - 1)
  PROVE  \E b \in Bytes, u \in 0..(p - 1) : x = b + ByteValues * u
  <1> DEFINE B == ByteValues
             b == x % B
             u == x \div B
  <1>1. B \in Nat \ {0} /\ B * p \in Int
    BY BytesAssumption
  <1>2. x \in 0..(B * p - 1)
    OBVIOUS
  <1> HIDE DEF B
  <1>3. x \in Nat
    BY <1>1, <1>2
  <1>4. b \in 0..(B - 1) /\ u \in Int /\ x = b + B * u
    <2>1. b \in 0..(B - 1) /\ u \in Int /\ x = u * B + b
      BY <1>1, <1>3
    <2>2. u * B = B * u /\ B * u \in Int
      BY <1>1, <2>1
    <2> QED BY <2>1, <2>2
  <1> HIDE DEF b, u
  <1>5. u >= 0
    <2>1. CASE u < 0
      <3>1. B * u = -(B * (-u)) /\ B * (-u) = B + B * ((-u) - 1) /\ B * ((-u) - 1) >= 0
        BY <1>1, <1>4, <2>1
      <3> QED BY <1>1, <1>3, <1>4, <3>1
    <2> QED BY <1>4, <2>1
  <1>6. u < p
    <2>1. CASE u >= p
      <3>1. B * u = B * p + B * (u - p) /\ B * (u - p) >= 0
        BY <1>1, <1>4, <2>1
      <3> QED BY <1>1, <1>2, <1>4, <3>1
    <2> QED BY <1>4, <2>1
  <1>7. b \in Bytes /\ u \in 0..(p - 1) /\ x = b + ByteValues * u
    BY <1>4, <1>5, <1>6 DEF Bytes, B
  <1> QED BY <1>7

\* Every word is spelled by four bytes.
LEMMA WordIsBytes ==
  ASSUME NEW x \in 0..(Access!Place[4] - 1)
  PROVE  \E b0, b1, b2, b3 \in Bytes : x = FourBytes(b0, b1, b2, b3)
  <1> DEFINE B == ByteValues
             p2 == B * B
             p3 == B * p2
  <1>1. B \in Nat \ {0} /\ x \in 0..(B * p3 - 1)
    BY BytesAssumption, PlacesAre
  <1>2. \A q \in Nat \ {0} : \A y \in 0..(B * q - 1) : \E b \in Bytes, u \in 0..(q - 1) : y = b + B * u
    BY ByteLess
  <1> HIDE DEF B
  <1>3. p2 \in Nat \ {0}
    <2>1. B * B = B + B * (B - 1) /\ B * (B - 1) >= 0
      BY <1>1
    <2> QED BY <1>1, <2>1
  <1>4. p3 \in Nat \ {0}
    <2>1. B * p2 = p2 + (B - 1) * p2 /\ (B - 1) * p2 >= 0
      BY <1>1, <1>3
    <2> QED BY <1>1, <1>3, <2>1
  <1>5. PICK b0 \in Bytes, u1 \in 0..(p3 - 1) : x = b0 + B * u1
    BY <1>1, <1>2, <1>4
  <1>6. PICK b1 \in Bytes, u2 \in 0..(p2 - 1) : u1 = b1 + B * u2
    BY <1>2, <1>3, <1>5
  <1>7. PICK b2 \in Bytes, b3 \in 0..(B - 1) : u2 = b2 + B * b3
    BY <1>1, <1>2, <1>6
  <1> QED BY <1>5, <1>6, <1>7 DEF FourBytes, Bytes, B

\* What is fetched is spelled by the bytes there.
LEMMA FetchedIs ==
  ASSUME NEW mem, NEW a \in Int
  PROVE  /\ Access!Fetched(mem, a, 1) = FourBytes(mem[a], 0, 0, 0)
         /\ Access!Fetched(mem, a, 2) = FourBytes(mem[a], mem[a + 1], 0, 0)
         /\ Access!Fetched(mem, a, 4) = FourBytes(mem[a], mem[a + 1], mem[a + 2], mem[a + 3])
  <1> DEFINE byte(n) == [i \in 0..3 |-> IF i < n THEN mem[a + i] ELSE 0]
  <1>1. \A n \in Int : Access!Fetched(mem, a, n) = Access!WordOf(byte(n))
    BY DEF Access!Fetched, Access!WordSize
  <1>2. a + 0 = a
    OBVIOUS
  <1>3. byte(1)[0] = mem[a] /\ byte(1)[1] = 0 /\ byte(1)[2] = 0 /\ byte(1)[3] = 0
    BY <1>2
  <1>4. byte(2)[0] = mem[a] /\ byte(2)[1] = mem[a + 1] /\ byte(2)[2] = 0 /\ byte(2)[3] = 0
    BY <1>2
  <1>5. /\ byte(4)[0] = mem[a] /\ byte(4)[1] = mem[a + 1] /\ byte(4)[2] = mem[a + 2]
        /\ byte(4)[3] = mem[a + 3]
    BY <1>2
  <1> HIDE DEF byte
  <1>6. \A n \in Int : Access!Fetched(mem, a, n) =
                         FourBytes(byte(n)[0], byte(n)[1], byte(n)[2], byte(n)[3])
    BY <1>1 DEF Access!WordOf, FourBytes
  <1>7. 1 \in Int /\ 2 \in Int /\ 4 \in Int
    OBVIOUS
  <1> QED BY <1>3, <1>4, <1>5, <1>6, <1>7

\* A copied sign changes no bit of the number.
LEMMA SignCopiedIs ==
  ASSUME NEW n \in {1, 2, 4}, NEW low \in 0..(Access!Place[n] - 1)
  PROVE  Access!SignCopied(low, n) % Access!Place[n] = low
  <1> DEFINE B == ByteValues
             p == Access!Place[n]
             q == Access!Place[4]
  <1>1. B \in Nat \ {0}
    BY BytesAssumption
  <1>2. p \in Nat \ {0} /\ \E k \in Int : q = k * p
    <2>1. B * B \in Nat \ {0} /\ B * (B * B) \in Nat \ {0} /\ B * (B * (B * B)) \in Nat \ {0}
      <3>1. B * B \in Nat \ {0}
        <4>1. B * B = B + B * (B - 1) /\ B * (B - 1) >= 0
          BY <1>1
        <4> QED BY <1>1, <4>1
      <3> DEFINE s == B * B
      <3> HIDE DEF s
      <3>2. B * s \in Nat \ {0}
        <4>1. s \in Nat \ {0} /\ B * s = s + (B - 1) * s /\ (B - 1) * s >= 0
          BY <1>1, <3>1 DEF s
        <4> QED BY <1>1, <4>1
      <3> DEFINE t == B * s
      <3> HIDE DEF t
      <3>3. B * t \in Nat \ {0}
        <4>1. t \in Nat \ {0} /\ B * t = t + (B - 1) * t /\ (B - 1) * t >= 0
          BY <1>1, <3>2 DEF t
        <4> QED BY <1>1, <4>1
      <3> QED BY <3>1, <3>2, <3>3 DEF s, t
    <2>2. CASE n = 1
      <3>1. p = B /\ q = (B * (B * B)) * B /\ B * (B * B) \in Int
        BY <1>1, <2>1, <2>2, PlacesAre
      <3> QED BY <1>1, <3>1
    <2>3. CASE n = 2
      <3>1. p = B * B /\ q = (B * B) * (B * B) /\ B * B \in Int
        <4>1. B * (B * (B * B)) = (B * B) * (B * B)
          BY <1>1
        <4> QED BY <1>1, <2>1, <2>3, <4>1, PlacesAre
      <3> QED BY <2>1, <3>1
    <2>4. CASE n = 4
      <3>1. p = q /\ q = B * (B * (B * B))
        BY <2>4, PlacesAre
      <3>2. q = 1 * q
        BY <2>1, <3>1
      <3> QED BY <2>1, <3>1, <3>2
    <2> QED BY <2>2, <2>3, <2>4
  <1>3. PICK k \in Int : q = k * p
    BY <1>2
  <1>4. Access!SignCopied(low, n) = low \/ Access!SignCopied(low, n) = low + q - p
    BY DEF Access!SignCopied, Access!WordSize
  <1> HIDE DEF p, q
  <1>5. low \in 0..(p - 1)
    BY DEF p
  <1>6. low = 0 * p + low /\ low + q - p = (k - 1) * p + low /\ k - 1 \in Int /\ 0 \in Int
    BY <1>2, <1>3, <1>5
  <1>7. (0 * p + low) % p = low /\ ((k - 1) * p + low) % p = low
    BY <1>2, <1>5, <1>6, DivisionIs
  <1>8. Access!SignCopied(low, n) % p = low
    BY <1>4, <1>6, <1>7
  <1> QED BY <1>8 DEF p

\* A store that is in place: the bytes behind, and no other byte changed.
LEMMA StoreIs ==
  ASSUME NEW pages \in Nat, NEW mem \in [0..(4 * pages - 1) -> Bytes], NEW a \in Int,
         NEW x \in 0..(Access!Place[4] - 1), NEW n \in {1, 2, 4}, Access!Translated(mem, a, n),
         NEW after, after = Access!Stored(mem, a, n, x)
  PROVE  /\ a \in DOMAIN mem /\ a + (n - 1) \in DOMAIN mem
         /\ \A i \in 0..(n - 1) : after[a + i] = Access!ByteOf(x, i)
         /\ DOMAIN after = DOMAIN mem
         /\ \A b \in DOMAIN mem : b \notin a..(a + n - 1) => after[b] = mem[b]
  <1> DEFINE size == 4 * pages
  <1>1. a % n = 0 /\ a \in 0..(size - 1) /\ DOMAIN mem = 0..(size - 1)
    BY DEF Access!Translated
  <1>2. a + (n - 1) \in 0..(size - 1)
    <2>1. CASE n = 1
      BY <1>1, <2>1
    <2>2. CASE n = 2
      BY <1>1, <2>2
    <2>3. CASE n = 4
      BY <1>1, <2>3
    <2> QED BY <2>1, <2>2, <2>3
  <1>3. after = [b \in 0..(size - 1) |-> IF b \in a..(a + n - 1) THEN Access!ByteOf(x, b - a)
                                         ELSE mem[b]]
    BY <1>1 DEF Access!Stored
  <1>4. ASSUME NEW i \in 0..(n - 1) PROVE after[a + i] = Access!ByteOf(x, i)
    <2>1. a + i \in 0..(size - 1) /\ a + i \in a..(a + n - 1) /\ (a + i) - a = i
      BY <1>1, <1>2
    <2> QED BY <1>3, <2>1
  <1> QED BY <1>1, <1>2, <1>3, <1>4

\* The bytes of a number, and what is left without those above.
LEMMA BytesOfWord ==
  ASSUME NEW x \in 0..(Access!Place[4] - 1)
  PROVE  /\ \A i \in 0..3 : Access!ByteOf(x, i) \in Bytes
         /\ x = FourBytes(Access!ByteOf(x, 0), Access!ByteOf(x, 1), Access!ByteOf(x, 2),
                          Access!ByteOf(x, 3))
         /\ x % Access!Place[1] = FourBytes(Access!ByteOf(x, 0), 0, 0, 0)
         /\ x % Access!Place[2] = FourBytes(Access!ByteOf(x, 0), Access!ByteOf(x, 1), 0, 0)
         /\ x % Access!Place[4] = x
  <1>1. PICK b0 \in Bytes, b1 \in Bytes, b2 \in Bytes, b3 \in Bytes : x = FourBytes(b0, b1, b2, b3)
    BY WordIsBytes
  <1>2. /\ Access!ByteOf(x, 0) = b0 /\ Access!ByteOf(x, 1) = b1
        /\ Access!ByteOf(x, 2) = b2 /\ Access!ByteOf(x, 3) = b3
        /\ x % Access!Place[1] = b0 /\ x % Access!Place[2] = FourBytes(b0, b1, 0, 0)
        /\ x % Access!Place[4] = x
    BY <1>1, FourBytesAre
  <1>3. FourBytes(b0, 0, 0, 0) = b0
    <2>1. ByteValues \in Nat /\ b0 \in Int
      BY BytesAssumption DEF Bytes
    <2>2. ByteValues * 0 = 0 /\ 0 + 0 = 0 /\ b0 + 0 = b0
      BY <2>1
    <2> QED BY <2>2 DEF FourBytes
  <1>4. \A i \in 0..3 : Access!ByteOf(x, i) \in Bytes
    BY <1>2
  <1> QED BY <1>1, <1>2, <1>3, <1>4

\* The low bytes of a word are fewer numbers.
LEMMA LowIs ==
  ASSUME NEW x \in 0..(Access!Place[4] - 1), NEW n \in {1, 2, 4}
  PROVE  /\ x % Access!Place[n] \in 0..(Access!Place[n] - 1)
         /\ (x % Access!Place[n]) \div Access!Place[n] = 0
         /\ (x % Access!Place[n]) % Access!Place[n] = x % Access!Place[n]
  <1> DEFINE p == Access!Place[n]
             B == ByteValues
  <1>1. p \in Nat \ {0}
    <2>1. B \in Nat \ {0}
      BY BytesAssumption
    <2> HIDE DEF B
    <2>2. B * B \in Nat \ {0}
      <3>1. B * B = B + B * (B - 1) /\ B * (B - 1) >= 0
        BY <2>1
      <3> QED BY <2>1, <3>1
    <2>3. p \in {B, B * B, Access!Place[4]}
      BY PlacesAre DEF B
    <2>4. Access!Place[4] \in Nat \ {0}
      <3>1. Access!Place[4] = (B * B) * (B * B)
        <4>1. B * (B * (B * B)) = (B * B) * (B * B)
          BY <2>1
        <4> QED BY <4>1, PlacesAre DEF B
      <3> DEFINE s == B * B
      <3>2. s \in Nat \ {0}
        BY <2>2
      <3> HIDE DEF s
      <3>3. s * s = s + s * (s - 1) /\ s * (s - 1) >= 0
        BY <3>2
      <3>4. s * s \in Nat \ {0}
        BY <3>2, <3>3
      <3> QED BY <3>1, <3>4 DEF s
    <2> QED BY <2>1, <2>2, <2>3, <2>4
  <1> HIDE DEF p
  <1>2. x \in Nat
    OBVIOUS
  <1> DEFINE r == x % p
  <1>3. r \in 0..(p - 1)
    BY <1>1, <1>2
  <1> HIDE DEF r
  <1>4. r = 0 * p + r /\ 0 \in Int
    BY <1>1, <1>3
  <1>5. r \div p = 0 /\ r % p = r
    BY <1>1, <1>3, <1>4, DivisionIs
  <1> QED BY <1>3, <1>5 DEF r, p

\* What a store and a load are, where they are in place.
LEMMA AccessesAre ==
  /\ Access!AccessSize("SB") = 1 /\ Access!AccessSize("SH") = 2 /\ Access!AccessSize("SW") = 4
  /\ Access!AccessSize("SWL") = 4 /\ Access!AccessSize("SWR") = 4
  /\ Access!AccessSize("LB") = 1 /\ Access!AccessSize("LBU") = 1
  /\ Access!AccessSize("LH") = 2 /\ Access!AccessSize("LHU") = 2
  /\ Access!AccessSize("LW") = 4 /\ Access!AccessSize("LWL") = 4 /\ Access!AccessSize("LWR") = 4
  /\ Access!LoadsOf("SB") = {"LB", "LBU"} /\ Access!LoadsOf("SH") = {"LH", "LHU"}
  /\ Access!LoadsOf("SW") = {"LW"} /\ Access!LoadsOf("SWL") = {"LWL"}
  /\ Access!LoadsOf("SWR") = {"LWR"}
  /\ Access!Bytes("SB") = 1 /\ Access!Bytes("SH") = 2 /\ Access!Bytes("SW") = 4
  /\ Access!Bytes("SWL") = 4 /\ Access!Bytes("SWR") = 1
  BY DEF Access!AccessSize, Access!LoadsOf, Access!Bytes, Access!WordSize

\* A byte, a half word and a word are read back by both simulators.
LEMMA PartsAreReadBack ==
  ASSUME NEW op \in {"SB", "SH", "SW"}, NEW load \in Access!LoadsOf(op),
         NEW after, NEW a \in Int, NEW x \in 0..(Access!Place[4] - 1), NEW old,
         NEW n, n = Access!AccessSize(op),
         Access!Translated(after, a, n),
         \A i \in 0..(n - 1) : after[a + i] = Access!ByteOf(x, i),
         NEW y, y = Access!SimulatedLoad(load, after, a, old)
  PROVE  /\ y % Access!Place[n] = x % Access!Place[n]
         /\ Access!ExecutedLoad(load, after, a, old) = y
         /\ load \in {"LB", "LH"} => y = Access!SignCopied(x % Access!Place[n], n)
         /\ load \notin {"LB", "LH"} => y \div Access!Place[n] = 0
  <1> DEFINE low == x % Access!Place[n]
             value == Access!Fetched(after, a, n)
  <1>1. n \in {1, 2, 4} /\ Access!AccessSize(load) = n /\ load \in {"LB", "LBU", "LH", "LHU", "LW"}
    BY AccessesAre
  <1>2. value = low
    <2>1. a + 0 = a
      OBVIOUS
    <2>2. CASE n = 1
      <3>1. after[a] = Access!ByteOf(x, 0)
        BY <2>1, <2>2
      <3> QED BY <2>2, <3>1, FetchedIs, BytesOfWord
    <2>3. CASE n = 2
      <3>1. after[a] = Access!ByteOf(x, 0) /\ after[a + 1] = Access!ByteOf(x, 1)
        BY <2>1, <2>3
      <3> QED BY <2>3, <3>1, FetchedIs, BytesOfWord
    <2>4. CASE n = 4
      <3>1. after[a] = Access!ByteOf(x, 0) /\ after[a + 1] = Access!ByteOf(x, 1)
            /\ after[a + 2] = Access!ByteOf(x, 2) /\ after[a + 3] = Access!ByteOf(x, 3)
        BY <2>1, <2>4
      <3> QED BY <2>4, <3>1, FetchedIs, BytesOfWord
    <2> QED BY <1>1, <2>2, <2>3, <2>4
  <1>3. y = IF load \in {"LB", "LH"} THEN Access!SignCopied(value, n) ELSE value
    BY <1>1 DEF Access!SimulatedLoad
  <1>4. Access!ExecutedLoad(load, after, a, old) =
          IF load \in {"LB", "LH"} THEN Access!SignCopied(value, n) ELSE value
    BY <1>1 DEF Access!ExecutedLoad
  <1>5. Access!SignCopied(low, n) % Access!Place[n] = low
    BY <1>1, LowIs, SignCopiedIs
  <1>6. low % Access!Place[n] = low /\ low \div Access!Place[n] = 0
    BY <1>1, LowIs
  <1> HIDE DEF low, value
  <1>7. /\ y % Access!Place[n] = low /\ Access!ExecutedLoad(load, after, a, old) = y
        /\ load \in {"LB", "LH"} => y = Access!SignCopied(low, n)
        /\ load \notin {"LB", "LH"} => y \div Access!Place[n] = 0
    BY <1>2, <1>3, <1>4, <1>5, <1>6
  <1> QED BY <1>7 DEF low

\* LWL reads the whole word, SWL having written it; the other simulator keeps what
\* the register had.
LEMMA LeftIsReadBack ==
  ASSUME NEW after, NEW a \in Int, NEW x \in 0..(Access!Place[4] - 1), NEW old,
         Access!Translated(after, a, 4),
         \A i \in 0..3 : after[a + i] = Access!ByteOf(x, i)
  PROVE  LET y == Access!SimulatedLoad("LWL", after, a, old)
         IN  /\ y = x /\ Access!ExecutedLoad("LWL", after, a, old) = BitOr(old, y)
  <1>1. a % 4 = 0 /\ a + 0 = a /\ a - 0 = a
    BY DEF Access!Translated
  <1>2. Access!Fetched(after, a, 4) = x
    <2>1. after[a] = Access!ByteOf(x, 0) /\ after[a + 1] = Access!ByteOf(x, 1)
          /\ after[a + 2] = Access!ByteOf(x, 2) /\ after[a + 3] = Access!ByteOf(x, 3)
      BY <1>1
    <2> QED BY <2>1, FetchedIs, BytesOfWord
  <1>3. Access!SimulatedLoad("LWL", after, a, old) = x
    BY <1>1, <1>2, AccessesAre DEF Access!SimulatedLoad, Access!WordSize
  <1>4. (x * Access!Place[0]) % Access!Place[4] = x
    BY PlacesAre, BytesOfWord
  <1>5. Access!ExecutedLoad("LWL", after, a, old) = BitOr(old, (x * Access!Place[0]) % Access!Place[4])
    <2> DEFINE word == Access!Fetched(after, a - (a % 4), 4)
               right == (IF 2 * word >= Access!Place[4] THEN word - Access!Place[4] ELSE word)
                          \div Access!Place[-(a % 4)]
    <2>1. Access!ExecutedLoad("LWL", after, a, old) =
            BitOr(old, IF a % 4 >= 0 THEN (word * Access!Place[a % 4]) % Access!Place[4]
                    ELSE right % Access!Place[4])
      BY DEF Access!ExecutedLoad, Access!WordSize
    <2>2. word = x /\ a % 4 >= 0 /\ a % 4 = 0
      BY <1>1, <1>2
    <2> HIDE DEF word, right
    <2> QED BY Zenon, <2>1, <2>2
  <1> QED BY <1>3, <1>4, <1>5

\* The negation of 0 is 0.
LEMMA ZeroNegated ==
  ASSUME NEW z \in Int, z <= 0, z >= 0
  PROVE  -z = 0
  <1> DEFINE w == -z
  <1>1. w \in Int /\ w >= 0
    OBVIOUS
  <1>2. w <= 0
    OBVIOUS
  <1> HIDE DEF w
  <1>3. w = 0
    BY <1>1, <1>2
  <1> QED BY <1>3 DEF w

\* LWR reads the byte that SWR has written into the low one of the register, and
\* leaves the others; the other simulator reads the word.
LEMMA RightIsReadBack ==
  ASSUME NEW after, NEW a \in Int, NEW x \in 0..(Access!Place[4] - 1),
         NEW old \in 0..(Access!Place[4] - 1),
         Access!Translated(after, a, 4),
         after[a] \in Bytes, after[a + 1] \in Bytes, after[a + 2] \in Bytes,
         after[a + 3] \in Bytes, after[a + 3] = Access!ByteOf(x, 0)
  PROVE  /\ Access!SimulatedLoad("LWR", after, a, old) % Access!Place[1] = x % Access!Place[1]
         /\ Access!SimulatedLoad("LWR", after, a, old) \div Access!Place[1] = old \div Access!Place[1]
         /\ Access!ExecutedLoad("LWR", after, a, old) = Access!Fetched(after, a, 4)
  <1> DEFINE y == Access!SimulatedLoad("LWR", after, a, old)
             value == Access!Fetched(after, a, 4)
             o(i) == Access!ByteOf(old, i)
             right == [i \in 0..3 |-> IF i = 0 THEN Access!ByteOf(value, 3) ELSE o(i)]
  <1>1. a % 4 = 0 /\ a + 0 = a /\ a - 0 = a
    <2>1. a % 4 = 0
      BY DEF Access!Translated
    <2> QED BY <2>1
  <1>2. after[a] \in Bytes /\ after[a + 1] \in Bytes /\ after[a + 2] \in Bytes /\ after[a + 3] \in Bytes
    OBVIOUS
  <1>3. value = FourBytes(after[a], after[a + 1], after[a + 2], after[a + 3])
    BY FetchedIs
  <1>4. value \in 0..(Access!Place[4] - 1) /\ Access!ByteOf(value, 3) = after[a + 3]
        /\ value % Access!Place[4] = value
    BY <1>2, <1>3, FourBytesAre
  <1>5. y = Access!WordOf(right)
    <2>1. Access!SimulatedLoad("LWR", after, a, old)
            = Access!WordOf([i \in 0..(Access!WordSize - 1) |->
                               IF i = 0 THEN Access!ByteOf(Access!Fetched(after, a, 4), 3)
                               ELSE Access!ByteOf(old, i)])
      <3>1. /\ ~(a % Access!WordSize # 0) /\ Access!AccessSize("LWR") = 4
            /\ "LWR" \notin {"LB", "LH"}
        BY <1>1, AccessesAre DEF Access!WordSize
      <3> QED BY Zenon, <3>1 DEF Access!SimulatedLoad
    <2>2. Access!WordSize - 1 = 3
      BY DEF Access!WordSize
    <2> QED BY Zenon, <2>1, <2>2
  <1>6. /\ right[0] = Access!ByteOf(x, 0) /\ right[1] = o(1) /\ right[2] = o(2) /\ right[3] = o(3)
    BY <1>4
  <1>7. Access!ByteOf(x, 0) \in Bytes /\ o(0) \in Bytes /\ o(1) \in Bytes /\ o(2) \in Bytes
        /\ o(3) \in Bytes
    BY BytesOfWord
  <1>8. old = FourBytes(o(0), o(1), o(2), o(3))
    BY BytesOfWord
  <1> HIDE DEF right, o, y
  <1>9. y = FourBytes(Access!ByteOf(x, 0), o(1), o(2), o(3))
    BY <1>5, <1>6 DEF Access!WordOf, FourBytes
  <1>10. y % Access!Place[1] = Access!ByteOf(x, 0)
         /\ y \div Access!Place[1] = o(1) + ByteValues * (o(2) + ByteValues * o(3))
    BY <1>7, <1>9, FourBytesAre
  <1>11. old \div Access!Place[1] = o(1) + ByteValues * (o(2) + ByteValues * o(3))
    BY <1>7, <1>8, FourBytesAre
  <1>12. x % Access!Place[1] = Access!ByteOf(x, 0)
    <2>1. PICK b0 \in Bytes, b1 \in Bytes, b2 \in Bytes, b3 \in Bytes : x = FourBytes(b0, b1, b2, b3)
      BY WordIsBytes
    <2> QED BY <2>1, FourBytesAre
  <1> HIDE DEF value
  <1>13. Access!ExecutedLoad("LWR", after, a, old) =
           BitOr(0, (value * Access!Place[0]) % Access!Place[4])
    <2> DEFINE word == Access!Fetched(after, a - (a % 4), 4)
               k == -((-a) % 4)
               masked == BitAnd(IF a % 4 >= 0
                             THEN ((Access!Place[4] - 1) * Access!Place[a % 4]) % Access!Place[4]
                             ELSE ((IF 2 * (Access!Place[4] - 1) >= Access!Place[4]
                                    THEN Access!Place[4] - 1 - Access!Place[4]
                                    ELSE Access!Place[4] - 1)
                                     \div Access!Place[-(a % 4)]) % Access!Place[4], old)
               right0 == (IF 2 * word >= Access!Place[4] THEN word - Access!Place[4] ELSE word)
                           \div Access!Place[-k]
    <2>1. Access!ExecutedLoad("LWR", after, a, old) =
            BitOr(IF a % 4 = 0 THEN 0 ELSE masked,
               IF k >= 0 THEN (word * Access!Place[k]) % Access!Place[4]
               ELSE right0 % Access!Place[4])
      BY DEF Access!ExecutedLoad, Access!WordSize
    <2>2. (-a) % 4 = 0
      <3>1. -a = (-(a \div 4)) * 4 + 0 /\ -(a \div 4) \in Int
        BY <1>1
      <3> QED BY <3>1, DivisionIs
    <2>3. k = 0
      <3>1. (-a) % 4 \in Int /\ (-a) % 4 <= 0 /\ (-a) % 4 >= 0
        BY <2>2
      <3> QED BY <3>1, ZeroNegated
    <2>4. word = value /\ a % 4 = 0
      BY <1>1 DEF value
    <2> HIDE DEF word, masked, right0, k
    <2>5. k >= 0
      BY <2>3
    <2> QED BY Zenon, <2>1, <2>3, <2>4, <2>5
  <1>14. (value * Access!Place[0]) % Access!Place[4] = value
    BY <1>4, PlacesAre
  <1>15. BitOr(0, value) = value
    BY <1>4, BytesAssumption DEF Access!WordSize
  <1> QED BY <1>10, <1>11, <1>12, <1>13, <1>14, <1>15 DEF value, y

\* What is stored is read back, on memory of whole words.
LEMMA StoredIsReadBack ==
  ASSUME NEW op \in Access!Stores, NEW pages \in Nat, NEW mem \in [0..(4 * pages - 1) -> Bytes],
         NEW a \in Int, NEW x \in 0..(Access!Place[4] - 1), NEW old \in 0..(Access!Place[4] - 1)
  PROVE  Access!ReadsBack(op, mem, a, x, old)
  <1> DEFINE after == Access!SimulatedStore(op, mem, a, x)
             size == Access!AccessSize(op)
             n == Access!Bytes(op)
             low == x % Access!Place[n]
             changed == {b \in DOMAIN mem : after[b] # mem[b]}
  <1>1. op \in {"SB", "SH", "SW", "SWL", "SWR"}
    BY DEF Access!Stores
  <1>2. /\ size \in {1, 2, 4} /\ (op \in {"SWL", "SWR"} => size = 4) /\ (op # "SWR" => n = size)
        /\ (op = "SWR" => n = 1) /\ n \in {1, 2, 4}
    BY <1>1, AccessesAre
  <1>3. CASE ~Access!Translated(mem, a, size)
    <2>1. after \in {Access!OutOfPlace, Access!Aborts}
      BY <1>3 DEF Access!SimulatedStore
    <2>2. a % size # 0 \/ a \notin DOMAIN mem
      BY <1>3 DEF Access!Translated
    <2> QED BY <2>1, <2>2 DEF Access!ReadsBack
  <1>4. CASE Access!Translated(mem, a, size)
    <2>1. a % size = 0 /\ a \in DOMAIN mem /\ DOMAIN mem = 0..(4 * pages - 1)
      BY <1>4 DEF Access!Translated
    <2>2. after = IF op = "SWR" THEN [mem EXCEPT ![a + 3] = Access!ByteOf(x, 0)]
                  ELSE Access!Stored(mem, a, size, x)
      BY <1>2, <1>4, <2>1 DEF Access!SimulatedStore, Access!WordSize
    <2> DEFINE stored == Access!Stored(mem, a, size, x)
    <2>3. /\ a + (size - 1) \in DOMAIN mem /\ DOMAIN stored = DOMAIN mem
          /\ \A i \in 0..(size - 1) : stored[a + i] = Access!ByteOf(x, i)
          /\ \A b \in DOMAIN mem : b \notin a..(a + size - 1) => stored[b] = mem[b]
      <3>1. Access!Translated(mem, a, size) /\ size \in {1, 2, 4}
        BY <1>2, <1>4
      <3>2. stored = Access!Stored(mem, a, size, x)
        OBVIOUS
      <3> HIDE DEF stored, size
      <3>3. ASSUME NEW m \in {1, 2, 4}, NEW b, Access!Translated(mem, a, m), b = Access!Stored(mem, a, m, x)
            PROVE  /\ a + (m - 1) \in DOMAIN mem /\ DOMAIN b = DOMAIN mem
                   /\ \A i \in 0..(m - 1) : b[a + i] = Access!ByteOf(x, i)
                   /\ \A c \in DOMAIN mem : c \notin a..(a + m - 1) => b[c] = mem[c]
        <4> QED BY <3>3, StoreIs
      <3> QED BY <3>1, <3>2, <3>3
    <2> HIDE DEF stored, size
    <2>4. DOMAIN after = DOMAIN mem
      BY <2>2, <2>3 DEF stored
    <2>5. after \notin {Access!OutOfPlace, Access!Aborts}
      <3>1. 0 \in DOMAIN after
        BY <2>1, <2>4
      <3>2. 0 \notin DOMAIN Access!OutOfPlace /\ 0 \notin DOMAIN Access!Aborts
        BY DEF Access!OutOfPlace, Access!Aborts
      <3> HIDE DEF after
      <3> QED BY <3>1, <3>2
    <2>6. Cardinality(changed) <= n
      <3>1. \E c \in Int : changed \subseteq c..(c + n - 1)
        <4>1. CASE op = "SWR"
          <5>1. changed \subseteq (a + 3)..((a + 3) + n - 1) /\ a + 3 \in Int
            BY <1>2, <2>2, <4>1
          <5> QED BY <5>1
        <4>2. CASE op # "SWR"
          <5>1. changed \subseteq a..(a + n - 1)
            BY <1>2, <2>2, <2>3, <4>2 DEF stored
          <5> QED BY <5>1
        <4> QED BY <4>1, <4>2
      <3>2. PICK c \in Int : changed \subseteq c..(c + n - 1)
        BY <3>1
      <3>3. n \in Nat \ {0} /\ c + n - 1 \in Int /\ ~(c > c + n - 1) /\ (c + n - 1) - c + 1 = n
        <4>1. n \in Nat \ {0}
          BY <1>2
        <4> HIDE DEF n
        <4> QED BY <4>1
      <3> HIDE DEF changed, n
      <3>4. IsFiniteSet(c..(c + n - 1)) /\ Cardinality(c..(c + n - 1)) = n
        BY <3>3, FS_Interval
      <3>5. Cardinality(changed) <= Cardinality(c..(c + n - 1))
        BY <3>2, <3>4, FS_Subset
      <3> QED BY <3>4, <3>5
    <2>7. ASSUME NEW load \in Access!LoadsOf(op)
          PROVE  LET y == Access!SimulatedLoad(load, after, a, old)
                     executed == Access!ExecutedLoad(load, after, a, old)
                 IN  /\ y % Access!Place[n] = low
                     /\ CASE load = "LWL" -> executed = BitOr(old, y)
                          [] load = "LWR" -> executed = Access!Fetched(after, a, Access!WordSize)
                          [] OTHER -> executed = y /\ after = Access!ExecutedStore(op, mem, a, x)
                     /\ y \div Access!Place[n] =
                          CASE load \in {"LB", "LH"} ->
                                 Access!SignCopied(low, n) \div Access!Place[n]
                            [] load = "LWR" -> old \div Access!Place[n]
                            [] OTHER -> 0
      <3> DEFINE y == Access!SimulatedLoad(load, after, a, old)
                 executed == Access!ExecutedLoad(load, after, a, old)
      <3>1. Access!Translated(after, a, size)
        BY <1>4, <2>4 DEF Access!Translated
      <3>2. CASE op \in {"SB", "SH", "SW"}
        <4>1. n = size /\ load \notin {"LWL", "LWR"} /\ after = stored
          BY <1>2, <2>2, <3>2, AccessesAre DEF stored
        <4>2. after = Access!ExecutedStore(op, mem, a, x)
          BY <3>2, <4>1 DEF Access!ExecutedStore, stored, size
        <4>3. \A i \in 0..(size - 1) : after[a + i] = Access!ByteOf(x, i)
          BY <2>3, <4>1
        <4> HIDE DEF after, n
        <4>4. /\ y % Access!Place[n] = low /\ executed = y
              /\ load \in {"LB", "LH"} => y = Access!SignCopied(low, n)
              /\ load \notin {"LB", "LH"} => y \div Access!Place[n] = 0
          <5>1. y = Access!SimulatedLoad(load, after, a, old)
            OBVIOUS
          <5>2. n = Access!AccessSize(op) /\ Access!Translated(after, a, n)
            BY Zenon, <3>1, <4>1 DEF size
          <5>3. \A i \in 0..(n - 1) : after[a + i] = Access!ByteOf(x, i)
            BY <4>1, <4>3
          <5> HIDE DEF y
          <5>4. /\ y % Access!Place[n] = x % Access!Place[n]
                /\ Access!ExecutedLoad(load, after, a, old) = y
                /\ load \in {"LB", "LH"} => y = Access!SignCopied(x % Access!Place[n], n)
                /\ load \notin {"LB", "LH"} => y \div Access!Place[n] = 0
            BY <3>2, <5>1, <5>2, <5>3, PartsAreReadBack
          <5> QED BY Zenon, <5>4
        <4> HIDE DEF y, executed, low
        <4>5. y \div Access!Place[n] = CASE load \in {"LB", "LH"} ->
                                              Access!SignCopied(low, n) \div Access!Place[n]
                                         [] load = "LWR" -> old \div Access!Place[n]
                                         [] OTHER -> 0
          BY <4>1, <4>4
        <4>6. (CASE load = "LWL" -> executed = BitOr(old, y)
                 [] load = "LWR" -> executed = Access!Fetched(after, a, Access!WordSize)
                 [] OTHER -> executed = y /\ after = Access!ExecutedStore(op, mem, a, x))
          BY <4>1, <4>2, <4>4
        <4> QED BY <4>4, <4>5, <4>6 DEF y, executed
      <3>3. CASE op = "SWL"
        <4>1. n = 4 /\ size = 4 /\ load = "LWL" /\ after = stored
          BY <1>2, <2>2, <3>3, AccessesAre DEF stored
        <4>2. \A i \in 0..3 : after[a + i] = Access!ByteOf(x, i)
          BY <2>3, <4>1
        <4> HIDE DEF after
        <4>3. y = x /\ executed = BitOr(old, y)
          BY <3>1, <4>1, <4>2, LeftIsReadBack
        <4>4. low = x /\ x \div Access!Place[4] = 0 /\ x % Access!Place[4] = x
          <5>1. x % Access!Place[4] = x
            BY BytesOfWord
          <5>2. (x % Access!Place[4]) \div Access!Place[4] = 0
            BY LowIs
          <5> QED BY <4>1, <5>1, <5>2
        <4> HIDE DEF y, executed, low, n
        <4> QED BY <4>1, <4>3, <4>4 DEF y, executed
      <3>4. CASE op = "SWR"
        <4>1. n = 1 /\ size = 4 /\ load = "LWR" /\ after = [mem EXCEPT ![a + 3] = Access!ByteOf(x, 0)]
          BY <1>2, <2>2, <3>4, AccessesAre
        <4>2. a + 3 \in DOMAIN mem /\ a \in Int /\ a \in 0..(4 * pages - 1)
          BY <2>1, <2>3, <4>1
        <4>3. Access!ByteOf(x, 0) \in Bytes
          BY BytesOfWord
        <4>4. after[a + 3] = Access!ByteOf(x, 0) /\ after[a] \in Bytes
              /\ after[a + 1] \in Bytes /\ after[a + 2] \in Bytes /\ after[a + 3] \in Bytes
          <5>1. after[a + 3] = Access!ByteOf(x, 0)
            BY <4>1, <4>2
          <5>2. ASSUME NEW i \in 0..3 PROVE after[a + i] \in Bytes
            <6>1. a + i \in 0..(4 * pages - 1)
              BY <2>1, <4>2
            <6> QED BY <4>1, <4>3, <6>1
          <5>3. a + 0 = a
            BY <4>2
          <5> QED BY <5>1, <5>2, <5>3
        <4> HIDE DEF after
        <4>5. /\ y % Access!Place[1] = x % Access!Place[1]
              /\ y \div Access!Place[1] = old \div Access!Place[1]
              /\ executed = Access!Fetched(after, a, 4)
          <5>1. y = Access!SimulatedLoad("LWR", after, a, old) /\ Access!Translated(after, a, 4)
                /\ executed = Access!ExecutedLoad("LWR", after, a, old)
            BY Zenon, <3>1, <4>1
          <5> HIDE DEF y, executed
          <5>2. /\ y % Access!Place[1] = x % Access!Place[1]
                /\ y \div Access!Place[1] = old \div Access!Place[1]
                /\ Access!ExecutedLoad("LWR", after, a, old) = Access!Fetched(after, a, 4)
            <6>1. /\ Access!SimulatedLoad("LWR", after, a, old) % Access!Place[1] = x % Access!Place[1]
                  /\ Access!SimulatedLoad("LWR", after, a, old) \div Access!Place[1] = old \div Access!Place[1]
                  /\ Access!ExecutedLoad("LWR", after, a, old) = Access!Fetched(after, a, 4)
              BY Zenon, <4>4, <5>1, RightIsReadBack
            <6> QED BY Zenon, <5>1, <6>1
          <5> QED BY Zenon, <5>1, <5>2
        <4>6. low = x % Access!Place[1] /\ Access!WordSize = 4
          BY <4>1 DEF Access!WordSize
        <4> HIDE DEF y, executed, low, n
        <4> QED BY <4>1, <4>5, <4>6 DEF y, executed
      <3> QED BY <1>1, <3>2, <3>3, <3>4
    <2> HIDE DEF after, n, low, changed
    <2>8. /\ Cardinality(changed) <= n
          /\ \A load \in Access!LoadsOf(op) :
               LET y == Access!SimulatedLoad(load, after, a, old)
                   executed == Access!ExecutedLoad(load, after, a, old)
               IN  /\ y % Access!Place[n] = low
                   /\ CASE load = "LWL" -> executed = BitOr(old, y)
                        [] load = "LWR" -> executed = Access!Fetched(after, a, Access!WordSize)
                        [] OTHER -> executed = y /\ after = Access!ExecutedStore(op, mem, a, x)
                   /\ y \div Access!Place[n] =
                        CASE load \in {"LB", "LH"} ->
                               Access!SignCopied(low, n) \div Access!Place[n]
                          [] load = "LWR" -> old \div Access!Place[n]
                          [] OTHER -> 0
      BY Zenon, <2>6, <2>7
    <2> QED BY Zenon, <2>5, <2>8, SameCount DEF Access!ReadsBack, after, n, low, changed
  <1> QED BY <1>3, <1>4

-------------------------------------------------------------------------------
(* The invariants of MCMachine, on every input *)

Registers == 0..(Access!Place[Access!WordSize] - 1)

\* One computation, on any input that the code can give it.
AnyInput ==
  \/ part = "instruction" /\ input \in Ops \X Words \X Words
  \/ part = "access" /\ \E pages \in Nat :
       input \in Access!Stores \X [0..(4 * pages - 1) -> Bytes] \X Int \X Registers \X Registers
  \/ part = "list" /\ input \in Seq(ListCalls)
  \/ part = "bitmap" /\ \E n \in Nat :
       input \in {n} \X [0..(Maps!NumWords(n) - 1) -> Maps!Words] \X Seq(MapCalls)
  \/ part = "line" /\ input \in Seq(Int)
  \/ part = "int" /\ input \in MinInt..MaxInt
  \/ part = "executable" /\ input \in Sizes \X Int
  \/ part = "conversion" /\ input \in AnyWorld

AnyComputation == AnyInput /\ [][FALSE]_<<part, input>>

\* What OneInstruction and bin/execute.c compute is what arithmetic defines, for
\* words of any size, and both do the same but for the listed differences; what a
\* store of the simulated machine has written its loads read back, from memory and
\* bytes of any size, and no other byte has changed.
THEOREM InstructionsAreRight == AnyComputation => []InstructionsRight
  <1>1. AnyInput => InstructionsRight
    <2> SUFFICES ASSUME AnyInput PROVE InstructionsRight
      OBVIOUS
    <2>1. CASE part = "instruction"
      <3>1. PICK op \in Ops, x \in Words, y \in Words : input = <<op, x, y>>
        BY <2>1 DEF AnyInput
      <3>2. Exact(op, x, y, Simulated(op, x, y))
        BY InstructionsAreExact
      <3>3. Differ(op, x, y) \/ Simulated(op, x, y) = Executed(op, x, y)
        BY SimulatorsAgree
      <3>4. input[1] = op /\ input[2] = x /\ input[3] = y
        BY <3>1
      <3>5. part # "access"
        BY <2>1
      <3> QED BY Zenon, <3>2, <3>3, <3>4, <3>5 DEF InstructionsRight
    <2>2. CASE part = "access"
      <3>1. PICK pages \in Nat :
              input \in Access!Stores \X [0..(4 * pages - 1) -> Bytes] \X Int \X Registers \X Registers
        BY <2>2 DEF AnyInput
      <3>2. PICK op \in Access!Stores, mem \in [0..(4 * pages - 1) -> Bytes],
                 a \in Int, x \in Registers, old \in Registers : input = <<op, mem, a, x, old>>
        BY <3>1
      <3>3. x \in 0..(Access!Place[4] - 1) /\ old \in 0..(Access!Place[4] - 1)
        BY DEF Registers, Access!WordSize
      <3>4. Access!ReadsBack(op, mem, a, x, old)
        BY Zenon, <3>3, StoredIsReadBack
      <3>5. input[1] = op /\ input[2] = mem /\ input[3] = a /\ input[4] = x /\ input[5] = old
        BY <3>2
      <3>6. part # "instruction"
        BY <2>2
      <3> QED BY Zenon, <3>4, <3>5, <3>6 DEF InstructionsRight
    <2>3. CASE part \notin {"instruction", "access"}
      BY <2>3 DEF InstructionsRight
    <2> QED BY <2>1, <2>2, <2>3
  <1>2. InstructionsRight /\ [FALSE]_<<part, input>> => InstructionsRight'
    BY DEF InstructionsRight
  <1> QED BY <1>1, <1>2, PTL DEF AnyComputation

\* Whatever calls are made on it, a list of the kernel is the sequence that the
\* other modules take it for (List::Append, Prepend, SortedInsert, Remove), and a
\* bitmap is the set (BitMap::Mark, Clear, Find, NumClear);
\* ReadInt and PrintInt keep to the usual notation, on any line and any int, and
\* do the same as those of the stage before (exception.cc).
THEOREM LibraryIsRight == AnyComputation => []LibraryRight
  <1>1. AnyInput => LibraryRight
    <2> SUFFICES ASSUME AnyInput PROVE LibraryRight
      OBVIOUS
    <2>1. part = "list" => Queue!IsSequence(input)
      BY ListsAreSequences DEF AnyInput
    <2>2. part = "line" => ReadsExactly(input) /\ StagesAgree(input)
      BY LinesReadExactly, StagesReadAlike DEF AnyInput
    <2>3. part = "int" => RoundTrip(input) /\ SamePrinted(input)
      BY PrintedReadsBack, StagesPrintAlike DEF AnyInput
    <2>4. part = "bitmap" => Maps!IsSet(input[1], input[2], input[3])
      <3> SUFFICES ASSUME part = "bitmap" PROVE Maps!IsSet(input[1], input[2], input[3])
        OBVIOUS
      <3>1. PICK n \in Nat :
              input \in {n} \X [0..(Maps!NumWords(n) - 1) -> Maps!Words] \X Seq(MapCalls)
        BY DEF AnyInput
      <3>2. /\ input[1] = n /\ input[2] \in [0..(Maps!NumWords(n) - 1) -> Maps!Words]
            /\ input[3] \in Seq(MapCalls)
        BY <3>1
      <3> QED BY Zenon, <3>2, BitMapsAreSets
    <2> QED BY Zenon, <2>1, <2>2, <2>3, <2>4 DEF LibraryRight
  <1>2. LibraryRight /\ [FALSE]_<<part, input>> => LibraryRight'
    BY DEF LibraryRight
  <1> QED BY <1>1, <1>2, PTL DEF AnyComputation

\* The processor computes and the library keeps what the rest of the system takes
\* them for (mipssim.cc, list.cc, exception.cc).
THEOREM ComputationsAreRight == AnyComputation => []ComputationsRight
  <1>1. AnyComputation => []InstructionsRight
    BY InstructionsAreRight
  <1>2. AnyComputation => []LibraryRight
    BY LibraryIsRight
  <1>3. InstructionsRight /\ LibraryRight => ComputationsRight
    BY DEF ComputationsRight
  <1> QED BY <1>1, <1>2, <1>3, PTL

\* A program of sections of any sizes comes into the memory of its address space
\* byte for byte as it was linked, on pages of any size, or it is refused; a
\* conversion that fails after any number of reads and writes, or is interrupted,
\* leaves nothing that could be taken for a whole file (coff2noff.c, coff2flat.c,
\* AddrSpace::AddrSpace).
THEOREM ImagesAreLoaded == AnyComputation => []ImageLoaded
  <1>1. AnyInput => ImageLoaded
    <2> SUFFICES ASSUME AnyInput PROVE ImageLoaded
      OBVIOUS
    <2>1. part = "executable" => Executable!LoadedRight(input[1], input[2])
      BY LoadedIsRight DEF AnyInput
    <2>2. part = "conversion" => Converting!OutputsWhole(input)
      BY OutputsAreWhole DEF AnyInput
    <2> QED BY <2>1, <2>2 DEF ImageLoaded
  <1>2. ImageLoaded /\ [FALSE]_<<part, input>> => ImageLoaded'
    BY DEF ImageLoaded
  <1> QED BY <1>1, <1>2, PTL DEF AnyComputation
===============================================================================

