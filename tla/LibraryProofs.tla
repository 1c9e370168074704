----------------------------- MODULE LibraryProofs -----------------------------
(***************************************************************************)
(* Proofs about what the rest of the system calls: that the lists of the   *)
(* kernel are the sequences that all other modules take them for, whatever *)
(* calls are made on them (LinkedList), its bitmaps the sets (BitMaps),    *)
(* and that ReadInt and PrintInt keep to the usual notation of numbers,    *)
(* for ints of any size (IntCalls).                                        *)
(***************************************************************************)
EXTENDS Computations, WellFoundedInduction, FiniteSetTheorems, TLAPS


Addresses == Nat \ {0}
Entries == [item : Addresses, key : Int]

Items(s) == {s[i].item : i \in DOMAIN s}

\* The address of the element behind the i-th, the first one being behind the 0-th.
Behind(s, i) == IF i = Len(s) THEN 0 ELSE s[i + 1].item

\* The list l is the sequence s; the element of each item is at the address item.
Holds(l, s) ==
  /\ s \in Seq(Entries)
  /\ \A i, j \in DOMAIN s : s[i].item = s[j].item => i = j
  /\ l = [first |-> Behind(s, 0), last |-> IF s = <<>> THEN 0 ELSE s[Len(s)].item,
          cells |-> [c \in Items(s) |-> l.cells[c]]]
  /\ \A i \in DOMAIN s :
       l.cells[s[i].item] = [item |-> s[i].item, key |-> s[i].key, next |-> Behind(s, i)]

\* A new list is empty.
LEMMA NewHolds == Holds(Queue!NewList, <<>>)
  <1> DEFINE l == Queue!NewList
  <1>1. l.first = 0 /\ l.last = 0 /\ l.cells = [c \in {} |-> 0]
    BY DEF Queue!NewList, Queue!Nil
  <1>2. l = [first |-> l.first, last |-> l.last, cells |-> l.cells]
    BY DEF Queue!NewList
  <1>3. Items(<<>>) = {} /\ Behind(<<>>, 0) = 0 /\ <<>> \in Seq(Entries) /\ DOMAIN <<>> = {}
    BY DEF Items, Behind
  <1>4. [c \in {} |-> 0] = [c \in {} |-> l.cells[c]]
    OBVIOUS
  <1> HIDE DEF l
  <1> QED BY <1>1, <1>2, <1>3, <1>4 DEF Holds, l

\* What Holds says of a list, piece by piece.
LEMMA HeldParts ==
  ASSUME NEW l, NEW s, Holds(l, s)
  PROVE  /\ Len(s) \in Nat /\ DOMAIN s = 1..Len(s) /\ s = [i \in 1..Len(s) |-> s[i]]
         /\ \A i \in 1..Len(s) : s[i] \in Entries /\ s[i].item \in Addresses /\ s[i].key \in Int
         /\ \A i \in 1..Len(s) : s[i] = [item |-> s[i].item, key |-> s[i].key]
         /\ l.first = Behind(s, 0) /\ DOMAIN l.cells = Items(s)
         /\ l.last = IF s = <<>> THEN 0 ELSE s[Len(s)].item
         /\ Queue!IsEmpty(l) <=> s = <<>>
         /\ s = <<>> <=> Len(s) = 0
  <1>1. s \in Seq(Entries)
    BY DEF Holds
  <1>2. Len(s) \in Nat /\ DOMAIN s = 1..Len(s) /\ s = [i \in 1..Len(s) |-> s[i]]
    BY <1>1
  <1>3. \A i \in 1..Len(s) : s[i] \in Entries
    BY <1>1, <1>2
  <1>4. \A i \in 1..Len(s) : /\ s[i].item \in Addresses /\ s[i].key \in Int
                             /\ s[i] = [item |-> s[i].item, key |-> s[i].key]
    BY <1>3 DEF Entries
  <1>5. /\ l.first = Behind(s, 0) /\ DOMAIN l.cells = Items(s)
        /\ l.last = IF s = <<>> THEN 0 ELSE s[Len(s)].item
    BY DEF Holds
  <1>6. s = <<>> <=> Len(s) = 0
    BY <1>1
  <1>7. Queue!IsEmpty(l) <=> s = <<>>
    <2>1. s # <<>> => 1 \in 1..Len(s)
      BY <1>2, <1>6
    <2>2. s # <<>> => Behind(s, 0) # 0
      BY <1>2, <1>4, <1>6, <2>1 DEF Behind, Addresses
    <2>3. s = <<>> => Behind(s, 0) = 0
      BY <1>6 DEF Behind
    <2> QED BY <1>5, <2>2, <2>3 DEF Queue!IsEmpty, Queue!Nil
  <1> QED BY <1>2, <1>3, <1>4, <1>5, <1>6, <1>7

\* A sequence with the entry e behind its first i ones.
Splice(s, i, e) ==
  [k \in 1..(Len(s) + 1) |-> IF k <= i THEN s[k] ELSE IF k = i + 1 THEN e ELSE s[k - 1]]

\* A cell, and the same pointing elsewhere.
IsCell(x) == x = [item |-> x.item, key |-> x.key, next |-> x.next]
Pointing(x, c) == [item |-> x.item, key |-> x.key, next |-> c]

\* The list with the element c at that place.
Spliced(l, s, i, c, key) ==
  [first |-> IF i = 0 THEN c ELSE l.first,
   last  |-> IF i = Len(s) THEN c ELSE l.last,
   cells |-> [d \in Items(s) \cup {c} |->
                IF d = c THEN [item |-> c, key |-> key, next |-> Behind(s, i)]
                ELSE IF i # 0 /\ d = s[i].item THEN Pointing(l.cells[d], c)
                ELSE l.cells[d]]]

\* It holds the sequence with the entry at that place.
LEMMA SpliceHolds ==
  ASSUME NEW l, NEW s, Holds(l, s), NEW i \in 0..Len(s),
         NEW c \in Addresses \ Items(s), NEW key \in Int
  PROVE  /\ Holds(Spliced(l, s, i, c, key), Splice(s, i, [item |-> c, key |-> key]))
         /\ Items(Splice(s, i, [item |-> c, key |-> key])) = Items(s) \cup {c}
  <1> DEFINE e == [item |-> c, key |-> key]
             t == Splice(s, i, e)
             m == Spliced(l, s, i, c, key)
             L == Len(s)
  <1>1. L \in Nat /\ DOMAIN s = 1..L /\ \A k \in 1..L : s[k] \in Entries
    BY HeldParts
  <1>2. e \in Entries /\ e.item = c /\ e.key = key
    BY DEF Entries
  <1> HIDE DEF e, L
  <1>3. i \in 0..L
    BY DEF L
  <1>4. /\ DOMAIN t = 1..(L + 1)
        /\ \A k \in 1..i : t[k] = s[k]
        /\ t[i + 1] = e
        /\ \A k \in (i + 2)..(L + 1) : t[k] = s[k - 1]
    BY <1>1 DEF Splice, L
  <1>5. t \in Seq(Entries)
    <2>1. ASSUME NEW k \in 1..(L + 1)
          PROVE  (IF k <= i THEN s[k] ELSE IF k = i + 1 THEN e ELSE s[k - 1]) \in Entries
      <3>1. CASE k <= i
        BY <1>1, <3>1 DEF L
      <3>2. CASE k = i + 1
        BY <1>1, <1>2, <3>2 DEF L
      <3>3. CASE k > i + 1
        BY <1>1, <3>3 DEF L
      <3> QED BY <1>1, <3>1, <3>2, <3>3 DEF L
    <2> QED BY <1>1, <2>1 DEF Splice, L
  <1>6. Len(t) = L + 1
    BY <1>1, <1>4, <1>5
  <1> HIDE DEF t
  <1>7. \A k \in 1..L : s[k].item \in Items(s) /\ s[k].item # c
    BY <1>1 DEF Items
  <1>8. \A k, n \in 1..L : s[k].item = s[n].item => k = n
    BY <1>1 DEF Holds
  <1> DEFINE Old(k) == IF k <= i THEN k ELSE k - 1
  <1>9. \A k \in 1..(L + 1) : k # i + 1 => t[k] = s[Old(k)] /\ Old(k) \in 1..L
    BY <1>1, <1>4 DEF L
  <1>10. \A k \in 1..(L + 1) : k # i + 1 => t[k].item # c /\ t[k].item \in Items(s)
    BY <1>7, <1>9
  <1>11. i + 1 \in 1..(L + 1) /\ t[i + 1].item = c /\ t[i + 1].key = key
    BY <1>1, <1>2, <1>4 DEF L
  <1>12. ASSUME NEW k \in 1..(L + 1), NEW n \in 1..(L + 1), t[k].item = t[n].item
         PROVE  k = n
    <2>1. CASE k = i + 1
      BY <1>10, <1>11, <1>12, <2>1
    <2>2. CASE n = i + 1
      BY <1>10, <1>11, <1>12, <2>2
    <2>3. CASE k # i + 1 /\ n # i + 1
      <3>1. Old(k) = Old(n)
        BY <1>8, <1>9, <1>12, <2>3
      <3> QED BY <1>1, <2>3, <3>1 DEF L
    <2> QED BY <2>1, <2>2, <2>3
  <1>13. Items(t) = Items(s) \cup {c}
    <2>1. ASSUME NEW k \in 1..L PROVE s[k].item \in Items(t)
      <3> DEFINE n == IF k <= i THEN k ELSE k + 1
      <3>1. n \in 1..(L + 1) /\ n # i + 1 /\ Old(n) = k
        BY <1>1 DEF L
      <3>2. t[n] = s[k]
        BY <1>9, <3>1
      <3> HIDE DEF n
      <3> QED BY <1>4, <3>1, <3>2 DEF Items
    <2>2. Items(s) \subseteq Items(t)
      BY <1>1, <2>1 DEF Items
    <2>3. c \in Items(t)
      BY <1>4, <1>11 DEF Items
    <2>4. Items(t) \subseteq Items(s) \cup {c}
      BY <1>4, <1>10, <1>11 DEF Items
    <2> QED BY <2>2, <2>3, <2>4
  <1> HIDE DEF Old
  <1>14. /\ m.first = IF i = 0 THEN c ELSE l.first
         /\ m.last = IF i = L THEN c ELSE l.last
         /\ m.cells = [d \in Items(s) \cup {c} |->
                IF d = c THEN [item |-> c, key |-> key, next |-> Behind(s, i)]
                ELSE IF i # 0 /\ d = s[i].item THEN Pointing(l.cells[d], c)
                ELSE l.cells[d]]
         /\ m = [first |-> m.first, last |-> m.last, cells |-> m.cells]
    BY DEF Spliced, L
  <1> HIDE DEF m
  <1>15. m.first = Behind(t, 0)
    <2>1. Behind(t, 0) = t[1].item
      BY <1>1, <1>6 DEF Behind
    <2>2. CASE i = 0
      BY <1>11, <1>14, <2>1, <2>2
    <2>3. CASE i # 0
      <3>1. t[1] = s[1] /\ L # 0
        BY <1>1, <1>4, <2>3 DEF L
      <3>2. l.first = s[1].item
        BY <1>1, <3>1, HeldParts DEF Behind, L
      <3> QED BY <1>14, <2>1, <2>3, <3>1, <3>2
    <2> QED BY <2>2, <2>3
  <1>16. m.last = t[Len(t)].item /\ t # <<>>
    <2>1. CASE i = L
      BY <1>1, <1>6, <1>11, <1>14, <2>1
    <2>2. CASE i # L
      <3>1. t[L + 1] = s[L] /\ L # 0
        <4>1. L + 1 \in (i + 2)..(L + 1) /\ (L + 1) - 1 = L /\ L # 0
          BY <1>1, <1>3, <2>2
        <4>2. t[L + 1] = s[(L + 1) - 1]
          BY <1>4, <4>1
        <4> QED BY <4>1, <4>2
      <3>2. l.last = s[L].item
        BY <1>1, <3>1, HeldParts DEF L
      <3> QED BY <1>1, <1>6, <1>14, <2>2, <3>1, <3>2
    <2> QED BY <1>1, <1>6, <2>1, <2>2
  <1>17. ASSUME NEW k \in 1..(L + 1)
         PROVE  m.cells[t[k].item] = [item |-> t[k].item, key |-> t[k].key, next |-> Behind(t, k)]
    <2>1. Behind(t, k) = IF k = L + 1 THEN 0 ELSE t[k + 1].item
      BY <1>6 DEF Behind
    <2>2. CASE k = i + 1
      <3>1. Behind(t, k) = Behind(s, i)
        <4>1. CASE i = L
          BY <1>1, <2>1, <2>2, <4>1 DEF Behind, L
        <4>2. CASE i # L
          <5>1. k + 1 \in (i + 2)..(L + 1) /\ (k + 1) - 1 = i + 1 /\ k # L + 1
            BY <1>1, <1>3, <2>2, <4>2
          <5>2. t[k + 1] = s[(k + 1) - 1]
            BY <1>4, <5>1
          <5>3. Behind(t, k) = s[i + 1].item
            BY <2>1, <5>1, <5>2
          <5> QED BY <4>2, <5>3 DEF Behind, L
        <4> QED BY <4>1, <4>2
      <3>2. m.cells[c] = [item |-> c, key |-> key, next |-> Behind(s, i)]
        BY <1>14
      <3> QED BY <1>11, <2>2, <3>1, <3>2
    <2>3. CASE k # i + 1
      <3> DEFINE n == Old(k)
                 d == s[n].item
      <3>1. t[k] = s[n] /\ n \in 1..L
        BY <1>9, <2>3 DEF Old
      <3>2. n = IF k <= i THEN k ELSE k - 1
        BY DEF Old
      <3> HIDE DEF n
      <3>3. d \in Items(s) /\ d # c
        BY <1>7, <3>1
      <3>4. l.cells[d] = [item |-> d, key |-> s[n].key, next |-> Behind(s, n)]
        BY <1>1, <3>1 DEF Holds
      <3>5. m.cells[d] = IF i # 0 /\ d = s[i].item THEN Pointing(l.cells[d], c)
                         ELSE l.cells[d]
        BY <1>14, <3>3
      <3>6. CASE n = i
        <4>1. k = i /\ k # L + 1 /\ i # 0
          BY <1>1, <2>3, <3>1, <3>2, <3>6 DEF L
        <4>2. Behind(t, k) = c
          BY <1>11, <2>1, <4>1
        <4>3. m.cells[d] = [item |-> d, key |-> s[n].key, next |-> c]
          BY <3>4, <3>5, <3>6, <4>1 DEF Pointing
        <4> QED BY <3>1, <4>2, <4>3
      <3>7. CASE n # i
        <4>1. ~(i # 0 /\ d = s[i].item)
          <5>1. i # 0 => i \in 1..L
            BY DEF L
          <5> QED BY <1>8, <3>1, <3>7, <5>1
        <4>2. Behind(t, k) = Behind(s, n)
          <5>1. CASE n = L
            <6>1. k = L + 1
              BY <1>1, <2>3, <3>1, <3>2, <3>7, <5>1 DEF L
            <6> QED BY <2>1, <5>1, <6>1 DEF Behind, L
          <5>2. CASE n # L
            <6>1. k + 1 \in 1..(L + 1) /\ k + 1 # i + 1
                  /\ n + 1 = IF k + 1 <= i THEN k + 1 ELSE (k + 1) - 1
              BY <1>1, <1>3, <2>3, <3>1, <3>2, <3>7, <5>2
            <6>2. Old(k + 1) = n + 1
              BY <6>1 DEF Old
            <6>3. t[k + 1] = s[n + 1] /\ k # L + 1
              BY <1>1, <1>9, <6>1, <6>2
            <6> QED BY <2>1, <5>2, <6>3 DEF Behind, L
          <5> QED BY <5>1, <5>2
        <4>3. m.cells[d] = [item |-> d, key |-> s[n].key, next |-> Behind(s, n)]
          BY <3>4, <3>5, <4>1
        <4> QED BY <3>1, <4>2, <4>3
      <3> QED BY <3>6, <3>7
    <2> QED BY <2>2, <2>3
  <1>18. m.cells = [d \in Items(t) |-> m.cells[d]]
    BY <1>13, <1>14
  <1>19. m = [first |-> Behind(t, 0), last |-> IF t = <<>> THEN 0 ELSE t[Len(t)].item,
              cells |-> [d \in Items(t) |-> m.cells[d]]]
    BY <1>14, <1>15, <1>16, <1>18
  <1>20. Holds(m, t)
    BY <1>4, <1>5, <1>12, <1>17, <1>19 DEF Holds
  <1> QED BY <1>13, <1>20 DEF m, t, e

\* Assignments to the fields of a list and to the next pointer of a cell.
IsList(m) == m = [first |-> m.first, last |-> m.last, cells |-> m.cells]

\* The assignments to one field of a list.
LEMMA FieldsAre ==
  ASSUME NEW m, IsList(m), NEW q
  PROVE  /\ [m EXCEPT !.first = q] = [first |-> q, last |-> m.last, cells |-> m.cells]
         /\ [m EXCEPT !.last = q] = [first |-> m.first, last |-> q, cells |-> m.cells]
         /\ [m EXCEPT !.cells = q] = [first |-> m.first, last |-> m.last, cells |-> q]
  <1>1. m \in [first : {m.first, q}, last : {m.last, q}, cells : {m.cells, q}]
    BY DEF IsList
  <1> QED BY <1>1

\* The assignment to the pointer of a cell.
LEMMA NextIs ==
  ASSUME NEW x, IsCell(x), NEW c
  PROVE  [x EXCEPT !.next = c] = Pointing(x, c)
  <1>1. x \in [item : {x.item}, key : {x.key}, next : {x.next, c}]
    BY DEF IsCell
  <1> QED BY <1>1 DEF Pointing

SetNext(m, p, n) == [m EXCEPT !.cells[p].next = n]
SetNextAndLast(m, p, n, q) == [m EXCEPT !.cells[p].next = n, !.last = q]
SetNextAndFirst(m, p, n, q) == [m EXCEPT !.cells[p].next = n, !.first = q]

\* The assignments to the pointer of one cell of a list, and to an end of it.
LEMMA PointersAre ==
  ASSUME NEW m, IsList(m), NEW p, IsCell(m.cells[p]), NEW n, NEW q
  PROVE  LET cells == [m.cells EXCEPT ![p] = Pointing(m.cells[p], n)]
         IN  /\ SetNext(m, p, n) = [first |-> m.first, last |-> m.last, cells |-> cells]
             /\ SetNextAndLast(m, p, n, q) = [first |-> m.first, last |-> q, cells |-> cells]
             /\ SetNextAndFirst(m, p, n, q) = [first |-> q, last |-> m.last, cells |-> cells]
  <1> DEFINE y == Pointing(m.cells[p], n)
             cells == [m.cells EXCEPT ![p] = y]
             k == [m EXCEPT !.cells = cells]
  <1>1. y = [m.cells[p] EXCEPT !.next = n]
    BY NextIs
  <1> HIDE DEF y
  <1>2. k = [first |-> m.first, last |-> m.last, cells |-> cells]
    BY FieldsAre
  <1>3. SetNextAndLast(m, p, n, q) = [k EXCEPT !.last = q]
    BY <1>1, Zenon DEF SetNextAndLast
  <1>4. SetNextAndFirst(m, p, n, q) = [k EXCEPT !.first = q]
    BY <1>1, Zenon DEF SetNextAndFirst
  <1>5. SetNext(m, p, n) = k
    BY <1>1, Zenon DEF SetNext
  <1> HIDE DEF k
  <1>6. IsList(k) /\ k.first = m.first /\ k.last = m.last /\ k.cells = cells
    BY <1>2 DEF IsList
  <1>7. [k EXCEPT !.last = q] = [first |-> k.first, last |-> q, cells |-> k.cells]
    BY <1>6, FieldsAre
  <1>8. [k EXCEPT !.first = q] = [first |-> q, last |-> k.last, cells |-> k.cells]
    BY <1>6, FieldsAre
  <1>9. [k EXCEPT !.last = q] = [first |-> m.first, last |-> q, cells |-> cells]
    BY <1>6, <1>7, Zenon
  <1>10. [k EXCEPT !.first = q] = [first |-> q, last |-> m.last, cells |-> cells]
    BY <1>6, <1>8, Zenon
  <1> QED BY <1>2, <1>3, <1>4, <1>5, <1>9, <1>10, Zenon DEF y

\* One of the three by itself.
LEMMA SetNextIs ==
  ASSUME NEW m, IsList(m), NEW p, IsCell(m.cells[p]), NEW n
  PROVE  SetNext(m, p, n) = [first |-> m.first, last |-> m.last,
                             cells |-> [m.cells EXCEPT ![p] = Pointing(m.cells[p], n)]]
  BY PointersAre

\* A list with a new element that nothing points to yet.
LEMMA NewElementIs ==
  ASSUME NEW l, NEW s, Holds(l, s), NEW c \in Addresses \ Items(s), NEW key \in Int
  PROVE  LET m == Queue!NewElement(l, c, c, key)
         IN  /\ IsList(m) /\ m.first = l.first /\ m.last = l.last
             /\ m.cells = [d \in Items(s) \cup {c} |->
                            IF d = c THEN [item |-> c, key |-> key, next |-> 0] ELSE l.cells[d]]
             /\ \A d \in Items(s) \cup {c} : IsCell(m.cells[d])
  <1> DEFINE m == Queue!NewElement(l, c, c, key)
             cells == [d \in Items(s) \cup {c} |->
                         IF d = c THEN [item |-> c, key |-> key, next |-> 0] ELSE l.cells[d]]
  <1>1. IsList(l) /\ DOMAIN l.cells = Items(s)
    <2>1. l = [first |-> Behind(s, 0), last |-> IF s = <<>> THEN 0 ELSE s[Len(s)].item,
               cells |-> [d \in Items(s) |-> l.cells[d]]]
      BY DEF Holds
    <2> QED BY <2>1 DEF IsList
  <1>2. m = [l EXCEPT !.cells = cells]
    BY <1>1 DEF Queue!NewElement, Queue!Nil
  <1>3. \A d \in Items(s) : IsCell(l.cells[d])
    <2> SUFFICES ASSUME NEW i \in DOMAIN s PROVE IsCell(l.cells[s[i].item])
      BY DEF Items
    <2> DEFINE x == l.cells[s[i].item]
    <2>1. x = [item |-> s[i].item, key |-> s[i].key, next |-> Behind(s, i)]
      BY DEF Holds
    <2> HIDE DEF x
    <2> QED BY <2>1 DEF IsCell, x
  <1> HIDE DEF m
  <1>4. m = [first |-> l.first, last |-> l.last, cells |-> cells]
    BY <1>1, <1>2, FieldsAre
  <1>5. \A d \in Items(s) \cup {c} : IsCell(cells[d])
    BY <1>3 DEF IsCell
  <1> HIDE DEF cells
  <1>6. IsList(m) /\ m.first = l.first /\ m.last = l.last /\ m.cells = cells
    BY <1>4 DEF IsList
  <1> QED BY <1>5, <1>6 DEF m, cells

\* An empty list takes its only element.
LEMMA OnlySplices ==
  ASSUME NEW l, Holds(l, <<>>), NEW c \in Addresses \ Items(<<>>), NEW key \in Int
  PROVE  Queue!AsOnly(Queue!NewElement(l, c, c, key), c) = Spliced(l, <<>>, 0, c, key)
  <1> DEFINE m == Queue!NewElement(l, c, c, key)
             s == <<>>
             r == Spliced(l, s, 0, c, key)
             k == [m EXCEPT !.first = c]
             only == [d \in {c} |-> [item |-> c, key |-> key, next |-> 0]]
  <1>1. Items(s) = {} /\ Behind(s, 0) = 0 /\ Len(s) = 0
    BY DEF Items, Behind
  <1>2. IsList(m) /\ m.cells = only
    <2>1. /\ IsList(m)
          /\ m.cells = [d \in Items(s) \cup {c} |->
                         IF d = c THEN [item |-> c, key |-> key, next |-> 0] ELSE l.cells[d]]
      BY NewElementIs
    <2> QED BY <1>1, <2>1
  <1>3. r.cells = only /\ r = [first |-> c, last |-> c, cells |-> r.cells]
    BY <1>1 DEF Spliced
  <1> HIDE DEF m, r, only
  <1>4. k = [first |-> c, last |-> m.last, cells |-> m.cells]
    BY <1>2, FieldsAre
  <1>5. Queue!AsOnly(m, c) = [k EXCEPT !.last = c]
    BY Zenon DEF Queue!AsOnly
  <1> HIDE DEF k
  <1>6. IsList(k) /\ k.first = c /\ k.cells = m.cells
    BY <1>4 DEF IsList
  <1>7. [k EXCEPT !.last = c] = [first |-> k.first, last |-> c, cells |-> k.cells]
    BY <1>6, FieldsAre
  <1> QED BY <1>2, <1>3, <1>5, <1>6, <1>7, Zenon DEF m, r

\* Two lists whose cells are the same.
LEMMA SameCells ==
  ASSUME NEW D, NEW f, NEW g, f = [d \in D |-> f[d]], g = [d \in D |-> g[d]],
         \A d \in D : f[d] = g[d]
  PROVE  f = g
  OBVIOUS

\* The pointer of the last element, and the one to it.
LEMMA BehindLastSplices ==
  ASSUME NEW l, NEW s, Holds(l, s), s # <<>>, NEW c \in Addresses \ Items(s), NEW key \in Int
  PROVE  Queue!BehindLast(Queue!NewElement(l, c, c, key), c) = Spliced(l, s, Len(s), c, key)
  <1> DEFINE m == Queue!NewElement(l, c, c, key)
             L == Len(s)
             D == Items(s) \cup {c}
             r == Spliced(l, s, L, c, key)
             cells == [m.cells EXCEPT ![l.last] = Pointing(m.cells[l.last], c)]
  <1>1. /\ IsList(m) /\ m.first = l.first /\ m.last = l.last
        /\ m.cells = [d \in D |->
                       IF d = c THEN [item |-> c, key |-> key, next |-> 0] ELSE l.cells[d]]
        /\ \A d \in D : IsCell(m.cells[d])
    BY NewElementIs
  <1>2. L \in Nat /\ L # 0 /\ l.last = s[L].item /\ s[L].item \in Items(s) /\ Behind(s, L) = 0
    <2>1. L \in Nat /\ L # 0 /\ l.last = s[L].item /\ L \in DOMAIN s
      BY HeldParts
    <2> QED BY <2>1 DEF Items, Behind
  <1> HIDE DEF m, L, D
  <1>3. /\ r = [first |-> l.first, last |-> c, cells |-> r.cells]
        /\ r.cells = [d \in D |->
                       IF d = c THEN [item |-> c, key |-> key, next |-> 0]
                       ELSE IF d = s[L].item THEN Pointing(l.cells[d], c) ELSE l.cells[d]]
    BY <1>2 DEF Spliced, L, D
  <1>4. l.last \in D /\ l.last # c
    BY <1>2 DEF D
  <1>5. Queue!BehindLast(m, c) = [first |-> l.first, last |-> c, cells |-> cells]
    <2>1. Queue!BehindLast(m, c) = SetNextAndLast(m, m.last, c, c)
      BY Zenon DEF Queue!BehindLast, SetNextAndLast
    <2>2. IsCell(m.cells[m.last]) /\ IsList(m)
      BY <1>1, <1>4
    <2>3. SetNextAndLast(m, m.last, c, c) =
            [first |-> m.first, last |-> c,
             cells |-> [m.cells EXCEPT ![m.last] = Pointing(m.cells[m.last], c)]]
      BY <2>2, PointersAre
    <2> QED BY <1>1, <2>1, <2>3, Zenon
  <1>6. cells = [d \in D |-> IF d = l.last THEN Pointing(m.cells[d], c) ELSE m.cells[d]]
    BY <1>1, <1>4
  <1> HIDE DEF cells, r
  <1>7. ASSUME NEW d \in D PROVE cells[d] = r.cells[d]
    <2>1. CASE d = c
      BY <1>1, <1>3, <1>4, <1>6, <2>1
    <2>2. CASE d # c
      BY <1>1, <1>2, <1>3, <1>6, <2>2
    <2> QED BY <2>1, <2>2
  <1>8. cells = r.cells
    BY <1>3, <1>6, <1>7, SameCells
  <1> QED BY <1>3, <1>5, <1>8, Zenon DEF r, m, L

\* The pointer to the first element.
LEMMA BeforeFirstSplices ==
  ASSUME NEW l, NEW s, Holds(l, s), s # <<>>, NEW c \in Addresses \ Items(s), NEW key \in Int
  PROVE  Queue!BeforeFirst(Queue!NewElement(l, c, c, key), c) = Spliced(l, s, 0, c, key)
  <1> DEFINE m == Queue!NewElement(l, c, c, key)
             D == Items(s) \cup {c}
             r == Spliced(l, s, 0, c, key)
             cells == [m.cells EXCEPT ![c] = Pointing(m.cells[c], l.first)]
  <1>1. /\ IsList(m) /\ m.first = l.first /\ m.last = l.last
        /\ m.cells = [d \in D |->
                       IF d = c THEN [item |-> c, key |-> key, next |-> 0] ELSE l.cells[d]]
        /\ \A d \in D : IsCell(m.cells[d])
    BY NewElementIs
  <1>2. Len(s) \in Nat /\ Len(s) # 0 /\ l.first = Behind(s, 0) /\ c \in D
    BY HeldParts
  <1> HIDE DEF m, D
  <1>3. /\ r = [first |-> c, last |-> l.last, cells |-> r.cells]
        /\ r.cells = [d \in D |->
                       IF d = c THEN [item |-> c, key |-> key, next |-> l.first] ELSE l.cells[d]]
    BY <1>2 DEF Spliced, D
  <1>4. Queue!BeforeFirst(m, c) = [first |-> c, last |-> l.last, cells |-> cells]
    <2>1. Queue!BeforeFirst(m, c) = SetNextAndFirst(m, c, m.first, c)
      BY Zenon DEF Queue!BeforeFirst, SetNextAndFirst
    <2>2. IsCell(m.cells[c]) /\ IsList(m)
      BY <1>1, <1>2
    <2>3. SetNextAndFirst(m, c, m.first, c) =
            [first |-> c, last |-> m.last,
             cells |-> [m.cells EXCEPT ![c] = Pointing(m.cells[c], m.first)]]
      BY <2>2, PointersAre
    <2> QED BY <1>1, <2>1, <2>3, Zenon
  <1>5. cells = [d \in D |-> IF d = c THEN Pointing(m.cells[d], l.first) ELSE m.cells[d]]
    BY <1>1, <1>2
  <1>6. Pointing(m.cells[c], l.first) = [item |-> c, key |-> key, next |-> l.first]
    BY <1>1, <1>2 DEF Pointing
  <1> HIDE DEF cells, r
  <1>7. ASSUME NEW d \in D PROVE cells[d] = r.cells[d]
    BY <1>1, <1>3, <1>5, <1>6
  <1>8. cells = r.cells
    BY <1>3, <1>5, <1>7, SameCells
  <1> QED BY <1>3, <1>4, <1>8, Zenon DEF r, m

\* Append, the concatenations and the sequence that InSequence builds.
LEMMA SpliceIs ==
  ASSUME NEW s \in Seq(Entries), NEW e \in Entries, NEW i \in 0..Len(s)
  PROVE  /\ Splice(s, Len(s), e) = Append(s, e)
         /\ Splice(s, 0, e) = <<e>> \o s
         /\ Splice(s, i, e) = SubSeq(s, 1, i) \o <<e>> \o SubSeq(s, i + 1, Len(s))
  <1> DEFINE L == Len(s)
  <1>1. L \in Nat /\ s = [k \in 1..L |-> s[k]]
    OBVIOUS
  <1>2. Splice(s, L, e) = Append(s, e)
    <2>1. Append(s, e) = [k \in 1..(L + 1) |-> IF k = L + 1 THEN e ELSE s[k]]
      <3> DEFINE t == Append(s, e)
      <3>1. t \in Seq(Entries) /\ Len(t) = L + 1
        OBVIOUS
      <3>2. \A k \in 1..(L + 1) : t[k] = IF k = L + 1 THEN e ELSE s[k]
        OBVIOUS
      <3> HIDE DEF t, L
      <3>3. t = [k \in 1..(L + 1) |-> t[k]]
        BY <3>1
      <3> QED BY <3>2, <3>3 DEF t, L
    <2>2. \A k \in 1..(L + 1) :
            (IF k <= L THEN s[k] ELSE IF k = L + 1 THEN e ELSE s[k - 1]) =
              IF k = L + 1 THEN e ELSE s[k]
      BY <1>1
    <2> QED BY <2>1, <2>2 DEF Splice
  <1>3. Splice(s, 0, e) = <<e>> \o s
    <2>1. <<e>> \o s = [k \in 1..(1 + L) |-> IF k <= 1 THEN <<e>>[k] ELSE s[k - 1]]
      BY <1>1
    <2>2. \A k \in 1..(L + 1) :
            (IF k <= 0 THEN s[k] ELSE IF k = 0 + 1 THEN e ELSE s[k - 1]) =
              IF k <= 1 THEN <<e>>[k] ELSE s[k - 1]
      BY <1>1
    <2>3. 1..(1 + L) = 1..(L + 1)
      BY <1>1
    <2> QED BY <2>1, <2>2, <2>3 DEF Splice
  <1>4. Splice(s, i, e) = SubSeq(s, 1, i) \o <<e>> \o SubSeq(s, i + 1, Len(s))
    <2> DEFINE a == SubSeq(s, 1, i)
               b == SubSeq(s, i + 1, L)
               ae == a \o <<e>>
               t == ae \o b
    <2>1. a \in Seq(Entries) /\ Len(a) = i /\ \A k \in 1..i : a[k] = s[k]
      BY <1>1
    <2>2. b \in Seq(Entries) /\ Len(b) = L - i /\ \A k \in 1..(L - i) : b[k] = s[i + k]
      <3>1. b = [k \in 1..(L - i) |-> s[i + k]]
        BY <1>1
      <3>2. \A k \in 1..(L - i) : s[i + k] \in Entries
        BY <1>1
      <3> QED BY <1>1, <3>1, <3>2
    <2> HIDE DEF a, b, L
    <2>3. ae \in Seq(Entries) /\ Len(ae) = i + 1 /\ ae[i + 1] = e /\ \A k \in 1..i : ae[k] = s[k]
      BY <2>1
    <2> HIDE DEF ae
    <2>4. L \in Nat /\ i \in 0..L
      BY <1>1 DEF L
    <2>5. t \in Seq(Entries) /\ Len(t) = Len(ae) + Len(b)
      <3>1. ae \in Seq(Entries) /\ b \in Seq(Entries)
        BY <2>2, <2>3
      <3> QED BY <3>1
    <2>6. Len(t) = L + 1
      BY <2>2, <2>3, <2>4, <2>5
    <2>7. ASSUME NEW k \in 1..(L + 1)
          PROVE  t[k] = IF k <= i THEN s[k] ELSE IF k = i + 1 THEN e ELSE s[k - 1]
      <3>1. t[k] = IF k <= i + 1 THEN ae[k] ELSE b[k - (i + 1)]
        BY <2>2, <2>3, <2>4
      <3> HIDE DEF t
      <3>2. CASE k <= i
        BY <2>3, <2>4, <3>1, <3>2
      <3>3. CASE k = i + 1
        BY <2>3, <2>4, <3>1, <3>3
      <3>4. CASE k > i + 1
        <4>1. k - (i + 1) \in 1..(L - i) /\ i + (k - (i + 1)) = k - 1 /\ ~(k <= i + 1)
          BY <2>4, <3>4
        <4>2. b[k - (i + 1)] = s[i + (k - (i + 1))]
          BY <2>2, <4>1
        <4>3. t[k] = s[k - 1]
          BY <3>1, <4>1, <4>2
        <4>4. ~(k <= i) /\ k # i + 1
          BY <2>4, <3>4
        <4> QED BY <4>3, <4>4
      <3> QED BY <2>4, <3>2, <3>3, <3>4
    <2> HIDE DEF t
    <2>8. t = [k \in 1..(L + 1) |-> t[k]]
      BY <2>5, <2>6
    <2>9. Splice(s, i, e) = t
      BY <2>7, <2>8 DEF Splice, L
    <2> QED BY <2>9 DEF t, ae, a, b, L
  <1> QED BY <1>2, <1>3, <1>4

\* Append and Prepend are what they are on sequences.
LEMMA EndsHold ==
  ASSUME NEW l, NEW s, Holds(l, s), NEW c \in Addresses \ Items(s)
  PROVE  LET e == [item |-> c, key |-> 0]
         IN  /\ Holds(Queue!Appended(l, c, c), Append(s, e))
             /\ Holds(Queue!Prepended(l, c, c), <<e>> \o s)
             /\ Items(Append(s, e)) = Items(s) \cup {c}
             /\ Items(<<e>> \o s) = Items(s) \cup {c}
  <1> DEFINE e == [item |-> c, key |-> 0]
  <1>1. s \in Seq(Entries) /\ e \in Entries /\ Len(s) \in Nat
    BY DEF Holds, Entries
  <1>2. 0 \in 0..Len(s) /\ Len(s) \in 0..Len(s)
    BY <1>1
  <1>3. Splice(s, Len(s), e) = Append(s, e) /\ Splice(s, 0, e) = <<e>> \o s
    BY <1>1, <1>2, SpliceIs
  <1>4. /\ Holds(Spliced(l, s, Len(s), c, 0), Splice(s, Len(s), e))
        /\ Holds(Spliced(l, s, 0, c, 0), Splice(s, 0, e))
        /\ Items(Splice(s, Len(s), e)) = Items(s) \cup {c}
        /\ Items(Splice(s, 0, e)) = Items(s) \cup {c}
    BY <1>2, SpliceHolds
  <1>5. CASE s = <<>>
    <2>1. Queue!IsEmpty(l)
      BY <1>5, HeldParts
    <2>2. Queue!AsOnly(Queue!NewElement(l, c, c, 0), c) = Spliced(l, s, 0, c, 0) /\ Len(s) = 0
      BY <1>5, OnlySplices
    <2> QED BY <1>3, <1>4, <2>1, <2>2 DEF Queue!Appended, Queue!Prepended
  <1>6. CASE s # <<>>
    <2>1. ~Queue!IsEmpty(l)
      BY <1>6, HeldParts
    <2>2. /\ Queue!BehindLast(Queue!NewElement(l, c, c, 0), c) = Spliced(l, s, Len(s), c, 0)
          /\ Queue!BeforeFirst(Queue!NewElement(l, c, c, 0), c) = Spliced(l, s, 0, c, 0)
      BY <1>6, BehindLastSplices, BeforeFirstSplices
    <2> QED BY <1>3, <1>4, <2>1, <2>2 DEF Queue!Appended, Queue!Prepended
  <1> QED BY <1>5, <1>6

\* Remove takes the first entry: the two pointers agree that there is none left
\* exactly when there is none.
LEMMA RemoveHolds ==
  ASSUME NEW l, NEW s, Holds(l, s)
  PROVE  LET t == IF s = <<>> THEN s ELSE Tail(s)
         IN  Holds(Queue!Removed(l), t) /\ Items(t) \subseteq Items(s)
  <1>1. CASE s = <<>>
    BY <1>1, HeldParts DEF Queue!Removed
  <1>2. CASE s # <<>>
    <2> DEFINE L == Len(s)
               t == Tail(s)
               m == Queue!Removed(l)
    <2>1. /\ L \in Nat \ {0} /\ DOMAIN s = 1..L /\ \A k \in 1..L : s[k] \in Entries
          /\ l.first = Behind(s, 0) /\ DOMAIN l.cells = Items(s) /\ l.last = s[L].item
          /\ ~Queue!IsEmpty(l) /\ s \in Seq(Entries)
      BY <1>2, HeldParts DEF Holds
    <2>2. /\ t \in Seq(Entries) /\ Len(t) = L - 1 /\ DOMAIN t = 1..(L - 1)
          /\ \A k \in 1..(L - 1) : t[k] = s[k + 1]
      BY <1>2, <2>1
    <2> HIDE DEF L, t
    <2>3. l.first = s[1].item
      BY <2>1 DEF Behind, L
    <2>4. \A k, n \in 1..L : s[k].item = s[n].item => k = n
      BY <2>1 DEF Holds
    <2>5. Items(t) = Items(s) \ {s[1].item}
      <3>1. ASSUME NEW k \in 1..(L - 1)
            PROVE  t[k].item \in Items(s) /\ t[k].item # s[1].item
        <4>1. k + 1 \in 1..L /\ 1 \in 1..L /\ k + 1 # 1
          BY <2>1
        <4> QED BY <2>1, <2>2, <2>4, <4>1 DEF Items
      <3>2. ASSUME NEW k \in 1..L, s[k].item # s[1].item PROVE s[k].item \in Items(t)
        <4>1. k - 1 \in 1..(L - 1) /\ (k - 1) + 1 = k
          BY <2>1, <3>2
        <4>2. t[k - 1] = s[k]
          BY <2>2, <4>1
        <4> QED BY <2>2, <4>1, <4>2 DEF Items
      <3>3. Items(t) \subseteq Items(s) \ {s[1].item}
        BY <2>2, <3>1 DEF Items
      <3>4. Items(s) \ {s[1].item} \subseteq Items(t)
        <4> SUFFICES ASSUME NEW k \in DOMAIN s, s[k].item # s[1].item
                     PROVE  s[k].item \in Items(t)
          BY DEF Items
        <4> QED BY <2>1, <3>2
      <3> QED BY <3>3, <3>4
    <2>6. l.first = l.last <=> L = 1
      BY <2>1, <2>3, <2>4
    <2>7. /\ m = [first |-> m.first, last |-> m.last, cells |-> m.cells]
          /\ m.first = IF l.first = l.last THEN 0 ELSE l.cells[l.first].next
          /\ m.last = IF l.first = l.last THEN 0 ELSE l.last
          /\ m.cells = [c \in Items(s) \ {l.first} |-> l.cells[c]]
      BY <2>1 DEF Queue!Removed, Queue!Nil
    <2> HIDE DEF m
    <2>8. m.first = Behind(t, 0) /\ m.last = IF t = <<>> THEN 0 ELSE t[Len(t)].item
      <3>1. CASE L = 1
        <4>1. t = <<>> /\ Len(t) = 0
          BY <2>2, <3>1
        <4> QED BY <2>6, <2>7, <3>1, <4>1 DEF Behind
      <3>2. CASE L # 1
        <4>1. Len(t) # 0 /\ t # <<>> /\ t[1] = s[2] /\ t[Len(t)] = s[L]
          <5>1. 1 \in 1..(L - 1) /\ L - 1 \in 1..(L - 1) /\ (L - 1) + 1 = L
            BY <2>1, <3>2
          <5> QED BY <2>2, <5>1
        <4>2. Behind(t, 0) = s[2].item
          BY <4>1 DEF Behind
        <4>3. l.cells[s[1].item] = [item |-> s[1].item, key |-> s[1].key, next |-> Behind(s, 1)]
          <5>1. 1 \in DOMAIN s
            BY <2>1
          <5> QED BY <5>1 DEF Holds
        <4>4. Behind(s, 1) = s[2].item
          BY <2>1, <3>2 DEF Behind, L
        <4>5. l.cells[l.first].next = s[2].item
          BY <2>3, <4>3, <4>4
        <4> QED BY <2>1, <2>6, <2>7, <3>2, <4>1, <4>2, <4>5
      <3> QED BY <3>1, <3>2
    <2>9. m.cells = [c \in Items(t) |-> m.cells[c]]
      BY <2>3, <2>5, <2>7
    <2>10. ASSUME NEW k \in DOMAIN t
           PROVE  m.cells[t[k].item] =
                    [item |-> t[k].item, key |-> t[k].key, next |-> Behind(t, k)]
      <3>1. k \in 1..(L - 1) /\ k + 1 \in 1..L /\ t[k] = s[k + 1] /\ t[k].item \in Items(t)
        BY <2>1, <2>2 DEF Items
      <3>2. m.cells[t[k].item] = l.cells[s[k + 1].item]
        BY <2>3, <2>5, <2>7, <3>1
      <3>3. l.cells[s[k + 1].item] =
              [item |-> s[k + 1].item, key |-> s[k + 1].key, next |-> Behind(s, k + 1)]
        BY <2>1, <3>1 DEF Holds
      <3>4. Behind(s, k + 1) = Behind(t, k)
        <4>1. CASE k = L - 1
          BY <2>1, <2>2, <4>1 DEF Behind, L
        <4>2. CASE k # L - 1
          <5>1. k + 1 \in 1..(L - 1) /\ k + 1 # L
            BY <2>1, <3>1, <4>2
          <5>2. t[k + 1] = s[(k + 1) + 1]
            BY <2>2, <5>1
          <5> QED BY <2>2, <4>2, <5>1, <5>2 DEF Behind, L
        <4> QED BY <4>1, <4>2
      <3> QED BY <3>1, <3>2, <3>3, <3>4
    <2>11. \A i, j \in DOMAIN t : t[i].item = t[j].item => i = j
      <3> SUFFICES ASSUME NEW i \in 1..(L - 1), NEW j \in 1..(L - 1), t[i].item = t[j].item
                   PROVE  i = j
        BY <2>2
      <3>1. i + 1 \in 1..L /\ j + 1 \in 1..L /\ s[i + 1].item = s[j + 1].item
        BY <2>1, <2>2
      <3>2. i + 1 = j + 1
        BY <2>4, <3>1
      <3> QED BY <3>2
    <2>12. Holds(m, t)
      <3>1. m = [first |-> Behind(t, 0), last |-> IF t = <<>> THEN 0 ELSE t[Len(t)].item,
                 cells |-> [c \in Items(t) |-> m.cells[c]]]
        BY <2>7, <2>8, <2>9
      <3> QED BY <2>2, <2>10, <2>11, <3>1 DEF Holds
    <2>13. Items(t) \subseteq Items(s)
      BY <2>5
    <2> QED BY <1>2, <2>12, <2>13 DEF m, t
  <1> QED BY <1>1, <1>2

\* A set of numbers that is not empty has a least one.
LEMMA LeastNatural ==
    ASSUME NEW S \in SUBSET Nat, S # {}
    PROVE  \E n \in S : \A m \in S : n <= m
<1> DEFINE R == {ss \in Nat \X Nat : ss[1] < ss[2]}
<1>1. IsWellFoundedOn(R, Nat)
  BY NatLessThanWellFounded, Zenon DEF OpToRel
<1>2. PICK n \in S : \A m \in S : <<m, n>> \notin R
  BY <1>1, WFMin, Zenon
<1>3. ASSUME NEW m \in S PROVE n <= m
  <2>1. <<m, n>> \in Nat \X Nat /\ <<m, n>>[1] = m /\ <<m, n>>[2] = n
    OBVIOUS
  <2>2. ~(m < n)
    BY <1>2, <2>1
  <2> QED
    BY <2>2
<1> QED
  BY <1>3

\* The place behind which SortedInsert stops when it starts at the i-th entry.
StopsAt(s, key, i, j) ==
  /\ j \in i..Len(s)
  /\ j = Len(s) \/ key < s[j + 1].key
  /\ \A k \in i..(j - 1) : ~(key < s[k + 1].key)

\* There is such a place, because the last entry stops it.
LEMMA StopExists ==
  ASSUME NEW s \in Seq(Entries), NEW key \in Int, NEW i \in 1..Len(s)
  PROVE  \E j \in i..Len(s) : StopsAt(s, key, i, j)
  <1> DEFINE L == Len(s)
             S == {j \in i..L : j = L \/ key < s[j + 1].key}
  <1>1. L \in Nat /\ i \in 1..L
    OBVIOUS
  <1> HIDE DEF L
  <1>2. S \in SUBSET Nat /\ S # {}
    BY <1>1
  <1>3. PICK j \in S : \A m \in S : j <= m
    BY <1>2, LeastNatural
  <1>4. ASSUME NEW k \in i..(j - 1) PROVE ~(key < s[k + 1].key)
    <2>1. k \in i..L /\ ~(j <= k)
      BY <1>1, <1>3
    <2> QED BY <1>3, <2>1
  <1>5. j \in i..L
    OBVIOUS
  <1> QED BY <1>3, <1>4, <1>5 DEF StopsAt, L

\* There is only one.
LEMMA StopUnique ==
  ASSUME NEW s \in Seq(Entries), NEW key \in Int, NEW i \in 1..Len(s),
         NEW j, NEW k, StopsAt(s, key, i, j), StopsAt(s, key, i, k)
  PROVE  j = k
  <1> DEFINE L == Len(s)
  <1>1. L \in Nat /\ i \in 1..L
    OBVIOUS
  <1>2. /\ j \in i..L /\ (j = L \/ key < s[j + 1].key)
        /\ \A n \in i..(j - 1) : ~(key < s[n + 1].key)
        /\ k \in i..L /\ (k = L \/ key < s[k + 1].key)
        /\ \A n \in i..(k - 1) : ~(key < s[n + 1].key)
    BY DEF StopsAt
  <1> HIDE DEF L
  <1>3. ~(j < k)
    BY <1>1, <1>2
  <1>4. ~(k < j)
    BY <1>1, <1>2
  <1> QED BY <1>1, <1>2, <1>3, <1>4

\* The loop of SortedInsert, and where a list holds an address.
StopFrom(l, key) ==
  LET stop[p \in DOMAIN l.cells] ==
        LET next == l.cells[p].next
        IN  IF next = Queue!Nil THEN p ELSE IF key < l.cells[next].key THEN p ELSE stop[next]
  IN  stop

Place(s, p) == CHOOSE i \in DOMAIN s : s[i].item = p

\* The place of an address is the one of its entry, because no two entries share one.
LEMMA PlaceIs ==
  ASSUME NEW l, NEW s, Holds(l, s)
  PROVE  /\ \A i \in DOMAIN s : s[i].item \in Items(s) /\ Place(s, s[i].item) = i
         /\ \A p \in Items(s) : Place(s, p) \in DOMAIN s /\ s[Place(s, p)].item = p
  <1>1. \A p \in Items(s) : Place(s, p) \in DOMAIN s /\ s[Place(s, p)].item = p
    BY DEF Place, Items
  <1>2. \A i \in DOMAIN s : s[i].item \in Items(s)
    BY DEF Items
  <1> QED BY <1>1, <1>2 DEF Holds

\* The pointer of the cell of the i-th entry, and what it leads to.
LEMMA CellIs ==
  ASSUME NEW l, NEW s, Holds(l, s), NEW i \in 1..Len(s)
  PROVE  LET cell == l.cells[s[i].item]
         IN  /\ cell.item = s[i].item /\ cell.key = s[i].key
             /\ i = Len(s) => cell.next = 0
             /\ i # Len(s) => /\ cell.next = s[i + 1].item /\ cell.next # 0 /\ i + 1 \in 1..Len(s)
                              /\ l.cells[cell.next].key = s[i + 1].key
  <1> DEFINE L == Len(s)
  <1>1. /\ L \in Nat /\ DOMAIN s = 1..L /\ \A k \in 1..L : s[k].item \in Addresses
    BY HeldParts
  <1>2. \A k \in 1..L :
          l.cells[s[k].item] = [item |-> s[k].item, key |-> s[k].key, next |-> Behind(s, k)]
    BY <1>1 DEF Holds
  <1>3. i \in 1..L
    OBVIOUS
  <1>4. Behind(s, i) = IF i = L THEN 0 ELSE s[i + 1].item
    BY DEF Behind
  <1> HIDE DEF L
  <1> DEFINE cell(k) == l.cells[s[k].item]
  <1>5. \A k \in 1..L : cell(k) = [item |-> s[k].item, key |-> s[k].key, next |-> Behind(s, k)]
    BY <1>2
  <1> HIDE DEF cell
  <1>6. \A k \in 1..L :
          cell(k).item = s[k].item /\ cell(k).key = s[k].key /\ cell(k).next = Behind(s, k)
    BY <1>5
  <1>7. /\ l.cells[s[i].item].item = s[i].item /\ l.cells[s[i].item].key = s[i].key
        /\ l.cells[s[i].item].next = Behind(s, i)
    BY <1>3, <1>6 DEF cell
  <1>8. CASE i = L
    BY <1>4, <1>7, <1>8 DEF L
  <1>9. CASE i # L
    <2>1. i + 1 \in 1..L
      BY <1>1, <1>3, <1>9
    <2>2. l.cells[s[i + 1].item].key = s[i + 1].key /\ s[i + 1].item # 0
      <3>1. s[i + 1].item # 0
        BY <1>1, <2>1 DEF Addresses
      <3> QED BY <1>6, <2>1, <3>1 DEF cell
    <2> QED BY <1>4, <1>7, <1>9, <2>1, <2>2 DEF L
  <1> QED BY <1>8, <1>9

\* A least counterexample shows that the loop stops where it should.
LEMMA StopIs ==
  ASSUME NEW l, NEW s, Holds(l, s), NEW key \in Int, NEW i \in 1..Len(s), NEW j,
         StopsAt(s, key, i, j)
  PROVE  StopFrom(l, key)[s[i].item] = s[j].item
  <1> DEFINE L == Len(s)
             stop == StopFrom(l, key)
             D == DOMAIN l.cells
             Rule(k) ==
               [p \in D |-> IF l.cells[p].next = Queue!Nil THEN p
                            ELSE IF key < l.cells[l.cells[p].next].key THEN p
                            ELSE k[l.cells[p].next]]
             Stop(n) == CHOOSE m : StopsAt(s, key, n, m)
             f == [p \in D |-> s[Stop(Place(s, p))].item]
  <1>1. /\ L \in Nat /\ DOMAIN s = 1..L /\ D = Items(s) /\ s \in Seq(Entries)
    BY HeldParts DEF Holds
  <1>2. stop = CHOOSE k : k = Rule(k)
    BY DEF StopFrom
  <1>3. \A n \in 1..L : s[n].item \in D /\ Place(s, s[n].item) = n
    BY <1>1, PlaceIs
  <1>4. ASSUME NEW k, NEW n \in 1..L
        PROVE  Rule(k)[s[n].item] =
                 IF n = L THEN s[n].item
                 ELSE IF key < s[n + 1].key THEN s[n].item ELSE k[s[n + 1].item]
    <2>1. LET cell == l.cells[s[n].item]
          IN  /\ n = L => cell.next = 0
              /\ n # L => /\ cell.next = s[n + 1].item /\ cell.next # 0
                          /\ l.cells[cell.next].key = s[n + 1].key
      BY CellIs
    <2> QED BY <1>3, <2>1 DEF Queue!Nil
  <1>5. \A n \in 1..L : StopsAt(s, key, n, Stop(n))
    <2> SUFFICES ASSUME NEW n \in 1..L PROVE StopsAt(s, key, n, Stop(n))
      OBVIOUS
    <2>1. \E m \in n..Len(s) : StopsAt(s, key, n, m)
      BY <1>1, StopExists
    <2> QED BY <2>1
  <1> HIDE DEF L
  <1>6. \A n \in 1..L : \A m : StopsAt(s, key, n, m) <=>
                 /\ m \in n..L /\ (m = L \/ key < s[m + 1].key)
                 /\ \A k \in n..(m - 1) : ~(key < s[k + 1].key)
    BY DEF StopsAt, L
  <1> HIDE DEF D
  <1>7. \A n \in 1..L : f[s[n].item] = s[Stop(n)].item
    BY <1>3
  <1> HIDE DEF Stop, Rule
  <1>8. ASSUME NEW n \in 1..L, n # L, ~(key < s[n + 1].key) PROVE Stop(n) = Stop(n + 1)
    <2>1. n + 1 \in 1..L
      BY <1>1, <1>8
    <2>2. StopsAt(s, key, n, Stop(n + 1))
      <3> DEFINE m == Stop(n + 1)
      <3>1. /\ m \in (n + 1)..L /\ (m = L \/ key < s[m + 1].key)
            /\ \A k \in (n + 1)..(m - 1) : ~(key < s[k + 1].key)
        BY <1>5, <1>6, <2>1
      <3> HIDE DEF m
      <3>2. m \in n..L
        BY <1>1, <3>1
      <3>3. ASSUME NEW k \in n..(m - 1) PROVE ~(key < s[k + 1].key)
        BY <1>1, <1>8, <3>1, <3>2
      <3> QED BY <1>6, <3>1, <3>2, <3>3 DEF m
    <2> QED BY <1>1, <1>5, <2>2, StopUnique DEF L
  <1>9. ASSUME NEW n \in 1..L, n = L \/ key < s[n + 1].key PROVE Stop(n) = n
    <2>1. StopsAt(s, key, n, n)
      <3>1. n \in n..L /\ \A k \in n..(n - 1) : FALSE
        BY <1>1
      <3> QED BY <1>6, <1>9, <3>1
    <2> QED BY <1>1, <1>5, <2>1, StopUnique DEF L
  <1>10. f = Rule(f)
    <2>1. ASSUME NEW p \in D PROVE f[p] = Rule(f)[p]
      <3>1. PICK n \in 1..L : p = s[n].item
        BY <1>1 DEF Items
      <3>2. Rule(f)[p] = IF n = L THEN s[n].item
                         ELSE IF key < s[n + 1].key THEN s[n].item ELSE f[s[n + 1].item]
        BY <1>4, <3>1
      <3>3. f[p] = s[Stop(n)].item
        BY <1>7, <3>1
      <3> HIDE DEF f
      <3>4. CASE n = L \/ key < s[n + 1].key
        BY <1>9, <3>2, <3>3, <3>4
      <3>5. CASE n # L /\ ~(key < s[n + 1].key)
        <4>1. n + 1 \in 1..L /\ Stop(n) = Stop(n + 1)
          BY <1>1, <1>8, <3>5
        <4> QED BY <1>7, <3>2, <3>3, <3>5, <4>1
      <3> QED BY <3>4, <3>5
    <2>2. f = [p \in D |-> f[p]]
      OBVIOUS
    <2>3. Rule(f) = [p \in D |-> Rule(f)[p]]
      BY DEF Rule
    <2> HIDE DEF f
    <2> QED BY <2>1, <2>2, <2>3
  <1> HIDE DEF f
  <1>11. stop = Rule(stop)
    BY <1>2, <1>10
  <1> HIDE DEF stop
  <1> DEFINE Bad == {k \in Nat : \E n \in 1..L : n = L - k /\ stop[s[n].item] # s[Stop(n)].item}
  <1>12. Bad = {}
    <2> SUFFICES ASSUME Bad # {} PROVE FALSE
      OBVIOUS
    <2>1. PICK k \in Bad : \A m \in Bad : k <= m
      <3>1. Bad \in SUBSET Nat
        OBVIOUS
      <3> HIDE DEF Bad
      <3> QED BY <3>1, LeastNatural
    <2>2. PICK n \in 1..L : n = L - k /\ stop[s[n].item] # s[Stop(n)].item
      OBVIOUS
    <2>3. stop[s[n].item] = IF n = L THEN s[n].item
                            ELSE IF key < s[n + 1].key THEN s[n].item ELSE stop[s[n + 1].item]
      BY <1>4, <1>11
    <2>4. n # L /\ ~(key < s[n + 1].key)
      BY <1>9, <2>2, <2>3
    <2>5. n + 1 \in 1..L /\ Stop(n) = Stop(n + 1)
      BY <1>1, <1>8, <2>4
    <2>6. stop[s[n + 1].item] # s[Stop(n + 1)].item
      BY <2>2, <2>3, <2>4, <2>5
    <2>7. k - 1 \in Nat /\ n + 1 = L - (k - 1)
      BY <1>1, <2>2, <2>5
    <2>8. k - 1 \in Bad
      BY <2>5, <2>6, <2>7
    <2> QED BY <2>1, <2>8
  <1>13. stop[s[i].item] = s[Stop(i)].item
    <2>1. i \in 1..L /\ L - i \in Nat /\ i = L - (L - i)
      BY <1>1 DEF L
    <2> QED BY <1>12, <2>1
  <1>14. Stop(i) = j
    <2>1. i \in 1..L
      BY DEF L
    <2> QED BY <1>1, <1>5, <2>1, StopUnique
  <1> QED BY <1>13, <1>14 DEF stop

\* What a concatenation is, as the steps below need it.
LEMMA ConcatIs ==
  ASSUME NEW S, NEW a \in Seq(S), NEW b \in Seq(S)
  PROVE  /\ a \o b \in Seq(S) /\ Len(a \o b) = Len(a) + Len(b)
         /\ \A k \in 1..(Len(a) + Len(b)) :
              (a \o b)[k] = IF k <= Len(a) THEN a[k] ELSE b[k - Len(a)]
  OBVIOUS

\* What is left of a sequence from its i-th entry on.
LEMMA RestIs ==
  ASSUME NEW s \in Seq(Entries), NEW i \in 1..Len(s)
  PROVE  SubSeq(s, i, Len(s)) = <<s[i]>> \o IF i = Len(s) THEN <<>> ELSE SubSeq(s, i + 1, Len(s))
  <1> DEFINE L == Len(s)
             t == IF i = L THEN <<>> ELSE SubSeq(s, i + 1, L)
             u == <<s[i]>> \o t
  <1>1. L \in Nat /\ i \in 1..L /\ \A k \in 1..L : s[k] \in Entries
    OBVIOUS
  <1>2. SubSeq(s, i, L) = [k \in 1..(L - i + 1) |-> s[i + k - 1]]
    BY <1>1
  <1>3. t \in Seq(Entries) /\ Len(t) = L - i /\ \A k \in 1..(L - i) : t[k] = s[i + k]
    <2>1. CASE i = L
      BY <1>1, <2>1
    <2>2. CASE i # L
      <3>1. t = [k \in 1..(L - (i + 1) + 1) |-> s[(i + 1) + k - 1]]
        BY <1>1, <2>2
      <3>2. L - (i + 1) + 1 = L - i /\ \A k \in 1..(L - i) : (i + 1) + k - 1 = i + k
        BY <1>1
      <3>3. t = [k \in 1..(L - i) |-> s[i + k]]
        BY <3>1, <3>2
      <3>4. \A k \in 1..(L - i) : s[i + k] \in Entries
        BY <1>1
      <3> HIDE DEF t, L
      <3> QED BY <1>1, <3>3, <3>4
    <2> QED BY <2>1, <2>2
  <1> HIDE DEF t, L
  <1>4. /\ u \in Seq(Entries) /\ Len(u) = 1 + (L - i) /\ u[1] = s[i]
        /\ \A k \in 2..(1 + (L - i)) : u[k] = t[k - 1]
    <2> DEFINE one == <<s[i]>>
    <2>1. one \in Seq(Entries) /\ Len(one) = 1 /\ one[1] = s[i] /\ t \in Seq(Entries)
      BY <1>1, <1>3
    <2> HIDE DEF one
    <2>2. one \o t \in Seq(Entries) /\ Len(one \o t) = Len(one) + Len(t)
      BY <2>1, ConcatIs
    <2>3. \A k \in 1..(Len(one) + Len(t)) :
            (one \o t)[k] = IF k <= Len(one) THEN one[k] ELSE t[k - Len(one)]
      BY <2>1, ConcatIs
    <2>4. u = one \o t
      BY DEF one
    <2> HIDE DEF u
    <2> QED BY <1>1, <1>3, <2>1, <2>2, <2>3, <2>4
  <1> HIDE DEF u
  <1>5. ASSUME NEW k \in 1..(L - i + 1) PROVE u[k] = s[i + k - 1]
    <2>1. CASE k = 1
      BY <1>1, <1>4, <2>1
    <2>2. CASE k # 1
      <3>1. k \in 2..(1 + (L - i)) /\ k - 1 \in 1..(L - i) /\ i + (k - 1) = i + k - 1
        BY <1>1, <2>2
      <3> QED BY <1>3, <1>4, <3>1
    <2> QED BY <2>1, <2>2
  <1>6. 1 + (L - i) = L - i + 1
    BY <1>1
  <1>7. u = [k \in 1..(L - i + 1) |-> u[k]]
    BY <1>4, <1>6
  <1>8. u = SubSeq(s, i, L)
    BY <1>2, <1>5, <1>7
  <1> QED BY <1>8 DEF u, t, L

\* A walk along the list meets the entries of the sequence in their order.
LEMMA VisitedIs ==
  ASSUME NEW l, NEW s, Holds(l, s)
  PROVE  Queue!Visited(l) = s
  <1> DEFINE L == Len(s)
             D == DOMAIN l.cells \cup {Queue!Nil}
             Rule(k) ==
               [p \in D |-> IF p = Queue!Nil THEN <<>>
                            ELSE <<[item |-> l.cells[p].item, key |-> l.cells[p].key]>>
                                   \o k[l.cells[p].next]]
             from == CHOOSE k : k = Rule(k)
             Rest(i) == SubSeq(s, i, L)
             f == [p \in D |-> IF p = Queue!Nil THEN <<>> ELSE Rest(Place(s, p))]
  <1>1. /\ L \in Nat /\ DOMAIN s = 1..L /\ DOMAIN l.cells = Items(s) /\ s \in Seq(Entries)
        /\ \A i \in 1..L : s[i].item \in Addresses
        /\ \A i \in 1..L : s[i] = [item |-> s[i].item, key |-> s[i].key]
    <2>1. s \in Seq(Entries)
      BY DEF Holds
    <2> QED BY <2>1, HeldParts
  <1>2. Queue!Visited(l) = from[l.first]
    BY DEF Queue!Visited
  <1>3. \A i \in 1..L : s[i].item \in D /\ s[i].item # Queue!Nil /\ Place(s, s[i].item) = i
    BY <1>1, PlaceIs DEF Addresses, Queue!Nil
  <1>4. ASSUME NEW k, NEW i \in 1..L
        PROVE  Rule(k)[s[i].item] =
                 <<s[i]>> \o k[IF i = L THEN Queue!Nil ELSE s[i + 1].item]
    <2>1. LET cell == l.cells[s[i].item]
          IN  /\ cell.item = s[i].item /\ cell.key = s[i].key
              /\ cell.next = IF i = L THEN Queue!Nil ELSE s[i + 1].item
      BY CellIs DEF Queue!Nil
    <2>2. Rule(k)[s[i].item] =
            LET cell == l.cells[s[i].item]
            IN  <<[item |-> cell.item, key |-> cell.key]>> \o k[cell.next]
      BY <1>3
    <2>3. s[i] = [item |-> s[i].item, key |-> s[i].key]
      BY <1>1
    <2> HIDE DEF Rule, L
    <2> QED BY <2>1, <2>2, <2>3, Zenon
  <1>5. \A k : Rule(k)[Queue!Nil] = <<>>
    OBVIOUS
  <1>6. \A i \in 1..L : Rest(i) = <<s[i]>> \o IF i = L THEN <<>> ELSE Rest(i + 1)
    BY <1>1, RestIs
  <1>7. \A i \in 1..L : f[s[i].item] = Rest(i)
    BY <1>3
  <1>8. f[Queue!Nil] = <<>>
    OBVIOUS
  <1> HIDE DEF D, L, Rest
  <1>9. f = Rule(f)
    <2>1. ASSUME NEW p \in D PROVE f[p] = Rule(f)[p]
      <3>1. CASE p = Queue!Nil
        BY <1>5, <1>8, <3>1
      <3>2. CASE p # Queue!Nil
        <4>1. PICK i \in 1..L : p = s[i].item
          BY <1>1, <3>2 DEF Items, D
        <4>2. Rule(f)[p] = <<s[i]>> \o f[IF i = L THEN Queue!Nil ELSE s[i + 1].item]
          BY <1>4, <4>1
        <4> HIDE DEF Rule
        <4>3. f[IF i = L THEN Queue!Nil ELSE s[i + 1].item] = IF i = L THEN <<>> ELSE Rest(i + 1)
          <5>1. i # L => i + 1 \in 1..L
            BY <1>1
          <5> HIDE DEF f
          <5> QED BY <1>7, <1>8, <5>1
        <4> HIDE DEF f
        <4> QED BY <1>6, <1>7, <4>1, <4>2, <4>3
      <3> QED BY <3>1, <3>2
    <2>2. f = [p \in D |-> f[p]]
      OBVIOUS
    <2>3. Rule(f) = [p \in D |-> Rule(f)[p]]
      BY DEF Rule
    <2> HIDE DEF f, Rule
    <2> QED BY <2>1, <2>2, <2>3
  <1> HIDE DEF f, Rule
  <1>10. from = Rule(from)
    BY <1>9
  <1> HIDE DEF from
  <1>11. from[Queue!Nil] = <<>>
    BY <1>5, <1>10
  <1> DEFINE Bad == {k \in Nat : \E i \in 1..L : i = L - k /\ from[s[i].item] # Rest(i)}
  <1>12. Bad = {}
    <2> SUFFICES ASSUME Bad # {} PROVE FALSE
      OBVIOUS
    <2>1. PICK k \in Bad : \A m \in Bad : k <= m
      <3>1. Bad \in SUBSET Nat
        OBVIOUS
      <3> HIDE DEF Bad
      <3> QED BY <3>1, LeastNatural
    <2>2. PICK i \in 1..L : i = L - k /\ from[s[i].item] # Rest(i)
      OBVIOUS
    <2>3. from[s[i].item] = <<s[i]>> \o from[IF i = L THEN Queue!Nil ELSE s[i + 1].item]
      BY <1>4, <1>10
    <2>4. i # L /\ from[s[i + 1].item] # Rest(i + 1)
      BY <1>6, <1>11, <2>2, <2>3
    <2>5. i + 1 \in 1..L /\ k - 1 \in Nat /\ i + 1 = L - (k - 1)
      BY <1>1, <2>2, <2>4
    <2>6. k - 1 \in Bad
      BY <2>4, <2>5
    <2> QED BY <2>1, <2>5, <2>6
  <1>13. CASE s = <<>>
    <2>1. l.first = Queue!Nil
      BY <1>13, HeldParts DEF Queue!IsEmpty
    <2> QED BY <1>2, <1>11, <1>13, <2>1
  <1>14. CASE s # <<>>
    <2>1. 1 \in 1..L /\ l.first = s[1].item
      BY <1>14, HeldParts DEF Behind, L
    <2>2. from[s[1].item] = Rest(1)
      <3>1. L - 1 \in Nat /\ 1 = L - (L - 1)
        BY <1>1, <2>1
      <3> QED BY <1>12, <2>1, <3>1
    <2>3. Rest(1) = s
      BY <1>1 DEF Rest, L
    <2> QED BY <1>2, <2>1, <2>2, <2>3
  <1> QED BY <1>13, <1>14

\* An element that is neither first nor last: two pointers are set.
LEMMA BetweenSplices ==
  ASSUME NEW l, NEW s, Holds(l, s), NEW i \in 1..Len(s), i # Len(s),
         NEW c \in Addresses \ Items(s), NEW key \in Int
  PROVE  SetNext(SetNext(Queue!NewElement(l, c, c, key), c, s[i + 1].item), s[i].item, c) =
           Spliced(l, s, i, c, key)
  <1> DEFINE m == Queue!NewElement(l, c, c, key)
             D == Items(s) \cup {c}
             r == Spliced(l, s, i, c, key)
             p == s[i].item
             n == s[i + 1].item
             k == SetNext(m, c, n)
             cells == [k.cells EXCEPT ![p] = Pointing(k.cells[p], c)]
  <1>1. /\ IsList(m) /\ m.first = l.first /\ m.last = l.last
        /\ m.cells = [d \in D |->
                       IF d = c THEN [item |-> c, key |-> key, next |-> 0] ELSE l.cells[d]]
        /\ \A d \in D : IsCell(m.cells[d])
    BY NewElementIs
  <1>2. p \in D /\ c \in D /\ p # c /\ i # 0 /\ Behind(s, i) = n
    <2>1. i \in DOMAIN s
      BY HeldParts
    <2> QED BY <2>1 DEF Items, Behind
  <1> HIDE DEF m, D
  <1>3. k = [first |-> m.first, last |-> m.last,
             cells |-> [m.cells EXCEPT ![c] = Pointing(m.cells[c], n)]]
    <2>1. IsList(m) /\ IsCell(m.cells[c])
      BY <1>1, <1>2
    <2> QED BY <2>1, SetNextIs
  <1> HIDE DEF k, n
  <1>4. /\ IsList(k) /\ k.first = l.first /\ k.last = l.last
        /\ k.cells = [m.cells EXCEPT ![c] = Pointing(m.cells[c], n)]
    BY <1>1, <1>3 DEF IsList
  <1>5. k.cells = [d \in D |->
                    IF d = c THEN [item |-> c, key |-> key, next |-> n] ELSE l.cells[d]]
    <2>1. Pointing(m.cells[c], n) = [item |-> c, key |-> key, next |-> n]
      BY <1>1, <1>2 DEF Pointing
    <2>2. k.cells = [d \in D |-> IF d = c THEN Pointing(m.cells[c], n) ELSE m.cells[d]]
      BY <1>1, <1>2, <1>4
    <2> DEFINE g == [d \in D |->
                      IF d = c THEN [item |-> c, key |-> key, next |-> n] ELSE l.cells[d]]
    <2>3. ASSUME NEW d \in D PROVE k.cells[d] = g[d]
      BY <1>1, <2>1, <2>2
    <2>4. g = [d \in D |-> g[d]] /\ k.cells = [d \in D |-> k.cells[d]]
      BY <2>2
    <2> HIDE DEF g
    <2>5. k.cells = g
      BY <2>3, <2>4, SameCells
    <2> QED BY <2>5 DEF g
  <1>6. IsCell(k.cells[p]) /\ k.cells[p] = l.cells[p]
    <2>1. k.cells[p] = l.cells[p] /\ m.cells[p] = l.cells[p]
      BY <1>1, <1>2, <1>5
    <2> QED BY <1>1, <1>2, <2>1
  <1>7. SetNext(k, p, c) = [first |-> k.first, last |-> k.last, cells |-> cells]
    <2>1. IsList(k) /\ IsCell(k.cells[p])
      BY <1>4, <1>6
    <2> QED BY <2>1, SetNextIs
  <1>8. /\ r = [first |-> l.first, last |-> l.last, cells |-> r.cells]
        /\ r.cells = [d \in D |->
                       IF d = c THEN [item |-> c, key |-> key, next |-> n]
                       ELSE IF d = p THEN Pointing(l.cells[d], c) ELSE l.cells[d]]
    BY <1>2 DEF Spliced, D
  <1>9. cells = [d \in D |-> IF d = p THEN Pointing(k.cells[p], c) ELSE k.cells[d]]
    BY <1>2, <1>5
  <1> HIDE DEF cells, r, p
  <1>10. ASSUME NEW d \in D PROVE cells[d] = r.cells[d]
    BY <1>2, <1>5, <1>6, <1>8, <1>9
  <1>11. cells = r.cells
    BY <1>8, <1>9, <1>10, SameCells
  <1>12. SetNext(k, p, c) = r
    BY <1>4, <1>7, <1>8, <1>11, Zenon
  <1> QED BY <1>12 DEF k, p, n, m, r

\* Where InSequence inserts: behind the last of the entries from the first on
\* whose keys are not greater.
LEMMA InsertPlace ==
  ASSUME NEW s \in Seq(Entries), NEW key \in Int, NEW i \in 0..Len(s),
         \A k \in 1..i : s[k].key <= key, i = Len(s) \/ key < s[i + 1].key
  PROVE  LET less == {n \in 0..Len(s) : \A k \in 1..n : s[k].key <= key}
         IN  i = CHOOSE n \in less : \A k \in less : k <= n
  <1> DEFINE L == Len(s)
             less == {n \in 0..L : \A k \in 1..n : s[k].key <= key}
  <1>1. L \in Nat /\ \A n \in 1..L : s[n].key \in Int
    <2>1. L \in Nat /\ \A n \in 1..L : s[n] \in Entries
      OBVIOUS
    <2> HIDE DEF L
    <2> QED BY <2>1 DEF Entries
  <1> HIDE DEF L
  <1>2. i \in 0..L /\ (i = L \/ key < s[i + 1].key)
    BY DEF L
  <1>3. i \in less
    BY <1>2
  <1>4. ASSUME NEW n \in less PROVE n <= i
    <2>1. SUFFICES ASSUME i < n PROVE FALSE
      BY <1>1, <1>2
    <2>2. i + 1 \in 1..n /\ i + 1 \in 1..L /\ i # L
      BY <1>1, <1>2, <2>1
    <2>3. s[i + 1].key <= key
      BY <2>2
    <2> QED BY <1>1, <1>2, <2>2, <2>3
  <1>5. ASSUME NEW n \in less, \A k \in less : k <= n PROVE n = i
    <2>1. n \in Int /\ i \in Int
      BY <1>1, <1>2
    <2> HIDE DEF less
    <2>2. i <= n /\ n <= i
      BY Zenon, <1>3, <1>4, <1>5
    <2> QED BY <2>1, <2>2
  <1> HIDE DEF less
  <1>6. i = CHOOSE n \in less : \A k \in less : k <= n
    BY <1>3, <1>4, <1>5
  <1> QED BY <1>6 DEF less, L

\* The sequence that InSequence makes of an insertion.
InOrder(s, c, key) ==
  LET less == {n \in 0..Len(s) : \A k \in 1..n : s[k].key <= key}
      i == CHOOSE n \in less : \A k \in less : k <= n
  IN  SubSeq(s, 1, i) \o <<[item |-> c, key |-> key]>> \o SubSeq(s, i + 1, Len(s))

\* SortedInsert keeps the list in the order of its keys, and among equal keys in
\* that of the calls.
LEMMA InsertHolds ==
  ASSUME NEW l, NEW s, Holds(l, s), NEW c \in Addresses \ Items(s), NEW key \in Int
  PROVE  /\ Holds(Queue!Inserted(l, c, c, key), InOrder(s, c, key))
         /\ Items(InOrder(s, c, key)) = Items(s) \cup {c}
  <1> DEFINE L == Len(s)
             e == [item |-> c, key |-> key]
             less == {n \in 0..L : \A k \in 1..n : s[k].key <= key}
             place == CHOOSE n \in less : \A k \in less : k <= n
             t == SubSeq(s, 1, place) \o <<e>> \o SubSeq(s, place + 1, L)
             m == Queue!NewElement(l, c, c, key)
             ptr == StopFrom(l, key)[l.first]
             next == l.cells[ptr].next
             r == Queue!Inserted(l, c, c, key)
  <1>1. /\ L \in Nat /\ s \in Seq(Entries) /\ e \in Entries /\ \A n \in 1..L : s[n].key \in Int
        /\ s = <<>> <=> L = 0
    <2>1. s \in Seq(Entries) /\ e \in Entries
      BY DEF Holds, Entries
    <2> QED BY <2>1, HeldParts
  <1>2. r = CASE Queue!IsEmpty(l) -> Queue!AsOnly(m, c)
              [] ~Queue!IsEmpty(l) /\ key < l.cells[l.first].key -> Queue!BeforeFirst(m, c)
              [] OTHER -> IF next = Queue!Nil THEN Queue!BehindLast(m, c)
                          ELSE [m EXCEPT !.cells[c].next = next, !.cells[ptr].next = c]
    BY DEF Queue!Inserted, StopFrom
  <1>3. ASSUME NEW i \in 0..L, \A k \in 1..i : s[k].key <= key,
               i = L \/ key < s[i + 1].key, r = Spliced(l, s, i, c, key)
        PROVE  Holds(r, t) /\ Items(t) = Items(s) \cup {c}
    <2>1. i = place
      BY <1>1, <1>3, InsertPlace
    <2>2. Splice(s, i, e) = SubSeq(s, 1, i) \o <<e>> \o SubSeq(s, i + 1, L)
      BY <1>1, SpliceIs
    <2>3. Holds(r, Splice(s, i, e)) /\ Items(Splice(s, i, e)) = Items(s) \cup {c}
      BY <1>3, SpliceHolds
    <2> HIDE DEF place, r, e, L
    <2> QED BY <2>1, <2>2, <2>3
  <1> DEFINE Goal == Holds(r, t) /\ Items(t) = Items(s) \cup {c}
  <1>4. ASSUME s = <<>> PROVE Goal
    <2>1. L = 0 /\ Queue!IsEmpty(l) /\ Queue!AsOnly(m, c) = Spliced(l, s, 0, c, key)
      BY <1>1, <1>4, HeldParts, OnlySplices
    <2>2. r = Spliced(l, s, 0, c, key)
      BY <1>2, <2>1
    <2> HIDE DEF L, r, t
    <2>3. 0 \in 0..L /\ 0 = L /\ \A k \in 1..0 : s[k].key <= key
      BY <2>1
    <2> QED BY <1>3, <2>2, <2>3
  <1>5. ASSUME s # <<>> PROVE Goal
    <2>1. ~Queue!IsEmpty(l) /\ 1 \in 1..L /\ l.first = s[1].item /\ l.cells[l.first].key = s[1].key
      <3>1. ~Queue!IsEmpty(l) /\ l.first = Behind(s, 0) /\ 1 \in 1..L
        BY <1>1, <1>5, HeldParts
      <3>2. l.first = s[1].item
        BY <1>1, <1>5, <3>1 DEF Behind
      <3>3. l.cells[s[1].item].key = s[1].key
        BY <3>1, CellIs
      <3> QED BY <3>1, <3>2, <3>3
    <2>2. CASE key < s[1].key
      <3>1. r = Queue!BeforeFirst(m, c)
        BY <1>2, <2>1, <2>2
      <3>2. r = Spliced(l, s, 0, c, key)
        BY <1>5, <3>1, BeforeFirstSplices
      <3> HIDE DEF L, r, t
      <3>3. 0 \in 0..L /\ key < s[0 + 1].key /\ \A k \in 1..0 : s[k].key <= key
        BY <1>1, <2>2
      <3> QED BY <1>3, <3>2, <3>3
    <2>3. CASE ~(key < s[1].key)
      <3>1. PICK j \in 1..L : StopsAt(s, key, 1, j)
        BY <1>1, <2>1, StopExists
      <3>2. ptr = s[j].item
        BY <2>1, <3>1, StopIs
      <3>3. /\ j = L => next = 0
            /\ j # L => next = s[j + 1].item /\ next # 0
        BY <3>1, <3>2, CellIs
      <3>4. r = IF next = 0 THEN Queue!BehindLast(m, c)
                ELSE [m EXCEPT !.cells[c].next = next, !.cells[ptr].next = c]
        BY <1>2, <2>1, <2>3 DEF Queue!Nil
      <3>5. r = Spliced(l, s, j, c, key)
        <4>1. CASE j = L
          BY <1>5, <3>3, <3>4, <4>1, BehindLastSplices
        <4>2. CASE j # L
          <5> HIDE DEF r, m, ptr, next
          <5>1. r = SetNext(SetNext(m, c, next), ptr, c)
            BY <3>3, <3>4, <4>2, Zenon DEF SetNext
          <5>2. r = SetNext(SetNext(m, c, s[j + 1].item), s[j].item, c)
            BY <3>2, <3>3, <4>2, <5>1
          <5> USE DEF m
          <5> QED BY <3>1, <4>2, <5>2, BetweenSplices
        <4> QED BY <4>1, <4>2
      <3>6. j = L \/ key < s[j + 1].key
        BY <3>1 DEF StopsAt
      <3>7. ASSUME NEW k \in 1..j PROVE s[k].key <= key
        <4> HIDE DEF L
        <4>1. CASE k = 1
          BY <1>1, <2>1, <2>3, <4>1
        <4>2. CASE k # 1
          <5>1. k - 1 \in 1..(j - 1) /\ (k - 1) + 1 = k /\ k \in 1..L
            BY <1>1, <3>1, <4>2
          <5>2. ~(key < s[(k - 1) + 1].key)
            BY <3>1, <5>1 DEF StopsAt
          <5>3. ~(key < s[k].key) /\ s[k].key \in Int
            BY <1>1, <5>1, <5>2
          <5> QED BY <5>3
        <4> QED BY <4>1, <4>2
      <3> HIDE DEF L, r, t
      <3>8. j \in 0..L
        BY <1>1, <3>1
      <3> QED BY <1>3, <3>5, <3>6, <3>7, <3>8
    <2> QED BY <2>2, <2>3
  <1>6. t = InOrder(s, c, key)
    BY DEF InOrder
  <1> HIDE DEF t
  <1> QED BY <1>4, <1>5, <1>6

\* The calls of a list: Append, Prepend and Remove give or ask no key.
ListCalls == {[op |-> o, key |-> 0] : o \in {"append", "prepend", "remove"}}
               \cup {[op |-> "insert", key |-> k] : k \in Int}

\* One call, whose new element is at an address above those of the list.
LEMMA CallHolds ==
  ASSUME NEW l, NEW s, Holds(l, s), NEW call \in ListCalls,
         NEW n \in Addresses, Items(s) \subseteq 1..(n - 1)
  PROVE  /\ Holds(Queue!InList(l, call, n), Queue!InSequence(s, call, n))
         /\ Items(Queue!InSequence(s, call, n)) \subseteq 1..n
  <1>1. n \in Addresses \ Items(s)
    BY DEF Addresses
  <1>2. Items(s) \cup {n} \subseteq 1..n /\ Items(s) \subseteq 1..n
    BY DEF Addresses
  <1>3. CASE call = [op |-> "append", key |-> 0]
    <2>1. /\ Queue!InList(l, call, n) = Queue!Appended(l, n, n)
          /\ Queue!InSequence(s, call, n) = Append(s, [item |-> n, key |-> 0])
      BY <1>3 DEF Queue!InList, Queue!InSequence
    <2> DEFINE t == Append(s, [item |-> n, key |-> 0])
    <2>2. Holds(Queue!Appended(l, n, n), t) /\ Items(t) = Items(s) \cup {n}
      BY <1>1, EndsHold
    <2> HIDE DEF t
    <2> QED BY <1>2, <2>1, <2>2 DEF t
  <1>4. CASE call = [op |-> "prepend", key |-> 0]
    <2>1. /\ Queue!InList(l, call, n) = Queue!Prepended(l, n, n)
          /\ Queue!InSequence(s, call, n) = <<[item |-> n, key |-> 0]>> \o s
      BY <1>4 DEF Queue!InList, Queue!InSequence
    <2> DEFINE t == <<[item |-> n, key |-> 0]>> \o s
    <2>2. Holds(Queue!Prepended(l, n, n), t) /\ Items(t) = Items(s) \cup {n}
      BY <1>1, EndsHold
    <2> HIDE DEF t
    <2> QED BY <1>2, <2>1, <2>2 DEF t
  <1>5. CASE call = [op |-> "remove", key |-> 0]
    <2>1. /\ Queue!InList(l, call, n) = Queue!Removed(l)
          /\ Queue!InSequence(s, call, n) = IF s = <<>> THEN s ELSE Tail(s)
      BY <1>5 DEF Queue!InList, Queue!InSequence
    <2> QED BY <1>2, <2>1, RemoveHolds
  <1>6. ASSUME NEW k \in Int, call = [op |-> "insert", key |-> k]
        PROVE  /\ Holds(Queue!InList(l, call, n), Queue!InSequence(s, call, n))
               /\ Items(Queue!InSequence(s, call, n)) \subseteq 1..n
    <2>1. Queue!InList(l, call, n) = Queue!Inserted(l, n, n, k)
      BY <1>6 DEF Queue!InList
    <2>2. Queue!InSequence(s, call, n) = InOrder(s, n, k)
      BY <1>6 DEF Queue!InSequence, InOrder
    <2>3. /\ Holds(Queue!Inserted(l, n, n, k), InOrder(s, n, k))
          /\ Items(InOrder(s, n, k)) = Items(s) \cup {n}
      BY <1>1, InsertHolds
    <2> QED BY <1>2, <2>1, <2>2, <2>3
  <1> QED BY <1>3, <1>4, <1>5, <1>6 DEF ListCalls

\* The two functions that IsSequence defines by recursion.
ListsOf(calls) ==
  LET l[n \in 0..Len(calls)] ==
        IF n = 0 THEN Queue!NewList ELSE Queue!InList(l[n - 1], calls[n], n)
  IN  l

SequencesOf(calls) ==
  LET s[n \in 0..Len(calls)] ==
        IF n = 0 THEN <<>> ELSE Queue!InSequence(s[n - 1], calls[n], n)
  IN  s

\* They exist: if they did not there would be a first n up to which they do not.
LEMMA RecursionIs ==
  ASSUME NEW calls \in Seq(ListCalls)
  PROVE  /\ ListsOf(calls)[0] = Queue!NewList
         /\ SequencesOf(calls)[0] = <<>>
         /\ \A n \in 1..Len(calls) :
              /\ ListsOf(calls)[n] = Queue!InList(ListsOf(calls)[n - 1], calls[n], n)
              /\ SequencesOf(calls)[n] = Queue!InSequence(SequencesOf(calls)[n - 1], calls[n], n)
  <1> DEFINE L == Len(calls)
             List(l, n) == Queue!InList(l, calls[n], n)
             Sequence(s, n) == Queue!InSequence(s, calls[n], n)
             Is(f, g, n) == /\ f[0] = Queue!NewList /\ g[0] = <<>>
                            /\ \A i \in 1..n : f[i] = List(f[i - 1], i) /\ g[i] = Sequence(g[i - 1], i)
             Good == {n \in 0..L : \E f, g : Is(f, g, n)}
             ListRule(k) == [n \in 0..L |-> IF n = 0 THEN Queue!NewList ELSE List(k[n - 1], n)]
             SequenceRule(k) == [n \in 0..L |-> IF n = 0 THEN <<>> ELSE Sequence(k[n - 1], n)]
  <1>1. L \in Nat
    OBVIOUS
  <1>2. /\ ListsOf(calls) = CHOOSE k : k = ListRule(k)
        /\ SequencesOf(calls) = CHOOSE k : k = SequenceRule(k)
    BY DEF ListsOf, SequencesOf
  <1> HIDE DEF L, List, Sequence
  <1>3. 0 \in Good
    <2> DEFINE f == [i \in 0..0 |-> Queue!NewList]
               g == [i \in 0..0 |-> <<>>]
    <2>1. Is(f, g, 0)
      OBVIOUS
    <2> HIDE DEF f, g, Is
    <2> QED BY <1>1, <2>1
  <1>4. ASSUME NEW n \in 1..L, n - 1 \in Good PROVE n \in Good
    <2>1. PICK f, g : Is(f, g, n - 1)
      BY <1>4
    <2> DEFINE ff == [i \in 0..n |-> IF i < n THEN f[i] ELSE List(f[n - 1], n)]
               gg == [i \in 0..n |-> IF i < n THEN g[i] ELSE Sequence(g[n - 1], n)]
    <2>2. n \in Nat \ {0}
      BY <1>1
    <2>3. /\ ff[n] = List(f[n - 1], n) /\ gg[n] = Sequence(g[n - 1], n)
          /\ \A i \in 0..(n - 1) : ff[i] = f[i] /\ gg[i] = g[i]
      BY <2>2
    <2> HIDE DEF ff, gg
    <2>4. ff[0] = Queue!NewList /\ gg[0] = <<>>
      BY <2>1, <2>2, <2>3
    <2>5. ASSUME NEW i \in 1..n
          PROVE  ff[i] = List(ff[i - 1], i) /\ gg[i] = Sequence(gg[i - 1], i)
      <3>1. i - 1 \in 0..(n - 1)
        BY <2>2
      <3>2. CASE i = n
        BY <2>3, <3>1, <3>2
      <3>3. CASE i # n
        <4>1. i \in 1..(n - 1) /\ i \in 0..(n - 1)
          BY <2>2, <3>3
        <4> QED BY <2>1, <2>3, <3>1, <4>1
      <3> QED BY <3>2, <3>3
    <2>6. Is(ff, gg, n)
      BY <2>4, <2>5
    <2> HIDE DEF Is
    <2>7. n \in 0..L
      BY <1>1
    <2> QED BY <2>6, <2>7
  <1> HIDE DEF Good
  <1>5. L \in Good
    <2> DEFINE Bad == (0..L) \ Good
    <2> SUFFICES ASSUME L \notin Good PROVE FALSE
      OBVIOUS
    <2>1. Bad \in SUBSET Nat /\ Bad # {}
      BY <1>1
    <2>2. PICK n \in Bad : \A m \in Bad : n <= m
      BY <2>1, LeastNatural
    <2>3. n \in 1..L
      BY <1>1, <1>3, <2>2
    <2>4. n - 1 \in Good
      BY <1>1, <2>2, <2>3
    <2> QED BY <1>4, <2>2, <2>3, <2>4
  <1>6. PICK f, g : Is(f, g, L)
    BY <1>5 DEF Good
  <1> DEFINE ff == [i \in 0..L |-> f[i]]
             gg == [i \in 0..L |-> g[i]]
  <1>7. ff = ListRule(ff) /\ gg = SequenceRule(gg)
    <2>1. ASSUME NEW n \in 0..L PROVE f[n] = ListRule(ff)[n] /\ g[n] = SequenceRule(gg)[n]
      <3>1. CASE n = 0
        BY <1>6, <3>1
      <3>2. CASE n # 0
        <4>1. n \in 1..L /\ n - 1 \in 0..L
          BY <1>1, <3>2
        <4>2. ff[n - 1] = f[n - 1] /\ gg[n - 1] = g[n - 1]
          BY <4>1
        <4> QED BY <1>6, <3>2, <4>1, <4>2
      <3> QED BY <3>1, <3>2
    <2> QED BY <2>1
  <1> HIDE DEF ff, gg
  <1> DEFINE l == ListsOf(calls)
             s == SequencesOf(calls)
  <1>8. l = ListRule(l) /\ s = SequenceRule(s)
    <2> HIDE DEF ListRule, SequenceRule
    <2> QED BY <1>2, <1>7
  <1> HIDE DEF l, s
  <1>9. \A n \in 0..L : /\ l[n] = IF n = 0 THEN Queue!NewList ELSE List(l[n - 1], n)
                        /\ s[n] = IF n = 0 THEN <<>> ELSE Sequence(s[n - 1], n)
    BY <1>8
  <1>10. 0 \in 0..L /\ \A n \in 1..L : n \in 0..L /\ n # 0
    BY <1>1
  <1>11. l[0] = Queue!NewList /\ s[0] = <<>>
    BY <1>9, <1>10
  <1>12. ASSUME NEW n \in 1..L PROVE l[n] = List(l[n - 1], n) /\ s[n] = Sequence(s[n - 1], n)
    <2>1. n \in 0..L /\ n # 0
      BY <1>10
    <2> QED BY <1>9, <2>1
  <1> QED BY <1>11, <1>12 DEF l, s, L, List, Sequence

\* A list of the kernel, whatever calls were made on it in whatever order, is the
\* sequence that the other modules take it for: Mapcar visits that sequence,
\* SortedInsert inserts in front of the first entry with a greater key, the last
\* element is the one that the list says, and no element is lost on the heap
\* (threads/list.cc).
THEOREM ListsAreSequences ==
  \A calls \in Seq(ListCalls) : Queue!IsSequence(calls)
  <1> SUFFICES ASSUME NEW calls \in Seq(ListCalls) PROVE Queue!IsSequence(calls)
    OBVIOUS
  <1> DEFINE L == Len(calls)
             l == ListsOf(calls)
             s == SequencesOf(calls)
             Bad == {n \in 0..L : ~(Holds(l[n], s[n]) /\ Items(s[n]) \subseteq 1..n)}
  <1>1. L \in Nat /\ \A n \in 1..L : calls[n] \in ListCalls
    OBVIOUS
  <1>2. /\ l[0] = Queue!NewList /\ s[0] = <<>>
        /\ \A n \in 1..L : /\ l[n] = Queue!InList(l[n - 1], calls[n], n)
                           /\ s[n] = Queue!InSequence(s[n - 1], calls[n], n)
    BY RecursionIs
  <1>3. SUFFICES \A n \in 0..L :
                    /\ Queue!Visited(l[n]) = s[n]
                    /\ l[n].last = IF s[n] = <<>> THEN Queue!Nil ELSE s[n][Len(s[n])].item
                    /\ DOMAIN l[n].cells = {s[n][i].item : i \in DOMAIN s[n]}
    BY DEF Queue!IsSequence, ListsOf, SequencesOf
  <1> HIDE DEF L, l, s
  <1>4. Bad = {}
    <2> SUFFICES ASSUME Bad # {} PROVE FALSE
      OBVIOUS
    <2>1. Bad \in SUBSET Nat
      BY <1>1
    <2>2. PICK n \in Bad : \A m \in Bad : n <= m
      <3> HIDE DEF Bad
      <3> QED BY <2>1, LeastNatural
    <2>3. n # 0
      <3>1. Items(<<>>) = {}
        BY DEF Items
      <3> QED BY <1>2, <2>2, <3>1, NewHolds
    <2>4. n \in 1..L /\ n \in Addresses /\ n - 1 \in 0..L /\ n - 1 \notin Bad
      <3>1. n \in 0..L /\ n \in Nat
        BY <1>1
      <3> HIDE DEF Bad
      <3> QED BY <1>1, <2>2, <2>3, <3>1 DEF Addresses
    <2>5. Holds(l[n - 1], s[n - 1]) /\ Items(s[n - 1]) \subseteq 1..(n - 1)
      BY <2>4
    <2>6. Holds(l[n], s[n]) /\ Items(s[n]) \subseteq 1..n
      BY <1>1, <1>2, <2>4, <2>5, CallHolds
    <2> QED BY <2>6
  <1>5. ASSUME NEW n \in 0..L
        PROVE  /\ Queue!Visited(l[n]) = s[n]
               /\ l[n].last = IF s[n] = <<>> THEN Queue!Nil ELSE s[n][Len(s[n])].item
               /\ DOMAIN l[n].cells = {s[n][i].item : i \in DOMAIN s[n]}
    <2>1. Holds(l[n], s[n])
      BY <1>4
    <2> QED BY <2>1, VisitedIs, HeldParts DEF Items, Queue!Nil
  <1> QED BY <1>5

-----------------------------------------------------------------------------
(* Numbers *)

\* Induction up to a number, for a set of numbers.
LEMMA UpTo ==
  ASSUME NEW L \in Nat, NEW a \in 0..L, NEW S, a \in S,
         \A n \in (a + 1)..L : n - 1 \in S => n \in S
  PROVE  \A n \in a..L : n \in S
  <1> DEFINE Bad == {n \in a..L : n \notin S}
  <1>1. SUFFICES ASSUME Bad # {} PROVE FALSE
    OBVIOUS
  <1>2. Bad \in SUBSET Nat
    OBVIOUS
  <1>3. PICK n \in Bad : \A m \in Bad : n <= m
    <2> HIDE DEF Bad
    <2> QED BY <1>1, <1>2, LeastNatural
  <1>4. n \in (a + 1)..L /\ n \notin S
    OBVIOUS
  <1>5. n - 1 \in a..L /\ ~(n <= n - 1)
    BY <1>4
  <1>6. n - 1 \in S
    BY <1>3, <1>5
  <1> QED BY <1>4, <1>6

\* What turns each element of a series into the next, and the series.
StepsOf(S, L) == [1..L -> [S -> S]]
IsSeries(f, S, L, base, step) ==
  f \in [0..L -> S] /\ f[0] = base /\ \A n \in 1..L : f[n] = step[n][f[n - 1]]

\* A function that is defined by recursion exists.
LEMMA RecursiveExists ==
  ASSUME NEW S, NEW L \in Nat, NEW base \in S, NEW step \in StepsOf(S, L)
  PROVE  \E f : IsSeries(f, S, L, base, step)
  <1> USE DEF StepsOf
  <1> DEFINE Is(f, n) == f[0] = base /\ \A i \in 1..n : f[i] = step[i][f[i - 1]]
             Good == {n \in 0..L : \E f \in [0..n -> S] : Is(f, n)}
  <1>1. 0 \in Good
    <2> DEFINE f == [i \in 0..0 |-> base]
    <2>1. f \in [0..0 -> S] /\ Is(f, 0) /\ 0 \in 0..L
      OBVIOUS
    <2> HIDE DEF f, Is
    <2> QED BY <2>1
  <1>2. ASSUME NEW n \in 1..L, n - 1 \in Good PROVE n \in Good
    <2>1. PICK f \in [0..(n - 1) -> S] : Is(f, n - 1)
      BY <1>2
    <2> DEFINE next == step[n][f[n - 1]]
               g == [i \in 0..n |-> IF i < n THEN f[i] ELSE next]
    <2>2. n \in Nat \ {0} /\ n - 1 \in 0..(n - 1) /\ n \in 0..L
      OBVIOUS
    <2>3. next \in S
      BY <2>2
    <2> HIDE DEF next
    <2>4. g \in [0..n -> S] /\ g[n] = next /\ \A i \in 0..(n - 1) : g[i] = f[i]
      BY <2>2, <2>3
    <2> HIDE DEF g
    <2>5. g[0] = base
      BY <2>1, <2>2, <2>4
    <2>6. ASSUME NEW i \in 1..n PROVE g[i] = step[i][g[i - 1]]
      <3>1. i - 1 \in 0..(n - 1) /\ g[i - 1] = f[i - 1]
        BY <2>2, <2>4
      <3>2. CASE i = n
        BY <2>4, <3>1, <3>2 DEF next
      <3>3. CASE i # n
        <4>1. i \in 1..(n - 1) /\ g[i] = f[i]
          BY <2>2, <2>4, <3>3
        <4> QED BY <2>1, <3>1, <4>1
      <3> QED BY <3>2, <3>3
    <2>7. Is(g, n)
      BY <2>5, <2>6
    <2> HIDE DEF Is
    <2> QED BY <2>2, <2>4, <2>7
  <1> HIDE DEF Good
  <1>3. L \in Good
    <2>1. \A n \in (0 + 1)..L : n - 1 \in Good => n \in Good
      BY <1>2
    <2>2. L \in Nat /\ 0 \in 0..L
      OBVIOUS
    <2>3. \A n \in 0..L : n \in Good
      BY <1>1, <2>1, <2>2, UpTo, Zenon
    <2> QED BY <2>2, <2>3
  <1> QED BY <1>3 DEF Good, IsSeries

\* What an int is, and that what fits in it stays as it is.
LEMMA IntIs ==
  /\ MaxInt \in Nat /\ MaxInt > 99 /\ MaxInt % 10 # 9 /\ MaxInt \div 10 \in Nat
  /\ MaxInt = 10 * (MaxInt \div 10) + (MaxInt % 10) /\ MaxInt % 10 \in 0..8
  /\ \A n \in Int : Int32(n) \in MinInt..MaxInt
  /\ MinInt = -MaxInt - 1
  /\ \A n \in MinInt..MaxInt : Int32(n) = n
  /\ Int32(MaxInt + 1) = MinInt /\ Int32(-MinInt) = MinInt
  <1>1. MaxInt \in Nat /\ MaxInt > 99 /\ MaxInt % 10 # 9
    BY MaxIntAssumption
  <1>2. /\ MaxInt \div 10 \in Nat /\ MaxInt = 10 * (MaxInt \div 10) + (MaxInt % 10)
        /\ MaxInt % 10 \in 0..8
    BY <1>1
  <1>3. ASSUME NEW n \in MinInt..MaxInt PROVE Int32(n) = n
    <2> DEFINE m == n + MaxInt + 1
               M == 2 * MaxInt + 2
    <2>1. m \in 0..(M - 1) /\ M \in Nat \ {0}
      BY <1>1 DEF MinInt
    <2> HIDE DEF m, M
    <2>2. m % M = m
      BY <2>1
    <2> QED BY <1>1, <2>2 DEF Int32, MinInt, m, M
  <1>4. Int32(MaxInt + 1) = MinInt
    <2>1. MaxInt + 1 + MaxInt + 1 = 2 * MaxInt + 2
      BY <1>1
    <2> DEFINE M == 2 * MaxInt + 2
    <2>2. M \in Nat \ {0}
      BY <1>1
    <2> HIDE DEF M
    <2>3. M % M = 0
      BY <2>2
    <2> QED BY <1>1, <2>1, <2>3 DEF Int32, MinInt, M
  <1>5. -MinInt = MaxInt + 1
    BY <1>1 DEF MinInt
  <1>6. ASSUME NEW n \in Int PROVE Int32(n) \in MinInt..MaxInt
    <2> DEFINE m == n + MaxInt + 1
               M == 2 * MaxInt + 2
    <2>1. m \in Int /\ M \in Nat \ {0}
      BY <1>1
    <2> HIDE DEF m, M
    <2>2. m % M \in 0..(M - 1)
      BY <2>1
    <2>3. Int32(n) = (m % M) - MaxInt - 1
      BY DEF Int32, m, M
    <2> QED BY <1>1, <2>2, <2>3 DEF MinInt, M
  <1> QED BY <1>1, <1>2, <1>3, <1>4, <1>5, <1>6 DEF MinInt

\* The powers of ten are natural numbers, and each is ten times the one before.
LEMMA PowersAre ==
  /\ PowerOfTen[0] = 1
  /\ \A d \in 1..MaxInt : PowerOfTen[d] = 10 * PowerOfTen[d - 1]
  /\ \A d \in 0..MaxInt : PowerOfTen[d] \in Nat /\ PowerOfTen[d] > d
  <1> DEFINE step == [d \in 1..MaxInt |-> [x \in Nat |-> 10 * x]]
             Rule(k) == [d \in 0..MaxInt |-> IF d = 0 THEN 1 ELSE 10 * k[d - 1]]
  <1>1. MaxInt \in Nat /\ step \in StepsOf(Nat, MaxInt)
    BY IntIs DEF StepsOf
  <1> DEFINE one == 1
  <1>2. one \in Nat
    OBVIOUS
  <1> HIDE DEF step, one
  <1>3. \E f : IsSeries(f, Nat, MaxInt, one, step)
    BY <1>1, <1>2, RecursiveExists
  <1>4. PICK f \in [0..MaxInt -> Nat] :
          f[0] = 1 /\ \A d \in 1..MaxInt : f[d] = step[d][f[d - 1]]
    BY <1>3 DEF one, IsSeries
  <1>5. \A d \in 1..MaxInt : f[d] = 10 * f[d - 1]
    <2> SUFFICES ASSUME NEW d \in 1..MaxInt PROVE f[d] = 10 * f[d - 1]
      OBVIOUS
    <2>1. d - 1 \in 0..MaxInt
      BY <1>1
    <2>2. f[d - 1] \in Nat
      BY <2>1
    <2>3. step[d][f[d - 1]] = 10 * f[d - 1]
      BY <2>2 DEF step
    <2> QED BY <1>4, <2>3
  <1>6. f = Rule(f)
    <2>1. ASSUME NEW d \in 0..MaxInt PROVE f[d] = Rule(f)[d]
      <3>1. d = 0 \/ d \in 1..MaxInt
        BY <1>1
      <3> QED BY <1>4, <1>5, <3>1
    <2> QED BY <2>1
  <1>7. PowerOfTen = CHOOSE k : k = Rule(k)
    BY DEF PowerOfTen
  <1> DEFINE power == PowerOfTen
  <1>8. power = Rule(power)
    BY <1>6, <1>7
  <1> HIDE DEF power
  <1>9. \A d \in 0..MaxInt : power[d] = IF d = 0 THEN 1 ELSE 10 * power[d - 1]
    BY <1>8
  <1>10. power[0] = 1
    <2>1. 0 \in 0..MaxInt
      BY <1>1
    <2> QED BY <1>9, <2>1
  <1>11. \A d \in 1..MaxInt : power[d] = 10 * power[d - 1]
    <2>1. \A d \in 1..MaxInt : d \in 0..MaxInt /\ d # 0
      BY <1>1
    <2> QED BY <1>9, <2>1
  <1> DEFINE Good == {d \in 0..MaxInt : power[d] \in Nat /\ power[d] > d}
  <1>12. 0 \in Good /\ 0 \in 0..MaxInt
    BY <1>1, <1>10
  <1>13. ASSUME NEW d \in (0 + 1)..MaxInt, d - 1 \in Good PROVE d \in Good
    <2>1. power[d] = 10 * power[d - 1] /\ power[d - 1] \in Nat /\ power[d - 1] > d - 1
      BY <1>11, <1>13
    <2>2. power[d] \in Nat /\ power[d] > d /\ d \in 0..MaxInt
      BY <1>1, <2>1
    <2> QED BY <2>2
  <1>14. \A d \in 0..MaxInt : d \in Good
    <2> HIDE DEF Good
    <2> QED BY <1>1, <1>12, <1>13, UpTo
  <1> QED BY <1>10, <1>11, <1>14 DEF power

\* The greatest int has that many digits.
LEMMA DigitsOfMaxIntIs ==
  /\ DigitsOfMaxInt \in 1..MaxInt
  /\ PowerOfTen[DigitsOfMaxInt - 1] <= MaxInt /\ MaxInt < PowerOfTen[DigitsOfMaxInt]
  <1> DEFINE Above == {d \in 0..MaxInt : MaxInt < PowerOfTen[d]}
  <1>1. MaxInt \in Nat /\ MaxInt > 99 /\ MaxInt \in 0..MaxInt
    BY IntIs
  <1>2. MaxInt \in Above /\ Above \in SUBSET Nat
    BY <1>1, PowersAre
  <1>3. PICK d \in Above : \A e \in Above : d <= e
    <2> HIDE DEF Above
    <2> QED BY <1>2, LeastNatural
  <1>4. d # 0
    BY <1>1, <1>3, PowersAre
  <1>5. d \in 1..MaxInt /\ d - 1 \in 0..MaxInt /\ ~(d <= d - 1)
    BY <1>1, <1>4
  <1>6. PowerOfTen[d - 1] <= MaxInt
    <2>1. d - 1 \notin Above
      BY <1>3, <1>5
    <2>2. PowerOfTen[d - 1] \in Nat
      BY <1>5, PowersAre
    <2> QED BY <1>1, <1>5, <2>1, <2>2
  <1> QED BY <1>3, <1>5, <1>6 DEF DigitsOfMaxInt

\* What the digits up to each one spell.
IsValue(v, d) ==
  /\ \A j \in 0..Len(d) : v[j] \in Int
  /\ v[0] = 0
  /\ \A j \in 1..Len(d) : v[j] = 10 * v[j - 1] + d[j]

\* Spelled is the last of the values.
LEMMA SpelledIs ==
  ASSUME NEW d \in Seq(Int)
  PROVE  \E v : IsValue(v, d) /\ Spelled(d) = v[Len(d)]
  <1> DEFINE L == Len(d)
             step == [i \in 1..L |-> [x \in Int |-> 10 * x + d[i]]]
             Rule(k) == [i \in 0..Len(d) |-> IF i = 0 THEN 0 ELSE 10 * k[i - 1] + d[i]]
             zero == 0
  <1>1. L \in Nat /\ zero \in Int /\ \A i \in 1..L : d[i] \in Int
    OBVIOUS
  <1>2. step \in StepsOf(Int, L)
    BY <1>1 DEF StepsOf
  <1> HIDE DEF step, zero
  <1>3. \E f : IsSeries(f, Int, L, zero, step)
    <2> HIDE DEF L
    <2> QED BY <1>1, <1>2, RecursiveExists
  <1>4. PICK f : f \in [0..L -> Int] /\ f[0] = 0 /\ \A i \in 1..L : f[i] = step[i][f[i - 1]]
    BY <1>3 DEF IsSeries, zero
  <1>5. f = Rule(f)
    <2>1. ASSUME NEW i \in 0..L PROVE f[i] = Rule(f)[i]
      <3>1. CASE i = 0
        BY <1>4, <3>1
      <3>2. CASE i # 0
        <4>1. i \in 1..L /\ i - 1 \in 0..L
          BY <1>1, <3>2
        <4>2. f[i - 1] \in Int
          BY <1>4, <4>1
        <4>3. step[i][f[i - 1]] = 10 * f[i - 1] + d[i]
          BY <4>1, <4>2 DEF step
        <4> QED BY <1>4, <3>2, <4>1, <4>3
      <3> QED BY <3>1, <3>2
    <2> QED BY <1>4, <2>1
  <1> DEFINE v == CHOOSE k : k = Rule(k)
  <1>6. Spelled(d) = v[Len(d)]
    BY DEF Spelled
  <1>7. v = Rule(v)
    BY <1>5
  <1> HIDE DEF v
  <1>8. v[0] = 0
    BY <1>1, <1>7
  <1>9. \A i \in 1..L : v[i] = 10 * v[i - 1] + d[i]
    <2>1. \A i \in 1..L : i \in 0..L /\ i # 0
      BY <1>1
    <2> QED BY <1>7, <2>1
  <1> DEFINE Good == {i \in 0..L : v[i] \in Int}
  <1>10. 0 \in Good /\ 0 \in 0..L
    BY <1>1, <1>8
  <1>11. ASSUME NEW i \in (0 + 1)..L, i - 1 \in Good PROVE i \in Good
    <2>1. i \in 1..L /\ i \in 0..L /\ v[i - 1] \in Int /\ d[i] \in Int
      BY <1>1, <1>11
    <2>2. v[i] = 10 * v[i - 1] + d[i]
      BY <1>9, <2>1
    <2> QED BY <2>1, <2>2
  <1>12. \A i \in 0..L : i \in Good
    <2> HIDE DEF Good, L
    <2> QED BY <1>1, <1>10, <1>11, UpTo
  <1>13. IsValue(v, d)
    BY <1>8, <1>9, <1>12 DEF IsValue
  <1> QED BY <1>6, <1>13

\* The characters behind the sign.
Negative(line) == line # <<>> /\ line[1] = Minus
Unsigned(line) == IF Negative(line) THEN Tail(line) ELSE line

\* The characters behind the sign are those of the line, one place further if there is one.
LEMMA UnsignedIs ==
  ASSUME NEW line \in Seq(Int), NEW lead, lead = IF Negative(line) THEN 1 ELSE 0
  PROVE  /\ Unsigned(line) \in Seq(Int)
         /\ lead \in 0..Len(line) /\ Len(Unsigned(line)) = Len(line) - lead
         /\ \A j \in 1..Len(Unsigned(line)) : Unsigned(line)[j] = line[j + lead]
  <1>1. CASE Negative(line)
    <2>1. Len(line) \in Nat \ {0} /\ lead = 1 /\ Unsigned(line) = Tail(line)
      BY <1>1 DEF Negative, Unsigned
    <2> QED BY <2>1
  <1>2. CASE ~Negative(line)
    BY <1>2 DEF Unsigned
  <1> QED BY <1>1, <1>2

\* The loop of ReadInt: its variables, how it starts and where it gives up, and
\* what a character does.
Turns == [num : Int, ele : Int, over : BOOLEAN]
Fresh == [num |-> 0, ele |-> 0, over |-> FALSE]
Refused == [num |-> 0, ele |-> 0, over |-> TRUE]
GivesUp(s, digit, negative) ==
  s.ele = DigitsOfMaxInt \/ digit \notin 0..9 \/ TooBig(s.num, digit, negative)
GoOn(s, num) == [s EXCEPT !.num = num, !.ele = IF num # 0 THEN @ + 1 ELSE @]
Turn(s, digit, negative) ==
  IF s.over THEN s
  ELSE IF GivesUp(s, digit, negative) THEN Refused
  ELSE GoOn(s, Int32(s.num * 10 + digit))

\* The two assignments at the end of the loop's body.
LEMMA GoOnIs ==
  ASSUME NEW s \in Turns, NEW num \in Int
  PROVE  /\ GoOn(s, num) \in Turns
         /\ GoOn(s, num).num = num /\ GoOn(s, num).over = s.over
         /\ GoOn(s, num).ele = IF num # 0 THEN s.ele + 1 ELSE s.ele
  <1> DEFINE ele == IF num # 0 THEN s.ele + 1 ELSE s.ele
             t == [s EXCEPT !.num = num]
  <1>1. ele \in Int /\ t \in Turns
    BY DEF Turns
  <1>2. GoOn(s, num) = [s EXCEPT !.num = num, !.ele = ele]
    BY DEF GoOn
  <1> HIDE DEF ele
  <1>3. [s EXCEPT !.num = num, !.ele = ele] = [t EXCEPT !.ele = ele]
    OBVIOUS
  <1>4. t.num = num /\ t.over = s.over
    BY DEF Turns
  <1> HIDE DEF t
  <1>5. /\ [t EXCEPT !.ele = ele] \in Turns
        /\ [t EXCEPT !.ele = ele].num = t.num /\ [t EXCEPT !.ele = ele].over = t.over
        /\ [t EXCEPT !.ele = ele].ele = ele
    BY <1>1 DEF Turns
  <1> QED BY <1>2, <1>3, <1>4, <1>5 DEF ele

\* A turn keeps the types of the variables.
LEMMA TurnTyped ==
  ASSUME NEW s \in Turns, NEW digit \in Int, NEW negative
  PROVE  Turn(s, digit, negative) \in Turns
  <1>1. Int32(s.num * 10 + digit) \in Int
    <2>1. s.num * 10 + digit \in Int
      BY DEF Turns
    <2> QED BY <2>1, IntIs
  <1>2. GoOn(s, Int32(s.num * 10 + digit)) \in Turns
    BY <1>1, GoOnIs
  <1>3. Refused \in Turns
    BY DEF Refused, Turns
  <1> QED BY <1>2, <1>3 DEF Turn

\* The states of the loop, by the number of digits seen.
IsLoop(st, d, negative) ==
  /\ \A j \in 0..Len(d) : st[j] \in Turns
  /\ st[0] = Fresh
  /\ \A j \in 1..Len(d) : st[j] = Turn(st[j - 1], d[j], negative)

\* ReadInt is the loop over the characters behind the sign.
LEMMA ReadIntIs ==
  ASSUME NEW line \in Seq(Int)
  PROVE  \E st : /\ IsLoop(st, Unsigned(line), Negative(line))
                 /\ ReadInt(line) = IF Negative(line)
                                    THEN Int32(-(st[Len(Unsigned(line))].num))
                                    ELSE st[Len(Unsigned(line))].num
  <1> DEFINE L == Len(line)
             negative == Negative(line)
             first == IF negative THEN 2 ELSE 1
             Rule(k) ==
               [i \in 0..Len(line) |->
                 IF i < first THEN Fresh ELSE Turn(k[i - 1], line[i], negative)]
             step == [i \in 1..L |->
               [x \in Turns |-> IF i < first THEN Fresh ELSE Turn(x, line[i], negative)]]
             v == CHOOSE k : k = Rule(k)
  <1>1. ReadInt(line) = IF negative THEN Int32(-(v[Len(line)].num)) ELSE v[Len(line)].num
    BY DEF ReadInt, Turn, GivesUp, GoOn, Fresh, Refused, Negative
  <1> HIDE DEF v
  <1>2. L \in Nat /\ Fresh \in Turns /\ first \in {1, 2} /\ \A i \in 1..L : line[i] \in Int
    BY DEF Fresh, Turns
  <1> HIDE DEF first, negative
  <1>3. \A i \in 1..L : \A x \in Turns :
          (IF i < first THEN Fresh ELSE Turn(x, line[i], negative)) \in Turns
    BY <1>2, TurnTyped
  <1>4. step \in StepsOf(Turns, L)
    <2> HIDE DEF L
    <2> QED BY <1>3 DEF StepsOf
  <1>5. \E f : IsSeries(f, Turns, L, Fresh, step)
    <2> HIDE DEF L, step
    <2> QED BY <1>2, <1>4, RecursiveExists
  <1> HIDE DEF step
  <1>6. PICK f : f \in [0..L -> Turns] /\ f[0] = Fresh /\ \A i \in 1..L : f[i] = step[i][f[i - 1]]
    BY <1>5 DEF IsSeries
  <1>7. f = Rule(f)
    <2>1. ASSUME NEW i \in 0..L PROVE f[i] = Rule(f)[i]
      <3>1. CASE i = 0
        BY <1>2, <1>6, <3>1
      <3>2. CASE i # 0
        <4>1. i \in 1..L /\ i - 1 \in 0..L
          BY <1>2, <3>2
        <4>2. f[i - 1] \in Turns
          BY <1>6, <4>1
        <4>3. step[i][f[i - 1]] = IF i < first THEN Fresh ELSE Turn(f[i - 1], line[i], negative)
          BY <4>1, <4>2 DEF step
        <4>4. f[i] = step[i][f[i - 1]]
          BY <1>6, <4>1
        <4> QED BY <4>3, <4>4
      <3> QED BY <3>1, <3>2
    <2> HIDE DEF L
    <2>2. f \in [0..L -> Turns] /\ Rule(f) = [i \in 0..L |-> Rule(f)[i]]
      BY <1>6 DEF L
    <2> QED BY <2>1, <2>2
  <1>8. v = Rule(v)
    BY <1>7 DEF v
  <1>9. \A i \in 0..L : v[i] = IF i < first THEN Fresh ELSE Turn(v[i - 1], line[i], negative)
    BY <1>8
  <1> DEFINE Good == {i \in 0..L : v[i] \in Turns}
  <1>10. 0 \in Good /\ 0 \in 0..L
    BY <1>2, <1>9
  <1>11. ASSUME NEW i \in (0 + 1)..L, i - 1 \in Good PROVE i \in Good
    <2>1. i \in 1..L /\ i \in 0..L /\ v[i - 1] \in Turns /\ line[i] \in Int
      BY <1>2, <1>11
    <2>2. Turn(v[i - 1], line[i], negative) \in Turns
      BY <2>1, TurnTyped
    <2> QED BY <1>2, <1>9, <2>1, <2>2
  <1>12. \A i \in 0..L : i \in Good
    <2> HIDE DEF Good, L
    <2> QED BY <1>2, <1>10, <1>11, UpTo
  <1> DEFINE lead == IF Negative(line) THEN 1 ELSE 0
             d == Unsigned(line)
             st == [j \in 0..Len(d) |-> v[j + lead]]
  <1>13. /\ lead \in 0..L /\ Len(d) = L - lead /\ first = lead + 1
         /\ \A j \in 1..Len(d) : d[j] = line[j + lead]
    <2>1. lead = IF Negative(line) THEN 1 ELSE 0
      OBVIOUS
    <2>2. first = lead + 1
      BY DEF first, negative
    <2> HIDE DEF lead
    <2> QED BY <2>1, <2>2, UnsignedIs
  <1> HIDE DEF lead, d
  <1>14. \A j \in 0..Len(d) : st[j] \in Turns /\ j + lead \in 0..L /\ st[j] = v[j + lead]
    BY <1>2, <1>12, <1>13
  <1>15. 0 \in 0..Len(d) /\ Len(d) \in 0..Len(d) /\ Len(d) + lead = L
    <2>1. L \in Nat /\ lead \in Nat /\ lead <= L /\ Len(d) = L - lead
      BY <1>2, <1>13
    <2>2. Len(d) \in Nat
      BY <2>1
    <2> QED BY <2>1, <2>2
  <1> HIDE DEF st
  <1>16. st[0] = Fresh
    <2>1. 0 + lead = lead /\ lead < first
      BY <1>2, <1>13
    <2>2. st[0] = v[lead]
      BY <1>14, <1>15, <2>1
    <2> QED BY <1>9, <1>13, <2>1, <2>2
  <1>17. ASSUME NEW j \in 1..Len(d) PROVE st[j] = Turn(st[j - 1], d[j], negative)
    <2>1. j \in 0..Len(d) /\ j - 1 \in 0..Len(d) /\ ~(j + lead < first)
      BY <1>2, <1>13
    <2>2. st[j] = v[j + lead] /\ st[j - 1] = v[j + lead - 1] /\ j + lead \in 0..L
      <3>1. (j - 1) + lead = j + lead - 1
        BY <1>2, <1>13
      <3> QED BY <1>14, <2>1, <3>1
    <2> QED BY <1>9, <1>13, <2>1, <2>2
  <1>18. IsLoop(st, d, negative)
    BY <1>14, <1>16, <1>17 DEF IsLoop
  <1>19. st[Len(d)].num = v[Len(line)].num
    BY <1>14, <1>15
  <1> QED BY <1>1, <1>18, <1>19 DEF d, negative

\* The powers of ten rise.
LEMMA PowersRise ==
  ASSUME NEW a \in 0..MaxInt, NEW b \in 0..MaxInt, a <= b
  PROVE  PowerOfTen[a] <= PowerOfTen[b]
  <1> DEFINE Good == {n \in 0..MaxInt : PowerOfTen[a] <= PowerOfTen[n]}
  <1>1. MaxInt \in Nat /\ PowerOfTen[a] \in Nat
    BY IntIs, PowersAre
  <1>2. a \in Good
    BY <1>1
  <1>3. ASSUME NEW n \in (a + 1)..MaxInt, n - 1 \in Good PROVE n \in Good
    <2>1. n \in 1..MaxInt /\ n \in 0..MaxInt /\ n - 1 \in 0..MaxInt
      BY <1>1
    <2>2. PowerOfTen[n] = 10 * PowerOfTen[n - 1] /\ PowerOfTen[n - 1] \in Nat
      BY <2>1, PowersAre
    <2> QED BY <1>1, <1>3, <2>1, <2>2
  <1>4. \A n \in a..MaxInt : n \in Good
    <2> HIDE DEF Good
    <2> QED BY <1>1, <1>2, <1>3, UpTo
  <1> QED BY <1>1, <1>4

\* The greatest number a line can denote, without its sign.
Greatest(negative) == IF negative THEN MaxInt + 1 ELSE MaxInt

\* ReadInt holds the number x, and has counted its digits.
Holding(s, x) ==
  /\ x \in Nat /\ ~s.over /\ s.num = Int32(x) /\ s.ele \in 0..DigitsOfMaxInt
  /\ x = 0 => s.ele = 0
  /\ x > 0 => s.ele > 0 /\ PowerOfTen[s.ele - 1] <= x /\ x < PowerOfTen[s.ele]

\* The comparison tells whether another digit fits.
LEMMA TooBigIs ==
  ASSUME NEW x \in 0..MaxInt, NEW digit \in 0..9, NEW negative \in BOOLEAN
  PROVE  TooBig(x, digit, negative) <=> 10 * x + digit > Greatest(negative)
  <1> DEFINE q == MaxInt \div 10
             r == MaxInt % 10
  <1>1. q \in Nat /\ r \in 0..8 /\ MaxInt = 10 * q + r
    BY IntIs
  <1>2. TooBig(x, digit, negative) <=>
          x > q \/ (x = q /\ digit > r + (IF negative THEN 1 ELSE 0))
    BY DEF TooBig
  <1> HIDE DEF q, r
  <1> DEFINE more == IF negative THEN 1 ELSE 0
  <1>3. /\ more \in {0, 1} /\ Greatest(negative) = 10 * q + r + more
        /\ TooBig(x, digit, negative) <=> x > q \/ (x = q /\ digit > r + more)
    BY <1>1, <1>2 DEF Greatest
  <1> HIDE DEF more
  <1>4. CASE x < q
    <2>1. 10 * x + digit <= 10 * q + r + more
      BY <1>1, <1>3, <1>4
    <2> QED BY <1>1, <1>3, <1>4, <2>1
  <1>5. CASE x = q
    BY <1>1, <1>3, <1>5
  <1>6. CASE x > q
    <2>1. 10 * x + digit > 10 * q + r + more
      BY <1>1, <1>3, <1>6
    <2> QED BY <1>1, <1>3, <1>6, <2>1
  <1> QED BY <1>1, <1>4, <1>5, <1>6

\* A digit that fits is taken in.
LEMMA DigitFits ==
  ASSUME NEW s \in Turns, NEW x, NEW digit \in 0..9, NEW negative \in BOOLEAN,
         Holding(s, x), 10 * x + digit <= Greatest(negative)
  PROVE  Holding(Turn(s, digit, negative), 10 * x + digit)
  <1> DEFINE y == 10 * x + digit
             D == DigitsOfMaxInt
  <1>1. /\ MaxInt \in Nat /\ x \in Nat /\ y \in Nat /\ y <= MaxInt + 1 /\ x \in 0..MaxInt
        /\ D \in 1..MaxInt /\ s.ele \in 0..D
    BY IntIs, DigitsOfMaxIntIs DEF Greatest, Holding
  <1>2. s.num = x /\ s.num * 10 + digit = y
    BY <1>1, IntIs DEF Holding, MinInt
  <1>3. ~TooBig(s.num, digit, negative)
    <2>1. ~(10 * x + digit > Greatest(negative))
      BY <1>1, IntIs DEF Greatest
    <2> QED BY <1>1, <1>2, <2>1, TooBigIs
  <1>4. s.ele # D
    <2> SUFFICES ASSUME s.ele = D PROVE FALSE
      OBVIOUS
    <2>1. x > 0 /\ PowerOfTen[D - 1] <= x
      BY <1>1 DEF Holding
    <2>2. PowerOfTen[D] = 10 * PowerOfTen[D - 1] /\ PowerOfTen[D - 1] \in Nat
      <3>1. D - 1 \in 0..MaxInt
        BY <1>1
      <3> QED BY <1>1, <3>1, PowersAre
    <2>3. MaxInt < PowerOfTen[D]
      BY DigitsOfMaxIntIs
    <2>4. 10 * PowerOfTen[D - 1] = MaxInt + 1
      BY <1>1, <2>1, <2>2, <2>3
    <2> DEFINE q == MaxInt \div 10
               r == MaxInt % 10
    <2>5. q \in Nat /\ r \in 0..8 /\ MaxInt = 10 * q + r
      BY IntIs
    <2> HIDE DEF q, r
    <2> QED BY <2>2, <2>4, <2>5
  <1> DEFINE num == Int32(y)
  <1>5. num \in Int /\ (num = 0 <=> y = 0)
    <2>1. y \in 0..MaxInt \/ y = MaxInt + 1
      BY <1>1
    <2>2. y \in 0..MaxInt => num = y
      BY <1>1, IntIs DEF MinInt
    <2>3. y = MaxInt + 1 => num = MinInt
      BY <1>1, IntIs
    <2> HIDE DEF num, y
    <2> QED BY <1>1, <2>1, <2>2, <2>3 DEF MinInt
  <1> HIDE DEF num
  <1>6. Turn(s, digit, negative) = GoOn(s, num)
    BY <1>2, <1>3, <1>4 DEF Turn, GivesUp, Holding, num
  <1>7. /\ GoOn(s, num).num = num /\ GoOn(s, num).over = s.over
        /\ GoOn(s, num).ele = IF num # 0 THEN s.ele + 1 ELSE s.ele
    BY <1>5, GoOnIs
  <1> DEFINE t == GoOn(s, num)
  <1> HIDE DEF t
  <1>8. ~t.over /\ t.num = Int32(y)
    BY <1>7 DEF t, num, Holding
  <1>9. CASE y = 0
    <2>1. x = 0
      BY <1>1, <1>9
    <2>2. t.ele = 0
      BY <1>5, <1>7, <1>9, <2>1 DEF t, Holding
    <2> HIDE DEF y
    <2>3. Holding(t, y)
      BY <1>1, <1>8, <1>9, <2>2 DEF Holding
    <2> QED BY <1>6, <2>3 DEF t, y
  <1>10. CASE y > 0
    <2> DEFINE e == s.ele
    <2>1. t.ele = e + 1 /\ e \in 0..(D - 1) /\ e + 1 \in 1..D
      BY <1>1, <1>4, <1>5, <1>7, <1>10 DEF t
    <2>2. e \in 0..MaxInt /\ e + 1 \in 1..MaxInt /\ e + 1 - 1 = e
      BY <1>1, <2>1
    <2>3. PowerOfTen[e + 1] = 10 * PowerOfTen[e] /\ PowerOfTen[e] \in Nat
      BY <2>2, PowersAre
    <2>4. PowerOfTen[e] <= y /\ y < PowerOfTen[e + 1]
      <3>1. CASE x = 0
        <4>1. e = 0 /\ PowerOfTen[e] = 1 /\ y = digit
          BY <3>1, PowersAre DEF Holding
        <4> QED BY <1>1, <1>10, <2>3, <4>1
      <3>2. CASE x > 0
        <4>1. e > 0 /\ PowerOfTen[e - 1] <= x /\ x < PowerOfTen[e]
          BY <3>2 DEF Holding
        <4>2. e \in 1..MaxInt /\ e - 1 \in 0..MaxInt
          BY <1>1, <2>2, <4>1
        <4>3. PowerOfTen[e] = 10 * PowerOfTen[e - 1] /\ PowerOfTen[e - 1] \in Nat
          BY <4>2, PowersAre
        <4>4. y >= 10 * x /\ y < 10 * (x + 1) /\ x + 1 <= PowerOfTen[e]
          BY <1>1, <2>3, <4>1
        <4> HIDE DEF e, y
        <4> QED BY <1>1, <2>3, <4>1, <4>3, <4>4
      <3> QED BY <1>1, <3>1, <3>2
    <2> HIDE DEF e, y
    <2>5. Holding(t, y)
      BY <1>1, <1>8, <1>10, <2>1, <2>2, <2>4 DEF Holding
    <2> QED BY <1>6, <2>5 DEF t, y
  <1> QED BY <1>1, <1>9, <1>10

\* One that does not is refused.
LEMMA DigitDoesNotFit ==
  ASSUME NEW s \in Turns, NEW x, NEW digit \in 0..9, NEW negative \in BOOLEAN,
         Holding(s, x), x <= Greatest(negative), 10 * x + digit > Greatest(negative)
  PROVE  Turn(s, digit, negative) = Refused
  <1> DEFINE D == DigitsOfMaxInt
  <1>1. MaxInt \in Nat /\ x \in Nat /\ D \in 1..MaxInt /\ s.ele \in 0..D
    BY IntIs, DigitsOfMaxIntIs DEF Holding
  <1>2. CASE x <= MaxInt
    <2>1. x \in 0..MaxInt /\ s.num = x
      BY <1>1, <1>2, IntIs DEF Holding, MinInt
    <2>2. TooBig(s.num, digit, negative)
      BY <2>1, TooBigIs
    <2> QED BY <2>2 DEF Turn, GivesUp, Holding
  <1>3. CASE x > MaxInt
    <2>1. s.ele > 0 /\ x < PowerOfTen[s.ele]
      BY <1>1, <1>3 DEF Holding
    <2>2. s.ele = D
      <3> SUFFICES ASSUME s.ele # D PROVE FALSE
        OBVIOUS
      <3>1. s.ele \in 0..MaxInt /\ D - 1 \in 0..MaxInt /\ s.ele <= D - 1
        BY <1>1
      <3>2. PowerOfTen[s.ele] <= PowerOfTen[D - 1]
        BY <3>1, PowersRise
      <3>3. PowerOfTen[D - 1] <= MaxInt
        BY DigitsOfMaxIntIs
      <3>4. PowerOfTen[s.ele] \in Nat /\ PowerOfTen[D - 1] \in Nat
        BY <3>1, PowersAre
      <3> QED BY <1>1, <1>3, <2>1, <3>2, <3>3, <3>4
    <2> QED BY <2>2 DEF Turn, GivesUp, Holding
  <1> QED BY <1>1, <1>2, <1>3

\* What the loop has made of the first j characters behind the sign.
Counted(s, v, d, negative, j) ==
  IF (\A i \in 1..j : d[i] \in 0..9) /\ v[j] <= Greatest(negative)
  THEN Holding(s, v[j]) ELSE s = Refused

\* While all are digits and the number fits, the loop holds it; from then on it has
\* given up.
LEMMA LoopCounts ==
  ASSUME NEW d \in Seq(Int), NEW negative \in BOOLEAN, NEW v, NEW st,
         IsValue(v, d), IsLoop(st, d, negative)
  PROVE  \A j \in 0..Len(d) :
           /\ Counted(st[j], v, d, negative, j)
           /\ (\A i \in 1..j : d[i] \in 0..9) => v[j] \in Nat
  <1> DEFINE L == Len(d)
             AllDigits(j) == \A i \in 1..j : d[i] \in 0..9
             Claim(j) == /\ Counted(st[j], v, d, negative, j)
                         /\ AllDigits(j) => v[j] \in Nat
             Good == {j \in 0..L : Claim(j)}
  <1>1. L \in Nat /\ 0 \in 0..L /\ MaxInt \in Nat /\ Greatest(negative) \in Nat
    BY IntIs DEF Greatest
  <1>2. Claim(0)
    <2>1. v[0] = 0 /\ st[0] = Fresh /\ AllDigits(0)
      BY DEF IsValue, IsLoop
    <2>2. Int32(0) = 0
      BY IntIs DEF MinInt
    <2>3. Holding(Fresh, 0)
      BY <2>2, DigitsOfMaxIntIs, IntIs DEF Holding, Fresh
    <2> HIDE DEF AllDigits
    <2>4. v[0] <= Greatest(negative) /\ v[0] \in Nat
      BY <1>1, <2>1
    <2> QED BY <2>1, <2>3, <2>4 DEF Counted, AllDigits
  <1>3. ASSUME NEW j \in (0 + 1)..L, j - 1 \in Good PROVE j \in Good
    <2> DEFINE x == v[j - 1]
               s == st[j - 1]
               t == st[j]
    <2>1. j \in 1..L /\ j \in 0..L /\ j - 1 \in 0..L /\ Claim(j - 1)
      BY <1>1, <1>3
    <2>2. v[j] = 10 * x + d[j] /\ x \in Int /\ d[j] \in Int
      BY <2>1 DEF IsValue
    <2>3. t = Turn(s, d[j], negative) /\ s \in Turns
      BY <2>1 DEF IsLoop
    <2>4. AllDigits(j) <=> AllDigits(j - 1) /\ d[j] \in 0..9
      <3>1. 1..j = 1..(j - 1) \cup {j}
        BY <2>1
      <3> QED BY <3>1
    <2>5. CASE ~AllDigits(j - 1)
      <3> HIDE DEF AllDigits
      <3>1. s = Refused
        BY <2>1, <2>5 DEF Counted, AllDigits
      <3>2. t = Refused
        BY <2>3, <3>1 DEF Turn, Refused
      <3>3. Claim(j)
        BY <2>4, <2>5, <3>2 DEF Counted, AllDigits
      <3> QED BY <2>1, <3>3
    <2>6. CASE AllDigits(j - 1) /\ x > Greatest(negative)
      <3> HIDE DEF AllDigits
      <3>1. s = Refused /\ x \in Nat
        BY <1>1, <2>1, <2>2, <2>6 DEF Counted, AllDigits
      <3>2. t = Refused
        BY <2>3, <3>1 DEF Turn, Refused
      <3>3. ASSUME AllDigits(j) PROVE v[j] \in Nat /\ ~(v[j] <= Greatest(negative))
        <4> DEFINE g == Greatest(negative)
                   digit == d[j]
        <4>1. digit \in 0..9 /\ v[j] = 10 * x + digit /\ g \in Nat /\ x \in Nat /\ x > g
          BY <1>1, <2>2, <2>4, <2>6, <3>1, <3>3
        <4> HIDE DEF g, digit, x
        <4>2. v[j] \in Nat /\ ~(v[j] <= g)
          BY <4>1
        <4> QED BY <4>2 DEF g
      <3>4. Claim(j)
        BY <3>2, <3>3 DEF Counted, AllDigits
      <3> QED BY <2>1, <3>4
    <2>7. CASE AllDigits(j - 1) /\ ~(x > Greatest(negative))
      <3> HIDE DEF AllDigits
      <3>1. Holding(s, x) /\ x \in Nat /\ x <= Greatest(negative)
        BY <1>1, <2>1, <2>2, <2>7 DEF Counted, AllDigits
      <3>2. CASE d[j] \notin 0..9
        <4>1. t = Refused
          BY <2>3, <3>1, <3>2 DEF Turn, GivesUp, Holding
        <4>2. ~AllDigits(j)
          BY <2>4, <3>2
        <4>3. Claim(j)
          BY <4>1, <4>2 DEF Counted, AllDigits
        <4> QED BY <2>1, <4>3
      <3>3. CASE d[j] \in 0..9 /\ v[j] <= Greatest(negative)
        <4>1. AllDigits(j) /\ v[j] \in Nat
          BY <2>2, <2>4, <2>7, <3>1, <3>3
        <4>2. Holding(t, v[j])
          <5>1. 10 * x + d[j] <= Greatest(negative)
            BY <2>2, <3>3
          <5> HIDE DEF x, s, t
          <5>2. Holding(Turn(s, d[j], negative), 10 * x + d[j])
            BY <2>3, <3>1, <3>3, <5>1, DigitFits
          <5> QED BY <2>2, <2>3, <5>2
        <4>3. Claim(j)
          BY <3>3, <4>1, <4>2 DEF Counted, AllDigits
        <4> QED BY <2>1, <4>3
      <3>4. CASE d[j] \in 0..9 /\ ~(v[j] <= Greatest(negative))
        <4>1. AllDigits(j) /\ v[j] \in Nat
          BY <2>2, <2>4, <2>7, <3>1, <3>4
        <4>2. t = Refused
          <5>1. 10 * x + d[j] > Greatest(negative)
            BY <1>1, <2>2, <3>4, <4>1
          <5> HIDE DEF x, s, t
          <5>2. Turn(s, d[j], negative) = Refused
            BY <2>3, <3>1, <3>4, <5>1, DigitDoesNotFit
          <5> QED BY <2>3, <5>2
        <4>3. Claim(j)
          BY <3>4, <4>1, <4>2 DEF Counted, AllDigits
        <4> QED BY <2>1, <4>3
      <3> QED BY <3>2, <3>3, <3>4
    <2> QED BY <1>1, <2>2, <2>5, <2>6, <2>7
  <1>4. 0 \in Good
    <2> HIDE DEF Claim
    <2> QED BY <1>1, <1>2
  <1>5. \A j \in 0..L : j \in Good
    <2> HIDE DEF Good, L
    <2> QED BY <1>1, <1>3, <1>4, UpTo
  <1> QED BY <1>5

\* ReadInt returns the int that a line denotes, and 0 for every other line, of
\* any length and any characters, up to the limits INT_MIN and INT_MAX themselves.
THEOREM LinesReadExactly == \A line \in Seq(Int) : ReadsExactly(line)
  <1> SUFFICES ASSUME NEW line \in Seq(Int) PROVE ReadsExactly(line)
    OBVIOUS
  <1> DEFINE d == Unsigned(line)
             negative == Negative(line)
             number == IF negative THEN -Spelled(d) ELSE Spelled(d)
  <1>1. d \in Seq(Int) /\ negative \in BOOLEAN
    BY UnsignedIs DEF Negative
  <1>2. PICK v : IsValue(v, d) /\ Spelled(d) = v[Len(d)]
    BY <1>1, SpelledIs
  <1>3. PICK st : /\ IsLoop(st, d, negative)
                  /\ ReadInt(line) = IF negative THEN Int32(-(st[Len(d)].num))
                                     ELSE st[Len(d)].num
    BY ReadIntIs
  <1>4. IsNumber(line) <=> d # <<>> /\ \A i \in 1..Len(d) : d[i] \in 0..9
    <2>1. DOMAIN d = 1..Len(d)
      BY <1>1
    <2> QED BY <2>1 DEF IsNumber, Unsigned, Negative
  <1>5. ReadsExactly(line) <=>
          ReadInt(line) = IF IsNumber(line) /\ number \in MinInt..MaxInt THEN number ELSE 0
    BY DEF ReadsExactly, Unsigned, Negative
  <1> HIDE DEF d, negative
  <1> DEFINE x == v[Len(d)]
             s == st[Len(d)]
  <1>6. /\ Counted(s, v, d, negative, Len(d)) /\ x \in Int
        /\ (\A i \in 1..Len(d) : d[i] \in 0..9) => x \in Nat
    <2>1. Len(d) \in 0..Len(d)
      BY <1>1
    <2> QED BY <1>1, <1>2, <1>3, <2>1, LoopCounts DEF IsValue
  <1>7. number = IF negative THEN -x ELSE x
    BY <1>2
  <1> HIDE DEF number, s
  <1>8. MaxInt \in Nat /\ Int32(0) = 0 /\ Int32(-0) = 0
    BY IntIs DEF MinInt
  <1>9. CASE ~\A i \in 1..Len(d) : d[i] \in 0..9
    <2>1. s = Refused /\ ~IsNumber(line)
      BY <1>4, <1>6, <1>9 DEF Counted
    <2>2. ReadInt(line) = 0
      BY <1>3, <1>8, <2>1 DEF Refused, s
    <2> QED BY <1>5, <2>1, <2>2
  <1>10. CASE (\A i \in 1..Len(d) : d[i] \in 0..9) /\ ~(x <= Greatest(negative))
    <2>1. s = Refused
      BY <1>6, <1>10 DEF Counted
    <2>2. ReadInt(line) = 0
      BY <1>3, <1>8, <2>1 DEF Refused, s
    <2>3. number \notin MinInt..MaxInt
      BY <1>1, <1>6, <1>7, <1>8, <1>10 DEF Greatest, MinInt
    <2> QED BY <1>5, <2>2, <2>3
  <1>11. CASE (\A i \in 1..Len(d) : d[i] \in 0..9) /\ x <= Greatest(negative)
    <2>1. Holding(s, x) /\ x \in Nat
      BY <1>6, <1>11 DEF Counted
    <2>2. number \in MinInt..MaxInt
      BY <1>1, <1>7, <1>8, <1>11, <2>1 DEF Greatest, MinInt
    <2>3. ReadInt(line) = number
      <3>1. s.num = Int32(x) /\ ReadInt(line) = IF negative THEN Int32(-(s.num)) ELSE s.num
        BY <1>3, <2>1 DEF Holding, s
      <3>2. CASE ~negative
        <4>1. x \in MinInt..MaxInt /\ number = x
          BY <1>7, <2>2, <3>2
        <4> QED BY <3>1, <3>2, <4>1, IntIs
      <3>3. CASE negative /\ x <= MaxInt
        <4>1. x \in MinInt..MaxInt /\ -x \in MinInt..MaxInt /\ number = -x
          BY <1>7, <1>8, <2>1, <3>3 DEF MinInt
        <4> HIDE DEF x
        <4>2. s.num = x /\ Int32(-x) = -x
          BY <3>1, <4>1, IntIs
        <4> QED BY <3>1, <3>3, <4>1, <4>2
      <3>4. CASE negative /\ x = MaxInt + 1
        <4>1. s.num = MinInt /\ number = MinInt
          BY <1>7, <1>8, <3>1, <3>4, IntIs DEF MinInt
        <4> QED BY <3>1, <3>4, <4>1, IntIs
      <3> QED BY <1>1, <1>8, <1>11, <2>1, <3>2, <3>3, <3>4 DEF Greatest
    <2>4. CASE d # <<>>
      BY <1>4, <1>5, <1>11, <2>2, <2>3, <2>4
    <2>5. CASE d = <<>>
      <3>1. x = 0 /\ number = 0 /\ ~IsNumber(line)
        BY <1>1, <1>2, <1>4, <1>7, <2>5 DEF IsValue
      <3> QED BY <1>5, <2>3, <3>1
    <2> QED BY <2>4, <2>5
  <1> QED BY <1>6, <1>9, <1>10, <1>11

-----------------------------------------------------------------------------

\* What is left of n after the digits up to each one, and how many there are.
IsRest(rest, n) ==
  /\ \A i \in 0..DigitsOfMaxInt : rest[i] \in Nat
  /\ rest[0] = n
  /\ \A i \in 1..DigitsOfMaxInt : rest[i] = rest[i - 1] \div 10
IsSize(size, rest) ==
  size \in 1..DigitsOfMaxInt /\ rest[size] = 0 /\ \A j \in 1..(size - 1) : rest[j] > 0

\* The remainder is less than 10 and n is what it was made of.
LEMMA TenthIs ==
  ASSUME NEW n \in Nat
  PROVE  /\ Tenth(n) = n \div 10 /\ Tenth(n) \in Nat /\ LastDigit(n) \in 0..9
         /\ n = 10 * Tenth(n) + LastDigit(n)
  <1>1. n \div 10 \in Nat /\ n % 10 \in 0..9 /\ n = 10 * (n \div 10) + (n % 10)
    OBVIOUS
  <1>2. Tenth(n) = n \div 10
    BY DEF Tenth
  <1> DEFINE t == Tenth(n)
             r == n % 10
  <1>3. t \in Nat /\ r \in 0..9 /\ n = 10 * t + r /\ LastDigit(n) = n - 10 * t
    BY <1>1, <1>2 DEF LastDigit
  <1> HIDE DEF t, r
  <1>4. LastDigit(n) = r
    BY <1>3
  <1> QED BY <1>2, <1>3, <1>4 DEF t

\* After i digits something is left exactly when n has more digits than i.
LEMMA LeftIs ==
  ASSUME NEW n \in Nat, NEW rest, IsRest(rest, n)
  PROVE  \A i \in 0..DigitsOfMaxInt : rest[i] > 0 <=> n >= PowerOfTen[i]
  <1> DEFINE D == DigitsOfMaxInt
             Claim(i) == \A k \in 0..(D - i) : rest[i] >= PowerOfTen[k] <=> n >= PowerOfTen[k + i]
             Good == {i \in 0..D : Claim(i)}
  <1>1. D \in Nat /\ 0 \in 0..D /\ \A k \in 0..D : k \in 0..MaxInt /\ PowerOfTen[k] \in Nat
    BY IntIs, DigitsOfMaxIntIs, PowersAre
  <1>2. Claim(0)
    <2>1. \A k \in 0..D : k + 0 = k
      BY <1>1
    <2> QED BY <1>1, <2>1 DEF IsRest
  <1>3. ASSUME NEW i \in (0 + 1)..D, i - 1 \in Good PROVE i \in Good
    <2>1. i \in 1..D /\ i \in 0..D /\ i - 1 \in 0..D /\ Claim(i - 1)
      BY <1>1, <1>3
    <2>2. rest[i] = rest[i - 1] \div 10 /\ rest[i - 1] \in Nat
      BY <2>1 DEF IsRest
    <2>3. ASSUME NEW k \in 0..(D - i)
          PROVE  rest[i] >= PowerOfTen[k] <=> n >= PowerOfTen[k + i]
      <3>1. k \in 0..D /\ k + 1 \in 1..D /\ k + 1 \in 0..(D - (i - 1)) /\ (k + 1) + (i - 1) = k + i
        BY <1>1, <2>1
      <3>2. rest[i - 1] >= PowerOfTen[k + 1] <=> n >= PowerOfTen[k + i]
        <4> HIDE DEF D
        <4>1. rest[i - 1] >= PowerOfTen[k + 1] <=> n >= PowerOfTen[(k + 1) + (i - 1)]
          BY <2>1, <3>1
        <4> QED BY <3>1, <4>1
      <3>3. PowerOfTen[k + 1] = 10 * PowerOfTen[k] /\ PowerOfTen[k] \in Nat
        <4>1. k + 1 \in 1..MaxInt /\ k + 1 - 1 = k
          BY <1>1, <3>1, IntIs
        <4> QED BY <1>1, <3>1, <4>1, PowersAre
      <3> DEFINE p == PowerOfTen[k]
                 m == rest[i - 1]
                 w == m \div 10
      <3>4. p \in Nat /\ m \in Nat /\ w \in Nat /\ 10 * w <= m /\ m < 10 * (w + 1)
        BY <2>2, <3>3
      <3> HIDE DEF p, m, w
      <3>5. w >= p <=> m >= 10 * p
        BY <3>4
      <3> QED BY <2>2, <3>2, <3>3, <3>5 DEF p, m, w
    <2> QED BY <2>1, <2>3
  <1>4. \A i \in 0..D : i \in Good
    <2>1. 0 \in Good
      <3> HIDE DEF Claim
      <3> QED BY <1>1, <1>2
    <2> HIDE DEF Good, D
    <2> QED BY <1>1, <1>3, <2>1, UpTo
  <1>5. ASSUME NEW i \in 0..D PROVE rest[i] > 0 <=> n >= PowerOfTen[i]
    <2>1. Claim(i)
      BY <1>4
    <2>2. 0 \in 0..(D - i) /\ 0 + i = i
      BY <1>1
    <2>3. rest[i] >= PowerOfTen[0] <=> n >= PowerOfTen[0 + i]
      BY <2>1, <2>2
    <2> QED BY <2>2, <2>3, PowersAre DEF IsRest
  <1> QED BY <1>5

\* PrintInt's loop ends with the digits of n, one from each remainder.
LEMMA DigitsAre ==
  ASSUME NEW n \in 0..MaxInt
  PROVE  \E rest, size : /\ IsRest(rest, n) /\ IsSize(size, rest)
                         /\ Digits(n) = [i \in 1..size |-> LastDigit(rest[i - 1])]
  <1> DEFINE D == DigitsOfMaxInt
             Rule(k) == [i \in 0..D |-> IF i = 0 THEN n ELSE Tenth(k[i - 1])]
             step == [i \in 1..D |-> [x \in Nat |-> Tenth(x)]]
             rest == CHOOSE k : k = Rule(k)
             AtEnd(i) == rest[i] <= 0 /\ \A j \in 1..(i - 1) : rest[j] > 0
             size == CHOOSE i \in 1..D : AtEnd(i)
  <1>1. Digits(n) = [i \in 1..size |-> LastDigit(rest[i - 1])]
    BY DEF Digits
  <1>2. MaxInt \in Nat /\ n \in Nat /\ D \in Nat /\ D >= 1
    BY IntIs, DigitsOfMaxIntIs
  <1>3. step \in StepsOf(Nat, D)
    BY TenthIs DEF StepsOf
  <1> HIDE DEF step
  <1>4. \E f : IsSeries(f, Nat, D, n, step)
    <2> HIDE DEF D
    <2> QED BY <1>2, <1>3, RecursiveExists
  <1>5. PICK f : f \in [0..D -> Nat] /\ f[0] = n /\ \A i \in 1..D : f[i] = step[i][f[i - 1]]
    BY <1>4 DEF IsSeries
  <1>6. f = Rule(f)
    <2>1. ASSUME NEW i \in 0..D PROVE f[i] = Rule(f)[i]
      <3>1. CASE i = 0
        BY <1>5, <3>1
      <3>2. CASE i # 0
        <4>1. i \in 1..D /\ i - 1 \in 0..D
          BY <1>2, <3>2
        <4>2. f[i - 1] \in Nat
          BY <1>5, <4>1
        <4>3. step[i][f[i - 1]] = Tenth(f[i - 1])
          BY <4>1, <4>2 DEF step
        <4> QED BY <1>5, <3>2, <4>1, <4>3
      <3> QED BY <3>1, <3>2
    <2> QED BY <1>5, <2>1
  <1> HIDE DEF size
  <1>7. rest = Rule(rest)
    BY <1>6
  <1> HIDE DEF rest
  <1>8. rest[0] = n /\ \A i \in 1..D : rest[i] = Tenth(rest[i - 1])
    <2>1. \A i \in 1..D : i \in 0..D /\ i # 0
      BY <1>2
    <2>2. 0 \in 0..D
      BY <1>2
    <2> QED BY <1>7, <2>1, <2>2
  <1> DEFINE Good == {i \in 0..D : rest[i] \in Nat}
  <1>9. 0 \in Good /\ 0 \in 0..D
    BY <1>2, <1>8
  <1>10. ASSUME NEW i \in (0 + 1)..D, i - 1 \in Good PROVE i \in Good
    <2>1. i \in 1..D /\ i \in 0..D /\ rest[i - 1] \in Nat
      BY <1>2, <1>10
    <2>2. rest[i] \in Nat
      BY <1>8, <2>1, TenthIs
    <2> QED BY <2>1, <2>2
  <1>11. \A i \in 0..D : i \in Good
    <2> HIDE DEF Good, D
    <2> QED BY <1>2, <1>9, <1>10, UpTo
  <1>12. IsRest(rest, n)
    <2>1. \A i \in 1..D : i - 1 \in 0..D
      BY <1>2
    <2>2. \A i \in 1..D : rest[i] = rest[i - 1] \div 10
      BY <1>8, <1>11, <2>1, TenthIs
    <2> QED BY <1>8, <1>11, <2>2 DEF IsRest
  <1> DEFINE Ends == {i \in 1..D : rest[i] <= 0}
  <1>13. D \in Ends
    <2>1. D \in 0..D /\ D \in 1..D /\ rest[D] \in Nat
      BY <1>2, <1>11
    <2>2. ~(n >= PowerOfTen[D])
      BY <1>2, DigitsOfMaxIntIs, PowersAre
    <2> QED BY <1>12, <2>1, <2>2, <1>2, LeftIs
  <1>14. PICK i \in Ends : \A j \in Ends : i <= j
    <2>1. Ends \in SUBSET Nat
      OBVIOUS
    <2> HIDE DEF Ends
    <2> QED BY <1>13, <2>1, LeastNatural
  <1>15. i \in 1..D /\ AtEnd(i)
    <2>1. ASSUME NEW j \in 1..(i - 1) PROVE rest[j] > 0
      <3>1. j \in 1..D /\ j \in 0..D /\ ~(i <= j) /\ j \notin Ends
        BY <1>2, <1>14
      <3>2. rest[j] \in Nat
        BY <1>11, <3>1
      <3> QED BY <3>1, <3>2
    <2> QED BY <1>14, <2>1
  <1>16. size \in 1..D /\ AtEnd(size)
    <2> HIDE DEF AtEnd
    <2> QED BY <1>15 DEF size
  <1>17. IsSize(size, rest)
    <2>1. size \in 0..D
      BY <1>2, <1>16
    <2>2. rest[size] \in Nat
      BY <1>11, <2>1
    <2>3. rest[size] = 0
      BY <1>16, <2>2
    <2> QED BY <1>16, <2>3 DEF IsSize
  <1> QED BY <1>1, <1>12, <1>17

\* The digits, the first one first, spell the number.
LEMMA DigitsSpell ==
  ASSUME NEW n \in 0..MaxInt, NEW d, d = Reverse(Digits(n))
  PROVE  /\ d \in Seq(Int) /\ Len(d) > 0 /\ Spelled(d) = n
         /\ \A i \in 1..Len(d) : d[i] \in 0..9
  <1>1. PICK rest, size : /\ IsRest(rest, n) /\ IsSize(size, rest)
                          /\ Digits(n) = [i \in 1..size |-> LastDigit(rest[i - 1])]
    BY DigitsAre
  <1>2. /\ size \in Nat /\ size > 0 /\ rest[0] = n /\ rest[size] = 0 /\ MaxInt \in Nat
        /\ DigitsOfMaxInt \in Nat /\ size <= DigitsOfMaxInt
    BY <1>1, IntIs, DigitsOfMaxIntIs DEF IsRest, IsSize
  <1>3. \A i \in 1..size :
          /\ rest[i] \in Nat /\ rest[i - 1] \in Nat /\ LastDigit(rest[i - 1]) \in 0..9
          /\ rest[i - 1] = 10 * rest[i] + LastDigit(rest[i - 1])
    <2> SUFFICES ASSUME NEW i \in 1..size
                 PROVE  /\ rest[i] \in Nat /\ rest[i - 1] \in Nat /\ LastDigit(rest[i - 1]) \in 0..9
                        /\ rest[i - 1] = 10 * rest[i] + LastDigit(rest[i - 1])
      OBVIOUS
    <2>1. i \in 1..DigitsOfMaxInt /\ i - 1 \in 0..DigitsOfMaxInt /\ i \in 0..DigitsOfMaxInt
      BY <1>2
    <2>2. rest[i] \in Nat /\ rest[i - 1] \in Nat /\ rest[i] = rest[i - 1] \div 10
      BY <1>1, <2>1 DEF IsRest
    <2>3. /\ Tenth(rest[i - 1]) = rest[i] /\ LastDigit(rest[i - 1]) \in 0..9
          /\ rest[i - 1] = 10 * Tenth(rest[i - 1]) + LastDigit(rest[i - 1])
      BY <2>2, TenthIs
    <2> QED BY <2>2, <2>3
  <1>4. Digits(n) \in Seq(Int) /\ Len(Digits(n)) = size
    <2> DEFINE digit == [i \in 1..size |-> LastDigit(rest[i - 1])]
    <2>1. \A i \in 1..size : LastDigit(rest[i - 1]) \in Int
      BY <1>3
    <2> HIDE DEF LastDigit
    <2>2. digit \in [1..size -> Int]
      BY <2>1
    <2> HIDE DEF digit
    <2>3. digit \in Seq(Int) /\ Len(digit) = size
      BY <1>2, <2>2
    <2> QED BY <1>1, <2>3 DEF digit
  <1>5. /\ d \in Seq(Int) /\ Len(d) = size
        /\ \A i \in 1..size : d[i] = Digits(n)[size - i + 1]
    <2>1. \A i \in 1..size : size - i + 1 \in 1..size
      BY <1>2
    <2> DEFINE s == Digits(n)
    <2> HIDE DEF s
    <2>2. d = [i \in 1..size |-> s[(size - i) + 1]]
      BY <1>4 DEF Reverse, s
    <2>3. \A i \in 1..size : s[(size - i) + 1] \in Int
      BY <1>4, <2>1 DEF s
    <2> QED BY <1>2, <2>2, <2>3 DEF s
  <1>6. \A i \in 1..size : d[i] = LastDigit(rest[size - i]) /\ size - i + 1 \in 1..size
    <2> SUFFICES ASSUME NEW i \in 1..size
                 PROVE  d[i] = LastDigit(rest[size - i]) /\ size - i + 1 \in 1..size
      OBVIOUS
    <2>1. size - i + 1 \in 1..size /\ (size - i + 1) - 1 = size - i
      BY <1>2
    <2>2. Digits(n)[size - i + 1] = LastDigit(rest[(size - i + 1) - 1])
      BY <1>1, <2>1
    <2> QED BY <1>5, <2>1, <2>2
  <1>7. \A i \in 1..size : /\ d[i] \in 0..9 /\ rest[size - i] \in Nat /\ rest[size - i + 1] \in Nat
                           /\ rest[size - i] = 10 * rest[size - i + 1] + d[i]
    <2> SUFFICES ASSUME NEW i \in 1..size
                 PROVE  /\ d[i] \in 0..9 /\ rest[size - i] \in Nat /\ rest[size - i + 1] \in Nat
                        /\ rest[size - i] = 10 * rest[size - i + 1] + d[i]
      OBVIOUS
    <2> DEFINE k == size - i + 1
    <2>1. k \in 1..size /\ k - 1 = size - i
      BY <1>2
    <2>2. d[i] = LastDigit(rest[k - 1])
      BY <1>6, <2>1
    <2> HIDE DEF k
    <2>3. /\ rest[k] \in Nat /\ rest[k - 1] \in Nat /\ d[i] \in 0..9
          /\ rest[k - 1] = 10 * rest[k] + d[i]
      BY <1>3, <2>1, <2>2
    <2> QED BY <2>1, <2>3 DEF k
  <1>8. PICK v : IsValue(v, d) /\ Spelled(d) = v[Len(d)]
    BY <1>5, SpelledIs
  <1> DEFINE Good == {i \in 0..size : v[i] = rest[size - i]}
  <1>9. 0 \in Good /\ 0 \in 0..size
    <2>1. v[0] = 0 /\ size - 0 = size
      BY <1>2, <1>8 DEF IsValue
    <2> QED BY <1>2, <2>1
  <1>10. ASSUME NEW i \in (0 + 1)..size, i - 1 \in Good PROVE i \in Good
    <2>1. i \in 1..size /\ i \in 0..size /\ size - (i - 1) = size - i + 1
      BY <1>2
    <2>2. v[i] = 10 * v[i - 1] + d[i]
      BY <1>5, <1>8, <2>1 DEF IsValue
    <2>3. v[i - 1] = rest[size - i + 1]
      BY <1>10, <2>1
    <2>4. rest[size - i] = 10 * rest[size - i + 1] + d[i]
      BY <1>7, <2>1
    <2> QED BY <2>1, <2>2, <2>3, <2>4
  <1>11. \A i \in 0..size : i \in Good
    <2> HIDE DEF Good
    <2> QED BY <1>2, <1>9, <1>10, UpTo
  <1>12. v[size] = n
    <2>1. size \in 0..size /\ size - size = 0
      BY <1>2
    <2> QED BY <1>2, <1>11, <2>1
  <1> QED BY <1>2, <1>5, <1>7, <1>8, <1>12

\* A line of digits, with or without a sign, is the number they spell.
LEMMA NumberRead ==
  ASSUME NEW line \in Seq(Int), NEW d, d = Unsigned(line), Len(d) > 0,
         \A i \in 1..Len(d) : d[i] \in 0..9,
         NEW number, number = IF Negative(line) THEN -Spelled(d) ELSE Spelled(d),
         number \in MinInt..MaxInt
  PROVE  ReadInt(line) = number
  <1>1. ReadsExactly(line)
    BY LinesReadExactly
  <1>2. d \in Seq(Int) /\ DOMAIN d = 1..Len(d) /\ d # <<>>
    BY UnsignedIs
  <1>3. IsNumber(line)
    BY <1>2 DEF IsNumber, Unsigned, Negative
  <1>4. number = IF line # <<>> /\ line[1] = Minus THEN -Spelled(Tail(line)) ELSE Spelled(line)
    BY DEF Unsigned, Negative
  <1> QED BY <1>1, <1>3, <1>4 DEF ReadsExactly

\* What PrintInt displays, ReadInt reads back, except for the least int.
THEOREM PrintedReadsBack == \A n \in MinInt..MaxInt : RoundTrip(n)
  <1> SUFFICES ASSUME NEW n \in MinInt..MaxInt, n # MinInt PROVE ReadInt(PrintInt(n)) = n
    BY DEF RoundTrip
  <1>1. MaxInt \in Nat /\ n \in Int
    BY IntIs DEF MinInt
  <1> DEFINE m == IF n < 0 THEN -n ELSE n
             d == Reverse(Digits(m))
             line == PrintInt(n)
  <1>2. m \in 0..MaxInt /\ (n < 0 => Int32(-n) = m)
    <2>1. n < 0 => -n \in MinInt..MaxInt
      BY <1>1 DEF MinInt
    <2>2. n < 0 => Int32(-n) = -n
      BY <2>1, IntIs
    <2> QED BY <1>1, <2>2 DEF MinInt
  <1>3. line = IF n < 0 THEN <<Minus>> \o d ELSE d
    BY <1>2 DEF PrintInt
  <1> HIDE DEF m
  <1>4. /\ d \in Seq(Int) /\ Len(d) > 0 /\ Spelled(d) = m
        /\ \A i \in 1..Len(d) : d[i] \in 0..9
    BY <1>2, DigitsSpell
  <1> HIDE DEF d, line
  <1>5. line \in Seq(Int) /\ Negative(line) = (n < 0) /\ d = Unsigned(line)
    <2>1. Minus \in Int /\ Minus \notin 0..9
      BY DEF Minus
    <2>2. CASE n < 0
      <3>1. line = <<Minus>> \o d
        BY <1>3, <2>2
      <3>2. line \in Seq(Int) /\ line # <<>> /\ line[1] = Minus /\ Tail(line) = d
        BY <1>4, <2>1, <3>1
      <3> QED BY <2>2, <3>2 DEF Negative, Unsigned
    <2>3. CASE ~(n < 0)
      <3>1. line = d /\ line[1] \in 0..9
        BY <1>3, <1>4, <2>3
      <3> QED BY <1>4, <2>1, <2>3, <3>1 DEF Negative, Unsigned
    <2> QED BY <2>2, <2>3
  <1>6. n = IF Negative(line) THEN -Spelled(d) ELSE Spelled(d)
    <2> DEFINE value == Spelled(d)
    <2>1. value = IF n < 0 THEN -n ELSE n
      BY <1>4 DEF m
    <2> HIDE DEF value
    <2>2. n = IF n < 0 THEN -value ELSE value
      BY <1>1, <2>1
    <2> QED BY <1>5, <2>2 DEF value
  <1>7. ReadInt(line) = n
    BY <1>4, <1>5, <1>6, NumberRead
  <1> QED BY <1>7 DEF line

\* What the first j digits spell has no more than j digits.
LEMMA ValueBelow ==
  ASSUME NEW d \in Seq(Int), Len(d) <= MaxInt, \A i \in 1..Len(d) : d[i] \in 0..9,
         NEW v, IsValue(v, d)
  PROVE  \A j \in 0..Len(d) : v[j] \in Nat /\ v[j] < PowerOfTen[j]
  <1> DEFINE L == Len(d)
             Good == {j \in 0..L : v[j] \in Nat /\ v[j] < PowerOfTen[j]}
  <1>1. L \in Nat /\ MaxInt \in Nat /\ L <= MaxInt
    BY IntIs
  <1>2. 0 \in Good /\ 0 \in 0..L
    BY <1>1, PowersAre DEF IsValue
  <1>3. ASSUME NEW j \in (0 + 1)..L, j - 1 \in Good PROVE j \in Good
    <2>1. j \in 1..L /\ j \in 0..L /\ j \in 1..MaxInt /\ j - 1 \in 0..MaxInt
      BY <1>1
    <2>2. v[j] = 10 * v[j - 1] + d[j] /\ d[j] \in 0..9
      BY <2>1 DEF IsValue
    <2>3. PowerOfTen[j] = 10 * PowerOfTen[j - 1] /\ PowerOfTen[j - 1] \in Nat
      BY <2>1, PowersAre
    <2> DEFINE x == v[j - 1]
               y == v[j]
               digit == d[j]
               p == PowerOfTen[j - 1]
    <2>4. x \in Nat /\ x < p /\ p \in Nat /\ digit \in 0..9 /\ y = 10 * x + digit
      BY <1>3, <2>2, <2>3
    <2> HIDE DEF x, y, digit, p
    <2>5. y \in Nat /\ y < 10 * p
      BY <2>4
    <2> QED BY <2>1, <2>3, <2>5 DEF p, y
  <1>4. \A j \in 0..L : j \in Good
    <2> HIDE DEF Good, L
    <2> QED BY <1>1, <1>2, <1>3, UpTo
  <1> QED BY <1>4

\* The numbers that the loop of the earlier stage goes through.
LEMMA EarlyReadIntIs ==
  ASSUME NEW line \in Seq(Int), Len(line) <= EarlyLength
  PROVE  \E v : /\ v[IF Negative(line) THEN 1 ELSE 0] = 0
                /\ \A i \in 1..Len(line) : i > (IF Negative(line) THEN 1 ELSE 0) =>
                     v[i] = 10 * v[i - 1] + (line[i] % 16)
                /\ EarlyReadInt(line) = IF Negative(line) THEN -(v[Len(line)]) ELSE v[Len(line)]
  <1> DEFINE L == Len(line)
             first == IF Negative(line) THEN 2 ELSE 1
             Rule(k) ==
               [i \in 0..Len(line) |->
                 IF i < first THEN 0 ELSE 10 * k[i - 1] + (line[i] % 16)]
             step == [i \in 1..L |->
               [x \in Int |-> IF i < first THEN 0 ELSE 10 * x + (line[i] % 16)]]
             v == CHOOSE k : k = Rule(k)
             zero == 0
  <1>1. EarlyReadInt(line) = IF Negative(line) THEN -(v[Len(line)]) ELSE v[Len(line)]
    BY DEF EarlyReadInt, Negative
  <1> HIDE DEF v
  <1>2. L \in Nat /\ zero \in Int /\ first \in {1, 2} /\ \A i \in 1..L : line[i] % 16 \in Int
    <2>1. \A i \in 1..L : line[i] \in Int
      OBVIOUS
    <2> QED BY <2>1
  <1> HIDE DEF first
  <1>3. step \in StepsOf(Int, L)
    <2>1. \A i \in 1..L : \A x \in Int :
            (IF i < first THEN 0 ELSE 10 * x + (line[i] % 16)) \in Int
      BY <1>2
    <2> HIDE DEF L
    <2> QED BY <2>1 DEF StepsOf
  <1> HIDE DEF step, zero
  <1>4. \E f : IsSeries(f, Int, L, zero, step)
    <2> HIDE DEF L
    <2> QED BY <1>2, <1>3, RecursiveExists
  <1>5. PICK f : f \in [0..L -> Int] /\ f[0] = 0 /\ \A i \in 1..L : f[i] = step[i][f[i - 1]]
    BY <1>4 DEF IsSeries, zero
  <1>6. f = Rule(f)
    <2>1. ASSUME NEW i \in 0..L PROVE f[i] = Rule(f)[i]
      <3>1. CASE i = 0
        BY <1>2, <1>5, <3>1
      <3>2. CASE i # 0
        <4>1. i \in 1..L /\ i - 1 \in 0..L
          BY <1>2, <3>2
        <4>2. f[i - 1] \in Int
          BY <1>5, <4>1
        <4>3. step[i][f[i - 1]] = IF i < first THEN 0 ELSE 10 * f[i - 1] + (line[i] % 16)
          BY <4>1, <4>2 DEF step
        <4> QED BY <1>5, <4>1, <4>3
      <3> QED BY <3>1, <3>2
    <2> QED BY <1>5, <2>1
  <1>7. v = Rule(v)
    BY <1>6 DEF v
  <1>8. \A i \in 0..L : v[i] = IF i < first THEN 0 ELSE 10 * v[i - 1] + (line[i] % 16)
    BY <1>7
  <1> DEFINE lead == IF Negative(line) THEN 1 ELSE 0
  <1>9. lead \in 0..L /\ first = lead + 1
    <2>1. lead = IF Negative(line) THEN 1 ELSE 0
      OBVIOUS
    <2>2. first = lead + 1
      BY DEF first
    <2> HIDE DEF lead
    <2> QED BY <2>1, <2>2, UnsignedIs
  <1> HIDE DEF lead
  <1>10. v[lead] = 0
    BY <1>2, <1>8, <1>9
  <1>11. \A i \in 1..L : i > lead => v[i] = 10 * v[i - 1] + (line[i] % 16)
    <2> SUFFICES ASSUME NEW i \in 1..L, i > lead PROVE v[i] = 10 * v[i - 1] + (line[i] % 16)
      OBVIOUS
    <2>1. i \in 0..L /\ ~(i < first)
      BY <1>2, <1>9
    <2> QED BY <1>8, <2>1
  <1> QED BY <1>1, <1>10, <1>11 DEF lead

\* The two stages read the same number from a line that is one and fits in the
\* shorter buffer.
THEOREM StagesReadAlike == \A line \in Seq(Int) : StagesAgree(line)
  <1> SUFFICES ASSUME NEW line \in Seq(Int), IsNumber(line), Len(line) <= EarlyLength
               PROVE  EarlyReadInt(line) = ReadInt(line)
    BY DEF StagesAgree
  <1> DEFINE d == Unsigned(line)
             lead == IF Negative(line) THEN 1 ELSE 0
             D == DigitsOfMaxInt
             L == Len(d)
  <1>1. lead = IF Negative(line) THEN 1 ELSE 0
    OBVIOUS
  <1> HIDE DEF lead
  <1>2. /\ d \in Seq(Int) /\ lead \in 0..Len(line) /\ L = Len(line) - lead
        /\ \A j \in 1..L : d[j] = line[j + lead]
    BY <1>1, UnsignedIs
  <1>3. d # <<>> /\ \A j \in DOMAIN d : d[j] \in 0..9
    BY DEF IsNumber, Unsigned, Negative
  <1> HIDE DEF d
  <1>4. /\ MaxInt \in Nat /\ D \in 1..MaxInt /\ PowerOfTen[D - 1] <= MaxInt
        /\ Len(line) \in Nat /\ L \in Nat /\ L <= D - 1 /\ lead \in Nat
    <2>1. Len(line) \in Nat /\ Len(line) <= D - 1
      BY DEF EarlyLength
    <2>2. MaxInt \in Nat /\ D \in 1..MaxInt /\ PowerOfTen[D - 1] <= MaxInt
      BY IntIs, DigitsOfMaxIntIs
    <2>3. L \in Nat
      BY <1>2
    <2> HIDE DEF L, D
    <2>4. L <= D - 1 /\ lead \in Nat
      BY <1>2, <2>1, <2>2, <2>3
    <2> QED BY <2>1, <2>2, <2>3, <2>4
  <1>5. L > 0 /\ \A j \in 1..L : d[j] \in 0..9
    <2>1. d \in Seq(Int)
      BY <1>2
    <2>2. Len(d) > 0 /\ DOMAIN d = 1..Len(d)
      BY <1>3, <2>1
    <2> QED BY <1>3, <2>2
  <1>6. PICK w : IsValue(w, d) /\ Spelled(d) = w[Len(d)]
    BY <1>2, SpelledIs
  <1>7. PICK v : /\ v[lead] = 0
                 /\ \A i \in 1..Len(line) : i > lead => v[i] = 10 * v[i - 1] + (line[i] % 16)
                 /\ EarlyReadInt(line) = IF Negative(line) THEN -(v[Len(line)]) ELSE v[Len(line)]
    BY <1>1, EarlyReadIntIs
  <1> DEFINE Good == {j \in 0..L : v[j + lead] = w[j]}
  <1>8. 0 \in Good /\ 0 \in 0..L
    <2>1. 0 + lead = lead
      BY <1>4
    <2> QED BY <1>4, <1>6, <1>7, <2>1 DEF IsValue
  <1>9. ASSUME NEW j \in (0 + 1)..L, j - 1 \in Good PROVE j \in Good
    <2> DEFINE i == j + lead
    <2>1. j \in 1..L /\ j \in 0..L /\ i \in 1..Len(line) /\ i > lead /\ i - 1 = (j - 1) + lead
      <3> DEFINE n == Len(line)
      <3>1. n \in Nat /\ L \in Nat /\ lead \in Nat /\ L = n - lead
        BY <1>2, <1>4
      <3> HIDE DEF L, n, i
      <3>2. j \in Nat /\ j >= 1 /\ j <= L
        BY <3>1
      <3>3. j + lead \in 1..n /\ j + lead > lead /\ (j + lead) - 1 = (j - 1) + lead
        BY <3>1, <3>2
      <3> QED BY <3>1, <3>2, <3>3 DEF i, n
    <2>2. w[j] = 10 * w[j - 1] + d[j] /\ d[j] = line[i] /\ d[j] \in 0..9
      BY <1>2, <1>5, <1>6, <2>1 DEF IsValue
    <2> HIDE DEF i
    <2>3. v[i] = 10 * v[i - 1] + (line[i] % 16)
      BY <1>7, <2>1
    <2> DEFINE digit == d[j]
    <2>4. digit \in 0..9 /\ line[i] = digit
      BY <2>2
    <2> HIDE DEF digit
    <2>5. digit % 16 = digit
      BY <2>4
    <2>6. line[i] % 16 = d[j]
      BY <2>4, <2>5 DEF digit
    <2>7. v[i - 1] = w[j - 1]
      BY <1>9, <2>1
    <2> QED BY <2>1, <2>2, <2>3, <2>6, <2>7 DEF i
  <1>10. \A j \in 0..L : j \in Good
    <2> HIDE DEF Good, L
    <2> QED BY <1>4, <1>8, <1>9, UpTo
  <1>11. v[Len(line)] = Spelled(d)
    <2>1. L \in 0..L /\ L + lead = Len(line)
      BY <1>2, <1>4
    <2> QED BY <1>6, <1>10, <2>1
  <1> DEFINE x == Spelled(d)
             number == IF Negative(line) THEN -x ELSE x
  <1>12. x \in Nat /\ x <= MaxInt
    <2>1. L \in 0..L /\ L <= MaxInt /\ L \in 0..MaxInt /\ D - 1 \in 0..MaxInt
      BY <1>4
    <2>2. x \in Nat /\ x < PowerOfTen[L]
      BY <1>2, <1>5, <1>6, <2>1, ValueBelow
    <2>3. PowerOfTen[L] <= PowerOfTen[D - 1] /\ PowerOfTen[L] \in Nat /\ PowerOfTen[D - 1] \in Nat
      BY <1>4, <2>1, PowersRise, PowersAre
    <2> QED BY <1>4, <2>2, <2>3
  <1> HIDE DEF x
  <1>13. number \in MinInt..MaxInt
    BY <1>4, <1>12 DEF MinInt
  <1>14. number = IF Negative(line) THEN -Spelled(d) ELSE Spelled(d)
    BY DEF x
  <1> HIDE DEF number
  <1>15. ReadInt(line) = number
    <2>1. d = Unsigned(line) /\ Len(d) > 0
      BY <1>5 DEF d
    <2> QED BY <1>5, <1>13, <1>14, <2>1, NumberRead
  <1> QED BY <1>7, <1>11, <1>14, <1>15

\* They display the same, and the earlier one overruns its buffer exactly by
\* the numbers that leave no room for a newline.
THEOREM StagesPrintAlike == \A n \in MinInt..MaxInt : SamePrinted(n)
  <1> SUFFICES ASSUME NEW n \in MinInt..MaxInt PROVE SamePrinted(n)
    OBVIOUS
  <1> DEFINE m == IF n < 0 THEN Int32(-n) ELSE n
             D == DigitsOfMaxInt
             p == PowerOfTen[EarlyLength - 1]
  <1>1. EarlyPrintInt(n).shown = PrintInt(n)
    <2>1. CASE n < 0
      BY <2>1 DEF EarlyPrintInt, PrintInt
    <2>2. CASE ~(n < 0)
      <3> DEFINE d == Reverse(Digits(n))
      <3>1. n \in 0..MaxInt
        BY <2>2, IntIs DEF MinInt
      <3>2. d \in Seq(Int)
        BY <3>1, DigitsSpell
      <3> HIDE DEF d
      <3>3. <<>> \o d = d
        BY <3>2
      <3> QED BY <2>2, <3>3 DEF EarlyPrintInt, PrintInt, d
    <2> QED BY <2>1, <2>2
  <1>2. EarlyPrintInt(n).overrun <=> Len(Digits(m)) >= EarlyLength
    BY DEF EarlyPrintInt
  <1>3. /\ MaxInt \in Nat /\ MaxInt > 99 /\ n \in Int /\ D \in 1..MaxInt
        /\ MaxInt < PowerOfTen[D] /\ EarlyLength = D - 1
    BY IntIs, DigitsOfMaxIntIs DEF MinInt, EarlyLength
  <1>4. D > 2
    <2>1. 0 \in 0..MaxInt /\ 1 \in 1..MaxInt /\ 2 \in 1..MaxInt /\ 2 - 1 = 1 /\ 1 - 1 = 0
      BY <1>3
    <2>2. PowerOfTen[1] = 10
      BY <2>1, PowersAre
    <2>3. PowerOfTen[2] = 100
      BY <2>1, <2>2, PowersAre
    <2> QED BY <1>3, <2>2, <2>3
  <1> HIDE DEF m, p
  <1>5. ASSUME n # MinInt
        PROVE  Len(Digits(m)) >= EarlyLength <=> n \notin -(p - 1)..(p - 1)
    <2>1. m \in 0..MaxInt /\ m = IF n < 0 THEN -n ELSE n
      <3>1. n < 0 => -n \in MinInt..MaxInt
        BY <1>3, <1>5 DEF MinInt
      <3>2. n < 0 => Int32(-n) = -n
        BY <3>1, IntIs
      <3> QED BY <1>3, <1>5, <3>2 DEF MinInt, m
    <2>2. PICK rest, size : /\ IsRest(rest, m) /\ IsSize(size, rest)
                            /\ Digits(m) = [i \in 1..size |-> LastDigit(rest[i - 1])]
      BY <2>1, DigitsAre
    <2>3. size \in 1..D /\ rest[size] = 0 /\ \A j \in 1..(size - 1) : rest[j] > 0
      BY <2>2 DEF IsSize
    <2>4. Len(Digits(m)) = size
      <3>1. size \in Nat
        BY <1>3, <2>3
      <3> HIDE DEF LastDigit
      <3> QED BY <2>2, <3>1
    <2>5. D - 2 \in 1..D /\ D - 2 \in 0..D /\ D - 2 \in 0..MaxInt /\ p = PowerOfTen[D - 2]
      <3>1. EarlyLength - 1 = D - 2
        BY <1>3
      <3> QED BY <1>3, <1>4, <3>1 DEF p
    <2>6. p \in Nat /\ (rest[D - 2] > 0 <=> m >= p)
      <3>1. m \in Nat
        BY <1>3, <2>1
      <3> QED BY <2>2, <2>5, <3>1, LeftIs, PowersAre
    <2>7. size >= D - 1 <=> rest[D - 2] > 0
      <3>1. CASE size >= D - 1
        <4>1. D - 2 \in 1..(size - 1)
          BY <1>3, <1>4, <2>3, <3>1
        <4> QED BY <2>3, <3>1, <4>1
      <3>2. CASE ~(size >= D - 1)
        <4>1. size \in 0..D /\ size \in 0..MaxInt /\ size <= D - 2
          BY <1>3, <2>3, <3>2
        <4>2. ~(m >= PowerOfTen[size])
          <5>1. m \in Nat
            BY <1>3, <2>1
          <5>2. ~(rest[size] > 0)
            BY <2>3
          <5> QED BY <2>2, <4>1, <5>1, <5>2, LeftIs
        <4>3. PowerOfTen[size] <= p /\ PowerOfTen[size] \in Nat
          BY <2>5, <4>1, PowersRise, PowersAre
        <4> QED BY <1>3, <2>1, <2>6, <3>2, <4>2, <4>3
      <3> QED BY <3>1, <3>2
    <2>8. m >= p <=> n \notin -(p - 1)..(p - 1)
      BY <1>3, <2>1, <2>6
    <2> QED BY <1>3, <2>4, <2>6, <2>7, <2>8
  <1> QED BY <1>1, <1>2, <1>5 DEF SamePrinted, p

-------------------------------------------------------------------------------
(* Bitmaps *)

\* A function that doubles from 1 on is the powers of two.
LEMMA DoublesAre ==
  ASSUME NEW L \in Nat, NEW power,
         power = CHOOSE k : k = [n \in 0..L |-> IF n = 0 THEN 1 ELSE 2 * k[n - 1]]
  PROVE  /\ power[0] = 1
         /\ \A n \in 1..L : power[n] = 2 * power[n - 1]
         /\ \A n \in 0..L : power[n] \in Nat \ {0}
  <1> DEFINE step == [n \in 1..L |-> [x \in Nat |-> 2 * x]]
             Rule(k) == [n \in 0..L |-> IF n = 0 THEN 1 ELSE 2 * k[n - 1]]
             one == 1
  <1>2. power = CHOOSE k : k = Rule(k)
    OBVIOUS
  <1>3. step \in StepsOf(Nat, L) /\ one \in Nat
    BY DEF StepsOf
  <1> HIDE DEF step, one
  <1>4. \E f : IsSeries(f, Nat, L, one, step)
    BY <1>3, RecursiveExists
  <1>5. PICK f \in [0..L -> Nat] : f[0] = 1 /\ \A n \in 1..L : f[n] = step[n][f[n - 1]]
    BY <1>4 DEF one, IsSeries
  <1>6. ASSUME NEW n \in 0..L PROVE f[n] = Rule(f)[n]
    <2>1. CASE n = 0
      BY <1>5, <2>1
    <2>2. CASE n # 0
      <3>1. n \in 1..L /\ n - 1 \in 0..L
        BY <1>6, <2>2
      <3>2. f[n - 1] \in Nat
        BY <1>5, <3>1
      <3>3. step[n][f[n - 1]] = 2 * f[n - 1]
        BY <3>1, <3>2 DEF step
      <3> QED BY <1>5, <2>2, <3>1, <3>3
    <2> QED BY <2>1, <2>2
  <1>7. f = Rule(f)
    BY <1>5, <1>6
  <1>8. power = Rule(power)
    BY <1>2, <1>7
  <1>9. 0 \in 0..L /\ \A n \in 1..L : n \in 0..L /\ n # 0
    OBVIOUS
  <1>10. \A n \in 0..L : power[n] = IF n = 0 THEN 1 ELSE 2 * power[n - 1]
    BY <1>8
  <1>11. power[0] = 1 /\ \A n \in 1..L : power[n] = 2 * power[n - 1]
    BY <1>9, <1>10
  <1> DEFINE Good == {n \in 0..L : power[n] \in Nat \ {0}}
  <1>12. 0 \in Good
    BY <1>9, <1>11
  <1>13. ASSUME NEW n \in (0 + 1)..L, n - 1 \in Good PROVE n \in Good
    <2>1. power[n] = 2 * power[n - 1] /\ power[n - 1] \in Nat \ {0} /\ n \in 0..L
      BY <1>9, <1>11, <1>13
    <2> QED BY <2>1
  <1>14. \A n \in 0..L : n \in Good
    <2> HIDE DEF Good
    <2> QED BY <1>9, <1>12, <1>13, UpTo
  <1> QED BY <1>11, <1>14

\* A quotient and a remainder are those of the division.
LEMMA DivisionIs ==
  ASSUME NEW m \in Nat \ {0}, NEW q \in Int, NEW r \in 0..(m - 1)
  PROVE  (q * m + r) \div m = q /\ (q * m + r) % m = r
  <1> DEFINE n == q * m + r
             q2 == n \div m
             r2 == n % m
  <1>1. n \in Int /\ r \in Int
    OBVIOUS
  <1>2. n = q2 * m + r2 /\ q2 \in Int /\ r2 \in 0..(m - 1)
    <2> HIDE DEF n
    <2> QED BY <1>1
  <1>3. q * m + r = q2 * m + r2
    BY <1>2
  <1> HIDE DEF q2, r2
  <1> DEFINE d == q - q2
  <1>4. d \in Int /\ d * m = r2 - r
    <2>1. d * m = q * m - q2 * m /\ q * m \in Int /\ q2 * m \in Int
      BY <1>2
    <2> QED BY <1>2, <1>3, <2>1
  <1> HIDE DEF d
  <1>5. d = 0
    <2>1. CASE d >= 1
      <3>1. d * m = m + (d - 1) * m /\ (d - 1) * m >= 0
        BY <1>4, <2>1
      <3> QED BY <1>2, <1>4, <3>1
    <2>2. CASE d <= -1
      <3>1. d * m = -((-d) * m) /\ (-d) * m = m + ((-d) - 1) * m /\ ((-d) - 1) * m >= 0
        BY <1>4, <2>2
      <3> QED BY <1>2, <1>4, <3>1
    <2> QED BY <1>4, <2>1, <2>2
  <1>6. q2 = q /\ r2 = r
    <2>1. q2 = q
      BY <1>2, <1>5 DEF d
    <2>2. r2 - r = 0
      BY <1>4, <1>5
    <2> QED BY <1>1, <1>2, <2>1, <2>2
  <1> QED BY <1>6 DEF q2, r2

\* A bit is a power of two, the number of words is a power of two, and each greater
\* power is an even multiple of a smaller one.
LEMMA BitsAre ==
  /\ BitsInWord \in Nat \ {0}
  /\ \A k \in 0..BitsInWord : Maps!PowerOfTwo[k] \in Nat \ {0}
  /\ \A j, k \in 0..BitsInWord : j < k =>
       \E c \in Nat \ {0} : Maps!PowerOfTwo[k] = Maps!PowerOfTwo[j] * (2 * c)
  <1> DEFINE L == BitsInWord
             power == Maps!PowerOfTwo
  <1>1. L \in Nat \ {0}
    BY BitsAssumption
  <1>2. power = CHOOSE k : k = [n \in 0..L |-> IF n = 0 THEN 1 ELSE 2 * k[n - 1]]
    BY DEF Maps!PowerOfTwo
  <1> HIDE DEF L, power
  <1>3. /\ \A n \in 1..L : power[n] = 2 * power[n - 1]
        /\ \A n \in 0..L : power[n] \in Nat \ {0}
    <2>1. L \in Nat
      BY <1>1
    <2> QED BY <1>2, <2>1, DoublesAre
  <1>4. ASSUME NEW j \in 0..L, NEW k \in 0..L, j < k
        PROVE  \E c \in Nat \ {0} : power[k] = power[j] * (2 * c)
    <2> DEFINE Good == {n \in 0..L : n > j => \E c \in Nat \ {0} : power[n] = power[j] * (2 * c)}
    <2>1. j \in Good /\ j + 1 \in 0..L /\ L \in Nat
      BY <1>1, <1>4
    <2>2. ASSUME NEW n \in (j + 1)..L, n - 1 \in Good PROVE n \in Good
      <3>1. n \in 1..L /\ n \in 0..L /\ n - 1 \in 0..L /\ power[n] = 2 * power[n - 1]
        BY <1>1, <1>3
      <3>2. CASE n = j + 1
        <4>1. n - 1 = j /\ power[j] \in Nat /\ power[j] * (2 * 1) = 2 * power[j]
          BY <1>1, <1>3, <3>2
        <4> QED BY <3>1, <4>1
      <3>3. CASE n # j + 1
        <4>1. n - 1 > j
          BY <1>1, <3>1, <3>3
        <4>2. PICK c \in Nat \ {0} : power[n - 1] = power[j] * (2 * c)
          BY <2>2, <4>1
        <4> DEFINE p == power[j]
        <4>3. p \in Nat
          BY <1>3
        <4> HIDE DEF p
        <4>4. 2 * (p * (2 * c)) = p * (2 * (2 * c)) /\ 2 * c \in Nat \ {0}
          BY <4>3
        <4>5. power[n] = power[j] * (2 * (2 * c))
          BY <3>1, <4>2, <4>4 DEF p
        <4> QED BY <3>1, <4>4, <4>5
      <3> QED BY <3>2, <3>3
    <2>3. \A n \in j..L : n \in Good
      <3> HIDE DEF Good
      <3> QED BY <2>1, <2>2, UpTo
    <2>4. k \in j..L
      BY <1>1, <1>4
    <2> QED BY <1>4, <2>3, <2>4
  <1> QED BY <1>1, <1>3, <1>4 DEF L, power

\* A greater power of two does not touch the bits below it.
LEMMA LowerBits ==
  ASSUME NEW x \in Nat, NEW p \in Nat \ {0}, NEW c \in Nat
  PROVE  ((x + p * (2 * c)) \div p) % 2 = (x \div p) % 2
  <1> DEFINE q == x \div p
             r == x % p
             n == q + 2 * c
             y == x + p * (2 * c)
  <1>1. q \in Int /\ r \in 0..(p - 1) /\ x = q * p + r
    OBVIOUS
  <1> HIDE DEF q, r
  <1>2. n \in Int /\ n % 2 = q % 2
    BY <1>1
  <1>3. n * p = q * p + p * (2 * c)
    BY <1>1
  <1>4. y = n * p + r
    <2>1. p * (2 * c) \in Int /\ q * p \in Int
      BY <1>1
    <2> QED BY <1>1, <1>3, <2>1
  <1>5. y \div p = n
    <2> HIDE DEF n, y
    <2> QED BY <1>1, <1>2, <1>4, DivisionIs
  <1> HIDE DEF n, y
  <1>6. (y \div p) % 2 = q % 2
    BY Zenon, <1>2, <1>5
  <1> QED BY Zenon, <1>6 DEF y, q

\* Adding a bit that is not set has no carry.
LEMMA HigherBits ==
  ASSUME NEW x \in Nat, NEW p \in Nat \ {0}, NEW d \in Nat \ {0}, (x \div p) % 2 = 0
  PROVE  /\ ((x + p) \div p) % 2 = 1
         /\ (x + p) \div (p * (2 * d)) = x \div (p * (2 * d))
  <1> DEFINE q == x \div p
             r == x % p
             h == q \div 2
             g == h \div d
             s == h % d
             m == p * (2 * d)
             low == (2 * p) * s + r
  <1>1. q \in Int /\ r \in 0..(p - 1) /\ x = q * p + r /\ q % 2 = 0
    OBVIOUS
  <1> HIDE DEF q, r
  <1>2. h \in Int /\ q = 2 * h
    BY <1>1
  <1> HIDE DEF h
  <1>3. g \in Int /\ s \in 0..(d - 1) /\ h = g * d + s
    BY <1>2
  <1> HIDE DEF g, s
  <1>4. m \in Nat \ {0} /\ m = (2 * p) * d
    <2>1. p * (2 * d) = (2 * p) * d /\ (2 * p) * d = 2 * p + (2 * p) * (d - 1) /\ (2 * p) * (d - 1) >= 0
      OBVIOUS
    <2> QED BY <2>1
  <1>5. x = g * m + low
    <2>1. q * p = (2 * p) * h /\ (2 * p) * h = (2 * p) * (g * d) + (2 * p) * s
      BY <1>2, <1>3
    <2>2. (2 * p) * (g * d) = g * ((2 * p) * d)
      BY <1>3
    <2> DEFINE a == (2 * p) * (g * d)
               b == (2 * p) * s
    <2>3. a \in Int /\ b \in Int
      BY <1>3
    <2>4. x = a + b + r /\ a = g * m
      BY <1>1, <1>4, <2>1, <2>2
    <2>5. low = b + r
      OBVIOUS
    <2> HIDE DEF a, b, m, low
    <2> QED BY <1>1, <2>3, <2>4, <2>5
  <1>6. low \in 0..(m - 1) /\ low + p \in 0..(m - 1)
    <2>1. (2 * p) * d = (2 * p) * s + (2 * p) * (d - s) /\ (2 * p) * (d - s) = (2 * p) + (2 * p) * ((d - s) - 1)
      BY <1>3
    <2>2. (2 * p) * s >= 0 /\ (2 * p) * s \in Int /\ (2 * p) * ((d - s) - 1) >= 0 /\ (2 * p) * ((d - s) - 1) \in Int
      BY <1>3
    <2> QED BY <1>1, <1>4, <2>1, <2>2
  <1>7. x \div m = g /\ (x + p) \div m = g
    <2>1. x + p = g * m + (low + p)
      <3>1. g * m \in Int /\ low \in Int
        BY <1>3, <1>4, <1>6
      <3> HIDE DEF m, low
      <3> QED BY <1>5, <3>1
    <2> HIDE DEF m, low
    <2> QED BY <1>3, <1>4, <1>5, <1>6, <2>1, DivisionIs
  <1>8. (x + p) \div p = q + 1
    <2>1. x + p = (q + 1) * p + r
      <3>1. (q + 1) * p = q * p + p /\ q * p \in Int
        BY <1>1
      <3> QED BY <1>1, <3>1
    <2> QED BY <1>1, <2>1, DivisionIs
  <1>9. (q + 1) % 2 = 1
    BY <1>1
  <1> QED BY <1>7, <1>8, <1>9 DEF m

\* Bit k of a word.
HasBit(x, k) == (x \div Maps!PowerOfTwo[k]) % 2 = 1

\* Adding a bit to a word without it sets it, and leaves all others as they are.
LEMMA BitAdded ==
  ASSUME NEW x \in Maps!Words, NEW k \in 0..(BitsInWord - 1), ~HasBit(x, k)
  PROVE  /\ x + Maps!PowerOfTwo[k] \in Maps!Words
         /\ HasBit(x + Maps!PowerOfTwo[k], k)
         /\ \A j \in 0..(BitsInWord - 1) : j # k => (HasBit(x + Maps!PowerOfTwo[k], j) <=> HasBit(x, j))
  <1> DEFINE B == BitsInWord
             P == Maps!PowerOfTwo
             p == P[k]
  <1>1. /\ B \in Nat \ {0} /\ \A i \in 0..B : P[i] \in Nat \ {0}
        /\ \A i, j \in 0..B : i < j => \E c \in Nat \ {0} : P[j] = P[i] * (2 * c)
    BY BitsAre
  <1> HIDE DEF B, P
  <1>2. k \in 0..B /\ k < B /\ B \in 0..B /\ p \in Nat \ {0}
    BY <1>1 DEF B
  <1>3. x \in Nat /\ x < P[B]
    BY <1>1, <1>2 DEF Maps!Words, B, P
  <1>4. (x \div p) % 2 = 0
    <2>1. x \div p \in Int
      BY <1>2, <1>3
    <2> QED BY <2>1 DEF HasBit, P
  <1> HIDE DEF p
  <1>5. HasBit(x + p, k)
    BY <1>2, <1>3, <1>4, HigherBits DEF HasBit, p, P
  <1>6. x + p \in Maps!Words
    <2>1. PICK d \in Nat \ {0} : P[B] = p * (2 * d)
      BY <1>1, <1>2 DEF p
    <2>2. (x + p) \div P[B] = x \div P[B]
      <3>1. (x + p) \div (p * (2 * d)) = x \div (p * (2 * d))
        BY <1>2, <1>3, <1>4, HigherBits
      <3> QED BY Zenon, <2>1, <3>1
    <2> DEFINE n == P[B]
               y == x + p
    <2>3. n \in Nat \ {0} /\ y \in Nat /\ x < n /\ y \div n = x \div n
      BY <1>1, <1>2, <1>3, <2>2
    <2> HIDE DEF n, y
    <2>4. x \div n = 0
      BY <1>3, <2>3
    <2>5. y < n
      BY <2>3, <2>4
    <2> QED BY <2>3, <2>5 DEF n, y, Maps!Words, B, P
  <1>7. ASSUME NEW j \in 0..(B - 1), j # k PROVE HasBit(x + p, j) <=> HasBit(x, j)
    <2>1. j \in 0..B /\ P[j] \in Nat \ {0}
      BY <1>1
    <2>2. CASE j < k
      <3>1. PICK c \in Nat \ {0} : p = P[j] * (2 * c)
        BY <1>1, <1>2, <2>1, <2>2 DEF p
      <3>2. ((x + p) \div P[j]) % 2 = (x \div P[j]) % 2
        BY <1>3, <2>1, <3>1, LowerBits
      <3> QED BY <3>2 DEF HasBit, P
    <2>3. CASE j > k
      <3>1. PICK d \in Nat \ {0} : P[j] = p * (2 * d)
        BY <1>1, <1>2, <2>1, <2>3 DEF p
      <3>2. (x + p) \div P[j] = x \div P[j]
        <4>1. (x + p) \div (p * (2 * d)) = x \div (p * (2 * d))
          BY <1>2, <1>3, <1>4, HigherBits
        <4> QED BY Zenon, <3>1, <4>1
      <3> QED BY <3>2 DEF HasBit, P
    <2>4. j < k \/ j > k
      BY <1>1, <1>2, <1>7, <2>1
    <2> QED BY <2>2, <2>3, <2>4
  <1> QED BY <1>5, <1>6, <1>7 DEF p, P, B

\* Taking a bit from a word that has it clears it, and leaves all others as they are.
LEMMA BitTaken ==
  ASSUME NEW x \in Maps!Words, NEW k \in 0..(BitsInWord - 1), HasBit(x, k)
  PROVE  /\ x - Maps!PowerOfTwo[k] \in Maps!Words
         /\ ~HasBit(x - Maps!PowerOfTwo[k], k)
         /\ \A j \in 0..(BitsInWord - 1) : j # k => (HasBit(x - Maps!PowerOfTwo[k], j) <=> HasBit(x, j))
  <1> DEFINE p == Maps!PowerOfTwo[k]
             q == x \div p
             r == x % p
             y == x - p
  <1>1. /\ p \in Nat \ {0} /\ x \in Nat /\ x < Maps!PowerOfTwo[BitsInWord]
        /\ Maps!PowerOfTwo[BitsInWord] \in Nat /\ q % 2 = 1
    <2>1. k \in 0..BitsInWord /\ BitsInWord \in 0..BitsInWord
      BY BitsAre
    <2>2. p \in Nat \ {0} /\ Maps!PowerOfTwo[BitsInWord] \in Nat
      BY <2>1, BitsAre
    <2> QED BY <2>2 DEF Maps!Words, HasBit
  <1> HIDE DEF p
  <1>2. q \in Int /\ r \in 0..(p - 1) /\ x = q * p + r
    BY <1>1
  <1> HIDE DEF q, r
  <1>3. q >= 1
    <2> SUFFICES ASSUME q <= 0 PROVE FALSE
      BY <1>2
    <2>1. q # 0
      BY <1>1
    <2>2. q * p = -((-q) * p) /\ (-q) * p = p + ((-q) - 1) * p /\ ((-q) - 1) * p >= 0
      BY <1>1, <1>2, <2>1
    <2> QED BY <1>1, <1>2, <2>2
  <1>4. y = (q - 1) * p + r /\ y >= 0
    <2>1. (q - 1) * p = q * p - p /\ q * p \in Int /\ (q - 1) * p >= 0
      BY <1>1, <1>2, <1>3
    <2> QED BY <1>1, <1>2, <2>1
  <1>5. y \div p = q - 1
    <2> DEFINE n == q - 1
    <2>1. n \in Int
      BY <1>2
    <2> HIDE DEF n
    <2>2. (n * p + r) \div p = n
      BY <1>1, <1>2, <2>1, DivisionIs
    <2> HIDE DEF y
    <2> QED BY Zenon, <1>4, <2>2 DEF n
  <1>6. (q - 1) % 2 = 0
    BY <1>1, <1>2
  <1>7. y \in Maps!Words /\ x = y + p
    BY <1>1, <1>4 DEF Maps!Words
  <1>8. ~HasBit(y, k)
    BY <1>5, <1>6 DEF HasBit, p
  <1> HIDE DEF y
  <1>9. \A j \in 0..(BitsInWord - 1) : j # k => (HasBit(y + p, j) <=> HasBit(y, j))
    BY <1>7, <1>8, BitAdded DEF p
  <1> QED BY <1>7, <1>8, <1>9 DEF y, p

\* The bitmaps of n bits, whatever is in their words.
MapsOf(n) ==
  [numBits : {n}, numWords : {Maps!NumWords(n)},
   map : [0..(Maps!NumWords(n) - 1) -> Maps!Words]]

\* Each bit of the map has a place in a word of its own.
LEMMA BitHasPlace ==
  ASSUME NEW n \in Nat, NEW i \in 0..(n - 1)
  PROVE  /\ Maps!WordOf(i) \in 0..(Maps!NumWords(n) - 1) /\ i % BitsInWord \in 0..(BitsInWord - 1)
         /\ i = Maps!WordOf(i) * BitsInWord + (i % BitsInWord)
  <1> DEFINE B == BitsInWord
             q == i \div B
             r == i % B
             all == n + (B - 1)
             w == all \div B
             left == all % B
  <1>1. B \in Nat \ {0} /\ q = Maps!WordOf(i) /\ w = Maps!NumWords(n)
    BY BitsAssumption DEF Maps!WordOf, Maps!NumWords
  <1> HIDE DEF B
  <1>2. q \in Int /\ r \in 0..(B - 1) /\ i = q * B + r /\ all \in Nat
    BY <1>1
  <1>3. w \in Int /\ left \in 0..(B - 1) /\ all = w * B + left
    <2> HIDE DEF all
    <2> QED BY <1>1, <1>2
  <1> HIDE DEF q, r, w, left
  <1>4. q >= 0
    <2> SUFFICES ASSUME q <= -1 PROVE FALSE
      BY <1>2
    <2>1. q * B = -((-q) * B) /\ (-q) * B = B + ((-q) - 1) * B /\ ((-q) - 1) * B >= 0
      BY <1>1, <1>2
    <2> QED BY <1>1, <1>2, <2>1
  <1>5. w > q
    <2> SUFFICES ASSUME w <= q PROVE FALSE
      BY <1>2, <1>3
    <2>1. q * B = w * B + (q - w) * B /\ (q - w) * B >= 0 /\ w * B \in Int
      BY <1>1, <1>2, <1>3
    <2> QED BY <1>1, <1>2, <1>3, <2>1
  <1>6. q \in 0..(w - 1)
    BY <1>2, <1>3, <1>4, <1>5
  <1>7. i % B = r /\ B = BitsInWord
    BY DEF r, B
  <1> HIDE DEF all
  <1> QED BY Zenon, <1>1, <1>2, <1>6, <1>7

\* A bit is tested in its word.
LEMMA TestIs ==
  ASSUME NEW m, NEW i
  PROVE  Maps!Test(m, i) <=> HasBit(m.map[Maps!WordOf(i)], i % BitsInWord)
  BY DEF Maps!Test, Maps!Bit, HasBit

\* A bitmap in which one word has changed by one bit.
LEMMA WordChanged ==
  ASSUME NEW n \in Nat, NEW m \in MapsOf(n), NEW i \in 0..(n - 1), NEW y \in Maps!Words, NEW o,
         o = [m EXCEPT !.map[Maps!WordOf(i)] = y],
         \A j \in 0..(BitsInWord - 1) :
           j # (i % BitsInWord) => (HasBit(y, j) <=> HasBit(m.map[Maps!WordOf(i)], j))
  PROVE  /\ o \in MapsOf(n)
         /\ Maps!Test(o, i) <=> HasBit(y, i % BitsInWord)
         /\ \A j \in 0..(n - 1) : j # i => (Maps!Test(o, j) <=> Maps!Test(m, j))
  <1> DEFINE w == Maps!WordOf(i)
             k == i % BitsInWord
             N == Maps!NumWords(n)
             W0 == Maps!Words
  <1>1. w \in 0..(N - 1) /\ k \in 0..(BitsInWord - 1) /\ i = w * BitsInWord + k
    BY BitHasPlace
  <1>2. m = [numBits |-> n, numWords |-> N, map |-> m.map] /\ m.map \in [0..(N - 1) -> W0]
    BY DEF MapsOf
  <1> HIDE DEF w, k, N, W0
  <1>3. o.map = [m.map EXCEPT ![w] = y] /\ o.numBits = n /\ o.numWords = N
        /\ o = [numBits |-> o.numBits, numWords |-> o.numWords, map |-> o.map]
    BY <1>2 DEF w
  <1>4. o.map \in [0..(N - 1) -> W0] /\ o.map[w] = y
        /\ \A v \in 0..(N - 1) : v # w => o.map[v] = m.map[v]
    <2>1. y \in W0
      BY DEF W0
    <2>2. w \in 0..(N - 1)
      BY <1>1
    <2> DEFINE f == m.map
               g == o.map
    <2>3. f \in [0..(N - 1) -> W0] /\ g = [f EXCEPT ![w] = y]
      BY <1>2, <1>3
    <2> HIDE DEF f, g
    <2>4. g \in [0..(N - 1) -> W0] /\ g[w] = y /\ \A v \in 0..(N - 1) : v # w => g[v] = f[v]
      BY <2>1, <2>2, <2>3
    <2> QED BY <2>4 DEF f, g
  <1>5. o \in MapsOf(n)
    BY <1>3, <1>4 DEF MapsOf, N, W0
  <1>6. Maps!Test(o, i) <=> HasBit(y, k)
    BY <1>4, TestIs DEF w, k
  <1>7. ASSUME NEW j \in 0..(n - 1), j # i PROVE Maps!Test(o, j) <=> Maps!Test(m, j)
    <2> DEFINE v == Maps!WordOf(j)
               l == j % BitsInWord
    <2>1. v \in 0..(N - 1) /\ l \in 0..(BitsInWord - 1) /\ j = v * BitsInWord + l
      BY BitHasPlace DEF N
    <2>2. /\ Maps!Test(o, j) <=> HasBit(o.map[v], l)
          /\ Maps!Test(m, j) <=> HasBit(m.map[v], l)
      BY TestIs
    <2> HIDE DEF v, l
    <2>3. CASE v # w
      <3>1. o.map[v] = m.map[v]
        BY <1>4, <2>1, <2>3
      <3> QED BY Zenon, <2>2, <3>1
    <2>4. CASE v = w
      <3>1. l # k
        BY <1>1, <1>7, <2>1, <2>4
      <3>2. HasBit(y, l) <=> HasBit(m.map[w], l)
        BY <2>1, <3>1 DEF w, k
      <3> QED BY Zenon, <1>4, <2>2, <2>4, <3>2
    <2> QED BY <2>3, <2>4
  <1> QED BY <1>5, <1>6, <1>7 DEF k

\* Mark and Clear are those of the set.
LEMMA MarkIs ==
  ASSUME NEW n \in Nat, NEW m \in MapsOf(n), NEW i \in 0..(n - 1)
  PROVE  /\ Maps!Mark(m, i) \in MapsOf(n)
         /\ Maps!Listed(Maps!Mark(m, i)) = Maps!Listed(m) \cup {i}
  <1> DEFINE w == Maps!WordOf(i)
             k == i % BitsInWord
             x == m.map[w]
             y == x + Maps!PowerOfTwo[k]
             o == Maps!Mark(m, i)
  <1>1. w \in 0..(Maps!NumWords(n) - 1) /\ k \in 0..(BitsInWord - 1)
    BY BitHasPlace
  <1>2. m.numBits = n /\ x \in Maps!Words
    BY <1>1 DEF MapsOf
  <1>3. CASE Maps!Test(m, i)
    <2>1. o = m
      BY <1>3 DEF Maps!Mark
    <2> QED BY <1>2, <1>3, <2>1 DEF Maps!Listed
  <1>4. CASE ~Maps!Test(m, i)
    <2>1. ~HasBit(x, k)
      BY <1>4, TestIs
    <2>2. /\ y \in Maps!Words /\ HasBit(y, k)
          /\ \A j \in 0..(BitsInWord - 1) : j # k => (HasBit(y, j) <=> HasBit(x, j))
      <3> HIDE DEF x, k
      <3> QED BY <1>1, <1>2, <2>1, BitAdded
    <2>3. o = [m EXCEPT !.map[w] = y]
      BY <1>4 DEF Maps!Mark, Maps!Bit
    <2> HIDE DEF y, o
    <2>4. /\ o \in MapsOf(n) /\ (Maps!Test(o, i) <=> HasBit(y, k))
          /\ \A j \in 0..(n - 1) : j # i => (Maps!Test(o, j) <=> Maps!Test(m, j))
      BY <2>2, <2>3, WordChanged
    <2>5. o.numBits = n
      BY <2>4 DEF MapsOf
    <2>6. Maps!Listed(o) = Maps!Listed(m) \cup {i}
      BY <1>2, <2>2, <2>4, <2>5 DEF Maps!Listed
    <2> QED BY <2>4, <2>6 DEF o
  <1> QED BY <1>3, <1>4

LEMMA ClearIs ==
  ASSUME NEW n \in Nat, NEW m \in MapsOf(n), NEW i \in 0..(n - 1)
  PROVE  /\ Maps!Clear(m, i) \in MapsOf(n)
         /\ Maps!Listed(Maps!Clear(m, i)) = Maps!Listed(m) \ {i}
  <1> DEFINE w == Maps!WordOf(i)
             k == i % BitsInWord
             x == m.map[w]
             y == x - Maps!PowerOfTwo[k]
             o == Maps!Clear(m, i)
  <1>1. w \in 0..(Maps!NumWords(n) - 1) /\ k \in 0..(BitsInWord - 1)
    BY BitHasPlace
  <1>2. m.numBits = n /\ x \in Maps!Words
    BY <1>1 DEF MapsOf
  <1>3. CASE ~Maps!Test(m, i)
    <2>1. o = m
      BY <1>3 DEF Maps!Clear
    <2> QED BY <1>2, <1>3, <2>1 DEF Maps!Listed
  <1>4. CASE Maps!Test(m, i)
    <2>1. HasBit(x, k)
      BY <1>4, TestIs
    <2>2. /\ y \in Maps!Words /\ ~HasBit(y, k)
          /\ \A j \in 0..(BitsInWord - 1) : j # k => (HasBit(y, j) <=> HasBit(x, j))
      <3> HIDE DEF x, k
      <3> QED BY <1>1, <1>2, <2>1, BitTaken
    <2>3. o = [m EXCEPT !.map[w] = y]
      BY <1>4 DEF Maps!Clear, Maps!Bit
    <2> HIDE DEF y, o
    <2>4. /\ o \in MapsOf(n) /\ (Maps!Test(o, i) <=> HasBit(y, k))
          /\ \A j \in 0..(n - 1) : j # i => (Maps!Test(o, j) <=> Maps!Test(m, j))
      BY <2>2, <2>3, WordChanged
    <2>5. o.numBits = n
      BY <2>4 DEF MapsOf
    <2>6. Maps!Listed(o) = Maps!Listed(m) \ {i}
      BY <1>2, <2>2, <2>4, <2>5 DEF Maps!Listed
    <2> QED BY <2>4, <2>6 DEF o
  <1> QED BY <1>3, <1>4

\* A new bitmap is empty, whatever was in its words.
LEMMA NewMapIs ==
  ASSUME NEW n \in Nat, NEW junk \in [0..(Maps!NumWords(n) - 1) -> Maps!Words]
  PROVE  /\ Maps!NewBitMap(n, junk) \in MapsOf(n)
         /\ Maps!Listed(Maps!NewBitMap(n, junk)) = {}
  <1> DEFINE raw == [numBits |-> n, numWords |-> Maps!NumWords(n), map |-> junk]
             S == MapsOf(n)
             Rule(k) == [i \in 0..n |-> IF i = 0 THEN raw ELSE Maps!Clear(k[i - 1], i - 1)]
             cleared == CHOOSE k : k = Rule(k)
             step == [i \in 1..n |-> [m \in S |-> Maps!Clear(m, i - 1)]]
  <1>1. Maps!NewBitMap(n, junk) = cleared[n]
    BY DEF Maps!NewBitMap
  <1>2. raw \in S
    BY DEF MapsOf
  <1>3. \A m \in S, i \in 1..n :
          /\ Maps!Clear(m, i - 1) \in S
          /\ Maps!Listed(Maps!Clear(m, i - 1)) = Maps!Listed(m) \ {i - 1}
    <2> SUFFICES ASSUME NEW m \in S, NEW i \in 1..n
                 PROVE  /\ Maps!Clear(m, i - 1) \in S
                        /\ Maps!Listed(Maps!Clear(m, i - 1)) = Maps!Listed(m) \ {i - 1}
      OBVIOUS
    <2>1. i - 1 \in 0..(n - 1)
      OBVIOUS
    <2> QED BY <2>1, ClearIs
  <1>4. \A m \in S : Maps!Listed(m) \subseteq 0..(n - 1)
    BY DEF MapsOf, Maps!Listed
  <1> HIDE DEF raw, S
  <1>5. step \in StepsOf(S, n)
    BY <1>3 DEF StepsOf
  <1>6. PICK f : IsSeries(f, S, n, raw, step)
    <2> HIDE DEF step
    <2> QED BY <1>2, <1>5, RecursiveExists
  <1>7. f \in [0..n -> S] /\ f[0] = raw /\ \A i \in 1..n : f[i] = Maps!Clear(f[i - 1], i - 1)
    <2>1. f \in [0..n -> S] /\ f[0] = raw /\ \A i \in 1..n : f[i] = step[i][f[i - 1]]
      BY <1>6 DEF IsSeries
    <2>2. \A i \in 1..n : i - 1 \in 0..n /\ f[i - 1] \in S
      BY <2>1
    <2> QED BY <2>1, <2>2
  <1> HIDE DEF step
  <1>8. f = Rule(f)
    <2>1. ASSUME NEW i \in 0..n PROVE f[i] = Rule(f)[i]
      <3>1. CASE i = 0
        BY <1>7, <3>1
      <3>2. CASE i # 0
        <4>1. i \in 1..n
          BY <3>2
        <4> QED BY <1>7, <3>2, <4>1
      <3> QED BY <3>1, <3>2
    <2> QED BY <1>7, <2>1
  <1>9. cleared = Rule(cleared)
    <2> HIDE DEF Rule
    <2> QED BY <1>8
  <1> HIDE DEF cleared
  <1>10. \A i \in 0..n : cleared[i] = IF i = 0 THEN raw ELSE Maps!Clear(cleared[i - 1], i - 1)
    BY <1>9
  <1> DEFINE Good == {i \in 0..n : cleared[i] \in S /\ Maps!Listed(cleared[i]) \subseteq i..(n - 1)}
  <1>11. 0 \in Good /\ 0 \in 0..n
    BY <1>2, <1>4, <1>10
  <1>12. ASSUME NEW i \in (0 + 1)..n, i - 1 \in Good PROVE i \in Good
    <2>1. i \in 1..n /\ i \in 0..n /\ i # 0
      OBVIOUS
    <2>2. cleared[i] = Maps!Clear(cleared[i - 1], i - 1)
      BY <1>10, <2>1
    <2>3. cleared[i - 1] \in S /\ Maps!Listed(cleared[i - 1]) \subseteq (i - 1)..(n - 1)
      BY <1>12
    <2>4. cleared[i] \in S /\ Maps!Listed(cleared[i]) = Maps!Listed(cleared[i - 1]) \ {i - 1}
      BY <1>3, <2>1, <2>2, <2>3
    <2>5. Maps!Listed(cleared[i]) \subseteq i..(n - 1)
      BY <2>1, <2>3, <2>4
    <2> QED BY <2>1, <2>4, <2>5
  <1>13. \A i \in 0..n : i \in Good
    <2> HIDE DEF Good
    <2> QED BY <1>11, <1>12, UpTo
  <1>14. n \in Good
    BY <1>13
  <1>15. cleared[n] \in S /\ Maps!Listed(cleared[n]) = {}
    BY <1>14
  <1> QED BY <1>1, <1>15 DEF S

\* A set of integers from a on has a least one.
LEMMA LeastIs ==
  ASSUME NEW a \in Int, NEW b \in Int, NEW S \in SUBSET (a..b), S # {}
  PROVE  (CHOOSE i \in S : \A j \in S : i <= j) \in S
  <1> DEFINE T == {i - a : i \in S}
  <1>1. T \in SUBSET Nat /\ T # {}
    <2>1. \A i \in S : i - a \in Nat
      OBVIOUS
    <2>2. PICK i \in S : TRUE
      OBVIOUS
    <2>3. i - a \in T
      OBVIOUS
    <2> QED BY <2>1, <2>3
  <1>2. PICK t \in T : \A u \in T : t <= u
    <2> HIDE DEF T
    <2> QED BY <1>1, LeastNatural
  <1>3. PICK i \in S : t = i - a
    OBVIOUS
  <1>4. \A j \in S : i <= j
    <2> SUFFICES ASSUME NEW j \in S PROVE i <= j
      OBVIOUS
    <2>1. j - a \in T /\ j \in Int /\ i \in Int
      OBVIOUS
    <2>2. i - a <= j - a
      BY <1>2, <1>3, <2>1
    <2> QED BY <2>1, <2>2
  <1>5. \E k \in S : \A j \in S : k <= j
    BY Zenon, <1>3, <1>4
  <1> QED BY Zenon, <1>5

\* Calls on a bitmap, with any argument.
MapCalls == {"find", "findin", "reload", "mark", "clear"} \X (Int \X Int)

SetResults(n) == [result : Int, s : SUBSET (0..(n - 1))]
MapResults(n) == [result : Int, m : MapsOf(n)]

\* Find marks the least bit that is free.
LEMMA FindIs ==
  ASSUME NEW n \in Nat, NEW m \in MapsOf(n), NEW a \in Int, NEW b \in Int, NEW free, NEW least,
         free = (a..b) \ Maps!Listed(m), least = CHOOSE i \in free : \A j \in free : i <= j
  PROVE  Maps!FindFrom(m, a, b) =
           IF free = {} THEN [result |-> -1, m |-> m]
           ELSE IF least \notin 0..(n - 1) THEN [result |-> -2, m |-> m]
           ELSE [result |-> least, m |-> Maps!Mark(m, least)]
  <1> DEFINE stops == {i \in a..b : Maps!InRange(m, i) => ~Maps!Test(m, i)}
             first == CHOOSE i \in stops : \A j \in stops : i <= j
  <1>1. m.numBits = n
    BY DEF MapsOf
  <1>2. stops = free
    BY <1>1 DEF Maps!InRange, Maps!Listed
  <1>3. first = least
    BY <1>2
  <1>4. Maps!FindFrom(m, a, b) =
          IF stops = {} THEN [result |-> -1, m |-> m]
          ELSE IF ~Maps!InRange(m, first) THEN [result |-> -2, m |-> m]
          ELSE [result |-> first, m |-> Maps!Mark(m, first)]
    BY DEF Maps!FindFrom
  <1> HIDE DEF stops, first
  <1>5. CASE free = {}
    BY <1>2, <1>4, <1>5
  <1>6. CASE free # {}
    <2>1. free \in SUBSET (a..b)
      OBVIOUS
    <2>2. least \in Int
      <3>1. (CHOOSE i \in free : \A j \in free : i <= j) \in free
        BY Zenon, <1>6, <2>1, LeastIs
      <3>2. least \in free
        BY Zenon, <3>1
      <3> QED BY <2>1, <3>2
    <2>3. Maps!InRange(m, least) <=> least \in 0..(n - 1)
      BY <1>1, <2>2 DEF Maps!InRange
    <2> QED BY Zenon, <1>2, <1>3, <1>4, <1>6, <2>3
  <1> QED BY <1>5, <1>6

\* What a call does to a bitmap it does to the set.
LEMMA MapCallIs ==
  ASSUME NEW n \in Nat, NEW m \in MapsOf(n), NEW call \in MapCalls
  PROVE  /\ Maps!OnBitMap(m, call) \in MapResults(n)
         /\ Maps!OnSet(Maps!Listed(m), n, call) \in SetResults(n)
         /\ Maps!OnBitMap(m, call).result = Maps!OnSet(Maps!Listed(m), n, call).result
         /\ Maps!Listed(Maps!OnBitMap(m, call).m) = Maps!OnSet(Maps!Listed(m), n, call).s
  <1> DEFINE s == Maps!Listed(m)
             a == call[2][1]
             b == call[2][2]
             free == (IF call[1] = "find" THEN 0..(n - 1) ELSE a..b) \ s
             least == CHOOSE i \in free : \A j \in free : i <= j
             o == Maps!OnBitMap(m, call)
             t == Maps!OnSet(s, n, call)
  <1>1. a \in Int /\ b \in Int /\ call[1] \in {"find", "findin", "reload", "mark", "clear"}
    BY DEF MapCalls
  <1>2. /\ m.numBits = n /\ m.numWords = Maps!NumWords(n)
        /\ m.map \in [0..(Maps!NumWords(n) - 1) -> Maps!Words]
        /\ m = [numBits |-> n, numWords |-> m.numWords, map |-> m.map]
    BY DEF MapsOf
  <1>3. s \subseteq 0..(n - 1)
    BY <1>2 DEF Maps!Listed
  <1>4. Maps!InRange(m, a) <=> a \in 0..(n - 1)
    BY <1>1, <1>2 DEF Maps!InRange
  <1>5. ASSUME NEW r \in Int, NEW p \in MapsOf(n), o = [result |-> r, m |-> p],
               t = [result |-> r, s |-> Maps!Listed(p)]
        PROVE  /\ o \in MapResults(n) /\ t \in SetResults(n)
               /\ o.result = t.result /\ Maps!Listed(o.m) = t.s
    <2>1. Maps!Listed(p) \subseteq 0..(n - 1)
      BY DEF MapsOf, Maps!Listed
    <2> HIDE DEF o, t
    <2> QED BY <1>5, <2>1 DEF MapResults, SetResults
  <1>6. CASE call[1] = "mark"
    <2>1. CASE a \in 0..(n - 1)
      <3>1. o = [result |-> 0, m |-> Maps!Mark(m, a)] /\ t = [result |-> 0, s |-> s \cup {a}]
        BY <1>4, <1>6, <2>1 DEF Maps!OnBitMap, Maps!OnSet
      <3>2. Maps!Mark(m, a) \in MapsOf(n) /\ Maps!Listed(Maps!Mark(m, a)) = s \cup {a}
        BY <2>1, MarkIs
      <3> HIDE DEF o, t, a, s
      <3> QED BY <1>5, <3>1, <3>2 DEF o, t, s
    <2>2. CASE a \notin 0..(n - 1)
      <3>1. o = [result |-> -2, m |-> m] /\ t = [result |-> -2, s |-> s]
        BY <1>4, <1>6, <2>2 DEF Maps!OnBitMap, Maps!OnSet
      <3> HIDE DEF o, t, a
      <3> QED BY <1>5, <3>1 DEF o, t
    <2> QED BY <2>1, <2>2
  <1>7. CASE call[1] = "clear"
    <2>1. CASE a \in 0..(n - 1)
      <3>1. o = [result |-> 0, m |-> Maps!Clear(m, a)] /\ t = [result |-> 0, s |-> s \ {a}]
        BY <1>4, <1>7, <2>1 DEF Maps!OnBitMap, Maps!OnSet
      <3>2. Maps!Clear(m, a) \in MapsOf(n) /\ Maps!Listed(Maps!Clear(m, a)) = s \ {a}
        BY <2>1, ClearIs
      <3> HIDE DEF o, t, a, s
      <3> QED BY <1>5, <3>1, <3>2 DEF o, t, s
    <2>2. CASE a \notin 0..(n - 1)
      <3>1. o = [result |-> -2, m |-> m] /\ t = [result |-> -2, s |-> s]
        BY <1>4, <1>7, <2>2 DEF Maps!OnBitMap, Maps!OnSet
      <3> HIDE DEF o, t, a
      <3> QED BY <1>5, <3>1 DEF o, t
    <2> QED BY <2>1, <2>2
  <1>8. CASE call[1] = "reload"
    <2> DEFINE new == Maps!NewBitMap(m.numBits, m.map)
               file == Maps!WriteBack(m)
               back == Maps!FetchFrom(new, file)
    <2>1. o = [result |-> 0, m |-> back] /\ t = [result |-> 0, s |-> s]
      BY <1>8 DEF Maps!OnBitMap, Maps!OnSet
    <2>2. new \in MapsOf(n)
      BY <1>2, NewMapIs
    <2>3. file = m.map
      BY <1>2 DEF Maps!WriteBack
    <2> HIDE DEF new, file
    <2>4. back = m
      <3>1. new = [numBits |-> n, numWords |-> m.numWords, map |-> new.map]
        BY <1>2, <2>2 DEF MapsOf
      <3> QED BY <1>2, <2>3, <3>1 DEF Maps!FetchFrom
    <2> HIDE DEF o, t, back
    <2> QED BY <1>5, <2>1, <2>4 DEF o, t
  <1>9. CASE call[1] \in {"find", "findin"}
    <2> DEFINE from == IF call[1] = "find" THEN 0 ELSE a
               to == IF call[1] = "find" THEN n - 1 ELSE b
    <2>1. o = Maps!FindFrom(m, from, to) /\ from \in Int /\ to \in Int
      BY <1>1, <1>2, <1>9 DEF Maps!OnBitMap, Maps!Find
    <2>2. t = IF free = {} THEN [result |-> -1, s |-> s]
              ELSE IF least \notin 0..(n - 1) THEN [result |-> -2, s |-> s]
              ELSE [result |-> least, s |-> s \cup {least}]
      BY <1>9 DEF Maps!OnSet
    <2>3. free = (from..to) \ s
      OBVIOUS
    <2> HIDE DEF from, to
    <2>4. o = IF free = {} THEN [result |-> -1, m |-> m]
              ELSE IF least \notin 0..(n - 1) THEN [result |-> -2, m |-> m]
              ELSE [result |-> least, m |-> Maps!Mark(m, least)]
      <3> DEFINE f == free
                 l == least
      <3>1. f = (from..to) \ Maps!Listed(m) /\ l = CHOOSE i \in f : \A j \in f : i <= j
        BY <2>3
      <3> HIDE DEF f, l
      <3>2. Maps!FindFrom(m, from, to) =
              IF f = {} THEN [result |-> -1, m |-> m]
              ELSE IF l \notin 0..(n - 1) THEN [result |-> -2, m |-> m]
              ELSE [result |-> l, m |-> Maps!Mark(m, l)]
        <4>1. from \in Int /\ to \in Int
          BY <2>1
        <4> QED BY <4>1, <3>1, FindIs
      <3> QED BY Zenon, <2>1, <3>2 DEF f, l
    <2> HIDE DEF o, t, free, least
    <2>5. CASE free = {}
      BY <1>5, <2>2, <2>4, <2>5 DEF o, t
    <2>6. CASE free # {} /\ least \notin 0..(n - 1)
      BY <1>5, <2>2, <2>4, <2>6 DEF o, t
    <2>7. CASE free # {} /\ least \in 0..(n - 1)
      <3>1. Maps!Mark(m, least) \in MapsOf(n) /\ Maps!Listed(Maps!Mark(m, least)) = s \cup {least}
        BY <2>7, MarkIs
      <3>2. least \in Int
        BY <2>7
      <3> HIDE DEF s
      <3> QED BY <1>5, <2>2, <2>4, <2>7, <3>1, <3>2 DEF o, t, s
    <2> QED BY <2>5, <2>6, <2>7
  <1> QED BY <1>1, <1>6, <1>7, <1>8, <1>9

\* The counts of a bitmap.
LEMMA CountIs ==
  ASSUME NEW n \in Nat, NEW m \in MapsOf(n)
  PROVE  Maps!NumClear(m) = n - Maps!Cardinality(Maps!Listed(m))
  <1> DEFINE all == 0..(n - 1)
             s == Maps!Listed(m)
             clear == {i \in all : ~Maps!Test(m, i)}
  <1>1. m.numBits = n
    BY DEF MapsOf
  <1>2. Maps!NumClear(m) = Cardinality(clear) /\ Maps!Cardinality(s) = Cardinality(s)
    BY <1>1 DEF Maps!NumClear, Maps!Cardinality, Cardinality
  <1>3. s \subseteq all /\ clear = all \ s /\ all \cap s = s
    BY <1>1 DEF Maps!Listed
  <1>4. IsFiniteSet(all) /\ Cardinality(all) = n
    <2>1. 0 \in Int /\ n - 1 \in Int
      OBVIOUS
    <2> QED BY <2>1, FS_Interval
  <1> HIDE DEF s, clear, all
  <1>5. IsFiniteSet(s)
    BY <1>3, <1>4, FS_Subset
  <1>6. Cardinality(s) \in Nat /\ Cardinality(clear) = n - Cardinality(s)
    BY <1>3, <1>4, <1>5, FS_Difference, FS_CardinalityType
  <1> QED BY <1>2, <1>6 DEF s

\* Whatever the words of the host held, and whatever is called in whatever order, a
\* bitmap is the set that the other modules take it for, on words of any size:
\* Find gives the least free bit, the counts agree, what is written to a file comes
\* back, and only a bit that the map does not have fails (userprog/bitmap.cc).
THEOREM BitMapsAreSets ==
  \A n \in Nat : \A junk \in [0..(Maps!NumWords(n) - 1) -> Maps!Words], calls \in Seq(MapCalls) :
    Maps!IsSet(n, junk, calls)
  <1> SUFFICES ASSUME NEW n \in Nat, NEW junk \in [0..(Maps!NumWords(n) - 1) -> Maps!Words],
                      NEW calls \in Seq(MapCalls)
               PROVE  Maps!IsSet(n, junk, calls)
    OBVIOUS
  <1> DEFINE L == Len(calls)
             M == MapResults(n)
             T == SetResults(n)
             m0 == [result |-> 0, m |-> Maps!NewBitMap(n, junk)]
             s0 == [result |-> 0, s |-> {}]
             MapRule(k) == [i \in 0..L |-> IF i = 0 THEN m0 ELSE Maps!OnBitMap(k[i - 1].m, calls[i])]
             SetRule(k) == [i \in 0..L |-> IF i = 0 THEN s0 ELSE Maps!OnSet(k[i - 1].s, n, calls[i])]
             bits == CHOOSE k : k = MapRule(k)
             set == CHOOSE k : k = SetRule(k)
             mapStep == [i \in 1..L |-> [r \in M |-> Maps!OnBitMap(r.m, calls[i])]]
  <1>1. Maps!IsSet(n, junk, calls) <=>
          \A i \in 0..L :
            /\ bits[i].result = set[i].result
            /\ Maps!Listed(bits[i].m) = set[i].s
            /\ Maps!NumClear(bits[i].m) = n - Maps!Cardinality(set[i].s)
    BY DEF Maps!IsSet
  <1>2. L \in Nat /\ \A i \in 1..L : calls[i] \in MapCalls
    OBVIOUS
  <1>3. m0 \in M /\ s0 = [result |-> m0.result, s |-> Maps!Listed(m0.m)]
    <2> DEFINE new == Maps!NewBitMap(n, junk)
    <2>1. new \in MapsOf(n) /\ Maps!Listed(new) = {}
      BY NewMapIs
    <2> HIDE DEF new
    <2>2. m0 = [result |-> 0, m |-> new]
      BY DEF new
    <2> HIDE DEF m0
    <2>3. m0.result = 0 /\ m0.m = new
      BY <2>2
    <2>4. m0 \in M
      BY <2>1, <2>2 DEF MapResults
    <2>5. Maps!Listed(m0.m) = {}
      BY <2>1, <2>3
    <2> HIDE DEF M
    <2> QED BY <2>3, <2>4, <2>5
  <1>4. ASSUME NEW i \in 1..L, NEW r \in M
        PROVE  /\ Maps!OnBitMap(r.m, calls[i]) \in M
               /\ Maps!OnSet(Maps!Listed(r.m), n, calls[i]) =
                    [result |-> Maps!OnBitMap(r.m, calls[i]).result,
                     s |-> Maps!Listed(Maps!OnBitMap(r.m, calls[i]).m)]
    <2>1. r.m \in MapsOf(n) /\ calls[i] \in MapCalls
      BY <1>2 DEF MapResults
    <2> DEFINE o == Maps!OnBitMap(r.m, calls[i])
               t == Maps!OnSet(Maps!Listed(r.m), n, calls[i])
    <2>2. o \in M /\ t \in T /\ o.result = t.result /\ Maps!Listed(o.m) = t.s
      BY <2>1, MapCallIs
    <2> HIDE DEF o, t
    <2>3. t = [result |-> o.result, s |-> Maps!Listed(o.m)]
      BY <2>2 DEF SetResults
    <2> QED BY <2>2, <2>3 DEF o, t
  <1> HIDE DEF L, M, T, m0, s0, bits, set
  <1>5. mapStep \in StepsOf(M, L)
    BY <1>4 DEF StepsOf
  <1>6. PICK f : IsSeries(f, M, L, m0, mapStep)
    <2> HIDE DEF mapStep
    <2> QED BY <1>2, <1>3, <1>5, RecursiveExists
  <1>7. f \in [0..L -> M] /\ f[0] = m0 /\ \A i \in 1..L : f[i] = Maps!OnBitMap(f[i - 1].m, calls[i])
    <2>1. f \in [0..L -> M] /\ f[0] = m0 /\ \A i \in 1..L : f[i] = mapStep[i][f[i - 1]]
      BY <1>6 DEF IsSeries
    <2>2. \A i \in 1..L : i - 1 \in 0..L /\ f[i - 1] \in M
      BY <1>2, <2>1
    <2> QED BY <2>1, <2>2
  <1> HIDE DEF mapStep
  <1> DEFINE g == [i \in 0..L |-> [result |-> f[i].result, s |-> Maps!Listed(f[i].m)]]
  <1>8. f = MapRule(f) /\ g = SetRule(g)
    <2>1. ASSUME NEW i \in 0..L PROVE f[i] = MapRule(f)[i] /\ g[i] = SetRule(g)[i]
      <3>1. CASE i = 0
        BY <1>3, <1>7, <3>1
      <3>2. CASE i # 0
        <4>1. i \in 1..L /\ i - 1 \in 0..L
          BY <1>2, <3>2
        <4>2. f[i - 1] \in M /\ f[i] = Maps!OnBitMap(f[i - 1].m, calls[i])
          BY <1>7, <4>1
        <4>3. g[i - 1].s = Maps!Listed(f[i - 1].m)
          BY <4>1
        <4>4. Maps!OnSet(g[i - 1].s, n, calls[i]) = [result |-> f[i].result, s |-> Maps!Listed(f[i].m)]
          <5> DEFINE r == f[i - 1]
          <5>1. r \in M /\ f[i] = Maps!OnBitMap(r.m, calls[i]) /\ g[i - 1].s = Maps!Listed(r.m)
            BY <4>2, <4>3
          <5> HIDE DEF r, g
          <5> QED BY <1>4, <4>1, <5>1
        <4>5. f[i] = MapRule(f)[i]
          BY <3>2, <4>2
        <4>6. SetRule(g)[i] = Maps!OnSet(g[i - 1].s, n, calls[i])
          <5> HIDE DEF g
          <5> QED BY <3>2
        <4> QED BY <4>4, <4>5, <4>6
      <3> QED BY <3>1, <3>2
    <2> HIDE DEF MapRule
    <2>2. f = [i \in 0..L |-> f[i]] /\ MapRule(f) = [i \in 0..L |-> MapRule(f)[i]]
      BY <1>7 DEF MapRule
    <2> HIDE DEF SetRule
    <2>3. SetRule(g) = [i \in 0..L |-> SetRule(g)[i]]
      <3> HIDE DEF g
      <3> QED BY DEF SetRule
    <2>4. g = [i \in 0..L |-> g[i]]
      OBVIOUS
    <2> HIDE DEF g
    <2> QED BY <2>1, <2>2, <2>3, <2>4
  <1> HIDE DEF g
  <1>9. bits = MapRule(bits) /\ set = SetRule(set)
    <2> HIDE DEF MapRule, SetRule
    <2> QED BY <1>8 DEF bits, set
  <1>10. \A i \in 0..L :
           /\ bits[i] = IF i = 0 THEN m0 ELSE Maps!OnBitMap(bits[i - 1].m, calls[i])
           /\ set[i] = IF i = 0 THEN s0 ELSE Maps!OnSet(set[i - 1].s, n, calls[i])
    BY <1>9
  <1> DEFINE Good == {i \in 0..L : /\ bits[i] \in M
                                   /\ set[i] = [result |-> bits[i].result, s |-> Maps!Listed(bits[i].m)]}
  <1>11. 0 \in Good /\ 0 \in 0..L
    BY <1>2, <1>3, <1>10
  <1>12. ASSUME NEW i \in (0 + 1)..L, i - 1 \in Good PROVE i \in Good
    <2>1. i \in 1..L /\ i \in 0..L /\ i # 0
      BY <1>2
    <2> DEFINE r == bits[i - 1]
               u == set[i - 1]
    <2>2. r \in M /\ u = [result |-> r.result, s |-> Maps!Listed(r.m)]
      BY <1>12
    <2>3. bits[i] = Maps!OnBitMap(r.m, calls[i]) /\ set[i] = Maps!OnSet(u.s, n, calls[i])
      BY <1>10, <2>1
    <2> HIDE DEF r, u
    <2>4. u.s = Maps!Listed(r.m)
      BY <2>2
    <2>5. bits[i] \in M /\ set[i] = [result |-> bits[i].result, s |-> Maps!Listed(bits[i].m)]
      BY <1>4, <2>1, <2>2, <2>3, <2>4
    <2> QED BY <2>1, <2>5
  <1>13. \A i \in 0..L : i \in Good
    <2> HIDE DEF Good
    <2> QED BY <1>2, <1>11, <1>12, UpTo
  <1>14. ASSUME NEW i \in 0..L
         PROVE  /\ bits[i].result = set[i].result
                /\ Maps!Listed(bits[i].m) = set[i].s
                /\ Maps!NumClear(bits[i].m) = n - Maps!Cardinality(set[i].s)
    <2> DEFINE m == bits[i].m
    <2>1. bits[i] \in M /\ set[i] = [result |-> bits[i].result, s |-> Maps!Listed(m)]
      BY <1>13
    <2>2. m \in MapsOf(n)
      BY <2>1 DEF M, MapResults
    <2>3. set[i].s = Maps!Listed(m) /\ set[i].result = bits[i].result
      BY <2>1
    <2>4. Maps!NumClear(m) = n - Maps!Cardinality(Maps!Listed(m))
      <3> HIDE DEF m
      <3> QED BY <2>2, CountIs
    <2> QED BY <2>3, <2>4
  <1> QED BY <1>1, <1>14
===============================================================================
