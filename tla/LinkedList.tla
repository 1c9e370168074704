------------------------------- MODULE LinkedList -------------------------------
(***************************************************************************)
(* The lists that everything in Nachos queues in: ready threads, threads   *)
(* in a semaphore, interrupts to come, mail (threads/list.cc). A list is a *)
(* chain of elements with a pointer to the first and one to the last; the  *)
(* other modules take it for a sequence.                                   *)
(***************************************************************************)
EXTENDS Naturals, Sequences

\* Elements are at addresses above Nil, the null pointer.
Nil == 0

NewList == [first |-> Nil, last |-> Nil, cells |-> [c \in {} |-> Nil]]
IsEmpty(l) == l.first = Nil

\* ListElement::ListElement, at an address c that is not in use.
NewElement(l, c, item, key) ==
  [l EXCEPT !.cells = [d \in DOMAIN @ \cup {c} |->
     IF d = c THEN [item |-> item, key |-> key, next |-> Nil] ELSE @[d]]]

AsOnly(l, c) == [l EXCEPT !.first = c, !.last = c]
BehindLast(l, c) == [l EXCEPT !.cells[l.last].next = c, !.last = c]
BeforeFirst(l, c) == [l EXCEPT !.cells[c].next = l.first, !.first = c]

Appended(l, c, item) ==
  LET m == NewElement(l, c, item, 0)
  IN  IF IsEmpty(l) THEN AsOnly(m, c) ELSE BehindLast(m, c)

Prepended(l, c, item) ==
  LET m == NewElement(l, c, item, 0)
  IN  IF IsEmpty(l) THEN AsOnly(m, c) ELSE BeforeFirst(m, c)

\* SortedInsert: in front of the first element with a greater key.
Inserted(l, c, item, key) ==
  LET m == NewElement(l, c, item, key)
      stop[p \in DOMAIN l.cells] ==
        LET next == l.cells[p].next
        IN  IF next = Nil THEN p ELSE IF key < l.cells[next].key THEN p ELSE stop[next]
      ptr == stop[l.first]
      next == l.cells[ptr].next
  IN  CASE IsEmpty(l) -> AsOnly(m, c)
        [] ~IsEmpty(l) /\ key < l.cells[l.first].key -> BeforeFirst(m, c)
        [] OTHER -> IF next = Nil THEN BehindLast(m, c)
                    ELSE [m EXCEPT !.cells[c].next = next, !.cells[ptr].next = c]

\* SortedRemove, and Remove, which does not ask for the key: the list after.
Removed(l) ==
  IF IsEmpty(l) THEN l
  ELSE [first |-> IF l.first = l.last THEN Nil ELSE l.cells[l.first].next,
        last  |-> IF l.first = l.last THEN Nil ELSE l.last,
        cells |-> [c \in DOMAIN l.cells \ {l.first} |-> l.cells[c]]]

\* What Mapcar visits.
Visited(l) ==
  LET from[p \in DOMAIN l.cells \cup {Nil}] ==
        IF p = Nil THEN <<>>
        ELSE <<[item |-> l.cells[p].item, key |-> l.cells[p].key]>> \o from[l.cells[p].next]
  IN  from[l.first]

-------------------------------------------------------------------------------
(* What is right *)

\* A call, and the sequence that a list is after it; the n-th call brings n.
Calls == {[op |-> o, key |-> 0] : o \in {"append", "prepend", "remove"}}
           \cup {[op |-> "insert", key |-> k] : k \in 0..2}

InSequence(s, call, n) ==
  LET e == [item |-> n, key |-> call.key]
      less == {i \in 0..Len(s) : \A j \in 1..i : s[j].key <= call.key}
      i == CHOOSE i \in less : \A j \in less : j <= i
  IN  CASE call.op = "append" -> Append(s, e)
        [] call.op = "prepend" -> <<e>> \o s
        [] call.op = "insert" -> SubSeq(s, 1, i) \o <<e>> \o SubSeq(s, i + 1, Len(s))
        [] call.op = "remove" -> IF s = <<>> THEN s ELSE Tail(s)

InList(l, call, n) ==
  CASE call.op = "append" -> Appended(l, n, n)
    [] call.op = "prepend" -> Prepended(l, n, n)
    [] call.op = "insert" -> Inserted(l, n, n, call.key)
    [] call.op = "remove" -> Removed(l)

\* After any calls a list is the sequence that the other modules take it for,
\* its last element is the one it says, and no element is lost on the heap.
IsSequence(calls) ==
  LET l[n \in 0..Len(calls)] == IF n = 0 THEN NewList ELSE InList(l[n - 1], calls[n], n)
      s[n \in 0..Len(calls)] == IF n = 0 THEN <<>> ELSE InSequence(s[n - 1], calls[n], n)
  IN  \A n \in 0..Len(calls) :
        /\ Visited(l[n]) = s[n]
        /\ l[n].last = IF s[n] = <<>> THEN Nil ELSE s[n][Len(s[n])].item
        /\ DOMAIN l[n].cells = {s[n][i].item : i \in DOMAIN s[n]}
===============================================================================
