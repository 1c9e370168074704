-------------------------------- MODULE Stacks --------------------------------
(***************************************************************************)
(* The stacks of the C++ primer (c++example): one in an array, whose       *)
(* elements are of any type T, and one in a linked list on the heap. Both  *)
(* are to be a last-in first-out stack.                                    *)
(***************************************************************************)
EXTENDS Integers, Sequences, SequencesExt

CONSTANT Heap              \* addresses that new can return

Unset == -1

\* Stack<T>: the positions from top on hold what new or an earlier Push left.
NewStack(sz) == [size |-> sz, top |-> 0, stack |-> [j \in 0..(sz - 1) |-> Unset]]

Full(s) == s.top = s.size
Empty(s) == s.top = 0
Push(s, value) == [s EXCEPT !.stack[s.top] = value, !.top = @ + 1]
Pop(s) == [s EXCEPT !.top = @ - 1]
Popped(s) == s.stack[s.top - 1]

\* A call in the array: the stack after it, what it returns, and "abort" when an
\* ASSERT fails. A call is a value to push, or Unset for a Pop.
CallArray(r, value) ==
  CASE r.abort \/ (IF value = Unset THEN Empty(r.s) ELSE Full(r.s)) -> [r EXCEPT !.abort = TRUE]
    [] value = Unset -> [r EXCEPT !.s = Pop(@), !.out = Append(@, Popped(r.s))]
    [] OTHER -> [r EXCEPT !.s = Push(@, value)]

-------------------------------------------------------------------------------
(* The list, its elements on a heap where what is deleted may be used again *)

NULL == 0

ListElement(value) == [item |-> value, next |-> NULL]
NewList == [first |-> NULL, last |-> NULL, elements |-> [a \in {} |-> ListElement(Unset)]]
ListEmpty(l) == l.first = NULL

\* Any free address would do; it is the lowest.
Fresh(l) == CHOOSE a \in Heap \ DOMAIN l.elements : \A b \in Heap \ DOMAIN l.elements : a <= b

Prepend(l, value) ==
  LET a == Fresh(l)
      with(next) == (a :> [ListElement(value) EXCEPT !.next = next]) @@ l.elements
  IN  IF ListEmpty(l) THEN [first |-> a, last |-> a, elements |-> with(NULL)]
      ELSE [l EXCEPT !.first = a, !.elements = with(l.first)]

TakeFirst(l) ==
  LET rest == [a \in DOMAIN l.elements \ {l.first} |-> l.elements[a]]
  IN  IF l.first = l.last THEN [first |-> NULL, last |-> NULL, elements |-> rest]
      ELSE [l EXCEPT !.first = l.elements[l.first].next, !.elements = rest]

\* ~List removes elements until there is none.
Deleted(l) ==
  LET after[n \in 0..Cardinality(DOMAIN l.elements)] ==
        IF n = 0 THEN l ELSE IF ListEmpty(after[n - 1]) THEN after[n - 1] ELSE TakeFirst(after[n - 1])
  IN  after[Cardinality(DOMAIN l.elements)]

ListPush(l, value) == Prepend(l, value)
ListPopped(l) == l.elements[l.first].item
ListPop(l) == TakeFirst(l)

\* A ListStack is never full.
CallList(r, value) ==
  CASE r.abort \/ (value = Unset /\ ListEmpty(r.s)) -> [r EXCEPT !.abort = TRUE]
    [] value = Unset -> [r EXCEPT !.s = ListPop(@), !.out = Append(@, ListPopped(r.s))]
    [] OTHER -> [r EXCEPT !.s = ListPush(@, value)]

-------------------------------------------------------------------------------
(* The tests: push counting up, then pop until the stack is empty *)

ArrayStack(sz) == [kind |-> "array", s |-> NewStack(sz), out |-> <<>>, abort |-> sz < 1]
ListStack == [kind |-> "list", s |-> NewList, out |-> <<>>, abort |-> FALSE]

\* A call of a virtual function of the base class.
Call(r, value) == IF r.kind = "array" THEN CallArray(r, value) ELSE CallList(r, value)

Counting(start, n) == [k \in 1..n |-> start + k - 1]
Pops(n) == [k \in 1..n |-> Unset]

\* SelfTest of the template pushes until the stack is full.
SelfTestFull(sz, start) == FoldLeft(CallArray, ArrayStack(sz), Counting(start, sz) \o Pops(sz))

\* SelfTest of the base class pushes the number it is given, on either stack.
SelfTest(stack, numToPush) == FoldLeft(Call, stack, Counting(17, numToPush) \o Pops(numToPush))

\* The three programs: what they pop ('a' is 97).
StackMain == <<SelfTestFull(10, 17)>>
TemplateStackMain == <<SelfTestFull(10, 17), SelfTestFull(10, 97)>>
InheritStackMain == <<SelfTest(ArrayStack(10), 10), SelfTest(ListStack, 10)>>

-------------------------------------------------------------------------------
(* What is right *)

\* A last-in first-out stack, of at most sz elements.
Lifo(calls, sz) ==
  LET call(r, value) ==
        CASE r.abort \/ (IF value = Unset THEN r.s = <<>> ELSE Len(r.s) = sz) ->
               [r EXCEPT !.abort = TRUE]
          [] value = Unset -> [r EXCEPT !.s = Front(@), !.out = Append(@, Last(r.s))]
          [] OTHER -> [r EXCEPT !.s = Append(@, value)]
  IN  FoldLeft(call, [s |-> <<>>, out |-> <<>>, abort |-> FALSE], calls)

\* Both are one, and an assertion stops both where it must; the heap holds the
\* elements of the list and no others, and nothing once the list is deleted.
StacksRight(calls, sz) ==
  LET array == FoldLeft(Call, ArrayStack(sz), calls)
      list == FoldLeft(Call, ListStack, calls)
      bounded == Lifo(calls, sz)
      unbounded == Lifo(calls, Len(calls) + 1)
  IN  /\ <<array.out, array.abort>> = <<bounded.out, bounded.abort>>
      /\ <<list.out, list.abort>> = <<unbounded.out, unbounded.abort>>
      /\ Cardinality(DOMAIN list.s.elements) = Len(unbounded.s)
      /\ DOMAIN Deleted(list.s).elements = {}

\* Every test of the three programs pops what it has pushed, the last one first;
\* one number too many stops a test on an array.
TestsRight ==
  LET reversed(start) == [k \in 1..10 |-> start + 10 - k]
  IN  /\ \A n \in 1..2 : InheritStackMain[n].out = reversed(17)
      /\ StackMain[1].out = reversed(17)
      /\ \A n \in 1..2 : TemplateStackMain[n].out = reversed(<<17, 97>>[n])
      /\ SelfTest(ArrayStack(10), 11).abort
===============================================================================
