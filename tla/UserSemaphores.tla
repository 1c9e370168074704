----------------------------- MODULE UserSemaphores -----------------------------
(***************************************************************************)
(* The semaphores of user programs: the system calls CreateSemaphore, Wait *)
(* and Signal (userprog/exception.cc), the table of named semaphores       *)
(* (threads/STable.cc) and its entries (threads/Sem.cc).                   *)
(*                                                                         *)
(* A semaphore is never removed. Its name is copied into 32 bytes that are *)
(* followed by a pointer: a name of 32 or 33 characters is then written    *)
(* over: up to the address, the entry answers to it, to another name with  *)
(* the same 32 characters, or to none.                                     *)
(***************************************************************************)
EXTENDS Integers, FiniteSets

CONSTANTS
  Callers,      \* the processes
  Names,        \* names a program may pass, cut to 33 characters
  LongNames,    \* those that do not fit; they agree in 32 characters
  Inits,        \* first values a program may pass
  MaxSemaphore, \* the size of the table
  MaxSignals    \* bound on the Vs of a semaphore

NoName == "no name"

ASSUME SemaphoreAssumption ==
  /\ LongNames \subseteq Names /\ NoName \notin Names
  /\ Inits \subseteq Int
  /\ MaxSemaphore \in Nat \ {0} /\ MaxSignals \in Nat

VARIABLES
  bm,         \* the slots in use
  semTab,     \* the semaphore in each slot
  waitingOn,  \* the slot each process is in P on, or NoSlot
  created,    \* history: the names for which Create answered 0
  grants,     \* history: how many Ps on each slot have ended
  signals     \* history: how many Vs each slot had

uvars == <<bm, semTab, waitingOn, created, grants, signals>>

Slots == 0..(MaxSemaphore - 1)
NoSlot == -1
Nothing == [name |-> NoName, init |-> 0, value |-> 0]

UserInit ==
  /\ bm = {}
  /\ semTab = [i \in Slots |-> Nothing]
  /\ waitingOn = [p \in Callers |-> NoSlot]
  /\ created = {}
  /\ grants = [i \in Slots |-> 0] /\ signals = [i \in Slots |-> 0]

IsLeast(i, S) == i \in S /\ \A j \in S : i <= j

\* The slots a scan of the table compares equal to name.
Named(name) == {i \in bm : semTab[i].name = name}

\* BitMap::Find.
FreeSlots == Slots \ bm

Running(p) == waitingOn[p] = NoSlot

-------------------------------------------------------------------------------

\* A slip: the table is not searched for the name.
CreateAlways(p, name, init, kept) ==
  /\ Running(p)
  /\ IF name \in LongNames THEN kept \in LongNames \cup {NoName} ELSE kept = name
  /\ \E slot \in Slots :
       /\ IsLeast(slot, FreeSlots)
       /\ bm' = bm \cup {slot}
       /\ semTab' = [semTab EXCEPT ![slot] = [name |-> kept, init |-> init, value |-> init]]
  /\ created' = created \cup {name}
  /\ UNCHANGED <<waitingOn, grants, signals>>

\* SC_CreateSemaphore and STable::Create, answering 0. What the entry keeps of
\* a name that fits is the name.
Create(p, name, init, kept) ==
  /\ Running(p)
  /\ IF name \in LongNames THEN kept \in LongNames \cup {NoName} ELSE kept = name
  /\ Named(name) = {}
  /\ \E slot \in Slots :
       /\ IsLeast(slot, FreeSlots)
       /\ bm' = bm \cup {slot}
       /\ semTab' = [semTab EXCEPT ![slot] = [name |-> kept, init |-> init, value |-> init]]
  /\ created' = created \cup {name}
  /\ UNCHANGED <<waitingOn, grants, signals>>

\* SC_Wait and STable::Wait, up to the P of the semaphore found. An unknown
\* name changes nothing and answers -1, as does a Create of a known one.
Wait(p, name) ==
  /\ Running(p)
  /\ \E i \in Slots : IsLeast(i, Named(name)) /\ waitingOn' = [waitingOn EXCEPT ![p] = i]
  /\ UNCHANGED <<bm, semTab, created, grants, signals>>

\* Semaphore::P: it waits while the value is 0, and a negative value is not 0.
P(p) ==
  LET i == waitingOn[p]
  IN  /\ ~Running(p) /\ semTab[i].value # 0
      /\ semTab[i].init < 0 => grants[i] < MaxSignals
      /\ semTab' = [semTab EXCEPT ![i].value = @ - 1]
      /\ grants' = [grants EXCEPT ![i] = @ + 1]
      /\ waitingOn' = [waitingOn EXCEPT ![p] = NoSlot]
      /\ UNCHANGED <<bm, created, signals>>

\* SC_Signal and STable::Signal, with Semaphore::V.
Signal(p, name) ==
  /\ Running(p)
  /\ \E i \in Slots :
       /\ IsLeast(i, Named(name))
       /\ signals[i] < MaxSignals
       /\ semTab' = [semTab EXCEPT ![i].value = @ + 1]
       /\ signals' = [signals EXCEPT ![i] = @ + 1]
  /\ UNCHANGED <<bm, waitingOn, created, grants>>

UserNext ==
  \E p \in Callers :
    \/ P(p)
    \/ \E name \in Names : \/ Wait(p, name) \/ Signal(p, name)
                           \/ \E init \in Inits, kept \in Names \cup {NoName} :
                                Create(p, name, init, kept)

UserSpec == UserInit /\ [][UserNext]_uvars

-------------------------------------------------------------------------------
(* Properties *)

\* The types of the table and of the processes.
UserTypeOK ==
  /\ bm \subseteq Slots
  /\ semTab \in [Slots -> [name : Names \cup {NoName}, init : Int, value : Int]]
  /\ waitingOn \in [Callers -> Slots \cup {NoSlot}]
  /\ created \subseteq Names
  /\ grants \in [Slots -> Nat] /\ signals \in [Slots -> Nat]

\* A program that was told that its semaphore exists finds it from then on, and
\* no other answers to the name, if the name fits.
CreatedIsFound ==
  \A name \in Names \ LongNames : /\ Cardinality(Named(name)) <= 1
                                  /\ name \in created => Named(name) # {}

\* A process waits on a semaphore that a Signal of its name still reaches: it
\* stays the first of those that answer to the name.
WaitersReachable ==
  \A p \in Callers : waitingOn[p] # NoSlot =>
    IsLeast(waitingOn[p], Named(semTab[waitingOn[p]].name))

\* A semaphore that began with at least 0 lets no more processes through than
\* its first value and its signals allow; with first value 1, that is mutual
\* exclusion for programs that signal what they waited for.
GrantsBounded ==
  \A i \in bm : semTab[i].init >= 0 => grants[i] <= semTab[i].init + signals[i]

\* What the table promises its processes.
SemaphoresSafe == UserTypeOK /\ CreatedIsFound /\ WaitersReachable /\ GrantsBounded
===============================================================================
