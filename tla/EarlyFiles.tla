------------------------------- MODULE EarlyFiles -------------------------------
(***************************************************************************)
(* The file system calls of the stage before, nachos-1,2: one table of     *)
(* open files in FileSystem (filesys/filesys.h, FILESYS_STUB) for the one  *)
(* program that runs, and a counter, index, that every Open increments and *)
(* nothing decrements. The calls are in userprog/exception.cc.             *)
(*                                                                         *)
(* openf[index] = Open(...) increments index on its right side; C++ leaves *)
(* open which side comes first, so a build has either order.               *)
(*                                                                         *)
(* A slot holds the OpenFile itself. A call that returns an error without  *)
(* a change of state is not a step. The name "stdin" is answered 0 and     *)
(* "stdout" 1 without one, whatever the slots of these numbers hold.       *)
(***************************************************************************)
EXTENDS OpenFile

CONSTANTS
  EarlyNames,  \* names of files
  EarlyBytes,  \* what a byte can be
  TableSize,   \* slots of openf: 10
  EarlyMaxLen  \* bound on the length of a file

ASSUME EarlyAssumption ==
  /\ TableSize \in Nat /\ TableSize > 5
  /\ EarlyMaxLen \in Nat
  /\ "none" \notin EarlyNames

VARIABLES
  leftFirst,  \* the build computes &openf[index] before it calls Open
  hosts,      \* the host's files, NoFile where there is none
  openf,      \* FileSystem::openf
  index,      \* FileSystem::index
  given,      \* history: the file each descriptor was returned for
  closed,     \* history: the descriptors that were closed
  strayed,    \* history: the program used a descriptor outside the table
  beyond      \* memory behind the table was used: nothing is known from here on

evars == <<leftFirst, hosts, openf, index, given, closed, strayed, beyond>>

EarlySlots == 0..(TableSize - 1)
NoFile == [len |-> -1, bytes |-> <<>>]
NotOpen == [name |-> "none", type |-> -1, offset |-> 0]
Fresh(n, type) == [name |-> n, type |-> type, offset |-> 0]

\* The slots the constructor fills; StartProcess then opens the executable.
EarlyInit ==
  /\ leftFirst \in BOOLEAN
  /\ hosts \in [EarlyNames -> {NoFile, [len |-> 0, bytes |-> <<>>]}]
  /\ LET input == IF leftFirst THEN 0 ELSE 1
     IN  openf = [d \in EarlySlots |->
                    IF d = input THEN Fresh("stdin", 2)
                    ELSE IF d = input + 2 THEN Fresh("stdout", 3) ELSE NotOpen]
  /\ index = 5
  /\ given = [d \in EarlySlots |-> "none"]
  /\ closed = {} /\ strayed = FALSE /\ beyond = FALSE

\* A slot behind the last one is written, or read as a pointer.
Beyond(byProgram) ==
  /\ beyond' = TRUE
  /\ strayed' = (strayed \/ byProgram)
  /\ UNCHANGED <<leftFirst, hosts, openf, index, given, closed>>

EarlyCreate(n) ==
  /\ hosts' = [hosts EXCEPT ![n] = [len |-> 0, bytes |-> <<>>]]
  /\ UNCHANGED <<leftFirst, openf, index, given, closed, strayed, beyond>>

\* Where the new OpenFile is put.
SlotFor(n, type) == IF leftFirst \/ hosts[n] = NoFile THEN index ELSE index + 1

\* The test before it is index > 10, one more than the table has room for.
EarlyOpen(n, type) ==
  /\ index <= TableSize
  /\ LET slot == SlotFor(n, type)
     IN  \/ slot >= TableSize /\ Beyond(FALSE)
         \/ /\ slot < TableSize /\ hosts[n] # NoFile
            /\ openf' = [openf EXCEPT ![slot] = Fresh(n, type)]
            /\ index' = index + 1
            /\ given' = [given EXCEPT ![index] = n]
            /\ UNCHANGED <<leftFirst, hosts, closed, strayed, beyond>>
         \/ /\ slot < TableSize /\ hosts[n] = NoFile
            /\ openf' = [openf EXCEPT ![slot] = NotOpen]
            /\ UNCHANGED <<leftFirst, hosts, index, given, closed, strayed, beyond>>

\* A slip: the counter is taken back when a file is closed.
EarlyCloseCounts(d) ==
  /\ d \in EarlySlots /\ openf[d] # NotOpen
  /\ openf' = [openf EXCEPT ![d] = NotOpen]
  /\ index' = index - 1
  /\ closed' = closed \cup {d}
  /\ UNCHANGED <<leftFirst, hosts, given, strayed, beyond>>

EarlyClose(d) ==
  \/ d \notin EarlySlots /\ Beyond(TRUE)
  \/ /\ d \in EarlySlots /\ openf[d] # NotOpen
     /\ openf' = [openf EXCEPT ![d] = NotOpen]
     /\ closed' = closed \cup {d}
     /\ UNCHANGED <<leftFirst, hosts, index, given, strayed, beyond>>

\* Reads, writes and seeks admit the descriptor 10.
InTable(d) == d \in 0..TableSize
OfFile(d) == openf[d].name \in EarlyNames

EarlyRead(d, n) ==
  /\ InTable(d)
  /\ \/ d = TableSize /\ Beyond(TRUE)
     \/ /\ d < TableSize /\ OfFile(d)
        /\ Clipped(hosts[openf[d].name], n, openf[d].offset) > 0
        /\ openf' = [openf EXCEPT ![d].offset = @ + Clipped(hosts[openf[d].name], n, @)]
        /\ UNCHANGED <<leftFirst, hosts, index, given, closed, strayed, beyond>>

\* Only types 0 and 3 are written, and the file "stdout" of type 3 is another.
EarlyWrite(d, buffer) ==
  /\ InTable(d)
  /\ \/ d = TableSize /\ Beyond(TRUE)
     \/ /\ d < TableSize /\ OfFile(d) /\ openf[d].type = 0
        /\ openf[d].offset + Len(buffer) <= EarlyMaxLen
        /\ hosts' = [hosts EXCEPT ![openf[d].name] = HostWrite(@, buffer, openf[d].offset)]
        /\ openf' = [openf EXCEPT ![d].offset = @ + Len(buffer)]
        /\ UNCHANGED <<leftFirst, index, given, closed, strayed, beyond>>

EarlySeek(pos, d) ==
  /\ InTable(d)
  /\ \/ d = TableSize /\ Beyond(TRUE)
     \/ /\ d < TableSize /\ OfFile(d)
        /\ LET to == IF pos = -1 THEN hosts[openf[d].name].len ELSE pos
           IN  /\ to \in 0..hosts[openf[d].name].len
               /\ openf' = [openf EXCEPT ![d].offset = to]
        /\ UNCHANGED <<leftFirst, hosts, index, given, closed, strayed, beyond>>

EarlyNext ==
  /\ ~beyond
  /\ \/ \E n \in EarlyNames : EarlyCreate(n) \/ \E type \in {0, 1} : EarlyOpen(n, type)
     \/ \E d \in 0..TableSize :
          \/ EarlyClose(d)
          \/ \E n \in 1..EarlyMaxLen : EarlyRead(d, n)
          \/ \E len \in 1..EarlyMaxLen : \E b \in [1..len -> EarlyBytes] : EarlyWrite(d, b)
          \/ \E pos \in -1..EarlyMaxLen : EarlySeek(pos, d)

EarlySpec == EarlyInit /\ [][EarlyNext]_evars

-------------------------------------------------------------------------------
(* Properties *)

\* Where the address is computed first, a descriptor names the file that Open
\* returned it for until the program closes it, whatever other opens fail; in
\* the other order every descriptor names the file opened before (the assignment
\* in SC_OpenFileId).
DescriptorsName ==
  \A d \in EarlySlots \ closed : given[d] # "none" =>
    IF leftFirst THEN openf[d].name = given[d]
    ELSE d > 5 => openf[d].name \in {given[d - 1], "none"}

\* No slot is used twice, so a descriptor kept after CloseFile reaches no other
\* file; the price is that memory behind the table is used, without a fault of
\* the program's own, as soon as the slots left by the start have been used once.
UsedOnce ==
  /\ \A d \in closed : openf[d] = NotOpen
  /\ beyond /\ ~strayed => index >= TableSize - (IF leftFirst THEN 0 ELSE 1)

EarlySafe == DescriptorsName /\ UsedOnce
===============================================================================
