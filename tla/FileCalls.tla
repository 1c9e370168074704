------------------------------- MODULE FileCalls -------------------------------
(***************************************************************************)
(* The file system calls of userprog/exception.cc (CreateF, OpenF, ReadF,  *)
(* WriteF, SeekF, CloseF) on the descriptor table of filesys/fdtable.cc,   *)
(* one table for each process, and the OpenFile objects behind it.         *)
(*                                                                         *)
(* An OpenFile lives at an address from new to delete, and an address can  *)
(* be handed out again: a pointer that is kept too long may point at       *)
(* nothing or at another open file. A call that returns an error without a *)
(* change of state is not a step.                                          *)
(*                                                                         *)
(* In the stub build the kernel does not leave a process in the middle of  *)
(* a call. In the native build every sector read or written blocks, and    *)
(* other processes run. A write is therefore one step for each of its      *)
(* sectors. The other calls are one step: ReadF and OpenF use what no      *)
(* other process changes, the table and the offset of their own and the    *)
(* length of a file; CreateF may not overlap another one (filesys.cc), and *)
(* the file it makes is empty.                                             *)
(***************************************************************************)
EXTENDS OpenFile, FiniteSets

CONSTANTS
  Procs,      \* the processes
  Names,      \* names of files
  Addresses,  \* where OpenFile objects can be allocated
  MaxFile,    \* size of a table: MAX_FILE, and the 10 written out in fdtable.cc
  Bytes,      \* what a byte can be; 0 ends a string
  MaxLen,     \* bound on the length of a host file and on offsets
  FixedLen,   \* length of a file that was copied to the native file system
  NULL, Unset \* the null pointer; memory that was never written

ASSUME FCAssumption ==
  /\ MaxFile \in Nat /\ MaxFile > 2
  /\ 0 \in Bytes /\ Junk \notin Bytes
  /\ MaxLen \in Nat /\ FixedLen \in 0..MaxLen
  /\ NULL \notin Addresses \cup Names /\ Unset \notin Addresses \cup {0, 1} /\ NULL # Unset

VARIABLES
  stub,   \* the build: host files (FILESYS_STUB) or the native file system
  files,  \* what the files hold, or Absent
  heap,   \* the OpenFile objects
  flags,  \* FDTable::flags, the descriptors marked
  list,   \* FDTable::listFile
  sound,  \* history: no process used a pointer that was not its own to use
  wild,   \* memory is corrupt: nothing is known from here on
  writing \* the WriteAt that a process is in the middle of

fvars == <<stub, files, heap, flags, list, sound, wild, writing>>

Descriptors == 0..(MaxFile - 1)
FileDescriptors == 2..(MaxFile - 1)
Absent == [len |-> -1, bytes |-> <<>>]
Freed == [file |-> NULL, offset |-> 0]
Empty == [len |-> 0, bytes |-> <<>>]

\* A file of the native file system fills whole sectors.
Sectored(len) ==
  [len |-> len,
   bytes |-> [i \in 1..(((len + SectorSize - 1) \div SectorSize) * SectorSize) |-> 0]]

\* What WriteAt has in hand: the descriptor and its file, the request, the buffer
\* of whole sectors, the sectors it has yet to read and to write; and, as history,
\* those that another process has written since they were taken into the buffer.
NotWriting == [fd |-> 0, file |-> NULL, pos |-> 0, from |-> <<>>, buf |-> <<>>,
               reads |-> {}, puts |-> {}, stale |-> {}]

InCall(p) == writing[p].puts # {}

Init ==
  /\ stub \in BOOLEAN
  /\ files \in [Names -> {Absent, IF stub THEN Empty ELSE Sectored(FixedLen)}]
  /\ heap = [a \in Addresses |-> Freed]
  /\ flags = [p \in Procs |-> {}]
  /\ list = [p \in Procs |-> [d \in FileDescriptors |-> [pFile |-> Unset, type |-> Unset]]]
  /\ sound = TRUE
  /\ wild = FALSE
  /\ writing = [p \in Procs |-> NotWriting]

Live(a) == a \in Addresses /\ heap[a] # Freed

\* Memory was used that is not an object: what follows is undefined.
GoWild(soundNow) ==
  /\ wild' = TRUE
  /\ sound' = soundNow
  /\ UNCHANGED <<stub, files, heap, flags, list, writing>>

-------------------------------------------------------------------------------

\* fileSystem->Create(name, 0): an existing file of the host is cut to nothing,
\* an existing native file is an error.
CreateF(p, n) ==
  /\ ~wild
  /\ stub \/ files[n] = Absent
  /\ files' = [files EXCEPT ![n] = Empty]
  /\ UNCHANGED <<stub, heap, flags, list, sound, wild, writing>>

\* A name that is empty or too long is deleted and then used, and deleted again.
CreateFBadName(p) == ~wild /\ GoWild(FALSE)

\* FDTable::FindIdFile for "cin" and "cout": the descriptor of that number.
OpenConsole(p, d) ==
  /\ ~wild
  /\ flags' = [flags EXCEPT ![p] = @ \cup {d}]
  /\ UNCHANGED <<stub, files, heap, list, sound, wild, writing>>

\* A slip: the search runs up to the size of the table.
VacantToSize(p) == (2..MaxFile) \ flags[p]

Vacant(p) == FileDescriptors \ flags[p]

\* FindIdFile: the lowest free descriptor, and an OpenFile wherever new puts it.
OpenF(p, n, type) ==
  /\ ~wild
  /\ files[n] # Absent
  /\ \E d \in Vacant(p), a \in Addresses :
       /\ \A e \in Vacant(p) : d <= e
       /\ heap[a] = Freed
       /\ heap' = [heap EXCEPT ![a] = [file |-> n, offset |-> 0]]
       /\ list' = [list EXCEPT ![p][d] = [pFile |-> a, type |-> type]]
       /\ flags' = [flags EXCEPT ![p] = @ \cup {d}]
  /\ UNCHANGED <<stub, files, sound, wild, writing>>

\* The file is not there: the entry is overwritten, its mark is taken back.
OpenFMissing(p, n, type) ==
  /\ ~wild
  /\ files[n] = Absent
  /\ \E d \in Vacant(p) :
       /\ \A e \in Vacant(p) : d <= e
       /\ list' = [list EXCEPT ![p][d] = [pFile |-> NULL, type |-> type]]
  /\ UNCHANGED <<stub, files, heap, flags, sound, wild, writing>>

\* FDTable::isWrite and isRead. For 0 and 1 they may read a type that was never
\* set; Open then returns NULL, so that the answer makes no difference.
IsWrite(p, d) == d \in flags[p] \cap FileDescriptors /\ list[p][d].type = 0
IsRead(p, d) == d \in flags[p] \cap FileDescriptors /\ list[p][d].type \in {0, 1}

ReadF(p, size, d) ==
  /\ ~wild
  /\ IsRead(p, d)
  /\ LET a == list[p][d].pFile
         n == Clipped(files[heap[a].file], size, heap[a].offset)
     IN  IF ~Live(a) THEN a # NULL /\ GoWild(sound)
         ELSE /\ n > 0
              /\ heap' = [heap EXCEPT ![a].offset = @ + n]
              /\ UNCHANGED <<stub, files, flags, list, sound, wild, writing>>

\* User2System stops at the first 0; the rest of the kernel's buffer is 0.
FromUser(buffer) ==
  [i \in 1..Len(buffer) |-> IF \E j \in 1..i : buffer[j] = 0 THEN 0 ELSE buffer[i]]

\* What WriteAt starts with.
Request(d, f, from, pos) ==
  [fd |-> d, file |-> f, pos |-> pos, from |-> from,
   buf |-> [j \in DOMAIN files[f].bytes |-> Junk],
   reads |-> EdgeSectors(Len(from), pos), puts |-> Touched(Len(from), pos), stale |-> {}]

WriteF(p, buffer, d) ==
  /\ ~wild
  /\ IsWrite(p, d)
  /\ LET a    == list[p][d].pFile
         f    == heap[a].file
         from == FromUser(buffer)
         pos  == heap[a].offset
         n    == IF stub THEN Len(from) ELSE Clipped(files[f], Len(from), pos)
     IN  IF ~Live(a) THEN a # NULL /\ GoWild(sound)
         ELSE /\ n > 0 /\ pos + n <= MaxLen
              /\ IF stub
                 THEN /\ files' = [files EXCEPT ![f] = HostWrite(@, from, pos)]
                      /\ heap' = [heap EXCEPT ![a].offset = @ + n]
                      /\ UNCHANGED writing
                 ELSE /\ writing' = [writing EXCEPT ![p] = Request(d, f, SubSeq(from, 1, n), pos)]
                      /\ UNCHANGED <<files, heap>>
              /\ UNCHANGED <<stub, flags, list, sound, wild>>

Object(p) == list[p][writing[p].fd].pFile

\* Another process may have deleted the OpenFile in the meantime.
Deleted(p) == heap[Object(p)].file # writing[p].file

WriteDeleted(p) == ~wild /\ InCall(p) /\ Deleted(p) /\ GoWild(sound)

InSector(j, s) == (j - 1) \div SectorSize = s

\* WriteAt reads a sector that it will write in part: the first, then the last.
ReadEdge(p) ==
  /\ ~wild /\ InCall(p) /\ ~Deleted(p)
  /\ \E s \in writing[p].reads :
       LET f   == files[writing[p].file]
           buf == writing[p].buf
       IN  /\ \A t \in writing[p].reads : s <= t
           /\ writing' = [writing EXCEPT ![p].reads = @ \ {s},
                ![p].buf = [j \in DOMAIN buf |->
                              IF InSector(j, s) /\ j <= f.len THEN f.bytes[j] ELSE buf[j]]]
  /\ UNCHANGED <<stub, files, heap, flags, list, sound, wild>>

\* The bytes of a file with one sector of the buffer written to it, the request
\* copied into the buffer before.
WithSector(bytes, s, w) ==
  [j \in DOMAIN bytes |->
     IF ~InSector(j, s) THEN bytes[j]
     ELSE IF j \in (w.pos + 1)..(w.pos + Len(w.from)) THEN w.from[j - w.pos] ELSE w.buf[j]]

\* One sector less to write.
Wrote(w, s) ==
  IF w.puts = {s} THEN NotWriting ELSE [w EXCEPT !.puts = @ \ {s}, !.stale = @ \ {s}]

\* Write v has the sector in its buffer that write w has now changed.
Overtaken(v, w, s) ==
  IF v.file = w.file /\ s \in v.puts \ v.reads THEN [v EXCEPT !.stale = @ \cup {s}] ELSE v

\* WriteAt writes the next sector; with the last, OpenFile::Write moves the offset.
PutSector(p) ==
  /\ ~wild /\ InCall(p) /\ ~Deleted(p)
  /\ writing[p].reads = {}
  /\ \E s \in writing[p].puts :
       LET w == writing[p]
       IN  /\ \A t \in w.puts : s <= t
           /\ files' = [files EXCEPT ![w.file].bytes = WithSector(@, s, w)]
           /\ writing' = [q \in Procs |-> IF q = p THEN Wrote(w, s)
                                         ELSE Overtaken(writing[q], w, s)]
           /\ IF w.puts = {s}
              THEN /\ heap[Object(p)].offset + Len(w.from) <= MaxLen
                   /\ heap' = [heap EXCEPT ![Object(p)].offset = @ + Len(w.from)]
              ELSE UNCHANGED heap
  /\ UNCHANGED <<stub, flags, list, sound, wild>>

\* A slip: delete is left to the next FindIdFile, which overwrites the pointer.
CloseAndKeep(p, d, heapNow, soundNow) ==
  /\ heap' = heapNow
  /\ flags' = [flags EXCEPT ![p] = @ \ {d}]
  /\ UNCHANGED <<stub, files, list, sound, wild, writing>>

\* FDTable::Close: the object is deleted whether or not the descriptor is open.
\* A pointer that was never set may happen to be null.
Close(p, d, heapNow, soundNow) ==
  LET a == IF d \in FileDescriptors THEN list[p][d].pFile ELSE NULL
  IN  \/ /\ a # NULL /\ ~Live(a)
         /\ GoWild(soundNow /\ d \in flags[p])
      \/ /\ a \in {NULL, Unset} \/ Live(a)
         /\ heap' = IF Live(a) THEN [heapNow EXCEPT ![a] = Freed] ELSE heapNow
         /\ flags' = [flags EXCEPT ![p] = @ \ {d}]
         /\ sound' = (soundNow /\ (a = NULL \/ d \in flags[p]))
         /\ UNCHANGED <<stub, files, list, wild, writing>>

CloseF(p, d) == ~wild /\ Close(p, d, heap, sound)

\* FDTable::Open does not look at the mark. Without a break the case runs on
\* into that of CloseF, which takes its descriptor from the register that holds
\* the position.
SeekF(p, position, d) ==
  /\ ~wild
  /\ LET a == list[p][d].pFile
     IN  IF Live(a)
         THEN Close(p, position, [heap EXCEPT ![a].offset = position], sound /\ d \in flags[p])
         ELSE a # NULL /\ GoWild(sound /\ d \in flags[p])

\* A process has one thread: it makes no other call in the middle of a write.
Next ==
  \E p \in Procs :
    \/ ReadEdge(p) \/ PutSector(p) \/ WriteDeleted(p)
    \/ /\ ~InCall(p)
       /\ \/ CreateFBadName(p)
          \/ \E d \in {0, 1} : OpenConsole(p, d)
          \/ \E n \in Names : CreateF(p, n)
          \/ \E n \in Names, type \in {0, 1} : OpenF(p, n, type) \/ OpenFMissing(p, n, type)
          \/ \E d \in Descriptors :
               \/ CloseF(p, d)
               \/ \E size \in 1..MaxLen : ReadF(p, size, d)
               \/ \E len \in 1..MaxLen : \E buffer \in [1..len -> Bytes] : WriteF(p, buffer, d)
          \/ \E d \in FileDescriptors, position \in 0..MaxLen : SeekF(p, position, d)

Spec == Init /\ [][Next]_fvars

-------------------------------------------------------------------------------
(* Properties *)

Opened(p) == flags[p] \cap FileDescriptors

\* The types of the files, of the objects and of the tables.
FCTypeOK ==
  /\ stub \in BOOLEAN /\ sound \in BOOLEAN /\ wild \in BOOLEAN
  /\ \A n \in Names : /\ files[n].len \in -1..MaxLen
                      /\ \A i \in DOMAIN files[n].bytes : files[n].bytes[i] \in Bytes \cup {Junk}
  /\ heap \in [Addresses -> [file : Names \cup {NULL}, offset : 0..MaxLen]]
  /\ flags \in [Procs -> SUBSET Descriptors]
  /\ list \in [Procs -> [FileDescriptors ->
                 [pFile : Addresses \cup {NULL, Unset}, type : {0, 1, Unset}]]]
  /\ \A p \in Procs :
       /\ writing[p].fd \in Descriptors /\ writing[p].file \in Names \cup {NULL}
       /\ writing[p].pos \in 0..MaxLen
       /\ \A i \in DOMAIN writing[p].from : writing[p].from[i] \in Bytes
       /\ \A i \in DOMAIN writing[p].buf : writing[p].buf[i] \in Bytes \cup {Junk}
       /\ writing[p].reads \subseteq writing[p].puts

\* As long as no process seeks or closes a descriptor it has not opened, memory
\* stays intact, every open descriptor has an OpenFile of its own, shared with
\* no other descriptor and no other process, and no OpenFile is without a
\* descriptor (the pointers that FDTable::Close leaves behind are not used again).
DescriptorsOwn ==
  sound =>
    /\ ~wild
    /\ \A p \in Procs : \A d \in Opened(p) :
         /\ Live(list[p][d].pFile)
         /\ \A q \in Procs : \A e \in Opened(q) :
              list[q][e].pFile = list[p][d].pFile => p = q /\ d = e
    /\ \A a \in Addresses : Live(a) =>
         \E p \in Procs : \E d \in Opened(p) : list[p][d].pFile = a

\* The bytes that a step of process p may change: those of its request, and in
\* the native build every byte of a sector that another process has written since
\* this write read it, whose change is lost.
MayChange(p, i) ==
  LET w == writing[p]
  IN  i \in (w.pos + 1)..(w.pos + Len(w.from)) \/ \E s \in w.stale : InSector(i, s)

\* A file changes only through a descriptor that was opened for writing, and only
\* in the bytes between the offset before and the offset after the write; but for
\* two processes that write one sector at the same time, of which the later puts
\* back what the earlier has changed. No byte becomes whatever a kernel buffer
\* held (isWrite, WriteAt).
WritesInPlace ==
  [][\A n \in Names :
       files'[n] # files[n] /\ files'[n] # Empty =>
         /\ \A i \in 1..files'[n].len : files'[n].bytes[i] # Junk
         /\ \E p \in Procs : \E d \in Opened(p) :
              LET a == list[p][d].pFile
              IN  /\ Live(a) /\ heap[a].file = n /\ list[p][d].type = 0
                  /\ ~stub => writing[p].fd = d
                  /\ \A i \in 1..files[n].len :
                       files'[n].bytes[i] # files[n].bytes[i]
                         => IF stub THEN i \in (heap[a].offset + 1)..heap'[a].offset
                            ELSE MayChange(p, i)]_fvars

\* What userprog/syscall.h says of OpenF: the descriptor it returns can be used
\* to read and write the file, so it stays open until CloseF is called on it.
OpenUntilClosed ==
  [][\A p \in Procs : \A d \in Opened(p) \ flags'[p] : wild' \/ CloseF(p, d)]_fvars
===============================================================================
