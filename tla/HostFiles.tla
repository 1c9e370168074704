------------------------------- MODULE HostFiles -------------------------------
(***************************************************************************)
(* What Nachos makes of the files of its host: the wrappers that abort     *)
(* when the host fails (machine/sysdep.cc), the OpenFile and FileSystem of *)
(* the stub build (filesys/openfile.h, filesys.h) and the file that        *)
(* simulates a disk (machine/disk.cc).                                     *)
(*                                                                         *)
(* A host h has names of files, the files themselves, which live as long as*)
(* a descriptor has them open, and descriptors with a position each. Where *)
(* an ASSERT of a wrapper fails, h.abort is set.                           *)
(***************************************************************************)
EXTENDS Integers, Sequences, SequencesExt

CONSTANTS MagicNumber, SectorSize, NumSectors     \* of the simulated disk

Host == [names |-> [n \in {} |-> 0], files |-> <<>>, fds |-> <<>>, result |-> <<>>, abort |-> FALSE]

Asserted(h, holds) == [h EXCEPT !.abort = @ \/ ~holds]
Open(h, file) == [h EXCEPT !.fds = Append(@, [file |-> file, at |-> 0]), !.result = Len(h.fds) + 1]
Bytes(h, fd) == h.files[h.fds[fd].file]

\* What a read of n bytes finds, and a file with bytes written over or behind it;
\* what is skipped is 0.
ReadAt(bytes, n, position) ==
  SubSeq(bytes, position + 1, IF position + n < Len(bytes) THEN position + n ELSE Len(bytes))
Overwritten(bytes, from, position) ==
  [j \in 1..(IF position + Len(from) > Len(bytes) THEN position + Len(from) ELSE Len(bytes)) |->
     IF j \in (position + 1)..(position + Len(from)) THEN from[j - position]
     ELSE IF j <= Len(bytes) THEN bytes[j] ELSE 0]

-------------------------------------------------------------------------------
(* machine/sysdep.cc *)

OpenForWrite(h, name) ==
  IF name \in DOMAIN h.names
  THEN Open([h EXCEPT !.files[h.names[name]] = <<>>], h.names[name])
  ELSE Open([h EXCEPT !.files = Append(@, <<>>), !.names = (name :> Len(h.files) + 1) @@ @],
            Len(h.files) + 1)

OpenForReadWrite(h, name, crashOnError) ==
  IF name \in DOMAIN h.names THEN Open(h, h.names[name])
  ELSE Asserted([h EXCEPT !.result = -1], ~crashOnError)

ReadPartial(h, fd, n) ==
  LET bytes == ReadAt(Bytes(h, fd), n, h.fds[fd].at)
  IN  [h EXCEPT !.result = bytes, !.fds[fd].at = @ + Len(bytes)]

Read(h, fd, n) == LET after == ReadPartial(h, fd, n) IN Asserted(after, Len(after.result) = n)

WriteFile(h, fd, from) ==
  [h EXCEPT !.files[h.fds[fd].file] = Overwritten(@, from, h.fds[fd].at),
            !.fds[fd].at = @ + Len(from)]

Lseek(h, fd, offset, whence) ==
  LET at == IF whence = 0 THEN offset ELSE Len(Bytes(h, fd)) + offset
  IN  IF at < 0 THEN Asserted(h, FALSE) ELSE [h EXCEPT !.fds[fd].at = at]

Tell(h, fd) == [h EXCEPT !.result = h.fds[fd].at]

Unlink(h, name) ==
  [h EXCEPT !.names = [n \in DOMAIN @ \ {name} |-> @[n]],
            !.result = IF name \in DOMAIN h.names THEN 0 ELSE -1]

-------------------------------------------------------------------------------
(* OpenFile of the stub build: a state s has a host and the objects *)

OpenFile(s, fd) == [s EXCEPT !.objects = Append(@, [file |-> fd, currentOffset |-> 0])]

StubReadAt(h, file, n, position) == ReadPartial(Lseek(h, file, position, 0), file, n)
StubWriteAt(h, file, from, position) == WriteFile(Lseek(h, file, position, 0), file, from)

Call(s, call) ==
  LET o == call.object
      file == s.objects[o].file
      offset == s.objects[o].currentOffset
      read == StubReadAt(s.h, file, call.n, offset)
      wrote(from) == StubWriteAt(s.h, file, from, offset)
  IN  CASE call.op = "read" ->
             [s EXCEPT !.h = read, !.objects[o].currentOffset = @ + Len(read.result)]
        [] call.op = "write" ->
             [s EXCEPT !.h = [wrote([j \in 1..call.n |-> o]) EXCEPT !.result = call.n],
                       !.objects[o].currentOffset = @ + call.n]
        [] call.op = "seek" -> [s EXCEPT !.objects[o].currentOffset = call.n]
        [] call.op = "length" -> [s EXCEPT !.h = Tell(Lseek(@, file, 0, 2), file)]

        \* FileSystem::Create and Remove.
        [] call.op = "create" -> [s EXCEPT !.h = [OpenForWrite(@, "f") EXCEPT !.result = 0]]
        [] call.op = "remove" -> [s EXCEPT !.h = Unlink(@, "f")]

-------------------------------------------------------------------------------
(* The file of the simulated disk *)

MagicSize == Len(MagicNumber)
DiskSize == MagicSize + NumSectors * SectorSize
LastInt == <<0>>

\* Disk::Disk; the machine may stop before the k-th call that creates the file.
NewDisk(h, k) ==
  LET open == OpenForReadWrite(h, "DISK", FALSE)
      found == Read(open, open.result, MagicSize)
      create == OpenForWrite(h, "DISK")
      magic == WriteFile(create, create.result, MagicNumber)
      last == WriteFile(Lseek(magic, create.result, DiskSize - Len(LastInt), 0), create.result, LastInt)
  IN  IF open.result # -1 THEN Asserted(found, found.result = MagicNumber)
      ELSE CASE k = 1 -> h [] k = 2 -> create [] k = 3 -> magic [] OTHER -> last

Fd(h) == Len(h.fds)
ReadRequest(h, sector) ==
  Read(Lseek(h, Fd(h), SectorSize * sector + MagicSize, 0), Fd(h), SectorSize)
WriteRequest(h, sector, data) ==
  WriteFile(Lseek(h, Fd(h), SectorSize * sector + MagicSize, 0), Fd(h), data)

-------------------------------------------------------------------------------
(* What is right *)

Calls ==
  [op : {"read", "write"}, object : {1, 2}, n : {1, 2}] \cup [op : {"seek"}, object : {1, 2}, n : {0, 3}]
    \cup [op : {"length"}, object : {1, 2}, n : {0}] \cup [op : {"create", "remove"}, object : {1}, n : {0}]

\* The same calls on a file that is shared by objects with an offset each. Create
\* empties the file that has the name: another one, once this one was removed.
Meant(s, call) ==
  LET o == call.object
      read == ReadAt(s.file, call.n, s.offsets[o])
  IN  CASE call.op = "read" -> [s EXCEPT !.result = read, !.offsets[o] = @ + Len(read)]
        [] call.op = "write" ->
             [s EXCEPT !.file = Overwritten(@, [j \in 1..call.n |-> o], s.offsets[o]),
                       !.result = call.n, !.offsets[o] = @ + call.n]
        [] call.op = "seek" -> [s EXCEPT !.offsets[o] = call.n]
        [] call.op = "length" -> [s EXCEPT !.result = Len(s.file)]
        [] call.op = "create" ->
             [s EXCEPT !.file = IF s.name = "this" THEN <<>> ELSE @, !.result = 0,
                       !.name = IF s.name = "this" THEN "this" ELSE "other"]
        [] call.op = "remove" ->
             [s EXCEPT !.name = "none", !.result = IF s.name = "none" THEN -1 ELSE 0]

\* The host's own position, which every call moves and Length leaves at the end,
\* never shows: each object reads and writes at its own offset, of the file that
\* it was opened on, also when that was removed or created again.
OffsetsAreOwn(calls) ==
  LET opened(h) == OpenForReadWrite(h, "f", TRUE)
      host == opened(opened(OpenForWrite(Host, "f")))
      start == OpenFile(OpenFile([h |-> host, objects |-> <<>>], 2), 3)
      s[k \in 0..Len(calls)] == IF k = 0 THEN start ELSE Call(s[k - 1], calls[k])
      m[k \in 0..Len(calls)] ==
        IF k = 0 THEN [file |-> <<>>, name |-> "this", offsets |-> <<0, 0>>,
                  result |-> start.h.result]
        ELSE Meant(m[k - 1], calls[k])
  IN  \A k \in 1..Len(calls) :
        /\ s[k].h.result = m[k].result /\ ~s[k].h.abort
        /\ Bytes(s[k].h, 2) = m[k].file

\* A disk whose file was created whole gives back what was written last to each
\* sector, zeros at first, also after a restart. A stop before the last call of
\* the creation leaves a file that no later start can use, or one whose sectors
\* cannot be read.
DiskKept(writes, k) ==
  LET created == NewDisk(Host, k)
      write(h, w) == WriteRequest(h, w[1], w[2])
      written == FoldLeft(write, NewDisk(created, 4), writes)
      again == NewDisk(written, 4)
      last[n \in 0..Len(writes)] ==
        IF n = 0 THEN [sector \in 0..(NumSectors - 1) |-> [j \in 1..SectorSize |-> 0]]
        ELSE [last[n - 1] EXCEPT ![writes[n][1]] = writes[n][2]]
      read(sector) == ReadRequest(again, sector)
  IN  CASE k \in {1, 4} -> \A sector \in 0..(NumSectors - 1) :
                              ~read(sector).abort /\ read(sector).result = last[Len(writes)][sector]
        [] k = 2 -> NewDisk(created, 4).abort
        [] k = 3 -> ~NewDisk(created, 4).abort /\ ReadRequest(NewDisk(created, 4), NumSectors - 1).abort
===============================================================================
