------------------------------- MODULE OpenFile -------------------------------
(***************************************************************************)
(* Reading and writing part of a file. FileSystem's files are read and     *)
(* written a sector at a time (filesys/openfile.cc); in the stub build a   *)
(* file is a file of the host (filesys/openfile.h).                        *)
(*                                                                         *)
(* A file is a record: "len" is its length in bytes; "bytes" is what its   *)
(* sectors hold, which may be more, or what the host holds.                *)
(***************************************************************************)
EXTENDS Integers, Sequences

CONSTANTS SectorSize,  \* bytes of a sector
          Junk         \* a byte of a buffer that nobody has written

ASSUME SectorSizeAssumption == SectorSize \in Nat \ {0}

LOCAL Least(x, y) == IF x < y THEN x ELSE y

\* The part of a request that lies inside the file.
Clipped(file, n, position) ==
  IF n <= 0 \/ position >= file.len THEN 0 ELSE Least(n, file.len - position)

\* What ReadAt copies out of the sectors it has read.
ReadAt(file, n, position) ==
  SubSeq(file.bytes, position + 1, position + Clipped(file, n, position))

\* The sectors of a request.
Touched(n, position) ==
  (position \div SectorSize)..((position + n - 1) \div SectorSize)

\* A slip: a request inside one sector is taken for one that needs nothing at
\* the end.
EdgesOfLong(n, position) ==
  LET first == position \div SectorSize
      last  == (position + n - 1) \div SectorSize
  IN  (IF position = first * SectorSize THEN {} ELSE {first})
        \cup (IF position + n = (last + 1) * SectorSize \/ first = last THEN {} ELSE {last})

\* The first and the last of them, which WriteAt reads because it will not
\* overwrite the whole sector.
EdgeSectors(n, position) ==
  LET first        == position \div SectorSize
      last         == (position + n - 1) \div SectorSize
      firstAligned == position = first * SectorSize
      lastAligned  == position + n = (last + 1) * SectorSize
  IN  (IF firstAligned THEN {} ELSE {first})
        \cup (IF lastAligned \/ (first = last /\ ~firstAligned) THEN {} ELSE {last})

\* The bytes these reads bring in; ReadAt stops at the end of the file.
Preserved(file, n, position) ==
  {i \in 0..(file.len - 1) : i \div SectorSize \in EdgeSectors(n, position)}

\* The sectors of a request go through a buffer that holds the preserved bytes,
\* the bytes to write, and else whatever memory held.
WriteAt(file, from, position) ==
  LET n    == Clipped(file, Len(from), position)
      kept == Preserved(file, n, position)
      byte(i) == IF i \in position..(position + n - 1) THEN from[i - position + 1]
                 ELSE IF i \in kept THEN file.bytes[i + 1]
                 ELSE IF i \div SectorSize \in Touched(n, position) THEN Junk
                 ELSE file.bytes[i + 1]
  IN  IF n = 0 THEN file
      ELSE [file EXCEPT !.bytes = [j \in 1..Len(file.bytes) |-> byte(j - 1)]]

\* A write to a file of the host: it grows, and a gap before the first byte
\* written is filled with zeros.
HostWrite(file, from, position) ==
  LET end  == position + Len(from)
      size == IF file.len > end THEN file.len ELSE end
  IN  [len   |-> size,
       bytes |-> [j \in 1..size |->
                    IF j > position /\ j <= end THEN from[j - position]
                    ELSE IF j <= file.len THEN file.bytes[j] ELSE 0]]
===============================================================================
