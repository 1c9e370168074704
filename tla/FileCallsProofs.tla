---------------------------- MODULE FileCallsProofs ----------------------------
(***************************************************************************)
(* Proofs about FileCalls, for any number of processes, files, addresses   *)
(* and descriptors: the types, the ownership of open files, that only a    *)
(* call on a descriptor that is not open can corrupt memory, and what the  *)
(* writes of several processes leave of a file, whatever the order of      *)
(* their reads and writes of sectors; and about EarlyFiles: what the       *)
(* descriptors of the stage before name, whichever order the build         *)
(* evaluates an assignment in.                                             *)
(***************************************************************************)
EXTENDS FileCalls, EarlyFiles, TLAPS

Contents == Bytes \cup {Junk}

Requests ==
  [fd : Descriptors, file : Names \cup {NULL}, pos : 0..MaxLen, from : Seq(Bytes),
   buf : Seq(Contents), reads : SUBSET Int, puts : SUBSET Int, stale : SUBSET Int]

\* A write is to a file of the native file system that is there, and fits.
Fits(p) ==
  /\ ~stub /\ writing[p].file \in Names
  /\ Len(writing[p].buf) = Len(files[writing[p].file].bytes)
  /\ writing[p].pos + Len(writing[p].from) <= files[writing[p].file].len

CallsTyped ==
  /\ writing \in [Procs -> Requests]
  /\ \A p \in Procs : writing[p].reads \subseteq writing[p].puts
  /\ \A p \in Procs : InCall(p) => Fits(p)

\* The types, with what the steps need beyond FCTypeOK: the bytes of a file are
\* there, and an address without a file is a freed one.
FCTyped ==
  /\ stub \in BOOLEAN /\ sound \in BOOLEAN /\ wild \in BOOLEAN
  /\ files \in [Names -> [len : -1..MaxLen, bytes : Seq(Contents)]]
  /\ \A n \in Names : files[n].len <= Len(files[n].bytes)
  /\ heap \in [Addresses -> [file : Names \cup {NULL}, offset : 0..MaxLen]]
  /\ \A a \in Addresses : heap[a].file = NULL => heap[a] = Freed
  /\ flags \in [Procs -> SUBSET Descriptors]
  /\ list \in [Procs -> [FileDescriptors ->
                 [pFile : Addresses \cup {NULL, Unset}, type : {0, 1, Unset}]]]
  /\ CallsTyped

-------------------------------------------------------------------------------
(* Files *)

\* Sectors are intervals.
LEMMA SectorBounds ==
  ASSUME NEW x \in Nat
  PROVE  /\ x \div SectorSize \in Nat
         /\ (x \div SectorSize) * SectorSize <= x
         /\ x < ((x \div SectorSize) + 1) * SectorSize
  BY SectorSizeAssumption, Z3

LEMMA SectorOrder ==
  ASSUME NEW q \in Nat, NEW r \in Nat, q < r
  PROVE  (q + 1) * SectorSize <= r * SectorSize
  BY SectorSizeAssumption, Z3

\* A request that is cut to the file does not reach past its end.
LEMMA ClippedFits ==
  ASSUME NEW file \in [len : -1..MaxLen, bytes : Seq(Contents)], NEW n \in Int,
         NEW position \in 0..MaxLen
  PROVE  /\ Clipped(file, n, position) \in Nat
         /\ position + Clipped(file, n, position) \in 0..MaxLen
         /\ n >= 0 => Clipped(file, n, position) <= n
  BY FCAssumption DEF Clipped

\* Writing to a host file keeps it a file that holds what its length says.
LEMMA HostWriteTyped ==
  ASSUME NEW file \in [len : -1..MaxLen, bytes : Seq(Contents)],
         file.len <= Len(file.bytes),
         NEW from \in Seq(Bytes), NEW position \in 0..MaxLen,
         position + Len(from) <= MaxLen
  PROVE  LET w == HostWrite(file, from, position)
         IN  /\ w \in [len : -1..MaxLen, bytes : Seq(Contents)]
             /\ w.len <= Len(w.bytes)
  <1> DEFINE end == position + Len(from)
             size == IF file.len > end THEN file.len ELSE end
             byte(j) == IF j > position /\ j <= end THEN from[j - position]
                        ELSE IF j <= file.len THEN file.bytes[j] ELSE 0
             bytes == [j \in 1..size |-> byte(j)]
  <1>1. size \in 0..MaxLen
    BY FCAssumption
  <1>2. \A j \in 1..size : byte(j) \in Contents
    <2> SUFFICES ASSUME NEW j \in 1..size PROVE byte(j) \in Contents
      OBVIOUS
    <2>1. CASE j > position /\ j <= end
      BY <2>1 DEF Contents
    <2>2. CASE ~(j > position /\ j <= end) /\ j <= file.len
      <3>1. file.bytes[j] \in Contents
        BY <2>2, <1>1
      <3> QED BY <3>1, <2>2
    <2>3. CASE ~(j > position /\ j <= end) /\ ~(j <= file.len)
      BY <2>3, FCAssumption DEF Contents
    <2> QED BY <2>1, <2>2, <2>3
  <1>3. bytes \in Seq(Contents) /\ Len(bytes) = size
    <2> HIDE DEF size, byte
    <2> QED BY <1>1, <1>2
  <1>4. HostWrite(file, from, position) = [len |-> size, bytes |-> bytes]
    BY DEF HostWrite
  <1> HIDE DEF size, bytes
  <1> QED BY <1>1, <1>3, <1>4

\* The sectors that are read are among those that are written.
LEMMA EdgesTouched ==
  ASSUME NEW n \in Nat \ {0}, NEW position \in Nat
  PROVE  /\ EdgeSectors(n, position) \subseteq Touched(n, position)
         /\ Touched(n, position) \subseteq Int
  <1> DEFINE first == position \div SectorSize
             last == (position + n - 1) \div SectorSize
  <1>1. /\ first \in Nat /\ first * SectorSize <= position
        /\ last \in Nat /\ position + n - 1 < (last + 1) * SectorSize
    BY SectorBounds
  <1>2. first <= last
    <2> SUFFICES ASSUME last < first PROVE FALSE
      BY <1>1
    <2>1. (last + 1) * SectorSize <= first * SectorSize
      BY <1>1, SectorOrder
    <2>2. (last + 1) * SectorSize \in Int /\ first * SectorSize \in Int
      BY <1>1, SectorSizeAssumption
    <2> HIDE DEF first, last
    <2> QED BY <1>1, <2>1, <2>2
  <1>3. EdgeSectors(n, position) \subseteq {first, last}
    BY DEF EdgeSectors
  <1>4. Touched(n, position) = first..last
    BY DEF Touched
  <1> HIDE DEF first, last
  <1> QED BY <1>1, <1>2, <1>3, <1>4

\* A sector written to the disk replaces bytes of the file by bytes of the request
\* or of the buffer.
LEMMA WithSectorTyped ==
  ASSUME NEW bytes \in Seq(Contents), NEW s, NEW w \in Requests, Len(w.buf) = Len(bytes)
  PROVE  /\ WithSector(bytes, s, w) \in Seq(Contents)
         /\ Len(WithSector(bytes, s, w)) = Len(bytes)
         /\ \A j \in 1..Len(bytes) : WithSector(bytes, s, w)[j] =
              IF ~InSector(j, s) THEN bytes[j]
              ELSE IF j \in (w.pos + 1)..(w.pos + Len(w.from)) THEN w.from[j - w.pos]
              ELSE w.buf[j]
  <1> DEFINE byte(j) == IF ~InSector(j, s) THEN bytes[j]
                        ELSE IF j \in (w.pos + 1)..(w.pos + Len(w.from)) THEN w.from[j - w.pos]
                        ELSE w.buf[j]
  <1>1. WithSector(bytes, s, w) = [j \in 1..Len(bytes) |-> byte(j)]
    BY DEF WithSector
  <1>2. w.pos \in Int /\ w.from \in Seq(Bytes) /\ w.buf \in Seq(Contents) /\ Len(bytes) \in Nat
    BY DEF Requests
  <1>3. ASSUME NEW j \in 1..Len(bytes) PROVE byte(j) \in Contents
    <2>1. bytes[j] \in Contents /\ w.buf[j] \in Contents
      BY <1>2
    <2>2. ASSUME j \in (w.pos + 1)..(w.pos + Len(w.from)) PROVE w.from[j - w.pos] \in Contents
      BY <1>2, <2>2 DEF Contents
    <2> QED BY <2>1, <2>2
  <1> HIDE DEF byte
  <1>4. [j \in 1..Len(bytes) |-> byte(j)] \in Seq(Contents)
        /\ Len([j \in 1..Len(bytes) |-> byte(j)]) = Len(bytes)
    BY <1>2, <1>3
  <1>5. \A j \in 1..Len(bytes) : WithSector(bytes, s, w)[j] = byte(j)
    BY <1>1
  <1> QED BY <1>1, <1>4, <1>5 DEF byte

\* The kernel's copy of a user's buffer is as long as the buffer.
LEMMA FromUserTyped ==
  ASSUME NEW m \in Nat, NEW buffer \in [1..m -> Bytes]
  PROVE  FromUser(buffer) \in Seq(Bytes) /\ Len(FromUser(buffer)) = m
  <1>1. buffer \in Seq(Bytes) /\ Len(buffer) = m
    OBVIOUS
  <1> QED BY <1>1, FCAssumption DEF FromUser

-------------------------------------------------------------------------------
(* Types *)

\* The size of a file that was copied to the native file system.
LEMMA SectoredTyped ==
  /\ Sectored(FixedLen) \in [len : -1..MaxLen, bytes : Seq(Contents)]
  /\ Sectored(FixedLen).len <= Len(Sectored(FixedLen).bytes)
  /\ \A i \in DOMAIN Sectored(FixedLen).bytes : Sectored(FixedLen).bytes[i] # Junk
  <1> DEFINE sectors == (FixedLen + SectorSize - 1) \div SectorSize
             bytes == [i \in 1..(sectors * SectorSize) |-> 0]
  <1>1. sectors \in Nat
    BY FCAssumption, SectorSizeAssumption
  <1>2. sectors * SectorSize \in Nat
    <2> HIDE DEF sectors
    <2> QED BY <1>1, SectorSizeAssumption
  <1>3. /\ bytes \in Seq(Contents) /\ Len(bytes) = sectors * SectorSize
        /\ \A i \in DOMAIN bytes : bytes[i] # Junk
    <2> HIDE DEF sectors
    <2> QED BY <1>2, FCAssumption DEF Contents
  <1>4. Sectored(FixedLen) = [len |-> FixedLen, bytes |-> bytes]
    BY DEF Sectored
  <1>5. FixedLen <= sectors * SectorSize
    <2>1. FixedLen + SectorSize - 1 \in Nat
      BY FCAssumption, SectorSizeAssumption
    <2>2. FixedLen + SectorSize - 1 < (sectors + 1) * SectorSize
      BY <2>1, SectorBounds
    <2>3. (sectors + 1) * SectorSize = sectors * SectorSize + SectorSize
      <3> HIDE DEF sectors
      <3> QED BY <1>1, SectorSizeAssumption
    <2> HIDE DEF sectors
    <2> QED BY <1>2, <2>2, <2>3, FCAssumption, SectorSizeAssumption
  <1> HIDE DEF bytes, sectors
  <1> QED BY <1>3, <1>4, <1>5, FCAssumption

LEMMA InitTyped == Init => FCTyped
  <1> SUFFICES ASSUME Init PROVE FCTyped
    OBVIOUS
  <1>1. Absent \in [len : -1..MaxLen, bytes : Seq(Contents)] /\ Absent.len <= Len(Absent.bytes)
    BY FCAssumption DEF Absent
  <1>2. Empty \in [len : -1..MaxLen, bytes : Seq(Contents)] /\ Empty.len <= Len(Empty.bytes)
    BY FCAssumption DEF Empty
  <1>3. files \in [Names -> [len : -1..MaxLen, bytes : Seq(Contents)]]
    BY <1>1, <1>2, SectoredTyped DEF Init
  <1>4. \A n \in Names : files[n].len <= Len(files[n].bytes)
    BY <1>1, <1>2, SectoredTyped DEF Init
  <1>5. heap \in [Addresses -> [file : Names \cup {NULL}, offset : 0..MaxLen]]
        /\ \A a \in Addresses : heap[a].file = NULL => heap[a] = Freed
    BY FCAssumption DEF Init, Freed
  <1>6. NotWriting \in Requests /\ NotWriting.reads \subseteq NotWriting.puts /\ NotWriting.puts = {}
    BY FCAssumption DEF NotWriting, Requests, Descriptors
  <1>7. CallsTyped
    BY <1>6 DEF Init, InCall, CallsTyped
  <1> QED
    BY <1>3, <1>4, <1>5, <1>7 DEF Init, FCTyped

\* The steps that leave the writes alone, and the files they are to.
LEMMA CallsKept ==
  ASSUME FCTyped, writing' = writing, stub' = stub,
         \A f \in Names : ~stub /\ files[f].len >= 0 => files'[f] = files[f]
  PROVE  CallsTyped'
  <1> SUFFICES ASSUME NEW p \in Procs, InCall(p)
               PROVE  Fits(p)'
    BY DEF FCTyped, CallsTyped, InCall
  <1>1. /\ Fits(p) /\ writing[p].file \in Names
        /\ writing[p].pos \in Nat /\ Len(writing[p].from) \in Nat
    BY FCAssumption DEF FCTyped, CallsTyped, Fits, Requests
  <1>2. files[writing[p].file].len >= 0
    <2> DEFINE pos == writing[p].pos
               n == Len(writing[p].from)
               len == files[writing[p].file].len
    <2>1. len \in Int /\ pos + n <= len /\ pos \in Nat /\ n \in Nat
      BY <1>1, FCAssumption DEF FCTyped, Fits
    <2> HIDE DEF pos, n, len
    <2>2. len >= 0
      BY <2>1
    <2> QED BY <2>2 DEF len
  <1>3. files'[writing[p].file] = files[writing[p].file]
    BY <1>1, <1>2 DEF Fits
  <1> QED BY <1>1, <1>3 DEF Fits

HeapTyped(h) ==
  /\ h \in [Addresses -> [file : Names \cup {NULL}, offset : 0..MaxLen]]
  /\ \A a \in Addresses : h[a].file = NULL => h[a] = Freed

\* A live object is of a file, and moving it leaves it live.
LEMMA LiveHasFile ==
  ASSUME FCTyped, NEW a, Live(a)
  PROVE  a \in Addresses /\ heap[a].file \in Names /\ heap[a].offset \in 0..MaxLen
  BY DEF FCTyped, Live

LEMMA MoveTyped ==
  ASSUME FCTyped, NEW a, Live(a), NEW offset \in 0..MaxLen
  PROVE  HeapTyped([heap EXCEPT ![a].offset = offset])
  <1>1. a \in Addresses /\ heap[a].file \in Names
    BY LiveHasFile
  <1>2. NULL \notin Names
    BY FCAssumption
  <1> QED BY <1>1, <1>2 DEF FCTyped, HeapTyped

LEMMA WildTyped ==
  ASSUME FCTyped, NEW soundNow \in BOOLEAN, GoWild(soundNow)
  PROVE  FCTyped'
  BY CallsKept DEF GoWild, FCTyped

LEMMA CloseTyped ==
  ASSUME FCTyped, NEW p \in Procs, NEW d, NEW heapNow, HeapTyped(heapNow),
         NEW soundNow \in BOOLEAN, Close(p, d, heapNow, soundNow)
  PROVE  FCTyped'
  <1> DEFINE a == IF d \in FileDescriptors THEN list[p][d].pFile ELSE NULL
  <1>1. CASE a # NULL /\ ~Live(a) /\ GoWild(soundNow /\ d \in flags[p])
    BY <1>1, WildTyped
  <1>2. CASE /\ heap' = IF Live(a) THEN [heapNow EXCEPT ![a] = Freed] ELSE heapNow
             /\ flags' = [flags EXCEPT ![p] = @ \ {d}]
             /\ sound' = (soundNow /\ (a = NULL \/ d \in flags[p]))
             /\ UNCHANGED <<stub, files, list, wild, writing>>
    <2>1. HeapTyped(heap')
      <3>1. Freed \in [file : Names \cup {NULL}, offset : 0..MaxLen]
        BY FCAssumption DEF Freed
      <3>2. Live(a) => a \in Addresses
        BY DEF Live
      <3> HIDE DEF a
      <3> QED BY <1>2, <3>1, <3>2 DEF HeapTyped
    <2>2. flags' \in [Procs -> SUBSET Descriptors]
      BY <1>2 DEF FCTyped
    <2>3. CallsTyped'
      BY <1>2, CallsKept
    <2> HIDE DEF a
    <2> QED BY <1>2, <2>1, <2>2, <2>3 DEF FCTyped, HeapTyped
  <1> QED BY <1>1, <1>2 DEF Close

RequestTyped(r, f) ==
  /\ r \in Requests /\ r.file = f /\ r.reads \subseteq r.puts
  /\ Len(r.buf) = Len(files[f].bytes) /\ r.pos + Len(r.from) <= files[f].len

\* What WriteAt starts with.
LEMMA RequestIs ==
  ASSUME NEW d \in Descriptors, NEW f \in Names, NEW from \in Seq(Bytes), NEW pos \in 0..MaxLen,
         files[f] \in [len : -1..MaxLen, bytes : Seq(Contents)],
         NEW n \in Nat \ {0}, n <= Len(from), n = Clipped(files[f], Len(from), pos)
  PROVE  RequestTyped(Request(d, f, SubSeq(from, 1, n), pos), f)
  <1> DEFINE part == SubSeq(from, 1, n)
             r == Request(d, f, part, pos)
  <1>1. part \in Seq(Bytes) /\ Len(part) = n
    OBVIOUS
  <1>2. pos \in Nat /\ pos + n <= files[f].len
    BY FCAssumption DEF Clipped
  <1>3. /\ [j \in DOMAIN files[f].bytes |-> Junk] \in Seq(Contents)
        /\ Len([j \in DOMAIN files[f].bytes |-> Junk]) = Len(files[f].bytes)
    <2> DEFINE b == files[f].bytes
    <2>1. b \in Seq(Contents) /\ Junk \in Contents
      BY DEF Contents
    <2> HIDE DEF b
    <2>2. DOMAIN b = 1..Len(b) /\ Len(b) \in Nat
      BY <2>1
    <2>3. [j \in DOMAIN b |-> Junk] \in Seq(Contents) /\ Len([j \in DOMAIN b |-> Junk]) = Len(b)
      BY <2>1, <2>2
    <2> QED BY <2>3 DEF b
  <1>4. EdgeSectors(n, pos) \subseteq Touched(n, pos) /\ Touched(n, pos) \subseteq Int
    BY <1>2, EdgesTouched
  <1> HIDE DEF part
  <1> QED BY <1>1, <1>2, <1>3, <1>4 DEF Request, RequestTyped, Requests

\* Another sector is in the buffer.
LEMMA ReadEdgeTyped ==
  ASSUME FCTyped, NEW p \in Procs, ReadEdge(p)
  PROVE  FCTyped'
  <1> DEFINE w == writing[p]
             f == files[w.file]
  <1>1. PICK s \in w.reads :
          writing' = [writing EXCEPT ![p].reads = @ \ {s},
                        ![p].buf = [j \in DOMAIN w.buf |->
                          IF InSector(j, s) /\ j <= f.len THEN f.bytes[j] ELSE w.buf[j]]]
    BY DEF ReadEdge
  <1>2. UNCHANGED <<stub, files, heap, flags, list, sound, wild>> /\ InCall(p)
    BY DEF ReadEdge
  <1>3. /\ w \in Requests /\ w.reads \subseteq w.puts /\ Fits(p) /\ w.file \in Names
        /\ f \in [len : -1..MaxLen, bytes : Seq(Contents)] /\ f.len <= Len(f.bytes)
        /\ w.buf \in Seq(Contents) /\ Len(w.buf) = Len(f.bytes)
    BY <1>2 DEF FCTyped, CallsTyped, Fits, Requests
  <1> DEFINE buf == [j \in DOMAIN w.buf |->
                       IF InSector(j, s) /\ j <= f.len THEN f.bytes[j] ELSE w.buf[j]]
  <1>4. buf \in Seq(Contents) /\ Len(buf) = Len(w.buf)
    <2>1. \A j \in 1..Len(w.buf) : f.bytes[j] \in Contents /\ w.buf[j] \in Contents
      BY <1>3
    <2>2. buf = [j \in 1..Len(w.buf) |-> buf[j]] /\ \A j \in 1..Len(w.buf) : buf[j] \in Contents
      BY <2>1, <1>3
    <2>3. Len(w.buf) \in Nat
      BY <1>3
    <2> HIDE DEF buf, w
    <2> QED BY <2>2, <2>3
  <1> HIDE DEF buf
  <1>5. writing' = [writing EXCEPT ![p] = [w EXCEPT !.reads = @ \ {s}, !.buf = buf]]
    BY <1>1 DEF buf
  <1>6. CallsTyped'
    BY <1>2, <1>3, <1>4, <1>5 DEF FCTyped, CallsTyped, InCall, Fits, Requests
  <1> QED BY <1>2, <1>6 DEF FCTyped

\* A sector is on the disk, and with the last of them the write is over.
LEMMA PutSectorKeeps ==
  ASSUME FCTyped, NEW p \in Procs, PutSector(p), NEW q \in Procs
  PROVE  /\ writing'[q] \in Requests /\ writing'[q].reads \subseteq writing'[q].puts
         /\ InCall(q)' => /\ InCall(q)
                          /\ writing'[q].fd = writing[q].fd
                          /\ writing'[q].file = writing[q].file
                          /\ writing'[q].buf = writing[q].buf
                          /\ writing'[q].pos = writing[q].pos
                          /\ writing'[q].from = writing[q].from
  <1> DEFINE w == writing[p]
  <1>1. PICK s \in w.puts :
          writing' = [r \in Procs |-> IF r = p THEN Wrote(w, s)
                                    ELSE Overtaken(writing[r], w, s)]
    BY DEF PutSector
  <1>2. w.reads = {} /\ InCall(p)
    BY DEF PutSector
  <1>3. s \in Int
    BY DEF FCTyped, CallsTyped, Requests
  <1>4. writing[q] \in Requests /\ writing[q].reads \subseteq writing[q].puts
    BY DEF FCTyped, CallsTyped
  <1>5. /\ NotWriting \in Requests /\ NotWriting.reads = {} /\ NotWriting.puts = {}
    BY FCAssumption DEF NotWriting, Requests, Descriptors
  <1>6. CASE q = p /\ w.puts = {s}
    <2>1. writing'[q] = NotWriting
      BY <1>1, <1>6 DEF Wrote
    <2> QED BY <1>5, <2>1 DEF InCall
  <1>7. CASE q = p /\ w.puts # {s}
    <2>1. writing'[q] = [w EXCEPT !.puts = @ \ {s}, !.stale = @ \ {s}]
      BY <1>1, <1>7 DEF Wrote
    <2>2. w = writing[q]
      BY <1>7
    <2>3. InCall(q) /\ w.reads = {}
      BY <1>2, <1>7
    <2> HIDE DEF w
    <2>4. w \in Requests
      BY <1>4, <2>2
    <2>5. /\ writing'[q] \in Requests /\ writing'[q].reads = {}
          /\ writing'[q].fd = w.fd /\ writing'[q].file = w.file /\ writing'[q].buf = w.buf
          /\ writing'[q].pos = w.pos /\ writing'[q].from = w.from
      BY <2>1, <2>3, <2>4 DEF Requests
    <2> QED BY <2>2, <2>3, <2>5
  <1>8. CASE q # p
    <2>1. \/ writing'[q] = writing[q]
          \/ writing'[q] = [writing[q] EXCEPT !.stale = @ \cup {s}]
      BY <1>1, <1>8 DEF Overtaken
    <2> HIDE DEF w
    <2> QED BY <1>3, <1>4, <2>1 DEF InCall, Requests
  <1> QED BY <1>6, <1>7, <1>8

LEMMA PutSectorTyped ==
  ASSUME FCTyped, NEW p \in Procs, PutSector(p)
  PROVE  FCTyped'
  <1> DEFINE w == writing[p]
             f == files[w.file]
  <1>1. PICK s \in w.puts :
          /\ files' = [files EXCEPT ![w.file].bytes = WithSector(@, s, w)]
          /\ writing' = [q \in Procs |-> IF q = p THEN Wrote(w, s)
                                    ELSE Overtaken(writing[q], w, s)]
          /\ IF w.puts = {s}
             THEN /\ heap[Object(p)].offset + Len(w.from) <= MaxLen
                  /\ heap' = [heap EXCEPT ![Object(p)].offset = @ + Len(w.from)]
             ELSE UNCHANGED heap
    BY DEF PutSector
  <1>2. /\ UNCHANGED <<stub, flags, list, sound, wild>> /\ InCall(p) /\ ~Deleted(p)
        /\ w.reads = {}
    BY DEF PutSector
  <1>3. /\ w \in Requests /\ Fits(p) /\ w.file \in Names /\ s \in Int
        /\ f \in [len : -1..MaxLen, bytes : Seq(Contents)] /\ f.len <= Len(f.bytes)
        /\ Len(w.buf) = Len(f.bytes) /\ Len(w.from) \in Nat
    BY <1>2 DEF FCTyped, CallsTyped, Fits, Requests
  <1>4. /\ WithSector(f.bytes, s, w) \in Seq(Contents)
        /\ Len(WithSector(f.bytes, s, w)) = Len(f.bytes)
    BY <1>3, WithSectorTyped
  <1> DEFINE g == [f EXCEPT !.bytes = WithSector(f.bytes, s, w)]
  <1>5. files' = [files EXCEPT ![w.file] = g]
    BY <1>1
  <1>6. /\ g \in [len : -1..MaxLen, bytes : Seq(Contents)]
        /\ g.len = f.len /\ Len(g.bytes) = Len(f.bytes)
    BY <1>3, <1>4
  <1>7. /\ files' \in [Names -> [len : -1..MaxLen, bytes : Seq(Contents)]]
        /\ \A n \in Names : /\ files'[n].len = files[n].len
                            /\ Len(files'[n].bytes) = Len(files[n].bytes)
    <2> HIDE DEF g
    <2> QED BY <1>3, <1>5, <1>6 DEF FCTyped
  <1>8. HeapTyped(heap')
    <2>1. CASE w.puts # {s}
      BY <1>1, <2>1 DEF FCTyped, HeapTyped
    <2>2. CASE w.puts = {s}
      <3> DEFINE a == Object(p)
                 to == heap[a].offset + Len(w.from)
      <3>1. heap' = [heap EXCEPT ![a].offset = to] /\ to <= MaxLen
        BY <1>1, <2>2
      <3>2. CASE a \in Addresses
        <4>1. heap[a].file = w.file /\ NULL \notin Names /\ heap[a].offset \in 0..MaxLen
          BY <1>2, <3>2, FCAssumption DEF Deleted, FCTyped
        <4>2. Live(a) /\ to \in 0..MaxLen
          <5> HIDE DEF a, w
          <5> QED BY <1>3, <3>1, <3>2, <4>1, FCAssumption DEF Live, Freed
        <4> QED BY <3>1, <4>2, MoveTyped
      <3>3. CASE a \notin Addresses
        <4>1. heap' = heap
          <5> HIDE DEF a, to
          <5> QED BY <3>1, <3>3 DEF FCTyped
        <4> QED BY <4>1 DEF FCTyped, HeapTyped
      <3> QED BY <3>2, <3>3
    <2> QED BY <2>1, <2>2
  <1>9. \A q \in Procs :
          /\ writing'[q] \in Requests /\ writing'[q].reads \subseteq writing'[q].puts
          /\ InCall(q)' => /\ InCall(q)
                           /\ writing'[q].file = writing[q].file
                           /\ writing'[q].buf = writing[q].buf
                           /\ writing'[q].pos = writing[q].pos
                           /\ writing'[q].from = writing[q].from
    BY PutSectorKeeps
  <1>10. CallsTyped'
    <2>1. writing' \in [Procs -> Requests]
      <3>1. writing' = [q \in Procs |-> writing'[q]]
        BY <1>1
      <3> QED BY <1>9, <3>1
    <2>2. ASSUME NEW q \in Procs, InCall(q)' PROVE Fits(q)'
      <3>1. Fits(q) /\ writing[q].file \in Names
        BY <1>9, <2>2 DEF FCTyped, CallsTyped, Fits
      <3> QED BY <1>2, <1>7, <1>9, <2>2, <3>1 DEF Fits
    <2> QED BY <1>9, <2>1, <2>2 DEF CallsTyped
  <1> QED BY <1>2, <1>7, <1>8, <1>10 DEF FCTyped, HeapTyped

LEMMA StepTyped == FCTyped /\ [Next]_fvars => FCTyped'
  <1> SUFFICES ASSUME FCTyped, [Next]_fvars PROVE FCTyped'
    OBVIOUS
  <1>1. CASE UNCHANGED fvars
    BY <1>1, CallsKept DEF FCTyped, fvars
  <1>2. ASSUME NEW p \in Procs, NEW n \in Names, CreateF(p, n) PROVE FCTyped'
    <2>1. Empty \in [len : -1..MaxLen, bytes : Seq(Contents)] /\ Empty.len <= Len(Empty.bytes)
      BY FCAssumption DEF Empty
    <2>2. CallsTyped'
      BY <1>2, CallsKept DEF CreateF, FCTyped, Absent
    <2> QED BY <1>2, <2>1, <2>2 DEF CreateF, FCTyped
  <1>3. ASSUME NEW p \in Procs, CreateFBadName(p) PROVE FCTyped'
    BY <1>3, WildTyped DEF CreateFBadName
  <1>4. ASSUME NEW p \in Procs, NEW d \in {0, 1}, OpenConsole(p, d) PROVE FCTyped'
    <2>1. d \in Descriptors
      BY FCAssumption DEF Descriptors
    <2>2. CallsTyped'
      BY <1>4, CallsKept DEF OpenConsole
    <2> QED BY <1>4, <2>1, <2>2 DEF OpenConsole, FCTyped
  <1>5. ASSUME NEW p \in Procs, NEW n \in Names, NEW type \in {0, 1}, OpenF(p, n, type)
        PROVE  FCTyped'
    <2>1. PICK d \in Vacant(p), a \in Addresses :
            /\ heap' = [heap EXCEPT ![a] = [file |-> n, offset |-> 0]]
            /\ list' = [list EXCEPT ![p][d] = [pFile |-> a, type |-> type]]
            /\ flags' = [flags EXCEPT ![p] = @ \cup {d}]
      BY <1>5 DEF OpenF
    <2>2. d \in FileDescriptors
      BY DEF Vacant
    <2>3. heap' \in [Addresses -> [file : Names \cup {NULL}, offset : 0..MaxLen]]
          /\ \A b \in Addresses : heap'[b].file = NULL => heap'[b] = Freed
      BY <2>1, FCAssumption DEF FCTyped
    <2>4. list' \in [Procs -> [FileDescriptors ->
                     [pFile : Addresses \cup {NULL, Unset}, type : {0, 1, Unset}]]]
      BY <2>1, <2>2 DEF FCTyped
    <2>5. flags' \in [Procs -> SUBSET Descriptors]
      BY <2>1, <2>2 DEF FCTyped, FileDescriptors, Descriptors
    <2>6. CallsTyped'
      BY <1>5, CallsKept DEF OpenF
    <2> QED BY <1>5, <2>3, <2>4, <2>5, <2>6 DEF OpenF, FCTyped
  <1>6. ASSUME NEW p \in Procs, NEW n \in Names, NEW type \in {0, 1}, OpenFMissing(p, n, type)
        PROVE  FCTyped'
    <2>1. PICK d \in Vacant(p) : list' = [list EXCEPT ![p][d] = [pFile |-> NULL, type |-> type]]
      BY <1>6 DEF OpenFMissing
    <2>2. d \in FileDescriptors
      BY DEF Vacant
    <2>3. CallsTyped'
      BY <1>6, CallsKept DEF OpenFMissing
    <2> QED BY <1>6, <2>1, <2>2, <2>3 DEF OpenFMissing, FCTyped
  <1>7. ASSUME NEW p \in Procs, NEW d \in Descriptors, CloseF(p, d) PROVE FCTyped'
    <2>1. HeapTyped(heap) /\ sound \in BOOLEAN
      BY DEF FCTyped, HeapTyped
    <2> QED BY <1>7, <2>1, CloseTyped DEF CloseF
  <1>8. ASSUME NEW p \in Procs, NEW d \in Descriptors, NEW size \in 1..MaxLen, ReadF(p, size, d)
        PROVE  FCTyped'
    <2> DEFINE a == list[p][d].pFile
               n == Clipped(files[heap[a].file], size, heap[a].offset)
    <2>1. CASE ~Live(a)
      BY <1>8, <2>1, WildTyped DEF ReadF, FCTyped
    <2>2. CASE Live(a)
      <3>1. heap[a].offset + n \in 0..MaxLen
        BY <2>2, LiveHasFile, ClippedFits DEF FCTyped
      <3>2. HeapTyped([heap EXCEPT ![a].offset = heap[a].offset + n])
        BY <2>2, <3>1, MoveTyped
      <3>3. heap' = [heap EXCEPT ![a].offset = heap[a].offset + n]
            /\ UNCHANGED <<stub, files, flags, list, sound, wild, writing>>
        BY <1>8, <2>2 DEF ReadF
      <3>4. CallsTyped'
        BY <3>3, CallsKept
      <3> HIDE DEF a, n
      <3> QED BY <3>2, <3>3, <3>4 DEF FCTyped, HeapTyped
    <2> QED BY <2>1, <2>2
  <1>9. ASSUME NEW p \in Procs, NEW d \in Descriptors, NEW m \in 1..MaxLen,
               NEW buffer \in [1..m -> Bytes], WriteF(p, buffer, d)
        PROVE  FCTyped'
    <2> DEFINE a == list[p][d].pFile
               f == heap[a].file
               from == FromUser(buffer)
               pos == heap[a].offset
    <2>1. CASE ~Live(a)
      BY <1>9, <2>1, WildTyped DEF WriteF, FCTyped
    <2>2. from \in Seq(Bytes) /\ Len(from) = m /\ m \in Nat
      BY FromUserTyped, FCAssumption
    <2>3. CASE Live(a) /\ stub
      <3>1. /\ pos + Len(from) <= MaxLen
            /\ files' = [files EXCEPT ![f] = HostWrite(files[f], from, pos)]
            /\ heap' = [heap EXCEPT ![a].offset = pos + Len(from)]
            /\ UNCHANGED <<stub, flags, list, sound, wild, writing>>
        BY <1>9, <2>3 DEF WriteF
      <3>2. a \in Addresses /\ f \in Names /\ pos \in 0..MaxLen
        BY <2>3, LiveHasFile
      <3>3. files[f] \in [len : -1..MaxLen, bytes : Seq(Contents)]
            /\ files[f].len <= Len(files[f].bytes)
        BY <3>2 DEF FCTyped
      <3> DEFINE written == HostWrite(files[f], from, pos)
      <3>4. written \in [len : -1..MaxLen, bytes : Seq(Contents)]
            /\ written.len <= Len(written.bytes)
        <4> HIDE DEF f, from, pos
        <4> QED BY <3>1, <3>2, <2>2, <3>3, HostWriteTyped DEF written
      <3>5. HeapTyped([heap EXCEPT ![a].offset = pos + Len(from)])
        <4>1. pos + Len(from) \in 0..MaxLen
          <5> HIDE DEF pos, from
          <5> QED BY <3>1, <3>2, <2>2, FCAssumption
        <4> QED BY <2>3, <4>1, MoveTyped
      <3>6. CallsTyped'
        BY <2>3, <3>1, CallsKept
      <3>7. HeapTyped(heap') /\ UNCHANGED <<stub, flags, list, sound, wild>>
        BY <3>1, <3>5
      <3> HIDE DEF a, f, from, pos, written
      <3>8. /\ files' \in [Names -> [len : -1..MaxLen, bytes : Seq(Contents)]]
            /\ \A n \in Names : files'[n].len <= Len(files'[n].bytes)
        <4>1. files' = [files EXCEPT ![f] = written]
          BY <3>1 DEF written
        <4>2. ASSUME NEW n \in Names
              PROVE  /\ files'[n] \in [len : -1..MaxLen, bytes : Seq(Contents)]
                     /\ files'[n].len <= Len(files'[n].bytes)
          <5>1. CASE n = f
            BY <3>2, <3>4, <4>1, <5>1 DEF FCTyped
          <5>2. CASE n # f
            BY <4>1, <5>2 DEF FCTyped
          <5> QED BY <5>1, <5>2
        <4> QED BY <4>1, <4>2 DEF FCTyped
      <3>9. /\ stub' \in BOOLEAN /\ sound' \in BOOLEAN /\ wild' \in BOOLEAN
            /\ flags' \in [Procs -> SUBSET Descriptors]
            /\ list' \in [Procs -> [FileDescriptors ->
                           [pFile : Addresses \cup {NULL, Unset}, type : {0, 1, Unset}]]]
        BY <3>7 DEF FCTyped
      <3> QED BY <3>6, <3>7, <3>8, <3>9, Zenon DEF FCTyped, HeapTyped
    <2>4. CASE Live(a) /\ ~stub
      <3> DEFINE n == Clipped(files[f], Len(from), pos)
                 r == Request(d, f, SubSeq(from, 1, n), pos)
      <3>1. /\ n > 0
            /\ writing' = [writing EXCEPT ![p] = r]
            /\ UNCHANGED <<stub, files, heap, flags, list, sound, wild>>
        BY <1>9, <2>4 DEF WriteF
      <3>2. f \in Names /\ pos \in 0..MaxLen
        BY <2>4, LiveHasFile
      <3>3. files[f] \in [len : -1..MaxLen, bytes : Seq(Contents)]
        BY <3>2 DEF FCTyped
      <3> HIDE DEF f, pos, from
      <3>4. n \in Nat \ {0} /\ n <= Len(from)
        BY <2>2, <3>1, <3>2, <3>3, ClippedFits
      <3>5. RequestTyped(r, f)
        BY <2>2, <3>2, <3>3, <3>4, RequestIs
      <3>6. CallsTyped'
        <4> HIDE DEF r
        <4>1. ASSUME NEW q \in Procs, q # p PROVE writing'[q] = writing[q]
          BY <3>1, <4>1 DEF FCTyped, CallsTyped
        <4>2. writing'[p] = r /\ r \in Requests /\ r.reads \subseteq r.puts
          BY <3>1, <3>5 DEF FCTyped, CallsTyped, RequestTyped
        <4>3. writing' \in [Procs -> Requests]
          BY <3>1, <4>2 DEF FCTyped, CallsTyped
        <4>4. Fits(p)'
          BY <2>4, <3>1, <3>2, <3>5, <4>2 DEF Fits, RequestTyped
        <4> QED
          BY <3>1, <4>1, <4>2, <4>3, <4>4 DEF FCTyped, CallsTyped, InCall, Fits
      <3> QED BY <3>1, <3>6 DEF FCTyped
    <2> QED BY <2>1, <2>3, <2>4
  <1>10. ASSUME NEW p \in Procs, NEW d \in FileDescriptors, NEW position \in 0..MaxLen,
                SeekF(p, position, d)
         PROVE  FCTyped'
    <2>1. sound \in BOOLEAN
      BY DEF FCTyped
    <2>2. CASE Live(list[p][d].pFile)
      <3>1. HeapTyped([heap EXCEPT ![list[p][d].pFile].offset = position])
        BY <2>2, MoveTyped
      <3> QED BY <1>10, <2>1, <2>2, <3>1, CloseTyped DEF SeekF
    <2>3. CASE ~Live(list[p][d].pFile)
      BY <1>10, <2>1, <2>3, WildTyped DEF SeekF
    <2> QED BY <2>2, <2>3
  <1>11. ASSUME NEW p \in Procs, ReadEdge(p) PROVE FCTyped'
    BY <1>11, ReadEdgeTyped
  <1>12. ASSUME NEW p \in Procs, PutSector(p) PROVE FCTyped'
    BY <1>12, PutSectorTyped
  <1>13. ASSUME NEW p \in Procs, WriteDeleted(p) PROVE FCTyped'
    BY <1>13, WildTyped DEF WriteDeleted, FCTyped
  <1> QED
    BY <1>1, <1>2, <1>3, <1>4, <1>5, <1>6, <1>7, <1>8, <1>9, <1>10, <1>11, <1>12, <1>13
       DEF Next

\* Every reachable state has these types.
THEOREM FCTypeCorrect == Spec => []FCTypeOK
  <1>1. Spec => []FCTyped
    BY InitTyped, StepTyped, PTL DEF Spec
  <1>2. FCTyped => FCTypeOK
    <2> SUFFICES ASSUME FCTyped PROVE FCTypeOK
      OBVIOUS
    <2>1. ASSUME NEW p \in Procs
          PROVE  /\ writing[p].fd \in Descriptors /\ writing[p].file \in Names \cup {NULL}
                 /\ writing[p].pos \in 0..MaxLen
                 /\ \A i \in DOMAIN writing[p].from : writing[p].from[i] \in Bytes
                 /\ \A i \in DOMAIN writing[p].buf : writing[p].buf[i] \in Bytes \cup {Junk}
                 /\ writing[p].reads \subseteq writing[p].puts
      BY DEF FCTyped, CallsTyped, Requests, Contents
    <2>2. ASSUME NEW n \in Names
          PROVE  /\ files[n].len \in -1..MaxLen
                 /\ \A i \in DOMAIN files[n].bytes : files[n].bytes[i] \in Bytes \cup {Junk}
      BY DEF FCTyped, Contents
    <2> QED BY <2>1, <2>2 DEF FCTyped, FCTypeOK
  <1> QED BY <1>1, <1>2, PTL

-------------------------------------------------------------------------------
(* Ownership of open files *)

\* Who owns what, apart from whether all calls were sound.
Owned ==
  /\ \A p \in Procs : \A d \in Opened(p) :
       /\ Live(list[p][d].pFile)
       /\ \A q \in Procs : \A e \in Opened(q) :
            list[q][e].pFile = list[p][d].pFile => p = q /\ d = e
  /\ \A a \in Addresses : Live(a) =>
       \E p \in Procs : \E d \in Opened(p) : list[p][d].pFile = a

\* Steps that leave the tables and the objects, but for an offset, as they are.
LEMMA OwnedKept ==
  ASSUME Owned, UNCHANGED <<flags, list>>,
         \A a \in Addresses : (heap'[a] = Freed) <=> (heap[a] = Freed)
  PROVE  Owned'
  BY DEF Owned, Opened, Live

LEMMA MoveKeepsLive ==
  ASSUME FCTyped, NEW a, Live(a), NEW offset
  PROVE  \A b \in Addresses : ([heap EXCEPT ![a].offset = offset][b] = Freed) <=> (heap[b] = Freed)
  <1>1. a \in Addresses /\ heap[a].file \in Names /\ NULL \notin Names
    BY LiveHasFile, FCAssumption
  <1> QED BY <1>1 DEF FCTyped, Freed, Live

LEMMA OwnedMove ==
  ASSUME FCTyped, Owned, NEW a, Live(a), NEW offset,
         heap' = [heap EXCEPT ![a].offset = offset], UNCHANGED <<flags, list>>
  PROVE  Owned'
  BY MoveKeepsLive, OwnedKept

\* A call that was not sound before is not sound after Close.
LEMMA CloseUnsound ==
  ASSUME NEW p, NEW d, NEW heapNow, NEW soundNow, ~soundNow, Close(p, d, heapNow, soundNow)
  PROVE  ~sound'
  BY DEF Close, GoWild

\* Close on a descriptor of one's own, or on nothing, takes one descriptor and
\* its object away, whatever heapNow says of their offsets.
LEMMA OwnedClose ==
  ASSUME FCTyped, Owned, NEW p \in Procs, NEW d, NEW heapNow, HeapTyped(heapNow),
         \A b \in Addresses : (heapNow[b] = Freed) <=> (heap[b] = Freed),
         NEW soundNow \in BOOLEAN, Close(p, d, heapNow, soundNow)
  PROVE  (sound' => Owned' /\ soundNow) /\ (wild' => wild \/ ~sound')
  <1> DEFINE a == IF d \in FileDescriptors THEN list[p][d].pFile ELSE NULL
  <1>0. /\ \A q \in Procs, e \in FileDescriptors : list[q][e].pFile # NULL \/ e \notin flags[q]
        /\ ~Live(NULL) /\ ~Live(Unset)
    BY FCAssumption DEF Owned, Opened, Live
  <1>1. CASE a # NULL /\ ~Live(a) /\ GoWild(soundNow /\ d \in flags[p])
    BY <1>1 DEF GoWild, Owned, Opened
  <1>2. CASE /\ a \in {NULL, Unset} \/ Live(a)
             /\ heap' = IF Live(a) THEN [heapNow EXCEPT ![a] = Freed] ELSE heapNow
             /\ flags' = [flags EXCEPT ![p] = @ \ {d}]
             /\ sound' = (soundNow /\ (a = NULL \/ d \in flags[p]))
             /\ UNCHANGED <<stub, files, list, wild, writing>>
    <2> SUFFICES ASSUME sound' PROVE Owned'
      BY <1>2
    <2>1. CASE Live(a)
      <3>1. d \in Opened(p) /\ a = list[p][d].pFile /\ a \in Addresses
        BY <1>0, <1>2, <2>1 DEF Opened, Live
      <3>2. \A b \in Addresses : Live(b)' <=> Live(b) /\ b # a
        BY <1>2, <2>1, <3>1 DEF Live, HeapTyped
      <3>3. \A q \in Procs : Opened(q)' = IF q = p THEN Opened(q) \ {d} ELSE Opened(q)
        BY <1>2 DEF Opened, FCTyped
      <3>4. \A q \in Procs : \A e \in Opened(q) : (q # p \/ e # d) => list[q][e].pFile # a
        BY <3>1 DEF Owned
      <3>5. list' = list /\ \A b : Live(b) => b \in Addresses
        BY <1>2 DEF Live
      <3> HIDE DEF a
      <3> QED
        BY <3>1, <3>2, <3>3, <3>4, <3>5 DEF Owned
    <2>2. CASE ~Live(a)
      <3>1. d \notin Opened(p)
        BY <2>2 DEF Owned, Opened
      <3>2. \A q \in Procs : Opened(q)' = Opened(q)
        BY <1>2, <3>1 DEF Opened, FCTyped
      <3>3. \A b \in Addresses : Live(b)' <=> Live(b)
        BY <1>2, <2>2 DEF Live
      <3>4. list' = list /\ \A b : Live(b) => b \in Addresses
        BY <1>2 DEF Live
      <3> HIDE DEF a
      <3> QED BY <3>2, <3>3, <3>4 DEF Owned
    <2> QED BY <2>1, <2>2
  <1> QED BY <1>1, <1>2 DEF Close

\* A write is through a descriptor that its process has opened for writing, and
\* the process cannot close it before the write is over.
CallsOpen ==
  \A p \in Procs : InCall(p) =>
    /\ writing[p].fd \in Opened(p) /\ list[p][writing[p].fd].type = 0
    /\ Object(p) \in Addresses

\* Its OpenFile is still that of the file.
CallsOwn == \A p \in Procs : InCall(p) => heap[Object(p)].file = writing[p].file

LEMMA OthersOpen ==
  ASSUME CallsOpen, UNCHANGED writing, NEW p \in Procs, ~InCall(p),
         \A q \in Procs : q # p => flags'[q] = flags[q] /\ list'[q] = list[q]
  PROVE  CallsOpen'
  <1> SUFFICES ASSUME NEW q \in Procs, InCall(q)
               PROVE  /\ writing[q].fd \in Opened(q)' /\ list'[q][writing[q].fd].type = 0
                      /\ list'[q][writing[q].fd].pFile \in Addresses
    BY DEF CallsOpen, InCall, Object
  <1>1. flags'[q] = flags[q] /\ list'[q] = list[q]
    OBVIOUS
  <1> QED BY <1>1 DEF CallsOpen, Opened, Object

LEMMA OthersOwn ==
  ASSUME CallsOwn, UNCHANGED writing, NEW p \in Procs, ~InCall(p),
         \A q \in Procs : q # p => list'[q] = list[q],
         \A q \in Procs : InCall(q) => heap'[Object(q)].file = heap[Object(q)].file
  PROVE  CallsOwn'
  <1> SUFFICES ASSUME NEW q \in Procs, InCall(q)
               PROVE  heap'[list'[q][writing[q].fd].pFile].file = writing[q].file
    BY DEF CallsOwn, InCall, Object
  <1>1. list'[q] = list[q]
    OBVIOUS
  <1> QED BY <1>1 DEF CallsOwn, Object

LEMMA SameCalls ==
  ASSUME CallsOpen, UNCHANGED <<flags, list, writing>>,
         \A a : heap'[a].file = heap[a].file
  PROVE  CallsOpen' /\ (CallsOwn => CallsOwn')
  BY DEF CallsOpen, CallsOwn, InCall, Object, Opened

LEMMA MoveCalls ==
  ASSUME FCTyped, CallsOpen, UNCHANGED <<flags, list, writing>>, NEW a, NEW offset,
         heap' = [heap EXCEPT ![a].offset = offset]
  PROVE  CallsOpen' /\ (CallsOwn => CallsOwn')
  <1>1. \A b \in Addresses : heap'[b].file = heap[b].file
    BY DEF FCTyped
  <1> QED BY <1>1 DEF CallsOpen, CallsOwn, InCall, Object, Opened

\* Close frees no OpenFile that another process is writing through, as long as
\* descriptors own their OpenFiles.
LEMMA CloseCalls ==
  ASSUME FCTyped, CallsOpen, sound => Owned /\ CallsOwn, NEW p \in Procs, ~InCall(p),
         NEW d, NEW heapNow, HeapTyped(heapNow),
         \A b \in Addresses : heapNow[b].file = heap[b].file,
         NEW soundNow \in BOOLEAN, soundNow => sound, Close(p, d, heapNow, soundNow)
  PROVE  CallsOpen' /\ (sound' => CallsOwn')
  <1> DEFINE a == IF d \in FileDescriptors THEN list[p][d].pFile ELSE NULL
  <1>1. CASE a # NULL /\ ~Live(a) /\ GoWild(soundNow /\ d \in flags[p])
    BY <1>1, SameCalls DEF GoWild
  <1>2. CASE /\ heap' = IF Live(a) THEN [heapNow EXCEPT ![a] = Freed] ELSE heapNow
             /\ flags' = [flags EXCEPT ![p] = @ \ {d}]
             /\ sound' = (soundNow /\ (a = NULL \/ d \in flags[p]))
             /\ UNCHANGED <<stub, files, list, wild, writing>>
    <2>1. \A q \in Procs : q # p => flags'[q] = flags[q] /\ list'[q] = list[q]
      BY <1>2 DEF FCTyped
    <2>2. CallsOpen'
      BY <1>2, <2>1, OthersOpen
    <2>3. ASSUME sound', NEW q \in Procs, InCall(q)
          PROVE  heap'[Object(q)].file = heap[Object(q)].file
      <3>1. Object(q) \in Addresses /\ q # p /\ writing[q].fd \in Opened(q) /\ Owned
        BY <1>2, <2>3 DEF CallsOpen
      <3>2. Live(a) => Object(q) # a
        <4> SUFFICES ASSUME Live(a) PROVE Object(q) # a
          OBVIOUS
        <4>1. d \in Opened(p) /\ a = list[p][d].pFile
          BY <1>2, <2>3, FCAssumption DEF Live, Opened
        <4> QED BY <3>1, <4>1 DEF Owned, Object
      <3>3. Object(q) # a \/ ~Live(a) => heap'[Object(q)].file = heapNow[Object(q)].file
        <4> HIDE DEF a
        <4> QED BY <1>2, <3>1 DEF HeapTyped
      <3> HIDE DEF a
      <3> QED BY <3>1, <3>2, <3>3
    <2>4. sound' => CallsOwn'
      BY <1>2, <2>1, <2>3, OthersOwn
    <2> QED BY <2>2, <2>4
  <1> QED BY <1>1, <1>2 DEF Close

\* The calls in progress, step by step.
LEMMA StepCalls ==
  ASSUME FCTyped, CallsOpen, sound => Owned /\ CallsOwn, [Next]_fvars
  PROVE  CallsOpen' /\ (sound' => CallsOwn')
  <1>0. /\ sound \in BOOLEAN /\ HeapTyped(heap)
        /\ \A q \in Procs : InCall(q) => /\ Object(q) \in Addresses
                                         /\ writing[q].file # NULL
    <2>1. NULL \notin Names
      BY FCAssumption
    <2> QED BY <2>1 DEF FCTyped, HeapTyped, CallsTyped, Fits, CallsOpen
  <1>1. ASSUME UNCHANGED <<heap, flags, list, writing>>, sound' => sound
        PROVE  CallsOpen' /\ (sound' => CallsOwn')
    BY <1>1, SameCalls
  <1>2. ASSUME NEW p \in Procs, NEW d \in {0, 1}, OpenConsole(p, d), ~InCall(p)
        PROVE  CallsOpen' /\ (sound' => CallsOwn')
    <2>1. \A q \in Procs : q # p => flags'[q] = flags[q] /\ list'[q] = list[q]
      BY <1>2 DEF OpenConsole, FCTyped
    <2> QED BY <1>2, <2>1, OthersOpen, OthersOwn DEF OpenConsole
  <1>3. ASSUME NEW p \in Procs, NEW n \in Names, NEW type \in {0, 1}, OpenF(p, n, type), ~InCall(p)
        PROVE  CallsOpen' /\ (sound' => CallsOwn')
    <2>1. PICK d \in Vacant(p), a \in Addresses :
            /\ heap[a] = Freed
            /\ heap' = [heap EXCEPT ![a] = [file |-> n, offset |-> 0]]
            /\ list' = [list EXCEPT ![p][d] = [pFile |-> a, type |-> type]]
            /\ flags' = [flags EXCEPT ![p] = @ \cup {d}]
      BY <1>3 DEF OpenF
    <2>2. /\ \A q \in Procs : q # p => flags'[q] = flags[q] /\ list'[q] = list[q]
          /\ UNCHANGED <<writing, sound>>
      BY <1>3, <2>1 DEF OpenF, FCTyped
    <2>3. ASSUME sound', NEW q \in Procs, InCall(q)
          PROVE  heap'[Object(q)].file = heap[Object(q)].file
      <3>1. heap[Object(q)].file # NULL /\ heap[a].file = NULL
        BY <1>0, <2>1, <2>2, <2>3 DEF CallsOwn, Freed
      <3> QED BY <1>0, <2>1, <2>3, <3>1 DEF HeapTyped
    <2> QED BY <1>3, <2>2, <2>3, OthersOpen, OthersOwn
  <1>4. ASSUME NEW p \in Procs, NEW n \in Names, NEW type \in {0, 1}, OpenFMissing(p, n, type),
               ~InCall(p)
        PROVE  CallsOpen' /\ (sound' => CallsOwn')
    <2>1. \A q \in Procs : q # p => flags'[q] = flags[q] /\ list'[q] = list[q]
      BY <1>4 DEF OpenFMissing, FCTyped
    <2> QED BY <1>4, <2>1, OthersOpen, OthersOwn DEF OpenFMissing
  <1>5. ASSUME NEW p \in Procs, NEW d \in Descriptors, CloseF(p, d), ~InCall(p)
        PROVE  CallsOpen' /\ (sound' => CallsOwn')
    BY <1>0, <1>5, CloseCalls DEF CloseF
  <1>6. ASSUME NEW p \in Procs, NEW d \in Descriptors, NEW size \in 1..MaxLen, ReadF(p, size, d)
        PROVE  CallsOpen' /\ (sound' => CallsOwn')
    <2>1. CASE ~Live(list[p][d].pFile)
      BY <1>1, <1>6, <2>1 DEF ReadF, GoWild
    <2>2. CASE Live(list[p][d].pFile)
      BY <1>6, <2>2, MoveCalls DEF ReadF
    <2> QED BY <2>1, <2>2
  <1>7. ASSUME NEW p \in Procs, NEW d \in Descriptors, NEW m \in 1..MaxLen,
               NEW buffer \in [1..m -> Bytes], WriteF(p, buffer, d), ~InCall(p)
        PROVE  CallsOpen' /\ (sound' => CallsOwn')
    <2> DEFINE a == list[p][d].pFile
    <2>1. CASE ~Live(a)
      BY <1>1, <1>7, <2>1 DEF WriteF, GoWild
    <2>2. CASE Live(a) /\ stub
      BY <1>7, <2>2, MoveCalls DEF WriteF
    <2>3. CASE Live(a) /\ ~stub
      <3>1. PICK from, pos : writing' = [writing EXCEPT ![p] = Request(d, heap[a].file, from, pos)]
        BY <1>7, <2>3 DEF WriteF
      <3> DEFINE r == Request(d, heap[a].file, from, pos)
      <3>2. r.fd = d /\ r.file = heap[a].file
        BY DEF Request
      <3> HIDE DEF r
      <3>3. /\ writing'[p] = r
            /\ \A q \in Procs : q # p => writing'[q] = writing[q]
        BY <3>1 DEF FCTyped, CallsTyped, r
      <3>4. UNCHANGED <<heap, flags, list, sound>> /\ d \in Opened(p) /\ list[p][d].type = 0
        BY <1>7, <2>3 DEF WriteF, IsWrite, Opened
      <3>5. a \in Addresses
        BY <2>3 DEF Live
      <3>6. CallsOpen'
        BY <3>2, <3>3, <3>4, <3>5 DEF CallsOpen, InCall, Object, Opened
      <3>7. CallsOwn => CallsOwn'
        BY <3>2, <3>3, <3>4 DEF CallsOwn, InCall, Object
      <3> QED BY <3>4, <3>6, <3>7
    <2> QED BY <2>1, <2>2, <2>3
  <1>8. ASSUME NEW p \in Procs, NEW d \in FileDescriptors, NEW position \in 0..MaxLen,
               SeekF(p, position, d), ~InCall(p)
        PROVE  CallsOpen' /\ (sound' => CallsOwn')
    <2> DEFINE a == list[p][d].pFile
    <2>1. CASE ~Live(a)
      BY <1>0, <1>1, <1>8, <2>1 DEF SeekF, GoWild
    <2>2. CASE Live(a)
      <3> DEFINE heapNow == [heap EXCEPT ![a].offset = position]
      <3>1. HeapTyped(heapNow) /\ \A b \in Addresses : heapNow[b].file = heap[b].file
        BY <1>0, <2>2, MoveTyped DEF HeapTyped
      <3>2. Close(p, position, heapNow, sound /\ d \in flags[p])
        BY <1>8, <2>2 DEF SeekF
      <3> HIDE DEF heapNow
      <3> QED BY <1>0, <1>8, <3>1, <3>2, CloseCalls
    <2> QED BY <2>1, <2>2
  <1>9. ASSUME NEW p \in Procs, ReadEdge(p)
        PROVE  CallsOpen' /\ (sound' => CallsOwn')
    <2>1. PICK s, buf : writing' = [writing EXCEPT ![p].reads = @ \ {s}, ![p].buf = buf]
      BY <1>9 DEF ReadEdge
    <2>2. \A q \in Procs : /\ writing'[q].puts = writing[q].puts
                          /\ writing'[q].fd = writing[q].fd
                          /\ writing'[q].file = writing[q].file
      BY <2>1 DEF FCTyped, CallsTyped, Requests
    <2>3. UNCHANGED <<heap, flags, list, sound>>
      BY <1>9 DEF ReadEdge
    <2> QED BY <2>2, <2>3 DEF CallsOpen, CallsOwn, InCall, Object, Opened
  <1>10. ASSUME NEW p \in Procs, PutSector(p)
         PROVE  CallsOpen' /\ (sound' => CallsOwn')
    <2>1. \A q \in Procs :
            InCall(q)' => /\ InCall(q) /\ writing'[q].fd = writing[q].fd
                         /\ writing'[q].file = writing[q].file
      BY <1>10, PutSectorKeeps
    <2>2. UNCHANGED <<flags, list, sound>>
          /\ \A b \in Addresses : heap'[b].file = heap[b].file
      <3>1. UNCHANGED <<flags, list, sound>>
        BY <1>10 DEF PutSector
      <3>2. heap' = heap \/ heap' = [heap EXCEPT ![Object(p)].offset = @ + Len(writing[p].from)]
        BY <1>10 DEF PutSector
      <3>3. ASSUME NEW b \in Addresses PROVE heap'[b].file = heap[b].file
        BY <3>2 DEF FCTyped
      <3> QED BY <3>1, <3>3
    <2>3. CallsOpen'
      BY <2>1, <2>2 DEF CallsOpen, InCall, Object, Opened
    <2>4. CallsOwn => CallsOwn'
      BY <1>0, <2>1, <2>2 DEF CallsOwn, InCall, Object
    <2> QED BY <2>2, <2>3, <2>4
  <1>11. ASSUME NEW p \in Procs, CreateFBadName(p) \/ WriteDeleted(p)
         PROVE  CallsOpen' /\ (sound' => CallsOwn')
    BY <1>1, <1>11 DEF CreateFBadName, WriteDeleted, GoWild
  <1>12. ASSUME NEW p \in Procs, NEW n \in Names, CreateF(p, n)
         PROVE  CallsOpen' /\ (sound' => CallsOwn')
    BY <1>1, <1>12 DEF CreateF
  <1>13. CASE UNCHANGED fvars
    BY <1>1, <1>13 DEF fvars
  <1> QED
    BY <1>2, <1>3, <1>4, <1>5, <1>6, <1>7, <1>8, <1>9, <1>10, <1>11, <1>12, <1>13 DEF Next

LEMMA StepOwned ==
  ASSUME FCTyped, CallsOpen, sound => Owned /\ CallsOwn, wild => ~sound, [Next]_fvars
  PROVE  (sound' => Owned') /\ (wild' => ~sound')
  <1>0. /\ sound \in BOOLEAN /\ HeapTyped(heap)
        /\ \A a : Live(a) => a \in Addresses /\ heap[a] # Freed
    BY DEF FCTyped, HeapTyped, Live
  <1>1. CASE UNCHANGED fvars
    BY <1>1, OwnedKept DEF fvars
  <1>2. ASSUME NEW p \in Procs, NEW n \in Names, CreateF(p, n)
        PROVE  (sound' => Owned') /\ (wild' => ~sound')
    BY <1>2, OwnedKept DEF CreateF
  <1>3. ASSUME NEW p \in Procs, CreateFBadName(p)
        PROVE  (sound' => Owned') /\ (wild' => ~sound')
    BY <1>3 DEF CreateFBadName, GoWild
  <1>4. ASSUME NEW p \in Procs, NEW d \in {0, 1}, OpenConsole(p, d)
        PROVE  (sound' => Owned') /\ (wild' => ~sound')
    <2>1. \A q \in Procs : Opened(q)' = Opened(q)
      BY <1>4 DEF OpenConsole, Opened, FileDescriptors, FCTyped
    <2> QED BY <1>4, <2>1 DEF OpenConsole, Owned, Live
  <1>5. ASSUME NEW p \in Procs, NEW n \in Names, NEW type \in {0, 1}, OpenF(p, n, type)
        PROVE  (sound' => Owned') /\ (wild' => ~sound')
    <2>1. PICK d \in Vacant(p), a \in Addresses :
            /\ heap[a] = Freed
            /\ heap' = [heap EXCEPT ![a] = [file |-> n, offset |-> 0]]
            /\ list' = [list EXCEPT ![p][d] = [pFile |-> a, type |-> type]]
            /\ flags' = [flags EXCEPT ![p] = @ \cup {d}]
      BY <1>5 DEF OpenF
    <2>2. d \in FileDescriptors /\ d \notin Opened(p)
      BY DEF Vacant, Opened
    <2>3. \A q \in Procs : Opened(q)' = IF q = p THEN Opened(q) \cup {d} ELSE Opened(q)
      BY <2>1, <2>2 DEF Opened, FCTyped
    <2>4. \A b \in Addresses : Live(b)' <=> Live(b) \/ b = a
      <3>1. [file |-> n, offset |-> 0] # Freed
        BY FCAssumption DEF Freed
      <3> QED BY <2>1, <3>1 DEF Live, FCTyped
    <2>5. \A q \in Procs : \A e \in FileDescriptors :
            list'[q][e].pFile = IF q = p /\ e = d THEN a ELSE list[q][e].pFile
      BY <2>1, <2>2 DEF FCTyped
    <2>6. ~Live(a) /\ \A q \in Procs : Opened(q) \subseteq FileDescriptors
      BY <2>1 DEF Live, Opened
    <2>7. sound' => Owned'
      <3> SUFFICES ASSUME sound' PROVE Owned'
        OBVIOUS
      <3>0. Owned
        BY <1>5 DEF OpenF
      <3>1. ASSUME NEW q \in Procs, NEW e \in Opened(q)'
            PROVE  Live(list[q][e].pFile)'
        BY <3>0, <3>1, <1>0, <2>2, <2>3, <2>4, <2>5, <2>6 DEF Owned
      <3>2. ASSUME NEW q \in Procs, NEW e \in Opened(q)', NEW r \in Procs, NEW g \in Opened(r)',
                   list'[r][g].pFile = list'[q][e].pFile
            PROVE  q = r /\ e = g
        BY <3>0, <3>2, <1>0, <2>2, <2>3, <2>5, <2>6 DEF Owned
      <3>3. ASSUME NEW b \in Addresses, Live(b)'
            PROVE  \E q \in Procs : \E e \in Opened(q)' : list'[q][e].pFile = b
        <4>1. CASE b = a
          BY <4>1, <2>2, <2>3, <2>5
        <4>2. CASE b # a
          <5>1. PICK q \in Procs : \E e \in Opened(q) : list[q][e].pFile = b
            BY <3>0, <3>3, <4>2, <2>4 DEF Owned
          <5> QED BY <5>1, <2>2, <2>3, <2>5, <2>6
        <4> QED BY <4>1, <4>2
      <3> QED BY <3>1, <3>2, <3>3 DEF Owned
    <2> QED BY <1>5, <2>7 DEF OpenF
  <1>6. ASSUME NEW p \in Procs, NEW n \in Names, NEW type \in {0, 1}, OpenFMissing(p, n, type)
        PROVE  (sound' => Owned') /\ (wild' => ~sound')
    <2>1. PICK d \in Vacant(p) : list' = [list EXCEPT ![p][d] = [pFile |-> NULL, type |-> type]]
      BY <1>6 DEF OpenFMissing
    <2>2. \A q \in Procs : \A e \in Opened(q) : list'[q][e] = list[q][e]
      BY <2>1 DEF Vacant, Opened, FCTyped
    <2>3. \A q \in Procs : Opened(q)' = Opened(q)
      BY <1>6 DEF OpenFMissing, Opened
    <2> QED BY <1>6, <2>2, <2>3 DEF OpenFMissing, Owned, Live
  <1>7. ASSUME NEW p \in Procs, NEW d \in Descriptors, CloseF(p, d)
        PROVE  (sound' => Owned') /\ (wild' => ~sound')
    BY <1>0, <1>7, OwnedClose, CloseUnsound DEF CloseF
  <1>8. ASSUME NEW p \in Procs, NEW d \in Descriptors, NEW size \in 1..MaxLen, ReadF(p, size, d)
        PROVE  (sound' => Owned') /\ (wild' => ~sound')
    <2>1. CASE ~Live(list[p][d].pFile)
      BY <1>8, <2>1 DEF ReadF, IsRead, Owned, Opened, GoWild
    <2>2. CASE Live(list[p][d].pFile)
      BY <1>8, <2>2, OwnedMove DEF ReadF
    <2> QED BY <2>1, <2>2
  <1>9. ASSUME NEW p \in Procs, NEW d \in Descriptors, NEW m \in 1..MaxLen,
               NEW buffer \in [1..m -> Bytes], WriteF(p, buffer, d)
        PROVE  (sound' => Owned') /\ (wild' => ~sound')
    <2>1. CASE ~Live(list[p][d].pFile)
      BY <1>9, <2>1 DEF WriteF, IsWrite, Owned, Opened, GoWild
    <2>2. CASE Live(list[p][d].pFile) /\ stub
      BY <1>9, <2>2, OwnedMove DEF WriteF
    <2>3. CASE Live(list[p][d].pFile) /\ ~stub
      BY <1>9, <2>3, OwnedKept DEF WriteF
    <2> QED BY <2>1, <2>2, <2>3
  <1>10. ASSUME NEW p \in Procs, NEW d \in FileDescriptors, NEW position \in 0..MaxLen,
                SeekF(p, position, d)
         PROVE  (sound' => Owned') /\ (wild' => ~sound')
    <2> DEFINE a == list[p][d].pFile
    <2>1. CASE ~Live(a)
      BY <1>10, <2>1 DEF SeekF, GoWild, Owned, Opened
    <2>2. CASE Live(a)
      <3> DEFINE heapNow == [heap EXCEPT ![a].offset = position]
      <3>1. HeapTyped(heapNow)
        BY <2>2, MoveTyped
      <3>2. \A b \in Addresses : (heapNow[b] = Freed) <=> (heap[b] = Freed)
        BY <2>2, MoveKeepsLive
      <3>3. Close(p, position, heapNow, sound /\ d \in flags[p]) /\ ~wild
        BY <1>10, <2>2 DEF SeekF
      <3> HIDE DEF heapNow
      <3> QED BY <1>0, <3>1, <3>2, <3>3, OwnedClose, CloseUnsound
    <2> QED BY <2>1, <2>2
  <1>11. ASSUME NEW p \in Procs, ReadEdge(p)
         PROVE  (sound' => Owned') /\ (wild' => ~sound')
    BY <1>11, OwnedKept DEF ReadEdge
  <1>12. ASSUME NEW p \in Procs, PutSector(p)
         PROVE  (sound' => Owned') /\ (wild' => ~sound')
    <2>1. CASE UNCHANGED heap
      BY <1>12, <2>1, OwnedKept DEF PutSector
    <2>2. CASE ~UNCHANGED heap
      <3>1. /\ heap' = [heap EXCEPT ![Object(p)].offset = @ + Len(writing[p].from)]
            /\ UNCHANGED <<flags, list, sound, wild>> /\ InCall(p) /\ ~Deleted(p)
        BY <1>12, <2>2 DEF PutSector
      <3>2. Live(Object(p))
        BY <1>0, <3>1, FCAssumption
           DEF CallsOpen, Deleted, Live, Freed, FCTyped, CallsTyped, Fits
      <3>3. sound => Owned'
        BY <3>1, <3>2, OwnedMove
      <3> QED BY <3>1, <3>3
    <2> QED BY <2>1, <2>2
  <1>13. ASSUME NEW p \in Procs, WriteDeleted(p)
         PROVE  (sound' => Owned') /\ (wild' => ~sound')
    BY <1>13 DEF WriteDeleted, GoWild, Deleted, CallsOwn
  <1> QED
    BY <1>1, <1>2, <1>3, <1>4, <1>5, <1>6, <1>7, <1>8, <1>9, <1>10, <1>11, <1>12, <1>13
       DEF Next

LEMMA InitOwned == Init => Owned /\ CallsOpen /\ CallsOwn /\ ~wild
  BY FCAssumption
     DEF Init, Owned, Opened, Live, Freed, CallsOpen, CallsOwn, InCall, NotWriting

FCInv ==
  /\ FCTyped /\ CallsOpen
  /\ sound => Owned /\ CallsOwn
  /\ wild => ~sound

LEMMA FCInvariant == Spec => []FCInv
  BY InitTyped, InitOwned, StepTyped, StepOwned, StepCalls, PTL DEF Spec, FCInv

\* Open descriptors own their open files and memory stays intact, whatever
\* addresses new hands out again and in whatever order processes open and close.
THEOREM OwnershipKept == Spec => []DescriptorsOwn
  <1>1. FCInv => DescriptorsOwn
    BY DEF FCInv, Owned, DescriptorsOwn
  <1> QED BY <1>1, FCInvariant, PTL

-------------------------------------------------------------------------------
(* What writes leave alone *)

\* No byte of a file is one that nobody has written.
NoJunk == \A n \in Names : \A i \in 1..files[n].len : files[n].bytes[i] # Junk

\* A byte of the file in a sector that is written, but outside the request, is
\* one that is read in before.
LEMMA EdgesOutside ==
  ASSUME NEW n \in Nat \ {0}, NEW position \in Nat, NEW i \in Nat,
         i \notin position..(position + n - 1),
         i \div SectorSize \in Touched(n, position)
  PROVE  i \div SectorSize \in EdgeSectors(n, position)
  <1> DEFINE s == i \div SectorSize
             first == position \div SectorSize
             last == (position + n - 1) \div SectorSize
  <1>0. SectorSize \in Nat \ {0} /\ i \in Nat /\ position + n - 1 \in Nat
    BY SectorSizeAssumption
  <1>1. /\ s \in Nat /\ s * SectorSize <= i /\ i < (s + 1) * SectorSize
        /\ first \in Nat /\ first * SectorSize <= position /\ position < (first + 1) * SectorSize
        /\ last \in Nat /\ last * SectorSize <= position + n - 1
        /\ position + n - 1 < (last + 1) * SectorSize
    BY <1>0, SectorBounds
  <1>2. s \in first..last
    BY DEF Touched
  <1>3. CASE i < position
    <2>1. s = first
      <3> SUFFICES ASSUME first < s PROVE FALSE
        BY <1>1, <1>2
      <3>1. (first + 1) * SectorSize <= s * SectorSize
        BY <1>1, SectorOrder
      <3>2. (first + 1) * SectorSize \in Int /\ s * SectorSize \in Int
        BY <1>0, <1>1
      <3> HIDE DEF s, first
      <3> QED BY <1>0, <1>1, <1>3, <3>1, <3>2
    <2>2. position # first * SectorSize
      BY <1>0, <1>1, <1>3, <2>1
    <2> QED BY <1>0, <2>1, <2>2 DEF EdgeSectors
  <1>4. CASE position + n - 1 < i
    <2>1. s = last
      <3> SUFFICES ASSUME s < last PROVE FALSE
        BY <1>1, <1>2
      <3>1. (s + 1) * SectorSize <= last * SectorSize
        BY <1>1, SectorOrder
      <3>2. (s + 1) * SectorSize \in Int /\ last * SectorSize \in Int
        BY <1>0, <1>1
      <3> HIDE DEF s, last
      <3> QED BY <1>0, <1>1, <1>4, <3>1, <3>2
    <2>2. position + n # (last + 1) * SectorSize
      BY <1>0, <1>1, <1>4, <2>1
    <2> QED BY <1>0, <2>1, <2>2 DEF EdgeSectors
  <1> QED BY <1>0, <1>3, <1>4

LEMMA HostWriteInPlace ==
  ASSUME NEW file \in [len : -1..MaxLen, bytes : Seq(Contents)], NEW from \in Seq(Bytes),
         NEW position \in 0..MaxLen,
         \A k \in 1..file.len : file.bytes[k] # Junk
  PROVE  LET w == HostWrite(file, from, position)
         IN  \A i \in 1..w.len :
               /\ w.bytes[i] # Junk
               /\ i <= file.len /\ w.bytes[i] # file.bytes[i] =>
                    i \in (position + 1)..(position + Len(from))
  <1> DEFINE end == position + Len(from)
             size == IF file.len > end THEN file.len ELSE end
             byte(j) == IF j > position /\ j <= end THEN from[j - position]
                        ELSE IF j <= file.len THEN file.bytes[j] ELSE 0
  <1>0. MaxLen \in Nat /\ 0 \in Bytes /\ Junk \notin Bytes /\ size \in Int
    BY FCAssumption
  <1>1. HostWrite(file, from, position) = [len |-> size, bytes |-> [j \in 1..size |-> byte(j)]]
    BY DEF HostWrite
  <1>2. ASSUME NEW i \in 1..size
        PROVE  /\ byte(i) # Junk
               /\ i <= file.len /\ byte(i) # file.bytes[i] => i \in (position + 1)..end
    <2>1. CASE i > position /\ i <= end
      <3>1. from[i - position] \in Bytes
        BY <2>1
      <3> QED BY <1>0, <2>1, <3>1
    <2>2. CASE ~(i > position /\ i <= end)
      BY <1>0, <2>2
    <2> QED BY <2>1, <2>2
  <1> HIDE DEF byte, size
  <1> QED BY <1>1, <1>2

LEMMA InitNoJunk == Init => NoJunk
  <1>1. \A i \in 1..Absent.len : Absent.bytes[i] # Junk
    BY DEF Absent
  <1>2. \A i \in 1..Empty.len : Empty.bytes[i] # Junk
    BY DEF Empty
  <1>3. \A i \in 1..Sectored(FixedLen).len : Sectored(FixedLen).bytes[i] # Junk
    <2> DEFINE f == Sectored(FixedLen)
    <2>1. f.bytes \in Seq(Contents) /\ f.len \in Int /\ f.len <= Len(f.bytes)
      BY SectoredTyped
    <2>2. \A i \in 1..f.len : i \in DOMAIN f.bytes
      <3> HIDE DEF f
      <3> QED BY <2>1
    <2> QED BY <2>2, SectoredTyped
  <1> QED BY <1>1, <1>2, <1>3 DEF Init, NoJunk

\* What a buffer holds of the sectors that have been read into it: the bytes that
\* the file had, and has, unless another process has written the sector since.
BufferTrue(p) ==
  \A s \in writing[p].puts \ writing[p].reads :
    \A i \in 1..files[writing[p].file].len :
      InSector(i, s) /\ i \notin (writing[p].pos + 1)..(writing[p].pos + Len(writing[p].from))
        => /\ writing[p].buf[i] # Junk
           /\ s \in writing[p].stale
                \/ writing[p].buf[i] = files[writing[p].file].bytes[i]

BuffersTrue == \A p \in Procs : InCall(p) => BufferTrue(p)

InPlace(n) ==
  files'[n] # files[n] /\ files'[n] # Empty =>
    /\ \A i \in 1..files'[n].len : files'[n].bytes[i] # Junk
    /\ \E p \in Procs : \E d \in Opened(p) :
         LET a == list[p][d].pFile
         IN  /\ Live(a) /\ heap[a].file = n /\ list[p][d].type = 0
             /\ ~stub => writing[p].fd = d
             /\ \A i \in 1..files[n].len :
                  files'[n].bytes[i] # files[n].bytes[i]
                    => IF stub THEN i \in (heap[a].offset + 1)..heap'[a].offset
                       ELSE MayChange(p, i)

\* WriteAt reads every sector of which it keeps a byte.
LEMMA RequestTrue ==
  ASSUME FCTyped, NEW d \in Descriptors, NEW f \in Names, NEW from \in Seq(Bytes), from # <<>>,
         NEW pos \in Nat,
         NEW s \in Request(d, f, from, pos).puts \ Request(d, f, from, pos).reads,
         NEW i \in Nat \ {0}, InSector(i, s)
  PROVE  i \in (pos + 1)..(pos + Len(from))
  <1>1. s \in Touched(Len(from), pos) /\ s \notin EdgeSectors(Len(from), pos)
    BY DEF Request
  <1>2. Len(from) \in Nat \ {0} /\ i - 1 \in Nat /\ (i - 1) \div SectorSize = s
    BY DEF InSector
  <1>3. i - 1 \in pos..(pos + Len(from) - 1)
    BY <1>1, <1>2, EdgesOutside
  <1> QED BY <1>2, <1>3

\* A write to a host file.
LEMMA HostWriteStep ==
  ASSUME FCTyped, NoJunk, stub, NEW p \in Procs, NEW d \in Descriptors, NEW m \in 1..MaxLen,
         NEW buffer \in [1..m -> Bytes], WriteF(p, buffer, d), Live(list[p][d].pFile)
  PROVE  NoJunk' /\ BuffersTrue' /\ \A n \in Names : InPlace(n)
  <1> DEFINE a == list[p][d].pFile
             f == heap[a].file
             from == FromUser(buffer)
             pos == heap[a].offset
             written == HostWrite(files[f], from, pos)
  <1>1. /\ files' = [files EXCEPT ![f] = written]
        /\ heap' = [heap EXCEPT ![a].offset = pos + Len(from)]
        /\ UNCHANGED writing
    BY DEF WriteF
  <1>2. a \in Addresses /\ f \in Names /\ pos \in 0..MaxLen /\ pos \in Int
    BY LiveHasFile, FCAssumption
  <1>3. from \in Seq(Bytes) /\ Len(from) \in Nat
    <2>1. m \in Nat
      BY FCAssumption
    <2> QED BY <2>1, FromUserTyped
  <1>4. /\ files[f] \in [len : -1..MaxLen, bytes : Seq(Contents)]
        /\ files[f].len <= Len(files[f].bytes) /\ files[f].len \in Int
        /\ \A i \in 1..files[f].len : files[f].bytes[i] # Junk
    <2>1. files[f] \in [len : -1..MaxLen, bytes : Seq(Contents)]
          /\ files[f].len <= Len(files[f].bytes)
      BY <1>2 DEF FCTyped
    <2>2. \A i \in 1..files[f].len : files[f].bytes[i] # Junk
      BY <1>2 DEF NoJunk
    <2> HIDE DEF f
    <2> QED BY <2>1, <2>2, FCAssumption
  <1>5. /\ \A i \in 1..written.len : written.bytes[i] # Junk
        /\ \A i \in 1..files[f].len :
             written.bytes[i] # files[f].bytes[i] => i \in (pos + 1)..(pos + Len(from))
    <2>1. written.len \in Int /\ files[f].len <= written.len
      <3> HIDE DEF f, from, pos, written
      <3>1. written.len = IF files[f].len > pos + Len(from) THEN files[f].len
                          ELSE pos + Len(from)
        BY DEF HostWrite, written
      <3> QED BY <1>2, <1>3, <1>4, <3>1
    <2>2. \A i \in 1..written.len :
            /\ written.bytes[i] # Junk
            /\ i <= files[f].len /\ written.bytes[i] # files[f].bytes[i]
                 => i \in (pos + 1)..(pos + Len(from))
      <3> HIDE DEF f, from, pos
      <3> QED BY <1>2, <1>3, <1>4, HostWriteInPlace
    <2> HIDE DEF f, from, pos, written
    <2> QED BY <1>4, <2>1, <2>2
  <1>6. NoJunk'
    <2> HIDE DEF f, written
    <2> QED BY <1>1, <1>2, <1>5 DEF NoJunk, FCTyped
  <1>7. d \in Opened(p) /\ list[p][d].type = 0 /\ Live(a) /\ heap[a].file = f
    BY DEF WriteF, IsWrite, Opened
  <1>8. heap'[a].offset = pos + Len(from)
    BY <1>1, <1>2 DEF FCTyped
  <1>9. ASSUME NEW g \in Names, g # f PROVE InPlace(g)
    <2>1. files'[g] = files[g]
      BY <1>1, <1>9 DEF FCTyped
    <2> QED BY <2>1 DEF InPlace
  <1>10. InPlace(f)
    <2>1. files'[f] = written
      BY <1>1, <1>2 DEF FCTyped
    <2> HIDE DEF f, written, from
    <2> QED BY <1>5, <1>7, <1>8, <2>1 DEF InPlace
  <1>11. BuffersTrue'
    <2>1. \A q \in Procs : ~InCall(q)
      BY DEF FCTyped, CallsTyped, Fits
    <2> QED BY <1>1, <2>1 DEF BuffersTrue, InCall
  <1> QED BY <1>6, <1>9, <1>10, <1>11

\* A write of one sector changes the bytes of the request, and takes those away
\* that others have written since the sector was read.
LEMMA PutSectorInPlace ==
  ASSUME FCTyped, CallsOpen, NoJunk, BuffersTrue, NEW p \in Procs, PutSector(p)
  PROVE  NoJunk' /\ BuffersTrue' /\ \A n \in Names : InPlace(n)
  <1> DEFINE w == writing[p]
             f == files[w.file]
  <1>1. PICK s \in w.puts :
          /\ files' = [files EXCEPT ![w.file].bytes = WithSector(@, s, w)]
          /\ writing' = [q \in Procs |-> IF q = p THEN Wrote(w, s)
                                    ELSE Overtaken(writing[q], w, s)]
    BY DEF PutSector
  <1> DEFINE new == WithSector(f.bytes, s, w)
  <1>2. /\ InCall(p) /\ ~Deleted(p) /\ w.reads = {} /\ UNCHANGED <<stub, flags, list>>
    BY DEF PutSector
  <1>3. /\ w \in Requests /\ Fits(p) /\ w.file \in Names /\ s \in Int /\ ~stub
        /\ f \in [len : -1..MaxLen, bytes : Seq(Contents)] /\ f.len <= Len(f.bytes)
        /\ f.len \in Int /\ Len(w.buf) = Len(f.bytes)
        /\ w.from \in Seq(Bytes) /\ w.pos \in Nat
    BY <1>2, FCAssumption DEF FCTyped, CallsTyped, Fits, Requests
  <1>4. /\ new \in Seq(Contents) /\ Len(new) = Len(f.bytes)
        /\ \A j \in 1..Len(f.bytes) : new[j] =
             IF ~InSector(j, s) THEN f.bytes[j]
             ELSE IF j \in (w.pos + 1)..(w.pos + Len(w.from)) THEN w.from[j - w.pos]
             ELSE w.buf[j]
    <2>1. f.bytes \in Seq(Contents)
      BY <1>3
    <2> HIDE DEF w, f
    <2> QED BY <1>3, <2>1, WithSectorTyped DEF new
  <1>5. /\ files'[w.file] = [f EXCEPT !.bytes = new]
        /\ \A n \in Names : n # w.file => files'[n] = files[n]
    BY <1>1, <1>3 DEF FCTyped
  <1>6. /\ files'[w.file].len = f.len /\ files'[w.file].bytes = new
        /\ \A n \in Names : files'[n].len = files[n].len
    <2>1. f = [len |-> f.len, bytes |-> f.bytes]
      BY <1>3
    <2> HIDE DEF f, new
    <2>2. files'[w.file].len = f.len /\ files'[w.file].bytes = new
      BY <1>5, <2>1
    <2> QED BY <1>5, <2>2 DEF f
  <1> HIDE DEF new
  <1>7. ASSUME NEW j \in 1..f.len
        PROVE  /\ j \in 1..Len(f.bytes) /\ new[j] # Junk
               /\ new[j] # f.bytes[j] => InSector(j, s) /\ MayChange(p, j)
    <2>1. j \in 1..Len(f.bytes)
      BY <1>3
    <2>2. f.bytes[j] # Junk
      BY <1>3 DEF NoJunk
    <2>3. CASE ~InSector(j, s)
      BY <1>4, <2>1, <2>2, <2>3
    <2>4. CASE InSector(j, s) /\ j \in (w.pos + 1)..(w.pos + Len(w.from))
      <3>1. w.from[j - w.pos] \in Bytes
        BY <1>3, <2>4
      <3>2. new[j] = w.from[j - w.pos] /\ MayChange(p, j)
        BY <1>4, <2>1, <2>4 DEF MayChange
      <3> HIDE DEF w
      <3> QED BY <2>1, <2>4, <3>1, <3>2, FCAssumption
    <2>5. CASE InSector(j, s) /\ j \notin (w.pos + 1)..(w.pos + Len(w.from))
      <3>1. s \in w.puts \ w.reads
        BY <1>2
      <3>2. /\ w.buf[j] # Junk
            /\ s \in w.stale \/ w.buf[j] = f.bytes[j]
        BY <1>2, <2>5, <3>1 DEF BuffersTrue, BufferTrue
      <3> QED BY <1>4, <2>1, <2>5, <3>2 DEF MayChange
    <2> QED BY <2>3, <2>4, <2>5, <2>1
  <1>8. NoJunk'
    <2> SUFFICES ASSUME NEW n \in Names, NEW i \in 1..files'[n].len
                 PROVE  files'[n].bytes[i] # Junk
      BY DEF NoJunk
    <2>1. CASE n = w.file
      BY <1>6, <1>7, <2>1
    <2>2. CASE n # w.file
      BY <1>5, <2>2 DEF NoJunk
    <2> QED BY <2>1, <2>2
  <1>9. ASSUME NEW n \in Names PROVE InPlace(n)
    <2>1. CASE n # w.file
      BY <1>5, <2>1 DEF InPlace
    <2>2. CASE n = w.file
      <3>1. /\ w.fd \in Opened(p) /\ list[p][w.fd].type = 0 /\ Object(p) \in Addresses
            /\ Object(p) = list[p][w.fd].pFile
        BY <1>2 DEF CallsOpen, Object
      <3>2. Live(Object(p)) /\ heap[Object(p)].file = w.file
        BY <1>2, <1>3, <3>1, FCAssumption DEF Deleted, Live, Freed
      <3>3. \A i \in 1..files'[n].len : files'[n].bytes[i] # Junk
        BY <1>8 DEF NoJunk
      <3>4. \A i \in 1..files[n].len :
              files'[n].bytes[i] # files[n].bytes[i] => MayChange(p, i)
        BY <1>6, <1>7, <2>2
      <3>5. writing[p].fd = w.fd /\ n = w.file
        BY <2>2
      <3> HIDE DEF w, f
      <3> QED BY <1>3, <3>1, <3>2, <3>3, <3>4, <3>5 DEF InPlace
    <2> QED BY <2>1, <2>2
  <1>10. ASSUME NEW q \in Procs, InCall(q)' PROVE BufferTrue(q)'
    <2> DEFINE v == writing[q]
    <2>1. /\ InCall(q)
          /\ writing'[q].file = v.file /\ writing'[q].buf = v.buf
          /\ writing'[q].pos = v.pos /\ writing'[q].from = v.from
      BY <1>10, PutSectorKeeps
    <2>2. v \in Requests /\ BufferTrue(q) /\ v.file \in Names
      BY <2>1 DEF FCTyped, CallsTyped, Fits, BuffersTrue
    <2>3. ASSUME NEW t \in writing'[q].puts \ writing'[q].reads
          PROVE  /\ t \in v.puts \ v.reads
                 /\ v.file = w.file /\ t = s => t \in writing'[q].stale
                 /\ t \in v.stale => t \in writing'[q].stale
      <3>1. CASE q = p
        <4>1. w.puts # {s}
          <5> SUFFICES ASSUME w.puts = {s} PROVE FALSE
            OBVIOUS
          <5>1. writing'[q] = NotWriting
            BY <1>1, <3>1 DEF Wrote
          <5> QED BY <1>10, <5>1 DEF InCall, NotWriting
        <4>2. writing'[q] = [v EXCEPT !.puts = @ \ {s}, !.stale = @ \ {s}]
          BY <1>1, <3>1, <4>1 DEF Wrote
        <4> HIDE DEF v
        <4> QED BY <2>2, <2>3, <4>2 DEF Requests
      <3>2. CASE q # p /\ v.file = w.file /\ s \in v.puts \ v.reads
        <4>1. writing'[q] = [v EXCEPT !.stale = @ \cup {s}]
          BY <1>1, <3>2 DEF Overtaken
        <4> HIDE DEF v
        <4> QED BY <2>2, <2>3, <4>1 DEF Requests
      <3>3. CASE q # p /\ ~(v.file = w.file /\ s \in v.puts \ v.reads)
        <4>1. writing'[q] = v
          BY <1>1, <3>3 DEF Overtaken
        <4> QED BY <2>3, <3>3, <4>1
      <3> QED BY <3>1, <3>2, <3>3
    <2>4. ASSUME NEW t \in writing'[q].puts \ writing'[q].reads,
                 NEW i \in 1..files'[v.file].len, InSector(i, t),
                 i \notin (v.pos + 1)..(v.pos + Len(v.from))
          PROVE  v.buf[i] # Junk /\ (t \in writing'[q].stale \/ v.buf[i] = files'[v.file].bytes[i])
      <3>1. i \in 1..files[v.file].len
        BY <1>6, <2>2
      <3>2. v.buf[i] # Junk /\ (t \in v.stale \/ v.buf[i] = files[v.file].bytes[i])
        BY <2>2, <2>3, <2>4, <3>1 DEF BufferTrue
      <3>3. CASE v.file # w.file
        BY <1>5, <2>2, <2>3, <3>2, <3>3
      <3>4. CASE v.file = w.file /\ t = s
        BY <2>3, <3>2, <3>4
      <3>5. CASE v.file = w.file /\ t # s
        <4>1. ~InSector(i, s)
          BY <2>4, <3>5 DEF InSector
        <4>2. files'[v.file].bytes[i] = files[v.file].bytes[i]
          BY <1>6, <1>7, <3>1, <3>5, <4>1
        <4> QED BY <2>3, <3>2, <4>2
      <3> QED BY <3>3, <3>4, <3>5
    <2> HIDE DEF v
    <2>5. v = writing[q]
      BY DEF v
    <2> QED BY <2>1, <2>4 DEF BufferTrue
  <1> QED BY <1>8, <1>9, <1>10 DEF BuffersTrue

\* Reading a sector into the buffer makes the buffer true of it.
LEMMA ReadEdgeTrue ==
  ASSUME FCTyped, NoJunk, BuffersTrue, NEW p \in Procs, ReadEdge(p)
  PROVE  BuffersTrue'
  <1> DEFINE w == writing[p]
             f == files[w.file]
  <1>1. PICK s \in w.reads :
          writing' = [writing EXCEPT ![p].reads = @ \ {s},
                        ![p].buf = [j \in DOMAIN w.buf |->
                          IF InSector(j, s) /\ j <= f.len THEN f.bytes[j] ELSE w.buf[j]]]
    BY DEF ReadEdge
  <1>2. UNCHANGED files /\ InCall(p)
    BY DEF ReadEdge
  <1>3. /\ w \in Requests /\ Fits(p) /\ w.file \in Names /\ BufferTrue(p)
        /\ f.len \in Int /\ f.len <= Len(f.bytes) /\ Len(f.bytes) \in Nat
        /\ w.buf \in Seq(Contents) /\ Len(w.buf) = Len(f.bytes)
    BY <1>2, FCAssumption DEF FCTyped, CallsTyped, Fits, Requests, BuffersTrue
  <1> DEFINE buf == [j \in DOMAIN w.buf |->
                       IF InSector(j, s) /\ j <= f.len THEN f.bytes[j] ELSE w.buf[j]]
  <1>4. \A j \in 1..f.len : buf[j] = IF InSector(j, s) THEN f.bytes[j] ELSE w.buf[j]
    <2>1. \A j \in 1..f.len : j \in DOMAIN w.buf /\ j <= f.len
      BY <1>3
    <2> QED BY <2>1
  <1> HIDE DEF buf
  <1>5. writing'[p] = [w EXCEPT !.reads = @ \ {s}, !.buf = buf]
    BY <1>1 DEF buf, FCTyped, CallsTyped
  <1>6. /\ writing'[p].file = w.file /\ writing'[p].pos = w.pos /\ writing'[p].from = w.from
        /\ writing'[p].puts = w.puts /\ writing'[p].reads = w.reads \ {s}
        /\ writing'[p].stale = w.stale /\ writing'[p].buf = buf
    <2> HIDE DEF w
    <2> QED BY <1>3, <1>5 DEF Requests
  <1>7. BufferTrue(p)'
    <2> SUFFICES ASSUME NEW t \in w.puts \ (w.reads \ {s}), NEW i \in 1..f.len, InSector(i, t),
                        i \notin (w.pos + 1)..(w.pos + Len(w.from))
                 PROVE  buf[i] # Junk /\ (t \in w.stale \/ buf[i] = f.bytes[i])
      BY <1>2, <1>6 DEF BufferTrue
    <2>1. f.bytes[i] # Junk
      BY <1>3 DEF NoJunk
    <2>2. CASE t = s
      BY <1>4, <2>1, <2>2
    <2>3. CASE t # s
      <3>1. t \in w.puts \ w.reads /\ ~InSector(i, s)
        BY <2>3 DEF InSector
      <3> QED BY <1>3, <1>4, <3>1 DEF BufferTrue
    <2> QED BY <2>2, <2>3
  <1>8. ASSUME NEW q \in Procs, q # p, InCall(q)' PROVE BufferTrue(q)'
    <2>1. writing'[q] = writing[q]
      BY <1>1, <1>8 DEF FCTyped, CallsTyped
    <2>2. BufferTrue(q)
      BY <1>8, <2>1 DEF BuffersTrue, InCall
    <2> QED BY <1>2, <2>1, <2>2 DEF BufferTrue
  <1> QED BY <1>7, <1>8 DEF BuffersTrue

\* Of the steps, CreateF, a write to a host file and PutSector touch a file.
LEMMA StepInPlace ==
  ASSUME FCInv, NoJunk, BuffersTrue, [Next]_fvars
  PROVE  NoJunk' /\ BuffersTrue' /\ \A n \in Names : InPlace(n)
  <1> DEFINE Goal == NoJunk' /\ BuffersTrue' /\ \A n \in Names : InPlace(n)
  <1>0. FCTyped /\ CallsOpen
    BY DEF FCInv
  <1>1. ASSUME UNCHANGED files PROVE NoJunk' /\ \A n \in Names : InPlace(n)
    BY <1>1 DEF NoJunk, InPlace
  <1>2. ASSUME UNCHANGED <<files, writing>> PROVE Goal
    BY <1>1, <1>2 DEF BuffersTrue, BufferTrue, InCall
  <1>3. ASSUME NEW p \in Procs, NEW n \in Names, CreateF(p, n) PROVE Goal
    <2>1. files' = [files EXCEPT ![n] = Empty] /\ Empty.len = 0 /\ UNCHANGED writing
      BY <1>3 DEF CreateF, Empty
    <2>2. NoJunk' /\ \A m \in Names : InPlace(m)
      BY <1>0, <2>1 DEF NoJunk, InPlace, FCTyped
    <2>3. ASSUME NEW q \in Procs, InCall(q) PROVE files'[writing[q].file] = files[writing[q].file]
      <3>1. /\ Fits(q) /\ writing[q].file \in Names /\ ~stub
            /\ writing[q].pos \in Nat /\ Len(writing[q].from) \in Nat
        BY <1>0, <2>3, FCAssumption DEF FCTyped, CallsTyped, Fits, Requests
      <3>2. files[n].len = -1
        BY <1>3, <3>1 DEF CreateF, Absent
      <3>3. writing[q].file # n
        <4> DEFINE f == writing[q].file
                   pos == writing[q].pos
                   k == Len(writing[q].from)
        <4>1. pos + k <= files[f].len /\ pos \in Nat /\ k \in Nat
          BY <3>1 DEF Fits
        <4> HIDE DEF f, pos, k
        <4>2. f # n
          BY <3>2, <4>1
        <4> QED BY <4>2 DEF f
      <3> DEFINE g == writing[q].file
      <3>4. g # n /\ g \in Names
        BY <3>1, <3>3
      <3> HIDE DEF g
      <3>5. files'[g] = files[g]
        BY <1>0, <2>1, <3>4 DEF FCTyped
      <3> QED BY <3>5 DEF g
    <2>4. BuffersTrue'
      BY <2>1, <2>3 DEF BuffersTrue, BufferTrue, InCall
    <2> QED BY <2>2, <2>4
  <1>4. ASSUME NEW p \in Procs, NEW d \in Descriptors, NEW m \in 1..MaxLen,
               NEW buffer \in [1..m -> Bytes], WriteF(p, buffer, d), ~InCall(p)
        PROVE  Goal
    <2> DEFINE a == list[p][d].pFile
               f == heap[a].file
               from == FromUser(buffer)
               pos == heap[a].offset
               n == Clipped(files[f], Len(from), pos)
               r == Request(d, f, SubSeq(from, 1, n), pos)
    <2>1. CASE ~Live(a)
      BY <1>2, <1>4, <2>1 DEF WriteF, GoWild
    <2>2. CASE Live(a) /\ stub
      BY <1>0, <1>4, <2>2, HostWriteStep
    <2>3. CASE Live(a) /\ ~stub
      <3>1. n > 0 /\ writing' = [writing EXCEPT ![p] = r] /\ UNCHANGED files
        BY <1>4, <2>3 DEF WriteF
      <3>2. f \in Names /\ pos \in 0..MaxLen
        BY <1>0, <2>3, LiveHasFile
      <3>3. files[f] \in [len : -1..MaxLen, bytes : Seq(Contents)]
        BY <1>0, <3>2 DEF FCTyped
      <3>4. from \in Seq(Bytes) /\ Len(from) \in Nat
        <4>1. m \in Nat
          BY FCAssumption
        <4> QED BY <4>1, FromUserTyped
      <3>5. pos \in Nat
        BY <3>2, FCAssumption
      <3> DEFINE part == SubSeq(from, 1, n)
      <3> HIDE DEF f, pos, from
      <3>6. n \in Nat \ {0} /\ n <= Len(from)
        BY <3>1, <3>2, <3>3, <3>4, ClippedFits
      <3>7. part \in Seq(Bytes) /\ part # <<>> /\ Len(part) \in Nat
        <4> HIDE DEF n
        <4> QED BY <3>4, <3>6
      <3>8. \A s \in r.puts \ r.reads : \A i \in Nat \ {0} :
              InSector(i, s) => i \in (pos + 1)..(pos + Len(part))
        <4> HIDE DEF n, part
        <4>1. r = Request(d, f, part, pos)
          BY DEF part
        <4> QED BY <1>0, <3>2, <3>5, <3>7, <4>1, RequestTrue
      <3>9. r.file = f /\ r.pos = pos /\ r.from = part
        BY DEF Request
      <3> HIDE DEF r, part
      <3>10. /\ writing'[p] = r
             /\ \A q \in Procs : q # p => writing'[q] = writing[q]
        BY <1>0, <3>1 DEF FCTyped, CallsTyped
      <3>11. BufferTrue(p)'
        <4>1. \A i \in 1..files[f].len : i \in Nat \ {0}
          BY <3>3
        <4> QED BY <3>1, <3>8, <3>9, <3>10, <4>1 DEF BufferTrue
      <3>12. ASSUME NEW q \in Procs, q # p, InCall(q)' PROVE BufferTrue(q)'
        BY <3>1, <3>10, <3>12 DEF BuffersTrue, BufferTrue, InCall
      <3> QED BY <1>1, <3>1, <3>11, <3>12 DEF BuffersTrue
    <2> QED BY <2>1, <2>2, <2>3
  <1>5. ASSUME NEW p \in Procs, NEW d, CloseF(p, d) PROVE Goal
    BY <1>2, <1>5 DEF CloseF, Close, GoWild
  <1>6. ASSUME NEW p \in Procs, NEW d, NEW position, SeekF(p, position, d) PROVE Goal
    BY <1>2, <1>6 DEF SeekF, Close, GoWild
  <1>7. ASSUME NEW p \in Procs, NEW d, NEW size, ReadF(p, size, d) PROVE Goal
    BY <1>2, <1>7 DEF ReadF, GoWild
  <1>8. CASE UNCHANGED fvars
    BY <1>2, <1>8 DEF fvars
  <1>9. ASSUME NEW p \in Procs, ReadEdge(p) PROVE Goal
    BY <1>0, <1>1, <1>9, ReadEdgeTrue DEF ReadEdge
  <1>10. ASSUME NEW p \in Procs, PutSector(p) PROVE Goal
    BY <1>0, <1>10, PutSectorInPlace
  <1>11. ASSUME NEW p \in Procs, CreateFBadName(p) \/ WriteDeleted(p) PROVE Goal
    BY <1>2, <1>11 DEF CreateFBadName, WriteDeleted, GoWild
  <1>12. ASSUME NEW p \in Procs, NEW d, OpenConsole(p, d) PROVE Goal
    BY <1>2, <1>12 DEF OpenConsole
  <1>13. ASSUME NEW p \in Procs, NEW n, NEW type, OpenF(p, n, type) \/ OpenFMissing(p, n, type)
         PROVE  Goal
    BY <1>2, <1>13 DEF OpenF, OpenFMissing
  <1> QED
    BY <1>3, <1>4, <1>5, <1>6, <1>7, <1>8, <1>9, <1>10, <1>11, <1>12, <1>13 DEF Next

\* For any number of processes in the middle of writes: a step writes the bytes of
\* a request, to a file that the process has opened for writing, and undoes what
\* another process has written to the sector since it was read; it leaves no byte
\* that was not meant.
THEOREM WritesStayInPlace == Spec => WritesInPlace
  <1>1. Init => BuffersTrue
    BY DEF Init, BuffersTrue, InCall, NotWriting
  <1>2. Spec => [](FCInv /\ NoJunk /\ BuffersTrue)
    BY <1>1, InitNoJunk, FCInvariant, StepInPlace, PTL DEF Spec
  <1>3. FCInv /\ NoJunk /\ BuffersTrue /\ [Next]_fvars => [\A n \in Names : InPlace(n)]_fvars
    BY StepInPlace
  <1> QED BY <1>2, <1>3, PTL DEF Spec, WritesInPlace, InPlace

-------------------------------------------------------------------------------
(* The table of the stage before *)

\* The types, as far as the steps need them.
EarlyTyped ==
  /\ leftFirst \in BOOLEAN /\ index \in 5..TableSize
  /\ hosts = [n \in EarlyNames |-> hosts[n]]
  /\ \A n \in EarlyNames : hosts[n].len \in Int
  /\ openf \in [EarlySlots -> [name : EarlyNames \cup {"none", "stdin", "stdout"},
                               type : -1..3, offset : Int]]
  /\ given \in [EarlySlots -> EarlyNames \cup {"none"}]
  /\ closed \subseteq EarlySlots

\* The slots that the next successful open may use hold nothing, were returned
\* for nothing and closed by nobody.
Ahead ==
  /\ \A d \in EarlySlots : d >= index => given[d] = "none"
  /\ \A d \in EarlySlots : d > index \/ (leftFirst /\ d = index) =>
       openf[d] = NotOpen /\ d \notin closed

\* What the slots behind them hold.
Behind ==
  IF leftFirst
  THEN \A d \in EarlySlots \ closed : given[d] # "none" => openf[d].name = given[d]
  ELSE \A d \in EarlySlots : d > 5 /\ d <= index => openf[d].name \in {given[d - 1], "none"}

EarlyInv == EarlyTyped /\ Ahead /\ Behind /\ UsedOnce

LEMMA EarlyInitInv == EarlyInit => EarlyInv
<1> SUFFICES ASSUME EarlyInit PROVE EarlyInv
  OBVIOUS
<1>1. EarlyTyped
  BY EarlyAssumption DEF EarlyInit, EarlyTyped, EarlySlots, Fresh, NotOpen, NoFile
<1>2. Ahead
  BY EarlyAssumption DEF EarlyInit, Ahead, EarlySlots, Fresh, NotOpen
<1>3. Behind
  BY EarlyAssumption DEF EarlyInit, Behind, EarlySlots, Fresh, NotOpen
<1>4. UsedOnce
  BY DEF EarlyInit, UsedOnce
<1> QED
  BY <1>1, <1>2, <1>3, <1>4 DEF EarlyInv

\* An open finds the slots ahead as they are.
LEMMA OpenKeeps ==
  ASSUME EarlyInv, NEW n \in EarlyNames, NEW type \in {0, 1}, EarlyOpen(n, type), ~beyond
  PROVE  EarlyInv'
<1>0. /\ EarlyTyped /\ Ahead /\ Behind /\ UsedOnce /\ TableSize \in Nat /\ "none" \notin EarlyNames
      /\ index \in Nat /\ 5 <= index /\ index <= TableSize
  BY EarlyAssumption DEF EarlyInv, EarlyTyped
<1> DEFINE slot == SlotFor(n, type)
<1>1. slot = IF leftFirst \/ hosts[n] = NoFile THEN index ELSE index + 1
  BY DEF SlotFor
<1>2. CASE slot >= TableSize /\ Beyond(FALSE)
  <2>1. UNCHANGED <<leftFirst, hosts, openf, index, given, closed>>
    BY <1>2 DEF Beyond
  <2>2. index >= TableSize - (IF leftFirst THEN 0 ELSE 1)
    BY <1>0, <1>1, <1>2
  <2>3. UsedOnce'
    BY <1>0, <2>1, <2>2 DEF UsedOnce
  <2> QED
    BY <1>0, <2>1, <2>3 DEF EarlyInv, EarlyTyped, Ahead, Behind
<1>3. CASE /\ slot < TableSize /\ hosts[n] # NoFile
           /\ openf' = [openf EXCEPT ![slot] = Fresh(n, type)]
           /\ index' = index + 1
           /\ given' = [given EXCEPT ![index] = n]
           /\ UNCHANGED <<leftFirst, hosts, closed, strayed, beyond>>
  <2>1. /\ slot = IF leftFirst THEN index ELSE index + 1
        /\ index \in EarlySlots /\ slot \in EarlySlots
        /\ slot \notin closed
    BY <1>0, <1>1, <1>3 DEF EarlySlots, Ahead
  <2> HIDE DEF slot
  <2>2. Fresh(n, type).name = n
    BY DEF Fresh
  <2>3. /\ \A d \in EarlySlots : openf'[d] = IF d = slot THEN Fresh(n, type) ELSE openf[d]
        /\ \A d \in EarlySlots : given'[d] = IF d = index THEN n ELSE given[d]
    BY <1>0, <1>3, <2>1 DEF EarlyTyped
  <2>4. EarlyTyped'
    <3>1. Fresh(n, type) \in [name : EarlyNames \cup {"none", "stdin", "stdout"},
                              type : -1..3, offset : Int]
      BY DEF Fresh
    <3>2. index' \in 5..TableSize
      BY <1>0, <1>3, <2>1 DEF EarlySlots
    <3> QED
      BY <1>0, <1>3, <2>1, <3>1, <3>2 DEF EarlyTyped
  <2>5. Ahead'
    BY <1>0, <1>3, <2>1, <2>3 DEF Ahead, EarlySlots
  <2>6. Behind'
    <3>1. CASE leftFirst
      BY <1>0, <1>3, <2>1, <2>2, <2>3, <3>1 DEF Behind
    <3>2. CASE ~leftFirst
      <4> SUFFICES ASSUME NEW d \in EarlySlots, d > 5, d <= index + 1
                   PROVE  openf'[d].name \in {given'[d - 1], "none"}
        BY <1>3, <3>2 DEF Behind
      <4>1. d - 1 \in EarlySlots
        BY <1>0 DEF EarlySlots
      <4>2. CASE d = index + 1
        BY <1>0, <2>1, <2>2, <2>3, <3>2, <4>1, <4>2
      <4>3. CASE d # index + 1
        <5>1. d <= index /\ d - 1 # index /\ d # slot
          BY <1>0, <2>1, <3>2, <4>3 DEF EarlySlots
        <5> QED
          BY <1>0, <2>3, <3>2, <4>1, <5>1 DEF Behind
      <4> QED
        BY <4>2, <4>3
    <3> QED
      BY <3>1, <3>2
  <2>7. UsedOnce'
    <3>1. \A d \in closed : openf'[d] = NotOpen
      BY <1>0, <2>1, <2>3 DEF UsedOnce, EarlyTyped
    <3> QED
      BY <1>0, <1>3, <3>1 DEF UsedOnce
  <2> QED
    BY <2>4, <2>5, <2>6, <2>7 DEF EarlyInv
<1>4. CASE /\ slot < TableSize /\ hosts[n] = NoFile
           /\ openf' = [openf EXCEPT ![slot] = NotOpen]
           /\ UNCHANGED <<leftFirst, hosts, index, given, closed, strayed, beyond>>
  <2>1. slot = index /\ index \in EarlySlots
    BY <1>0, <1>1, <1>4 DEF EarlySlots
  <2>2. \A d \in EarlySlots : openf'[d] = IF d = index THEN NotOpen ELSE openf[d]
    BY <1>0, <1>4, <2>1 DEF EarlyTyped
  <2>3. NotOpen \in [name : EarlyNames \cup {"none", "stdin", "stdout"}, type : -1..3, offset : Int]
        /\ NotOpen.name = "none"
    BY DEF NotOpen
  <2>4. EarlyTyped'
    BY <1>0, <1>4, <2>1, <2>3 DEF EarlyTyped
  <2>5. Ahead'
    BY <1>0, <1>4, <2>2 DEF Ahead
  <2>6. Behind'
    <3>1. CASE leftFirst
      BY <1>0, <1>4, <2>1, <2>2, <3>1 DEF Behind, Ahead
    <3>2. CASE ~leftFirst
      BY <1>0, <1>4, <2>2, <2>3, <3>2 DEF Behind
    <3> QED
      BY <3>1, <3>2
  <2>7. UsedOnce'
    BY <1>0, <1>4, <2>2 DEF UsedOnce, EarlyTyped
  <2> QED
    BY <2>4, <2>5, <2>6, <2>7 DEF EarlyInv
<1> QED
  BY <1>2, <1>3, <1>4 DEF EarlyOpen

\* A read, write or seek moves the position of an open file, and nothing else.
LEMMA MoveKeeps ==
  ASSUME EarlyInv, NEW d \in EarlySlots, OfFile(d), NEW to \in Int,
         openf' = [openf EXCEPT ![d].offset = to],
         UNCHANGED <<leftFirst, index, given, closed, strayed, beyond>>,
         hosts' = [n \in EarlyNames |-> hosts'[n]],
         \A n \in EarlyNames : hosts'[n].len \in Int
  PROVE  EarlyInv'
<1>0. EarlyTyped /\ Ahead /\ Behind /\ UsedOnce /\ "none" \notin EarlyNames
  BY EarlyAssumption DEF EarlyInv
<1>1. openf[d] # NotOpen /\ d \notin closed
  BY <1>0 DEF OfFile, NotOpen, UsedOnce
<1>2. \A e \in EarlySlots : /\ openf'[e].name = openf[e].name
                            /\ e # d => openf'[e] = openf[e]
  BY <1>0 DEF EarlyTyped
<1>3. EarlyTyped'
  BY <1>0 DEF EarlyTyped
<1>4. Ahead'
  BY <1>0, <1>1, <1>2 DEF Ahead
<1>5. Behind'
  BY <1>0, <1>2 DEF Behind
<1>6. UsedOnce'
  BY <1>0, <1>1, <1>2 DEF UsedOnce, EarlyTyped
<1> QED
  BY <1>3, <1>4, <1>5, <1>6 DEF EarlyInv

\* What Beyond leaves of the invariant when it is the program's fault.
LEMMA StrayKeeps == EarlyInv /\ Beyond(TRUE) => EarlyInv'
<1> SUFFICES ASSUME EarlyInv, Beyond(TRUE) PROVE EarlyInv'
  OBVIOUS
<1>1. UNCHANGED <<leftFirst, hosts, openf, index, given, closed>>
  BY DEF Beyond
<1>2. strayed'
  BY Zenon DEF Beyond
<1> QED
  BY <1>1, <1>2 DEF EarlyInv, EarlyTyped, Ahead, Behind, UsedOnce

\* A closed slot stays empty.
LEMMA CloseKeeps ==
  ASSUME EarlyInv, NEW d \in 0..TableSize, EarlyClose(d)
  PROVE  EarlyInv'
<1>0. EarlyTyped /\ Ahead /\ Behind /\ UsedOnce /\ "none" \notin EarlyNames
  BY EarlyAssumption DEF EarlyInv
<1>1. CASE d \notin EarlySlots /\ Beyond(TRUE)
  BY <1>1, StrayKeeps
<1>2. CASE /\ d \in EarlySlots /\ openf[d] # NotOpen
           /\ openf' = [openf EXCEPT ![d] = NotOpen]
           /\ closed' = closed \cup {d}
           /\ UNCHANGED <<leftFirst, hosts, index, given, strayed, beyond>>
  <2>1. NotOpen \in [name : EarlyNames \cup {"none", "stdin", "stdout"}, type : -1..3, offset : Int]
        /\ NotOpen.name = "none"
    BY DEF NotOpen
  <2>2. \A e \in EarlySlots : openf'[e] = IF e = d THEN NotOpen ELSE openf[e]
    BY <1>0, <1>2 DEF EarlyTyped
  <2>3. EarlyTyped'
    BY <1>0, <1>2, <2>1 DEF EarlyTyped
  <2>4. Ahead'
    BY <1>0, <1>2, <2>2 DEF Ahead
  <2>5. Behind'
    BY <1>0, <1>2, <2>1, <2>2 DEF Behind
  <2>6. UsedOnce'
    BY <1>0, <1>2, <2>2 DEF UsedOnce, EarlyTyped
  <2> QED
    BY <2>3, <2>4, <2>5, <2>6 DEF EarlyInv
<1> QED
  BY <1>1, <1>2 DEF EarlyClose

LEMMA EarlyStep == EarlyInv /\ [EarlyNext]_evars => EarlyInv'
<1> SUFFICES ASSUME EarlyInv, [EarlyNext]_evars PROVE EarlyInv'
  OBVIOUS
<1>0. /\ EarlyTyped /\ hosts = [n \in EarlyNames |-> hosts[n]]
      /\ \A n \in EarlyNames : hosts[n].len \in Int
      /\ \A d \in EarlySlots : openf[d].offset \in Int
      /\ EarlyMaxLen \in Nat /\ TableSize \in Nat
  BY EarlyAssumption DEF EarlyInv, EarlyTyped
<1>1. \A d \in 0..TableSize : d < TableSize => d \in EarlySlots
  BY <1>0 DEF EarlySlots
<1>2. ASSUME NEW n \in EarlyNames, EarlyCreate(n) PROVE EarlyInv'
  BY <1>2 DEF EarlyCreate, EarlyInv, EarlyTyped, Ahead, Behind, UsedOnce
<1>3. ASSUME NEW n \in EarlyNames, NEW type \in {0, 1}, EarlyOpen(n, type), ~beyond PROVE EarlyInv'
  BY <1>3, OpenKeeps
<1>4. ASSUME NEW d \in 0..TableSize, EarlyClose(d) PROVE EarlyInv'
  BY <1>4, CloseKeeps
<1>5. ASSUME NEW d \in 0..TableSize, NEW n \in 1..EarlyMaxLen, EarlyRead(d, n) PROVE EarlyInv'
  <2>1. CASE d = TableSize
    <3>1. ~(d < TableSize)
      BY <1>0, <2>1
    <3>2. Beyond(TRUE)
      BY <1>5, <3>1, Zenon DEF EarlyRead
    <3> QED
      BY <3>2, StrayKeeps
  <2>2. d # TableSize => d < TableSize /\ d \in EarlySlots /\ OfFile(d)
    BY <1>0, <1>1, <1>5 DEF EarlyRead
  <2>3. CASE d # TableSize
    <3> DEFINE file == hosts[openf[d].name]
               to == openf[d].offset + Clipped(file, n, openf[d].offset)
    <3>1. file.len \in Int /\ d \in EarlySlots
      BY <1>0, <1>1, <2>2, <2>3 DEF OfFile
    <3>2. to \in Int
      BY <1>0, <3>1 DEF Clipped
    <3>3. openf' = [openf EXCEPT ![d].offset = to]
      BY <1>5, <2>3, Zenon DEF EarlyRead
    <3> QED
      BY <1>0, <1>5, <2>2, <2>3, <3>1, <3>2, <3>3, MoveKeeps DEF EarlyRead
  <2> QED
    BY <2>1, <2>3
<1>6. ASSUME NEW d \in 0..TableSize, NEW len \in 1..EarlyMaxLen, NEW b \in [1..len -> EarlyBytes],
             EarlyWrite(d, b)
      PROVE  EarlyInv'
  <2>1. CASE d = TableSize
    <3>1. ~(d < TableSize)
      BY <1>0, <2>1
    <3>2. Beyond(TRUE)
      BY <1>6, <3>1, Zenon DEF EarlyWrite
    <3> QED
      BY <3>2, StrayKeeps
  <2>2. d # TableSize => d < TableSize /\ d \in EarlySlots /\ OfFile(d)
    BY <1>0, <1>1, <1>6 DEF EarlyWrite
  <2>3. CASE d # TableSize
    <3> DEFINE file == hosts[openf[d].name]
               to == openf[d].offset + Len(b)
    <3>1. file.len \in Int /\ d \in EarlySlots /\ Len(b) \in Nat
      BY <1>0, <1>1, <2>2, <2>3 DEF OfFile
    <3>2. to \in Int
      BY <1>0, <3>1
    <3>3. openf' = [openf EXCEPT ![d].offset = to]
      BY <1>6, <2>3, Zenon DEF EarlyWrite
    <3>4. HostWrite(file, b, openf[d].offset).len \in Int
      BY <3>1, <3>2 DEF HostWrite
    <3>5. hosts' = [hosts EXCEPT ![openf[d].name] = HostWrite(file, b, openf[d].offset)]
      BY <1>0, <1>6, <2>3 DEF EarlyWrite
    <3>6. /\ hosts' = [n \in EarlyNames |-> hosts'[n]]
          /\ \A n \in EarlyNames : hosts'[n].len \in Int
      BY <1>0, <3>4, <3>5
    <3> QED
      BY <1>0, <1>6, <2>2, <2>3, <3>1, <3>2, <3>3, <3>6, MoveKeeps DEF EarlyWrite
  <2> QED
    BY <2>1, <2>3
<1>7. ASSUME NEW d \in 0..TableSize, NEW pos \in -1..EarlyMaxLen, EarlySeek(pos, d) PROVE EarlyInv'
  <2>1. CASE d = TableSize
    <3>1. ~(d < TableSize)
      BY <1>0, <2>1
    <3>2. Beyond(TRUE)
      BY <1>7, <3>1, Zenon DEF EarlySeek
    <3> QED
      BY <3>2, StrayKeeps
  <2>2. d # TableSize => d < TableSize /\ d \in EarlySlots /\ OfFile(d)
    BY <1>0, <1>1, <1>7 DEF EarlySeek
  <2>3. CASE d # TableSize
    <3> DEFINE to == IF pos = -1 THEN hosts[openf[d].name].len ELSE pos
    <3>1. to \in Int /\ d \in EarlySlots
      BY <1>0, <1>1, <2>2, <2>3 DEF OfFile
    <3>2. openf' = [openf EXCEPT ![d].offset = to]
      BY <1>7, <2>3, Zenon DEF EarlySeek
    <3> QED
      BY <1>0, <1>7, <2>2, <2>3, <3>1, <3>2, MoveKeeps DEF EarlySeek
  <2> QED
    BY <2>1, <2>3
<1>8. CASE UNCHANGED evars
  BY <1>8 DEF evars, EarlyInv, EarlyTyped, Ahead, Behind, UsedOnce
<1> QED
  BY <1>2, <1>3, <1>4, <1>5, <1>6, <1>7, <1>8 DEF EarlyNext

\* The invariant says what descriptors name.
LEMMA EarlyInvSafe == EarlyInv => EarlySafe
<1> SUFFICES ASSUME EarlyInv PROVE EarlySafe
  OBVIOUS
<1>0. EarlyTyped /\ Ahead /\ Behind /\ UsedOnce
  BY DEF EarlyInv
<1>1. ASSUME NEW d \in EarlySlots \ closed, given[d] # "none"
      PROVE  IF leftFirst THEN openf[d].name = given[d]
             ELSE d > 5 => openf[d].name \in {given[d - 1], "none"}
  <2>1. d <= index
    BY <1>0, <1>1 DEF Ahead, EarlyTyped, EarlySlots
  <2> QED
    BY <1>0, <1>1, <2>1 DEF Behind
<1> QED
  BY <1>0, <1>1 DEF EarlySafe, DescriptorsName

\* For any names, any size of the table and either build: a descriptor of
\* nachos-1,2 names what the order of evaluation makes of the Open that returned
\* it, no slot is used twice, and memory behind the table is used without a
\* fault of the program's only when the slots have been used up.
THEOREM EarlyIsSafe == EarlySpec => []EarlySafe
<1>1. EarlySpec => []EarlyInv
  BY EarlyInitInv, EarlyStep, PTL DEF EarlySpec
<1> QED
  BY <1>1, EarlyInvSafe, PTL
===============================================================================
