------------------------------ MODULE FileSystem ------------------------------
(***************************************************************************)
(* The native file system of filesys/: a bitmap of free sectors, a         *)
(* directory and one header per file, each written to the disk sector by   *)
(* sector (filesys.cc, directory.cc, filehdr.cc, bitmap.cc).               *)
(*                                                                         *)
(* One operation runs at a time, as filesys.cc says; the machine may stop  *)
(* between any two sector writes and be started again on the same disk.    *)
(* What a file contains is the subject of module OpenFile: here a header   *)
(* is the set of its data sectors, and a write through an open file only   *)
(* says which sectors it overwrites.                                       *)
(***************************************************************************)
EXTENDS Integers, FiniteSets

CONSTANTS
  NumSectors,      \* sectors of the disk
  NumDirEntries,   \* entries of the directory
  SplitEntry,      \* the entry that lies across the two sectors of the directory
  NumDirect,       \* data sectors a header has room for
  Names,           \* file names
  NoName,          \* the name bytes of an entry that was never used
  Sizes,           \* sizes asked of Create, in sectors
  Misread,         \* what the bytes of a file may name when taken for a header
  MaxOpen          \* bound on the files open at once

\* Sectors 0 and 1 hold the headers of the bitmap and of the directory, sector
\* 2 the bitmap, sectors 3 and 4 the directory.
Reserved == 0..4
Sectors == 0..(NumSectors - 1)
Slots == 1..NumDirEntries

\* What bytes taken for a header can name: NumSectors stands for every number
\* that is no sector, and for one that comes twice.
Numbers == 0..NumSectors

ASSUME FSAssumption ==
  /\ NumSectors \in Nat /\ NumSectors > 5
  /\ NumDirEntries \in Nat /\ NumDirect \in Nat
  /\ SplitEntry \in Slots
  /\ NoName \notin Names
  /\ Sizes \subseteq Nat
  /\ Misread \subseteq SUBSET Numbers
  /\ MaxOpen \in Nat

VARIABLES
  dmap,    \* disk: the sectors marked in the bitmap
  ddir,    \* disk: the directory
  dhdr,    \* disk: the data sectors named by a header sector
  hdrs,    \* disk: the sectors whose last contents were a file header
  pc,      \* the next sector write of the operation under way, or idle, down, ...
  mem,     \* its copies in memory: directory, bitmap, header, and their places
  opened,  \* the open files, with their copies of the headers
  refused, \* the last request that returned FALSE, until another is carried out
  sound,   \* history: nothing has happened yet that can damage the disk
  intact   \* history: no bytes but a header were taken for one, none was overfilled

disk == <<dmap, ddir, dhdr, hdrs>>
vars == <<dmap, ddir, dhdr, hdrs, pc, mem, opened, refused, sound, intact>>

Entries == [inUse : BOOLEAN, sector : Sectors, name : Names \cup {NoName}]
FreeEntry == [inUse |-> FALSE, sector |-> 0, name |-> NoName]

Creating == {"chdr", "cdir1", "cdir2", "cmap"}
Removing == {"rmap", "rdir1", "rdir2"}
Stopped == {"aborted", "wild"}

\* A slip: Find counts the sectors from 1.
LowestFromOne(k, S) == {s + 1 : s \in {t \in S : Cardinality({u \in S : u < t}) < k}}

\* BitMap::Find, applied k times: the k lowest sectors that are not marked.
Lowest(k, S) == {s \in S : Cardinality({t \in S : t < s}) < k}
IsFirst(s, S) == s \in S /\ \A t \in S : s <= t

\* The entry that Directory::FindIndex returns, and the one that Add fills.
Matching(dir, n) == {i \in Slots : dir[i].inUse /\ dir[i].name = n}
Unused(dir) == {i \in Slots : ~dir[i].inUse}

\* Directory::WriteBack writes two sectors. The entry on the boundary has its
\* flag and sector number in the first and its name in the second.
FirstHalf(old, new) ==
  [i \in Slots |-> IF i < SplitEntry THEN new[i]
                   ELSE IF i = SplitEntry THEN [new[i] EXCEPT !.name = old[i].name]
                   ELSE old[i]]

NoRefusal == [name |-> NoName, size |-> -1]
Requests == [name : Names \cup {NoName}, size : Sizes \cup {-1}]

NoOp == [dir |-> [i \in Slots |-> FreeEntry], map |-> {}, entry |-> 1,
         sector |-> 0, blocks |-> {}]

\* A slip: the formatter gives the directory one sector, not two.
InitShortDirectory ==
  /\ dmap = Reserved \ {4}
  /\ ddir = [i \in Slots |-> FreeEntry]
  /\ dhdr = [s \in Sectors |-> {}]
  /\ hdrs = {} /\ pc = "idle" /\ mem = NoOp
  /\ opened = {} /\ refused = NoRefusal /\ sound = TRUE /\ intact = TRUE

\* The disk and the memory that FileSystem::FileSystem(TRUE) leaves.
Init ==
  /\ dmap = Reserved
  /\ ddir = [i \in Slots |-> FreeEntry]
  /\ dhdr = [s \in Sectors |-> {}]
  /\ hdrs = {}
  /\ pc = "idle"
  /\ mem = NoOp
  /\ opened = {}
  /\ refused = NoRefusal
  /\ sound = TRUE
  /\ intact = TRUE

-------------------------------------------------------------------------------
(* Create *)

\* A slip: the sector of the header is counted twice.
RefusedCountsTwice(n, k) ==
  \/ Matching(ddir, n) # {} \/ Unused(ddir) = {} \/ Sectors \ dmap = {}
  \/ Cardinality(Sectors \ dmap) - 2 < k

\* Create gives up before it has written anything: the name exists, no sector
\* is free for the header, no entry for the name, too few sectors for the data.
Refused(n, k) ==
  \/ Matching(ddir, n) # {}
  \/ Sectors \ dmap = {}
  \/ Unused(ddir) = {}
  \/ Cardinality(Sectors \ dmap) - 1 < k

CreateFails(n, k) ==
  /\ pc = "idle"
  /\ Refused(n, k)
  /\ refused' = [name |-> n, size |-> k]
  /\ UNCHANGED <<dmap, ddir, dhdr, hdrs, pc, mem, opened, sound, intact>>

\* Allocate does not compare the size with the room in a header: a larger file
\* has its sector numbers written past the end of the object.
CreateTooBig(n, k) ==
  /\ pc = "idle"
  /\ ~Refused(n, k)
  /\ k > NumDirect
  /\ pc' = "wild"
  /\ sound' = FALSE
  /\ intact' = FALSE
  /\ UNCHANGED <<dmap, ddir, dhdr, hdrs, mem, opened, refused>>

\* The copies in memory: the header's sector is found first, the entry is
\* filled, then the data sectors are found.
CreateStart(n, k) ==
  /\ pc = "idle"
  /\ ~Refused(n, k)
  /\ k <= NumDirect
  /\ \E sector \in Sectors, e \in Slots :
       LET blocks == Lowest(k, Sectors \ (dmap \cup {sector}))
       IN  /\ IsFirst(sector, Sectors \ dmap)
           /\ IsFirst(e, Unused(ddir))
           /\ mem' = [dir |-> [ddir EXCEPT ![e] = [inUse |-> TRUE, sector |-> sector, name |-> n]],
                      map |-> dmap \cup {sector} \cup blocks,
                      entry |-> e, sector |-> sector, blocks |-> blocks]
  /\ pc' = "chdr"
  /\ refused' = NoRefusal
  /\ UNCHANGED <<dmap, ddir, dhdr, hdrs, opened, sound, intact>>

\* A slip: the bitmap is flushed together with the header, before the directory.
CreateHeaderAndMap ==
  /\ pc = "chdr"
  /\ dhdr' = [dhdr EXCEPT ![mem.sector] = mem.blocks]
  /\ hdrs' = hdrs \cup {mem.sector}
  /\ dmap' = mem.map
  /\ pc' = "cdir1"
  /\ UNCHANGED <<ddir, mem, opened, refused, sound, intact>>

\* A header that goes to a sector of the bitmap or of the directory destroys it.
CreateHeader ==
  /\ pc = "chdr"
  /\ dhdr' = [dhdr EXCEPT ![mem.sector] = mem.blocks]
  /\ hdrs' = hdrs \cup {mem.sector}
  /\ pc' = IF mem.sector \in Reserved THEN "wild" ELSE "cdir1"
  /\ UNCHANGED <<dmap, ddir, mem, opened, refused, sound, intact>>

\* Both halves of a directory write, by Create and by Remove.
WriteDir1(from, to) ==
  /\ pc = from
  /\ ddir' = FirstHalf(ddir, mem.dir)
  /\ pc' = to
  /\ UNCHANGED <<dmap, dhdr, hdrs, mem, opened, refused, sound, intact>>

CreateDir1 == WriteDir1("cdir1", "cdir2")
RemoveDir1 == WriteDir1("rdir1", "rdir2")

CreateDir2 ==
  /\ pc = "cdir2"
  /\ ddir' = mem.dir
  /\ pc' = "cmap"
  /\ UNCHANGED <<dmap, dhdr, hdrs, mem, opened, refused, sound, intact>>

\* A slip: the bitmap written back marks the header only.
CreateMapHeaderOnly ==
  /\ pc = "cmap"
  /\ dmap' = dmap \cup {mem.sector}
  /\ pc' = "idle" /\ mem' = NoOp
  /\ UNCHANGED <<refused, ddir, dhdr, hdrs, opened, sound, intact>>

\* A slip: the bitmap written back marks the data only.
CreateMapDataOnly ==
  /\ pc = "cmap"
  /\ dmap' = dmap \cup mem.blocks
  /\ pc' = "idle" /\ mem' = NoOp
  /\ UNCHANGED <<refused, ddir, dhdr, hdrs, opened, sound, intact>>

CreateMap ==
  /\ pc = "cmap"
  /\ dmap' = mem.map
  /\ pc' = "idle"
  /\ mem' = NoOp
  /\ UNCHANGED <<refused, ddir, dhdr, hdrs, opened, sound, intact>>

-------------------------------------------------------------------------------
(* Remove *)

RemoveFails(n) ==
  /\ pc = "idle"
  /\ Matching(ddir, n) = {}
  /\ refused' = [name |-> n, size |-> -1]
  /\ UNCHANGED <<dmap, ddir, dhdr, hdrs, pc, mem, opened, sound, intact>>

\* FileHeader::FetchFrom. Where another file was written over the header, after a
\* stop or through a removed file, bytes of that file are taken for one.
Fetched(sector) == IF sector \in hdrs THEN {dhdr[sector]} ELSE Misread

\* Deallocate clears what the header names, whatever that is, up to the first
\* sector that is not marked: there its ASSERT stops the machine, before anything
\* is written. An open file keeps its own copy of the header.
RemoveStart(n) ==
  /\ pc = "idle"
  /\ \E e \in Slots : \E blocks \in Fetched(ddir[e].sector) :
       /\ IsFirst(e, Matching(ddir, n))
       /\ intact' = (intact /\ ddir[e].sector \in hdrs)
       /\ IF ~(blocks \subseteq dmap)
          THEN /\ pc' = "aborted"
               /\ UNCHANGED <<mem, opened>>
          ELSE /\ mem' = [dir |-> [ddir EXCEPT ![e].inUse = FALSE],
                          map |-> dmap \ (blocks \cup {ddir[e].sector}),
                          entry |-> e, sector |-> ddir[e].sector, blocks |-> blocks]
               /\ opened' = {IF f.sector = ddir[e].sector THEN [f EXCEPT !.current = FALSE] ELSE f
                               : f \in opened}
               /\ pc' = "rmap"
  /\ refused' = NoRefusal
  /\ UNCHANGED <<dmap, ddir, dhdr, hdrs, sound>>

\* A slip: Remove forgets to clear the header's own sector.
RemoveMapKeepsHeader ==
  /\ pc = "rmap"
  /\ dmap' = mem.map \cup {mem.sector}
  /\ pc' = "rdir1"
  /\ UNCHANGED <<ddir, dhdr, hdrs, mem, opened, refused, sound, intact>>

RemoveMap ==
  /\ pc = "rmap"
  /\ dmap' = mem.map
  /\ pc' = "rdir1"
  /\ UNCHANGED <<ddir, dhdr, hdrs, mem, opened, refused, sound, intact>>

RemoveDir2 ==
  /\ pc = "rdir2"
  /\ ddir' = mem.dir
  /\ pc' = "idle"
  /\ mem' = NoOp
  /\ UNCHANGED <<refused, dmap, dhdr, hdrs, opened, sound, intact>>

-------------------------------------------------------------------------------
(* Open files *)

\* FileSystem::Open and OpenFile::OpenFile: the header is copied into memory.
\* An open file is "current" until its file is removed.
Open(n) ==
  /\ pc = "idle"
  /\ Cardinality(opened) < MaxOpen
  /\ \E e \in Slots : \E blocks \in Fetched(ddir[e].sector) :
       /\ IsFirst(e, Matching(ddir, n))
       /\ intact' = (intact /\ ddir[e].sector \in hdrs)
       /\ opened' = opened \cup
            {[sector |-> ddir[e].sector, blocks |-> blocks, current |-> TRUE]}
  /\ UNCHANGED <<dmap, ddir, dhdr, hdrs, pc, mem, refused, sound>>

Close(f) ==
  /\ pc = "idle"
  /\ opened' = opened \ {f}
  /\ UNCHANGED <<dmap, ddir, dhdr, hdrs, pc, mem, refused, sound, intact>>

\* OpenFile::WriteAt over the whole file: whatever its sectors held is gone.
\* Harmful when the file was removed and its sectors belong to another; with the
\* bitmap's or the directory's among them nothing is known of the disk any more.
\* The disk asserts that a number is that of a sector.
Write(f) ==
  /\ pc = "idle"
  /\ hdrs' = hdrs \ f.blocks
  /\ pc' = IF f.blocks \cap Reserved # {} THEN "wild"
           ELSE IF f.blocks \subseteq Sectors THEN pc ELSE "aborted"
  /\ sound' = (sound /\ (f.current \/ f.blocks \cap dmap = {}))
  /\ UNCHANGED <<dmap, ddir, dhdr, mem, opened, refused, intact>>

-------------------------------------------------------------------------------
(* The machine stops and is started again *)

\* The writes after which the directory names sectors that the bitmap has free.
Exposed ==
  \/ pc = "cdir2" /\ mem.entry <= SplitEntry
  \/ pc = "cmap"
  \/ pc = "rdir1"
  \/ pc = "rdir2" /\ mem.entry > SplitEntry

Crash ==
  /\ pc \notin {"down", "wild"}
  /\ pc' = "down"
  /\ sound' = (sound /\ ~Exposed)
  /\ mem' = NoOp
  /\ opened' = {}
  /\ UNCHANGED <<dmap, ddir, dhdr, hdrs, refused, intact>>

\* FileSystem::FileSystem(FALSE): only the two open files are set up.
Reboot ==
  /\ pc = "down"
  /\ pc' = "idle"
  /\ UNCHANGED <<dmap, ddir, dhdr, hdrs, mem, opened, refused, sound, intact>>

Next ==
  \/ \E n \in Names, k \in Sizes : CreateFails(n, k) \/ CreateTooBig(n, k) \/ CreateStart(n, k)
  \/ CreateHeader \/ CreateDir1 \/ CreateDir2 \/ CreateMap
  \/ \E n \in Names : RemoveFails(n) \/ RemoveStart(n) \/ Open(n)
  \/ RemoveMap \/ RemoveDir1 \/ RemoveDir2
  \/ \E f \in opened : Close(f) \/ Write(f)
  \/ Crash \/ Reboot

Spec == Init /\ [][Next]_vars

-------------------------------------------------------------------------------
(* Properties *)

Halves == [dir : [Slots -> Entries], map : SUBSET Sectors, entry : Slots,
           sector : Sectors, blocks : SUBSET Sectors]
OpenFiles == [sector : Sectors, blocks : SUBSET Numbers, current : BOOLEAN]

\* The types of the disk, of the copies in memory and of the control state.
FSTypeOK ==
  /\ dmap \in SUBSET Sectors
  /\ ddir \in [Slots -> Entries]
  /\ dhdr \in [Sectors -> SUBSET Sectors]
  /\ hdrs \in SUBSET Sectors
  /\ pc \in {"idle", "down"} \cup Creating \cup Removing \cup Stopped
  /\ mem \in Halves
  /\ opened \in SUBSET OpenFiles
  /\ refused \in Requests
  /\ sound \in BOOLEAN /\ intact \in BOOLEAN

InUse(dir) == {i \in Slots : dir[i].inUse}
Space(dir, i) == {dir[i].sector} \cup dhdr[dir[i].sector]

\* A directory, the headers it names and a bitmap agree: every entry names a
\* header, no sector belongs to two files or twice to one, and the bitmap marks
\* the sectors in use and no others.
Agree(dir, map) ==
  /\ \A i \in InUse(dir) :
       /\ dir[i].sector \in hdrs
       /\ dir[i].sector \notin dhdr[dir[i].sector]
       /\ Space(dir, i) \cap Reserved = {}
  /\ \A i, j \in InUse(dir) : i # j =>
       /\ Space(dir, i) \cap Space(dir, j) = {}
       /\ dir[i].name # dir[j].name
  /\ map = Reserved \cup UNION {Space(dir, i) : i \in InUse(dir)}

\* Between operations, and after a stop that did not come in an exposed moment,
\* the directory, the headers and the bitmap on the disk agree: Create and
\* Remove neither lose a sector nor give one to two files, and a stop at any
\* other write does no harm (filesys.cc Create and Remove).
Consistent == sound /\ pc \in {"idle", "down"} => Agree(ddir, dmap)

\* The moments called exposed are exactly those at which the disk has a file
\* whose sectors the bitmap does not mark (the order of the writes in Create
\* and in Remove).
ExposedExactly ==
  sound => (Exposed <=> \E i \in InUse(ddir) : ~(Space(ddir, i) \subseteq dmap))

\* Exposed stops and writes through removed files may damage the disk, and files
\* may come to share sectors; but the sectors of the bitmap and of the directory
\* are given to no file and never overwritten before the bytes of a file have been
\* taken for a header, or a header has been filled past its end (BitMap::Find,
\* Deallocate, OpenFile::OpenFile).
MetadataSafe ==
  intact =>
    /\ Reserved \subseteq dmap
    /\ \A i \in InUse(ddir) : ddir[i].sector \notin Reserved
    /\ \A s \in hdrs : dhdr[s] \cap Reserved = {}
    /\ \A f \in opened : f.blocks \cap Reserved = {}
    /\ pc # "wild"

\* On a disk nobody has damaged, the ASSERT of FileHeader::Deallocate never
\* fails, and no sector is taken for a header that is none.
NeverAborts == sound => pc \notin Stopped /\ intact

\* An open file whose file was not removed has the header that is on the disk,
\* and its sectors are marked: it reads and writes its own file only.
OpenFilesCurrent ==
  sound /\ pc = "idle" => \A f \in opened :
    f.current => /\ \E i \in InUse(ddir) : ddir[i].sector = f.sector
                 /\ f.blocks = dhdr[f.sector]

-------------------------------------------------------------------------------
(* The files a caller sees *)

\* The directory the operation under way started from.
OldDir == [mem.dir EXCEPT ![mem.entry].inUse = (pc \in Removing)]
CallerDir == IF pc \in Creating \cup Removing THEN OldDir ELSE ddir

FilesOf(dir, hdr) ==
  [n \in Names |->
     IF Matching(dir, n) = {} THEN -1
     ELSE LET i == CHOOSE e \in Slots : IsFirst(e, Matching(dir, n))
          IN  Cardinality(hdr[dir[i].sector])]

CallerFiles == IF sound THEN FilesOf(CallerDir, dhdr) ELSE [n \in Names |-> -1]

CallUnderWay ==
  IF ~sound \/ pc \notin Creating \cup Removing THEN [op |-> "none"]
  ELSE IF pc \in Creating
       THEN [op |-> "create", name |-> mem.dir[mem.entry].name, size |-> Cardinality(mem.blocks)]
       ELSE [op |-> "remove", name |-> mem.dir[mem.entry].name]

Store == INSTANCE FileStore WITH
  files <- CallerFiles, call <- CallUnderWay, damaged <- ~sound,
  Capacity <- NumSectors - 5, MaxFiles <- NumDirEntries, MaxSize <- NumDirect

\* Create, Remove and the stops between their writes implement FileStore.
ImplementsFileStore == Store!StoreSpec
===============================================================================
