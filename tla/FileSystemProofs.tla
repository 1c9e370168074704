---------------------------- MODULE FileSystemProofs ----------------------------
(***************************************************************************)
(* Proofs about FileSystem: on any disk and for any names, the directory,  *)
(* the headers and the bitmap agree whenever no operation is under way and *)
(* after every stop but those the model calls exposed; no operation takes  *)
(* a sector of the bitmap or of the directory, on a damaged disk not       *)
(* either, before the bytes of a file are taken for a header; and what a   *)
(* caller sees is what FileStore promises.                                 *)
(***************************************************************************)
EXTENDS FileSystem, FiniteSetTheorems, TLAPS

-------------------------------------------------------------------------------
(* Types *)

\* The formatter's disk has the right types.
LEMMA FSInitTyped == Init => FSTypeOK
  <1> SUFFICES ASSUME Init PROVE FSTypeOK
    OBVIOUS
  <1>1. {0, 1, 2, 3, 4} \subseteq Sectors /\ 1 \in Slots /\ Reserved \subseteq Sectors
    BY FSAssumption DEF Sectors, Slots, Reserved
  <1>2. FreeEntry \in Entries
    BY <1>1 DEF FreeEntry, Entries
  <1>3. NoOp \in Halves
    BY <1>1, <1>2 DEF NoOp, Halves
  <1>4. NoRefusal \in Requests
    BY DEF NoRefusal, Requests
  <1> QED BY <1>1, <1>2, <1>3, <1>4 DEF Init, FSTypeOK, OpenFiles

\* What a directory write leaves is a directory (Directory::WriteBack).
LEMMA FirstHalfTyped ==
  ASSUME NEW old \in [Slots -> Entries], NEW new \in [Slots -> Entries]
  PROVE  /\ FirstHalf(old, new) \in [Slots -> Entries]
         /\ \A i \in Slots :
              LET entry == FirstHalf(old, new)[i]
              IN  /\ i < SplitEntry => entry = new[i]
                  /\ i = SplitEntry => /\ entry.inUse = new[i].inUse
                                       /\ entry.sector = new[i].sector
                                       /\ entry.name = old[i].name
                  /\ i > SplitEntry => entry = old[i]
  <1>1. ASSUME NEW i \in Slots
        PROVE  /\ [new[i] EXCEPT !.name = old[i].name] \in Entries
               /\ [new[i] EXCEPT !.name = old[i].name].inUse = new[i].inUse
               /\ [new[i] EXCEPT !.name = old[i].name].sector = new[i].sector
               /\ [new[i] EXCEPT !.name = old[i].name].name = old[i].name
    BY DEF Entries
  <1>2. Slots \subseteq Int /\ SplitEntry \in Int
    BY FSAssumption DEF Slots
  <1> QED BY <1>1, <1>2 DEF FirstHalf

\* An entry that Directory::Remove has freed keeps its sector and its name.
LEMMA FreedEntry ==
  ASSUME NEW dir \in [Slots -> Entries], NEW e \in Slots
  PROVE  \A i \in Slots :
           /\ [dir EXCEPT ![e].inUse = FALSE][i].sector = dir[i].sector
           /\ [dir EXCEPT ![e].inUse = FALSE][i].name = dir[i].name
           /\ [dir EXCEPT ![e].inUse = FALSE][i].inUse = (IF i = e THEN FALSE ELSE dir[i].inUse)
  BY DEF Entries

\* Create starts with copies of the right types.
LEMMA CreateStartTyped ==
  ASSUME FSTypeOK, NEW n \in Names, NEW k \in Sizes, CreateStart(n, k)
  PROVE  FSTypeOK'
  <1>1. PICK sector \in Sectors, e \in Slots :
          mem' = [dir |-> [ddir EXCEPT ![e] = [inUse |-> TRUE, sector |-> sector, name |-> n]],
                  map |-> dmap \cup {sector} \cup Lowest(k, Sectors \ (dmap \cup {sector})),
                  entry |-> e, sector |-> sector,
                  blocks |-> Lowest(k, Sectors \ (dmap \cup {sector}))]
    BY DEF CreateStart
  <1>2. Lowest(k, Sectors \ (dmap \cup {sector})) \subseteq Sectors
    BY DEF Lowest
  <1>3. [ddir EXCEPT ![e] = [inUse |-> TRUE, sector |-> sector, name |-> n]]
          \in [Slots -> Entries]
    BY DEF FSTypeOK, Entries
  <1>4. mem' \in Halves
    BY <1>1, <1>2, <1>3 DEF FSTypeOK, Halves
  <1>5. NoRefusal \in Requests
    BY DEF NoRefusal, Requests
  <1> QED BY <1>4, <1>5 DEF CreateStart, FSTypeOK, Creating

\* What is fetched as a header: the header, when the sector holds one.
LEMMA FetchedIs ==
  ASSUME FSTypeOK, NEW e \in Slots, NEW blocks \in Fetched(ddir[e].sector)
  PROVE  /\ blocks \in SUBSET Numbers
         /\ ddir[e].sector \in hdrs => blocks = dhdr[ddir[e].sector]
  <1>1. ddir[e].sector \in Sectors /\ dhdr[ddir[e].sector] \in SUBSET Sectors
    BY DEF FSTypeOK, Entries
  <1>2. Sectors \subseteq Numbers
    BY FSAssumption DEF Sectors, Numbers
  <1> QED BY <1>1, <1>2, FSAssumption DEF Fetched

\* Remove either stops at the ASSERT or has its copies.
LEMMA RemoveStartIs ==
  ASSUME FSTypeOK, NEW n \in Names, RemoveStart(n)
  PROVE  \E e \in Slots, blocks \in SUBSET Numbers :
           /\ IsFirst(e, Matching(ddir, n))
           /\ ddir[e].sector \in hdrs => blocks = dhdr[ddir[e].sector]
           /\ intact' = (intact /\ ddir[e].sector \in hdrs)
           /\ \/ ~(blocks \subseteq dmap) /\ pc' = "aborted" /\ UNCHANGED <<mem, opened>>
              \/ /\ blocks \subseteq dmap
                 /\ mem' = [dir |-> [ddir EXCEPT ![e].inUse = FALSE],
                            map |-> dmap \ (blocks \cup {ddir[e].sector}),
                            entry |-> e, sector |-> ddir[e].sector, blocks |-> blocks]
                 /\ opened' = {IF f.sector = ddir[e].sector THEN [f EXCEPT !.current = FALSE] ELSE f
                                 : f \in opened}
                 /\ pc' = "rmap"
  <1>1. PICK e \in Slots :
          \E blocks \in Fetched(ddir[e].sector) :
            /\ IsFirst(e, Matching(ddir, n))
            /\ intact' = (intact /\ ddir[e].sector \in hdrs)
            /\ IF ~(blocks \subseteq dmap)
               THEN pc' = "aborted" /\ UNCHANGED <<mem, opened>>
               ELSE /\ mem' = [dir |-> [ddir EXCEPT ![e].inUse = FALSE],
                               map |-> dmap \ (blocks \cup {ddir[e].sector}),
                               entry |-> e, sector |-> ddir[e].sector, blocks |-> blocks]
                    /\ opened' = {IF f.sector = ddir[e].sector THEN [f EXCEPT !.current = FALSE]
                                    ELSE f : f \in opened}
                    /\ pc' = "rmap"
    BY DEF RemoveStart
  <1>2. PICK blocks \in Fetched(ddir[e].sector) :
            /\ IsFirst(e, Matching(ddir, n))
            /\ intact' = (intact /\ ddir[e].sector \in hdrs)
            /\ IF ~(blocks \subseteq dmap)
               THEN pc' = "aborted" /\ UNCHANGED <<mem, opened>>
               ELSE /\ mem' = [dir |-> [ddir EXCEPT ![e].inUse = FALSE],
                               map |-> dmap \ (blocks \cup {ddir[e].sector}),
                               entry |-> e, sector |-> ddir[e].sector, blocks |-> blocks]
                    /\ opened' = {IF f.sector = ddir[e].sector THEN [f EXCEPT !.current = FALSE]
                                    ELSE f : f \in opened}
                    /\ pc' = "rmap"
    BY <1>1
  <1>3. /\ blocks \in SUBSET Numbers
        /\ ddir[e].sector \in hdrs => blocks = dhdr[ddir[e].sector]
    BY FetchedIs
  <1> QED BY <1>2, <1>3

\* Open keeps a copy of what it fetched.
LEMMA OpenIs ==
  ASSUME FSTypeOK, NEW n \in Names, Open(n)
  PROVE  \E e \in Slots, blocks \in SUBSET Numbers :
           /\ IsFirst(e, Matching(ddir, n))
           /\ ddir[e].sector \in hdrs => blocks = dhdr[ddir[e].sector]
           /\ intact' = (intact /\ ddir[e].sector \in hdrs)
           /\ opened' = opened \cup
                {[sector |-> ddir[e].sector, blocks |-> blocks, current |-> TRUE]}
  <1>1. PICK e \in Slots :
          \E blocks \in Fetched(ddir[e].sector) :
            /\ IsFirst(e, Matching(ddir, n))
            /\ intact' = (intact /\ ddir[e].sector \in hdrs)
            /\ opened' = opened \cup
                 {[sector |-> ddir[e].sector, blocks |-> blocks, current |-> TRUE]}
    BY DEF Open
  <1> QED BY <1>1, FetchedIs

\* Remove starts with copies of the right types.
LEMMA RemoveStartTyped ==
  ASSUME FSTypeOK, NEW n \in Names, RemoveStart(n)
  PROVE  FSTypeOK'
  <1>1. PICK e \in Slots, blocks \in SUBSET Numbers :
          /\ intact' = (intact /\ ddir[e].sector \in hdrs)
          /\ \/ ~(blocks \subseteq dmap) /\ pc' = "aborted" /\ UNCHANGED <<mem, opened>>
             \/ /\ blocks \subseteq dmap
                /\ mem' = [dir |-> [ddir EXCEPT ![e].inUse = FALSE],
                           map |-> dmap \ (blocks \cup {ddir[e].sector}),
                           entry |-> e, sector |-> ddir[e].sector, blocks |-> blocks]
                /\ opened' = {IF f.sector = ddir[e].sector THEN [f EXCEPT !.current = FALSE] ELSE f
                                : f \in opened}
                /\ pc' = "rmap"
    BY RemoveStartIs
  <1>2. ddir[e] \in Entries /\ ddir[e].sector \in Sectors
    BY DEF FSTypeOK, Entries
  <1>3. [ddir EXCEPT ![e].inUse = FALSE] \in [Slots -> Entries]
    BY <1>2 DEF FSTypeOK, Entries
  <1>4. /\ refused' = NoRefusal /\ NoRefusal \in Requests
        /\ UNCHANGED <<dmap, ddir, dhdr, hdrs, sound>> /\ intact' \in BOOLEAN
    BY <1>1 DEF RemoveStart, NoRefusal, Requests, FSTypeOK
  <1>5. CASE ~(blocks \subseteq dmap)
    BY <1>1, <1>4, <1>5 DEF FSTypeOK, Stopped
  <1>6. CASE blocks \subseteq dmap
    <2>1. mem' \in Halves
      <3>1. blocks \subseteq Sectors /\ dmap \ (blocks \cup {ddir[e].sector}) \subseteq Sectors
        BY <1>6 DEF FSTypeOK
      <3>2. mem' = [dir |-> [ddir EXCEPT ![e].inUse = FALSE],
                    map |-> dmap \ (blocks \cup {ddir[e].sector}),
                    entry |-> e, sector |-> ddir[e].sector, blocks |-> blocks]
        BY <1>1, <1>6
      <3> QED BY <1>2, <1>3, <3>1, <3>2 DEF Halves
    <2>2. \A f \in OpenFiles : [f EXCEPT !.current = FALSE] \in OpenFiles
      BY DEF OpenFiles
    <2>3. opened' \subseteq OpenFiles
      BY <1>1, <1>6, <2>2 DEF FSTypeOK
    <2>4. pc' = "rmap"
      BY <1>1, <1>6
    <2> QED BY <1>4, <2>1, <2>3, <2>4 DEF FSTypeOK, Removing
  <1> QED BY <1>5, <1>6

\* Every other step keeps the types.
LEMMA FSNextTyped == FSTypeOK /\ [Next]_vars => FSTypeOK'
  <1> SUFFICES ASSUME FSTypeOK, [Next]_vars PROVE FSTypeOK'
    OBVIOUS
  <1>1. CASE UNCHANGED vars
    BY <1>1 DEF vars, FSTypeOK
  <1>2. ASSUME NEW n \in Names, NEW k \in Sizes,
               CreateFails(n, k) \/ CreateTooBig(n, k) \/ CreateStart(n, k)
        PROVE  FSTypeOK'
    <2>1. [name |-> n, size |-> k] \in Requests
      BY DEF Requests
    <2> QED BY <1>2, <2>1, CreateStartTyped
            DEF CreateFails, CreateTooBig, FSTypeOK, Stopped
  <1>3. CASE CreateHeader
    <2>1. mem.sector \in Sectors /\ mem.blocks \subseteq Sectors
      BY DEF FSTypeOK, Halves
    <2> QED BY <1>3, <2>1 DEF CreateHeader, FSTypeOK, Creating, Stopped
  <1>4. CASE CreateDir1 \/ RemoveDir1
    <2>1. mem.dir \in [Slots -> Entries]
      BY DEF FSTypeOK, Halves
    <2>2. ddir' \in [Slots -> Entries]
      BY <1>4, <2>1, FirstHalfTyped DEF CreateDir1, RemoveDir1, WriteDir1, FSTypeOK
    <2> QED BY <1>4, <2>2
            DEF CreateDir1, RemoveDir1, WriteDir1, FSTypeOK, Creating, Removing
  <1>5. CASE CreateDir2 \/ CreateMap \/ RemoveMap \/ RemoveDir2
    <2>1. /\ mem.dir \in [Slots -> Entries] /\ mem.map \subseteq Sectors
          /\ NoOp \in Halves
      <3>1. 0 \in Sectors /\ 1 \in Slots
        BY FSAssumption DEF Sectors, Slots
      <3> QED BY <3>1 DEF FSTypeOK, Halves, NoOp, FreeEntry, Entries
    <2> QED BY <1>5, <2>1
            DEF CreateDir2, CreateMap, RemoveMap, RemoveDir2, FSTypeOK, Creating, Removing
  <1>6. ASSUME NEW n \in Names, RemoveFails(n) \/ RemoveStart(n) \/ Open(n)
        PROVE  FSTypeOK'
    <2>1. CASE RemoveFails(n)
      BY <2>1 DEF RemoveFails, FSTypeOK, Requests
    <2>2. CASE RemoveStart(n)
      BY <2>2, RemoveStartTyped
    <2>3. CASE Open(n)
      <3>1. PICK e \in Slots, blocks \in SUBSET Numbers :
              /\ intact' = (intact /\ ddir[e].sector \in hdrs)
              /\ opened' = opened \cup
                   {[sector |-> ddir[e].sector, blocks |-> blocks, current |-> TRUE]}
        BY <2>3, OpenIs
      <3>2. [sector |-> ddir[e].sector, blocks |-> blocks, current |-> TRUE] \in OpenFiles
        BY DEF FSTypeOK, Entries, OpenFiles
      <3> QED BY <2>3, <3>1, <3>2 DEF Open, FSTypeOK
    <2> QED BY <1>6, <2>1, <2>2, <2>3
  <1>7. ASSUME NEW f \in opened, Close(f) \/ Write(f)
        PROVE  FSTypeOK'
    BY <1>7 DEF Close, Write, FSTypeOK, Stopped
  <1>8. CASE Crash \/ Reboot
    <2>1. NoOp \in Halves
      <3>1. 0 \in Sectors /\ 1 \in Slots
        BY FSAssumption DEF Sectors, Slots
      <3> QED BY <3>1 DEF Halves, NoOp, FreeEntry, Entries
    <2>2. Exposed \in BOOLEAN
      BY DEF Exposed
    <2> QED BY <1>8, <2>1, <2>2 DEF Crash, Reboot, FSTypeOK
  <1> QED BY <1>1, <1>2, <1>3, <1>4, <1>5, <1>6, <1>7, <1>8 DEF Next

\* The disk, the copies in memory and the control state keep their types.
THEOREM FSTypeCorrect == Spec => []FSTypeOK
  BY FSInitTyped, FSNextTyped, PTL DEF Spec

-------------------------------------------------------------------------------
(* The sectors of the bitmap and of the directory *)

\* The operation under way keeps away from them, too.
CopiesSafe ==
  intact /\ pc \in Creating \cup Removing =>
    /\ Reserved \subseteq mem.map
    /\ mem.sector \notin Reserved /\ mem.blocks \cap Reserved = {}
    /\ \A i \in InUse(mem.dir) : mem.dir[i].sector \notin Reserved

MetadataInv == FSTypeOK /\ MetadataSafe /\ CopiesSafe

\* Create takes free sectors, and none of these is.
LEMMA CreateStartMetadata ==
  ASSUME MetadataInv, NEW n \in Names, NEW k \in Sizes, CreateStart(n, k), intact'
  PROVE  MetadataSafe' /\ CopiesSafe'
  <1>1. PICK sector \in Sectors, e \in Slots :
          /\ IsFirst(sector, Sectors \ dmap)
          /\ mem' = [dir |-> [ddir EXCEPT ![e] = [inUse |-> TRUE, sector |-> sector, name |-> n]],
                     map |-> dmap \cup {sector} \cup Lowest(k, Sectors \ (dmap \cup {sector})),
                     entry |-> e, sector |-> sector,
                     blocks |-> Lowest(k, Sectors \ (dmap \cup {sector}))]
    BY DEF CreateStart
  <1>2. sector \notin dmap /\ Lowest(k, Sectors \ (dmap \cup {sector})) \cap dmap = {}
    BY <1>1 DEF IsFirst, Lowest
  <1>3. /\ Reserved \subseteq dmap /\ (\A i \in InUse(ddir) : ddir[i].sector \notin Reserved)
        /\ \A s \in hdrs : dhdr[s] \cap Reserved = {}
        /\ \A f \in opened : f.blocks \cap Reserved = {}
        /\ UNCHANGED <<dmap, ddir, dhdr, hdrs, opened>> /\ pc' = "chdr"
    BY DEF CreateStart, MetadataInv, MetadataSafe
  <1>4. \A i \in Slots : mem'.dir[i] = IF i = e THEN [inUse |-> TRUE, sector |-> sector, name |-> n]
                                        ELSE ddir[i]
    BY <1>1 DEF MetadataInv, FSTypeOK
  <1>5. /\ Reserved \subseteq mem'.map
        /\ mem'.sector \notin Reserved /\ mem'.blocks \cap Reserved = {}
    BY <1>1, <1>2, <1>3
  <1>6. \A i \in InUse(mem'.dir) : mem'.dir[i].sector \notin Reserved
    BY <1>2, <1>3, <1>4 DEF InUse
  <1> QED BY <1>3, <1>5, <1>6 DEF CopiesSafe, MetadataSafe, InUse

\* Remove clears the sectors of a header, and no header has one of these.
LEMMA RemoveStartMetadata ==
  ASSUME MetadataInv, NEW n \in Names, RemoveStart(n), intact'
  PROVE  MetadataSafe' /\ CopiesSafe'
  <1>1. PICK e \in Slots, blocks \in SUBSET Numbers :
          /\ IsFirst(e, Matching(ddir, n))
          /\ ddir[e].sector \in hdrs => blocks = dhdr[ddir[e].sector]
          /\ intact' = (intact /\ ddir[e].sector \in hdrs)
          /\ \/ ~(blocks \subseteq dmap) /\ pc' = "aborted" /\ UNCHANGED <<mem, opened>>
             \/ /\ blocks \subseteq dmap
                /\ mem' = [dir |-> [ddir EXCEPT ![e].inUse = FALSE],
                           map |-> dmap \ (blocks \cup {ddir[e].sector}),
                           entry |-> e, sector |-> ddir[e].sector, blocks |-> blocks]
                /\ opened' = {IF f.sector = ddir[e].sector THEN [f EXCEPT !.current = FALSE] ELSE f
                                : f \in opened}
                /\ pc' = "rmap"
    BY RemoveStartIs DEF MetadataInv
  <1>2. /\ UNCHANGED <<dmap, ddir, dhdr, hdrs>> /\ e \in InUse(ddir)
        /\ intact /\ ddir[e].sector \in hdrs /\ blocks = dhdr[ddir[e].sector]
    BY <1>1 DEF RemoveStart, IsFirst, Matching, InUse
  <1>3. /\ Reserved \subseteq dmap /\ (\A i \in InUse(ddir) : ddir[i].sector \notin Reserved)
        /\ \A s \in hdrs : dhdr[s] \cap Reserved = {}
        /\ \A f \in opened : f.blocks \cap Reserved = {}
    BY <1>2 DEF MetadataInv, MetadataSafe
  <1>4. CASE ~(blocks \subseteq dmap)
    <2>1. pc' = "aborted" /\ UNCHANGED opened
      BY <1>1, <1>4
    <2> QED BY <1>2, <1>3, <2>1 DEF MetadataSafe, CopiesSafe, Creating, Removing, InUse
  <1>5. CASE blocks \subseteq dmap
    <2>1. /\ mem'.dir = [ddir EXCEPT ![e].inUse = FALSE]
          /\ mem'.map = dmap \ (blocks \cup {ddir[e].sector})
          /\ mem'.sector = ddir[e].sector /\ mem'.blocks = blocks
          /\ opened' = {IF f.sector = ddir[e].sector THEN [f EXCEPT !.current = FALSE] ELSE f
                          : f \in opened}
          /\ pc' = "rmap"
      <3>1. /\ mem' = [dir |-> [ddir EXCEPT ![e].inUse = FALSE],
                       map |-> dmap \ (blocks \cup {ddir[e].sector}),
                       entry |-> e, sector |-> ddir[e].sector, blocks |-> blocks]
            /\ opened' = {IF f.sector = ddir[e].sector THEN [f EXCEPT !.current = FALSE] ELSE f
                            : f \in opened}
            /\ pc' = "rmap"
        BY <1>1, <1>5
      <3> QED BY <3>1
    <2>2. /\ Reserved \subseteq mem'.map
          /\ mem'.sector \notin Reserved /\ mem'.blocks \cap Reserved = {}
      BY <1>2, <1>3, <2>1
    <2>3. /\ \A i \in Slots : mem'.dir[i].sector = ddir[i].sector
          /\ \A i \in Slots : mem'.dir[i].inUse => ddir[i].inUse
      BY <2>1, FreedEntry DEF MetadataInv, FSTypeOK
    <2>4. \A i \in InUse(mem'.dir) : mem'.dir[i].sector \notin Reserved
      BY <1>3, <2>3 DEF InUse
    <2>5. \A f \in opened : [f EXCEPT !.current = FALSE].blocks = f.blocks
      BY DEF MetadataInv, FSTypeOK, OpenFiles
    <2>6. \A f \in opened' : f.blocks \cap Reserved = {}
      BY <1>3, <2>1, <2>5
    <2> QED BY <1>2, <1>3, <2>1, <2>2, <2>4, <2>6 DEF MetadataSafe, CopiesSafe, InUse
  <1> QED BY <1>4, <1>5

\* No step takes one of these sectors.
LEMMA MetadataStep == MetadataInv /\ [Next]_vars => MetadataInv'
  <1> SUFFICES ASSUME MetadataInv, [Next]_vars, intact' PROVE MetadataSafe' /\ CopiesSafe'
    BY FSNextTyped DEF MetadataInv, MetadataSafe, CopiesSafe
  <1> USE DEF MetadataInv
  <1>1. CASE UNCHANGED vars
    BY <1>1 DEF vars, MetadataSafe, CopiesSafe, InUse
  <1>2. ASSUME NEW n \in Names, NEW k \in Sizes,
               CreateFails(n, k) \/ CreateTooBig(n, k) \/ CreateStart(n, k)
        PROVE  MetadataSafe' /\ CopiesSafe'
    BY <1>2, CreateStartMetadata
       DEF CreateFails, CreateTooBig, MetadataSafe, CopiesSafe, InUse, Creating, Removing
  <1>3. CASE CreateHeader
    <2>1. mem.blocks \cap Reserved = {} /\ CopiesSafe' /\ pc' = "cdir1"
      BY <1>3 DEF CreateHeader, CopiesSafe, InUse, Creating
    <2>2. ASSUME NEW s \in hdrs' PROVE dhdr'[s] \cap Reserved = {}
      <3>1. /\ dhdr' = [dhdr EXCEPT ![mem.sector] = mem.blocks] /\ hdrs' = hdrs \cup {mem.sector}
            /\ mem.sector \in Sectors /\ dhdr \in [Sectors -> SUBSET Sectors] /\ hdrs \subseteq Sectors
            /\ intact
        BY <1>3 DEF CreateHeader, FSTypeOK, Halves
      <3>2. CASE s = mem.sector
        BY <2>1, <3>1, <3>2
      <3>3. CASE s # mem.sector
        BY <2>2, <3>1, <3>3 DEF MetadataSafe
      <3> QED BY <3>2, <3>3
    <2> QED BY <1>3, <2>1, <2>2 DEF CreateHeader, MetadataSafe, InUse
  <1>4. CASE CreateDir1 \/ RemoveDir1
    <2>1. /\ ddir' = FirstHalf(ddir, mem.dir)
          /\ pc \in Creating \cup Removing /\ pc' # "wild" /\ intact
          /\ UNCHANGED <<dmap, dhdr, hdrs, mem, opened>>
      BY <1>4 DEF CreateDir1, RemoveDir1, WriteDir1, Creating, Removing
    <2>2. \A i \in Slots : \/ /\ ddir'[i].sector = mem.dir[i].sector
                              /\ ddir'[i].inUse = mem.dir[i].inUse
                           \/ ddir'[i] = ddir[i]
      <3>1. mem.dir \in [Slots -> Entries] /\ ddir \in [Slots -> Entries]
        BY DEF FSTypeOK, Halves
      <3>2. Slots \subseteq Int /\ SplitEntry \in Int
        BY FSAssumption DEF Slots
      <3> QED BY <2>1, <3>1, <3>2, FirstHalfTyped
    <2>3. \A i \in InUse(ddir') : ddir'[i].sector \notin Reserved
      BY <2>1, <2>2 DEF CopiesSafe, MetadataSafe, InUse
    <2> QED BY <2>1, <2>3 DEF MetadataSafe, CopiesSafe, InUse
  <1>5. CASE CreateDir2 \/ CreateMap \/ RemoveMap \/ RemoveDir2
    BY <1>5 DEF CreateDir2, CreateMap, RemoveMap, RemoveDir2, MetadataSafe, CopiesSafe, InUse,
                Creating, Removing
  <1>6. ASSUME NEW n \in Names, RemoveFails(n) \/ RemoveStart(n) \/ Open(n)
        PROVE  MetadataSafe' /\ CopiesSafe'
    <2>1. CASE RemoveFails(n) \/ RemoveStart(n)
      BY <2>1, RemoveStartMetadata DEF RemoveFails, MetadataSafe, CopiesSafe, InUse
    <2>2. CASE Open(n)
      <3>1. PICK e \in Slots, blocks \in SUBSET Numbers :
              /\ ddir[e].sector \in hdrs => blocks = dhdr[ddir[e].sector]
              /\ intact' = (intact /\ ddir[e].sector \in hdrs)
              /\ opened' = opened \cup
                   {[sector |-> ddir[e].sector, blocks |-> blocks, current |-> TRUE]}
        BY <2>2, OpenIs
      <3>2. intact /\ ddir[e].sector \in hdrs /\ blocks = dhdr[ddir[e].sector]
        BY <3>1
      <3>3. blocks \cap Reserved = {} /\ \A f \in opened : f.blocks \cap Reserved = {}
        BY <3>2 DEF MetadataSafe
      <3>4. \A f \in opened' : f.blocks \cap Reserved = {}
        BY <3>1, <3>3
      <3> QED BY <2>2, <3>2, <3>4 DEF Open, MetadataSafe, CopiesSafe, InUse, Creating, Removing
    <2> QED BY <1>6, <2>1, <2>2
  <1>7. ASSUME NEW f \in opened, Close(f) \/ Write(f)
        PROVE  MetadataSafe' /\ CopiesSafe'
    BY <1>7 DEF Close, Write, MetadataSafe, CopiesSafe, InUse, Creating, Removing
  <1>8. CASE Crash \/ Reboot
    BY <1>8 DEF Crash, Reboot, MetadataSafe, CopiesSafe, InUse, Creating, Removing
  <1> QED BY <1>1, <1>2, <1>3, <1>4, <1>5, <1>6, <1>7, <1>8 DEF Next

\* Before the bytes of a file are taken for a header, no file, open file or
\* operation owns a sector of the bitmap or of the directory and none is
\* overwritten, whatever stops and writes through files that were removed did to
\* the disk.
THEOREM MetadataKept == Spec => []MetadataSafe
  <1>1. Init => MetadataInv
    BY FSInitTyped
       DEF Init, MetadataInv, MetadataSafe, CopiesSafe, InUse, FreeEntry, Creating, Removing
  <1>2. MetadataInv => MetadataSafe
    BY DEF MetadataInv
  <1> QED BY <1>1, <1>2, MetadataStep, PTL DEF Spec

-------------------------------------------------------------------------------
(* Directory, headers and bitmap agree *)

\* Agree, for the entries of S and with everything it reads as a parameter.
Own(dir, hdr, i) == {dir[i].sector} \cup hdr[dir[i].sector]
AgreeOn(S, dir, map, hdr, headers) ==
  /\ \A i \in S : /\ dir[i].sector \in headers
                  /\ dir[i].sector \notin hdr[dir[i].sector]
                  /\ Own(dir, hdr, i) \cap Reserved = {}
  /\ \A i, j \in S : i # j => /\ Own(dir, hdr, i) \cap Own(dir, hdr, j) = {}
                              /\ dir[i].name # dir[j].name
  /\ map = Reserved \cup UNION {Own(dir, hdr, i) : i \in S}

LEMMA AgreeIsAgreeOn == Agree(ddir, dmap) <=> AgreeOn(InUse(ddir), ddir, dmap, dhdr, hdrs)
  BY DEF Agree, AgreeOn, Space, Own, InUse

\* What is read of an entry in S is marked.
LEMMA AgreeMarks ==
  ASSUME NEW S, NEW dir, NEW map, NEW hdr, NEW headers, AgreeOn(S, dir, map, hdr, headers)
  PROVE  /\ \A i \in S : dir[i].sector \in map /\ hdr[dir[i].sector] \subseteq map
         /\ Reserved \subseteq map
  BY DEF AgreeOn, Own

\* Entries outside S, and headers no entry of S names, do not matter.
LEMMA AgreeFrame ==
  ASSUME NEW S, NEW dir, NEW map, NEW hdr, NEW headers, AgreeOn(S, dir, map, hdr, headers),
         NEW dir2, NEW hdr2, NEW headers2,
         \A i \in S : /\ dir2[i].sector = dir[i].sector /\ dir2[i].name = dir[i].name
                      /\ hdr2[dir[i].sector] = hdr[dir[i].sector]
                      /\ dir[i].sector \in headers2
  PROVE  AgreeOn(S, dir2, map, hdr2, headers2)
  <1>1. \A i \in S : Own(dir2, hdr2, i) = Own(dir, hdr, i)
    BY DEF Own
  <1>2. UNION {Own(dir2, hdr2, i) : i \in S} = UNION {Own(dir, hdr, i) : i \in S}
    BY <1>1
  <1> QED BY <1>1, <1>2 DEF AgreeOn

\* Create: one entry more, on sectors that were free.
LEMMA AgreeAdd ==
  ASSUME NEW S, NEW dir, NEW map, NEW hdr, NEW headers, AgreeOn(S, dir, map, hdr, headers),
         NEW e, e \notin S,
         dir[e].sector \in headers, dir[e].sector \notin hdr[dir[e].sector],
         Own(dir, hdr, e) \cap map = {},
         \A i \in S : dir[i].name # dir[e].name
  PROVE  AgreeOn(S \cup {e}, dir, map \cup Own(dir, hdr, e), hdr, headers)
  <1>1. UNION {Own(dir, hdr, i) : i \in S \cup {e}} =
          Own(dir, hdr, e) \cup UNION {Own(dir, hdr, i) : i \in S}
    OBVIOUS
  <1>2. \A i \in S : Own(dir, hdr, i) \cap Own(dir, hdr, e) = {}
    BY DEF AgreeOn
  <1>3. Own(dir, hdr, e) \cap Reserved = {}
    BY DEF AgreeOn
  <1> QED BY <1>1, <1>2, <1>3 DEF AgreeOn

\* Remove: one entry less.
LEMMA AgreeDrop ==
  ASSUME NEW S, NEW dir, NEW map, NEW hdr, NEW headers, AgreeOn(S, dir, map, hdr, headers),
         NEW e \in S
  PROVE  AgreeOn(S \ {e}, dir, map \ Own(dir, hdr, e), hdr, headers)
  <1>1. \A i \in S \ {e} : Own(dir, hdr, i) \cap Own(dir, hdr, e) = {}
    BY DEF AgreeOn
  <1>2. Own(dir, hdr, e) \cap Reserved = {}
    BY DEF AgreeOn
  <1>3. map \ Own(dir, hdr, e) = Reserved \cup UNION {Own(dir, hdr, i) : i \in S \ {e}}
    BY <1>1, <1>2 DEF AgreeOn
  <1> QED BY <1>3 DEF AgreeOn

-------------------------------------------------------------------------------
(* The inductive invariant *)

Others == InUse(ddir) \ {mem.entry}
Live == IF pc \in Creating \cup Removing THEN Others ELSE InUse(ddir)
SameEntry(a, b) == a.inUse = b.inUse /\ a.sector = b.sector /\ a.name = b.name

\* Between operations the three structures agree.
IdleAgree == pc \in {"idle", "down"} => AgreeOn(InUse(ddir), ddir, dmap, dhdr, hdrs)

\* While a file is created, the others agree with the bitmap on the disk, the
\* new one is made of sectors that bitmap has free, and its entry appears on
\* the disk with one of the two halves of the directory.
CreatingOK ==
  pc \in Creating =>
    /\ AgreeOn(Others, ddir, dmap, dhdr, hdrs)
    /\ \A i \in Slots : i # mem.entry => SameEntry(mem.dir[i], ddir[i])
    /\ mem.dir[mem.entry].inUse /\ mem.dir[mem.entry].sector = mem.sector
    /\ \A i \in Others : ddir[i].name # mem.dir[mem.entry].name
    /\ mem.sector \notin dmap /\ mem.blocks \cap dmap = {} /\ mem.sector \notin mem.blocks
    /\ mem.map = dmap \cup {mem.sector} \cup mem.blocks
    /\ pc # "chdr" => mem.sector \in hdrs /\ dhdr[mem.sector] = mem.blocks
    /\ pc \in {"chdr", "cdir1"} => ~ddir[mem.entry].inUse
    /\ pc = "cdir2" => /\ ddir[mem.entry].inUse <=> mem.entry <= SplitEntry
                       /\ mem.entry <= SplitEntry => ddir[mem.entry].sector = mem.sector
    /\ pc = "cmap" => ddir = mem.dir

\* While one is removed, the others agree with the bitmap in memory, which is
\* written first.
RemovingOK ==
  pc \in Removing =>
    /\ AgreeOn(Others, ddir, mem.map, dhdr, hdrs)
    /\ \A i \in Slots : i # mem.entry => SameEntry(mem.dir[i], ddir[i])
    /\ ~mem.dir[mem.entry].inUse
    /\ mem.sector \notin mem.map
    /\ ddir[mem.entry].inUse => ddir[mem.entry].sector = mem.sector
    /\ pc = "rmap" => AgreeOn(InUse(ddir), ddir, dmap, dhdr, hdrs)
    /\ pc # "rmap" => dmap = mem.map
    /\ pc \in {"rmap", "rdir1"} => ddir[mem.entry].inUse
    /\ pc = "rdir2" => (ddir[mem.entry].inUse <=> mem.entry > SplitEntry)

\* An open file that was not removed belongs to an entry nobody is removing.
OpenedOK ==
  \A f \in opened :
    /\ f.blocks \subseteq Sectors
    /\ f.current => /\ f.blocks = dhdr[f.sector]
                    /\ \E i \in Live : ddir[i].sector = f.sector

\* The machine runs, and took nothing for a header that is none.
Runs == pc \notin Stopped /\ intact

DiskInv ==
  /\ FSTypeOK
  /\ sound => IdleAgree /\ CreatingOK /\ RemovingOK /\ OpenedOK /\ Runs

\* It implies the properties.
LEMMA DiskInvImplies ==
  ASSUME DiskInv
  PROVE  Consistent /\ NeverAborts /\ ExposedExactly /\ OpenFilesCurrent
  <1>1. Consistent /\ NeverAborts
    BY AgreeIsAgreeOn DEF DiskInv, IdleAgree, Consistent, NeverAborts, Runs
  <1>2. OpenFilesCurrent
    BY DEF DiskInv, OpenedOK, OpenFilesCurrent, Live, Creating, Removing
  <1>3. ExposedExactly
    <2> SUFFICES ASSUME sound
                 PROVE  Exposed <=> \E i \in InUse(ddir) : ~(Space(ddir, i) \subseteq dmap)
      BY DEF ExposedExactly
    <2>0. /\ mem.entry \in Slots /\ Slots \subseteq Int /\ SplitEntry \in Int
          /\ pc \in {"idle", "down"} \cup Creating \cup Removing
      BY FSAssumption DEF DiskInv, FSTypeOK, Halves, Slots, Runs
    <2>1. ASSUME AgreeOn(InUse(ddir), ddir, dmap, dhdr, hdrs)
          PROVE  \A i \in InUse(ddir) : Space(ddir, i) \subseteq dmap
      BY <2>1, AgreeMarks DEF Space
    <2>2. CASE pc \in {"idle", "down", "rmap"}
      BY <2>1, <2>2 DEF DiskInv, IdleAgree, RemovingOK, Removing, Exposed
    <2>3. ASSUME ~ddir[mem.entry].inUse
          PROVE  Others = InUse(ddir)
      BY <2>3 DEF Others, InUse
    <2>4. ASSUME ddir[mem.entry].inUse, ddir[mem.entry].sector \notin dmap
          PROVE  \E i \in InUse(ddir) : ~(Space(ddir, i) \subseteq dmap)
      BY <2>0, <2>4 DEF InUse, Space
    <2>5. CASE pc \in Creating
      <3>1. AgreeOn(Others, ddir, dmap, dhdr, hdrs) /\ mem.sector \notin dmap
        BY <2>5 DEF DiskInv, CreatingOK
      <3>2. CASE ~Exposed
        <4>1. ~ddir[mem.entry].inUse
          BY <2>5, <3>2 DEF DiskInv, CreatingOK, Exposed, Creating
        <4> QED BY <2>1, <2>3, <3>1, <3>2, <4>1
      <3>3. CASE Exposed
        <4>1. ddir[mem.entry].inUse /\ ddir[mem.entry].sector = mem.sector
          BY <2>5, <3>3 DEF DiskInv, CreatingOK, Exposed, Creating
        <4> QED BY <2>4, <3>1, <3>3, <4>1
      <3> QED BY <3>2, <3>3
    <2>6. CASE pc \in {"rdir1", "rdir2"}
      <3>1. AgreeOn(Others, ddir, dmap, dhdr, hdrs) /\ mem.sector \notin dmap
        BY <2>6 DEF DiskInv, RemovingOK, Removing
      <3>2. CASE ~Exposed
        <4>1. ~ddir[mem.entry].inUse
          BY <2>0, <2>6, <3>2 DEF DiskInv, RemovingOK, Exposed, Removing
        <4> QED BY <2>1, <2>3, <3>1, <3>2, <4>1
      <3>3. CASE Exposed
        <4>1. ddir[mem.entry].inUse /\ ddir[mem.entry].sector = mem.sector
          BY <2>6, <3>3 DEF DiskInv, RemovingOK, Exposed, Removing
        <4> QED BY <2>4, <3>1, <3>3, <4>1
      <3> QED BY <3>2, <3>3
    <2> QED BY <2>0, <2>2, <2>5, <2>6 DEF Removing
  <1> QED BY <1>1, <1>2, <1>3

-------------------------------------------------------------------------------
(* Every operation keeps it *)

\* What the step lemmas need of the types.
LEMMA DiskFacts ==
  ASSUME DiskInv
  PROVE  /\ ddir \in [Slots -> Entries] /\ mem.dir \in [Slots -> Entries]
         /\ dhdr \in [Sectors -> SUBSET Sectors]
         /\ mem.entry \in Slots /\ mem.sector \in Sectors /\ mem.blocks \subseteq Sectors
         /\ Slots \subseteq Int /\ SplitEntry \in Int
         /\ mem.entry \notin Others /\ Others \subseteq Slots
         /\ InUse(ddir) = IF ddir[mem.entry].inUse THEN Others \cup {mem.entry} ELSE Others
  BY FSAssumption DEF DiskInv, FSTypeOK, Halves, Slots, Others, InUse

\* Create takes a free sector for the header, a free entry and free sectors.
LEMMA CreateStartKeeps ==
  ASSUME DiskInv, NEW n \in Names, NEW k \in Sizes, CreateStart(n, k), sound
  PROVE  CreatingOK' /\ OpenedOK'
  <1>1. PICK sector \in Sectors, e \in Slots :
          /\ IsFirst(sector, Sectors \ dmap)
          /\ IsFirst(e, Unused(ddir))
          /\ mem' = [dir |-> [ddir EXCEPT ![e] = [inUse |-> TRUE, sector |-> sector, name |-> n]],
                     map |-> dmap \cup {sector} \cup Lowest(k, Sectors \ (dmap \cup {sector})),
                     entry |-> e, sector |-> sector,
                     blocks |-> Lowest(k, Sectors \ (dmap \cup {sector}))]
    BY DEF CreateStart
  <1>2. /\ sector \notin dmap /\ mem'.blocks \cap dmap = {} /\ sector \notin mem'.blocks
        /\ mem'.map = dmap \cup {mem'.sector} \cup mem'.blocks
        /\ mem'.entry = e /\ mem'.sector = sector
    BY <1>1 DEF IsFirst, Lowest
  <1>3. ~ddir[e].inUse /\ e \notin InUse(ddir)
    BY <1>1 DEF IsFirst, Unused, InUse
  <1>4. /\ pc = "idle" /\ pc' = "chdr" /\ UNCHANGED <<dmap, ddir, dhdr, hdrs, opened, sound>>
        /\ \A i \in InUse(ddir) : ddir[i].name # n
    BY DEF CreateStart, Refused, Matching, InUse
  <1>5. /\ AgreeOn(InUse(ddir), ddir, dmap, dhdr, hdrs)
        /\ Others' = InUse(ddir)
    BY <1>2, <1>3, <1>4 DEF DiskInv, IdleAgree, Others, InUse
  <1>6. /\ \A i \in Slots : i # e => mem'.dir[i] = ddir[i]
        /\ mem'.dir[e].inUse /\ mem'.dir[e].sector = sector /\ mem'.dir[e].name = n
    BY <1>1, DiskFacts
  <1>7. CreatingOK'
    BY <1>2, <1>3, <1>4, <1>5, <1>6 DEF CreatingOK, SameEntry
  <1>8. Live' = InUse(ddir) /\ Live = InUse(ddir)
    BY <1>4, <1>5 DEF Live, Creating, Removing
  <1> QED BY <1>4, <1>7, <1>8 DEF OpenedOK, DiskInv

\* The header goes to a sector that no other file uses.
LEMMA CreateHeaderKeeps ==
  ASSUME DiskInv, CreateHeader, sound
  PROVE  CreatingOK' /\ OpenedOK' /\ pc' = "cdir1"
  <1>1. /\ pc = "chdr" /\ UNCHANGED <<dmap, ddir, mem, opened, sound>>
        /\ pc' = IF mem.sector \in Reserved THEN "wild" ELSE "cdir1"
        /\ dhdr' = [dhdr EXCEPT ![mem.sector] = mem.blocks] /\ hdrs' = hdrs \cup {mem.sector}
    BY DEF CreateHeader
  <1>2. CreatingOK /\ OpenedOK /\ pc \in Creating
    BY <1>1 DEF DiskInv, Creating
  <1>3. /\ AgreeOn(Others, ddir, dmap, dhdr, hdrs) /\ mem.sector \notin dmap
        /\ pc' = "cdir1"
    <2>1. AgreeOn(Others, ddir, dmap, dhdr, hdrs) /\ mem.sector \notin dmap
      BY <1>2 DEF CreatingOK
    <2>2. Reserved \subseteq dmap
      BY <2>1, AgreeMarks
    <2> QED BY <1>1, <2>1, <2>2
  <1>4. \A s \in Sectors : dhdr'[s] = IF s = mem.sector THEN mem.blocks ELSE dhdr[s]
    BY <1>1, DiskFacts
  <1>5. \A i \in Others : ddir[i].sector \in Sectors /\ ddir[i].sector # mem.sector
    BY <1>3, AgreeMarks, DiskFacts DEF Entries
  <1>6. AgreeOn(Others, ddir, dmap, dhdr', hdrs')
    <2>1. \A i \in Others : ddir[i].sector \in hdrs'
      BY <1>1, <1>3 DEF AgreeOn
    <2> QED BY <1>3, <1>4, <1>5, <2>1, AgreeFrame
  <1>7. Others' = Others /\ Live = Others /\ Live' = Others
    BY <1>1, <1>3 DEF Others, InUse, Live, Creating
  <1>8. CreatingOK'
    BY <1>1, <1>2, <1>3, <1>4, <1>6, <1>7, DiskFacts DEF CreatingOK
  <1>9. OpenedOK'
    BY <1>1, <1>2, <1>4, <1>5, <1>7 DEF OpenedOK
  <1> QED BY <1>3, <1>8, <1>9

\* The first half of the directory changes the operation's own entry only.
LEMMA Dir1Keeps ==
  ASSUME DiskInv, CreateDir1 \/ RemoveDir1, sound
  PROVE  CreatingOK' /\ RemovingOK' /\ OpenedOK'
  <1>1. /\ ddir' = FirstHalf(ddir, mem.dir) /\ UNCHANGED <<dmap, dhdr, hdrs, mem, opened, sound>>
        /\ \/ pc = "cdir1" /\ pc' = "cdir2"
           \/ pc = "rdir1" /\ pc' = "rdir2"
    BY DEF CreateDir1, RemoveDir1, WriteDir1
  <1>2. CreatingOK /\ RemovingOK /\ OpenedOK
    BY DEF DiskInv
  <1>3. \A i \in Slots : /\ i < SplitEntry => ddir'[i] = mem.dir[i]
                         /\ i = SplitEntry => /\ ddir'[i].inUse = mem.dir[i].inUse
                                              /\ ddir'[i].sector = mem.dir[i].sector
                                              /\ ddir'[i].name = ddir[i].name
                         /\ i > SplitEntry => ddir'[i] = ddir[i]
    BY <1>1, FirstHalfTyped, DiskFacts
  <1>4. \A i \in Slots : i # mem.entry => SameEntry(mem.dir[i], ddir[i])
    BY <1>1, <1>2 DEF CreatingOK, RemovingOK, Creating, Removing
  <1>5. \A i \in Slots : i # mem.entry => SameEntry(mem.dir[i], ddir'[i]) /\ SameEntry(ddir[i], ddir'[i])
    BY <1>3, <1>4, DiskFacts DEF SameEntry
  <1>6. Others' = Others
    BY <1>1, <1>5 DEF Others, InUse, SameEntry
  <1>7. \A i \in Others : ddir'[i].sector = ddir[i].sector /\ ddir'[i].name = ddir[i].name
    BY <1>5, DiskFacts DEF SameEntry
  <1>8. ASSUME NEW map, AgreeOn(Others, ddir, map, dhdr, hdrs)
        PROVE  AgreeOn(Others, ddir', map, dhdr, hdrs)
    <2>1. \A i \in Others : ddir[i].sector \in hdrs
      BY <1>8 DEF AgreeOn
    <2> QED BY <1>7, <1>8, <2>1, AgreeFrame
  <1>9. /\ mem.entry <= SplitEntry => /\ ddir'[mem.entry].inUse = mem.dir[mem.entry].inUse
                                      /\ ddir'[mem.entry].sector = mem.dir[mem.entry].sector
        /\ mem.entry > SplitEntry => ddir'[mem.entry] = ddir[mem.entry]
        /\ mem.entry <= SplitEntry <=> ~(mem.entry > SplitEntry)
    BY <1>3, DiskFacts
  <1>10. CASE pc = "cdir1"
    <2>1. CreatingOK'
      BY <1>1, <1>2, <1>5, <1>6, <1>7, <1>8, <1>9, <1>10, DiskFacts DEF CreatingOK, Creating
    <2>2. RemovingOK' /\ Live = Others /\ Live' = Others
      BY <1>1, <1>6, <1>10 DEF RemovingOK, Removing, Live, Creating
    <2> QED BY <1>1, <1>2, <1>7, <2>1, <2>2 DEF OpenedOK
  <1>11. CASE pc = "rdir1"
    <2>1. RemovingOK'
      BY <1>1, <1>2, <1>5, <1>6, <1>8, <1>9, <1>11, DiskFacts DEF RemovingOK, Removing
    <2>2. CreatingOK' /\ Live = Others /\ Live' = Others
      BY <1>1, <1>6, <1>11 DEF CreatingOK, Removing, Live, Creating
    <2> QED BY <1>1, <1>2, <1>7, <2>1, <2>2 DEF OpenedOK
  <1> QED BY <1>1, <1>10, <1>11

\* The second half leaves the directory that is in memory.
LEMMA CreateDir2Keeps ==
  ASSUME DiskInv, CreateDir2, sound
  PROVE  CreatingOK' /\ OpenedOK'
  <1>1. /\ pc = "cdir2" /\ pc' = "cmap" /\ ddir' = mem.dir
        /\ UNCHANGED <<dmap, dhdr, hdrs, mem, opened, sound>>
    BY DEF CreateDir2
  <1>2. CreatingOK /\ OpenedOK /\ pc \in Creating
    BY <1>1 DEF DiskInv, Creating
  <1>3. \A i \in Slots : i # mem.entry => SameEntry(mem.dir[i], ddir[i])
    BY <1>2 DEF CreatingOK
  <1>4. Others' = Others
    BY <1>1, <1>3 DEF Others, InUse, SameEntry
  <1>5. \A i \in Others : ddir'[i].sector = ddir[i].sector /\ ddir'[i].name = ddir[i].name
    BY <1>1, <1>3, DiskFacts DEF SameEntry
  <1>6. AgreeOn(Others, ddir, dmap, dhdr, hdrs)
    BY <1>2 DEF CreatingOK
  <1>7. AgreeOn(Others, ddir', dmap, dhdr, hdrs)
    <2>1. \A i \in Others : ddir[i].sector \in hdrs
      BY <1>6 DEF AgreeOn
    <2> QED BY <1>5, <1>6, <2>1, AgreeFrame
  <1>8. CreatingOK'
    BY <1>1, <1>2, <1>4, <1>5, <1>7 DEF CreatingOK, SameEntry
  <1>9. Live = Others /\ Live' = Others
    BY <1>1, <1>4 DEF Live, Creating
  <1> QED BY <1>1, <1>2, <1>5, <1>8, <1>9 DEF OpenedOK

\* The bitmap comes last: now it marks the new file, too.
LEMMA CreateMapKeeps ==
  ASSUME DiskInv, CreateMap, sound
  PROVE  IdleAgree' /\ OpenedOK'
  <1>1. /\ pc = "cmap" /\ pc' = "idle" /\ dmap' = mem.map
        /\ UNCHANGED <<ddir, dhdr, hdrs, opened, sound>>
    BY DEF CreateMap
  <1>2. CreatingOK /\ OpenedOK /\ pc \in Creating
    BY <1>1 DEF DiskInv, Creating
  <1> DEFINE e == mem.entry
  <1>3. /\ AgreeOn(Others, ddir, dmap, dhdr, hdrs)
        /\ ddir[e].inUse /\ ddir[e].sector = mem.sector /\ dhdr[mem.sector] = mem.blocks
        /\ mem.sector \in hdrs /\ mem.sector \notin mem.blocks
        /\ \A i \in Others : ddir[i].name # ddir[e].name
        /\ mem.sector \notin dmap /\ mem.blocks \cap dmap = {}
        /\ mem.map = dmap \cup {mem.sector} \cup mem.blocks
    BY <1>1, <1>2 DEF CreatingOK
  <1>4. e \notin Others /\ InUse(ddir) = Others \cup {e}
    BY <1>3, DiskFacts
  <1>5. Own(ddir, dhdr, e) = {mem.sector} \cup mem.blocks
    BY <1>3 DEF Own
  <1>6. mem.map = dmap \cup Own(ddir, dhdr, e) /\ Own(ddir, dhdr, e) \cap dmap = {}
    BY <1>3, <1>5
  <1> HIDE DEF e
  <1>7. AgreeOn(Others \cup {e}, ddir, dmap \cup Own(ddir, dhdr, e), dhdr, hdrs)
    BY <1>3, <1>4, <1>6, AgreeAdd
  <1>8. IdleAgree'
    BY <1>1, <1>4, <1>6, <1>7 DEF IdleAgree, InUse
  <1>9. Live = Others /\ Others \subseteq Live'
    BY <1>1, <1>4 DEF Live, Creating, Removing, InUse
  <1> QED BY <1>1, <1>2, <1>8, <1>9 DEF OpenedOK

\* Remove drops an entry; its header is one, and its sectors are marked.
LEMMA RemoveStartKeeps ==
  ASSUME DiskInv, NEW n \in Names, RemoveStart(n), sound
  PROVE  RemovingOK' /\ OpenedOK' /\ pc' = "rmap" /\ intact'
  <1>1. PICK e \in Slots, blocks \in SUBSET Numbers :
          /\ IsFirst(e, Matching(ddir, n))
          /\ ddir[e].sector \in hdrs => blocks = dhdr[ddir[e].sector]
          /\ intact' = (intact /\ ddir[e].sector \in hdrs)
          /\ \/ ~(blocks \subseteq dmap) /\ pc' = "aborted" /\ UNCHANGED <<mem, opened>>
             \/ /\ blocks \subseteq dmap
                /\ mem' = [dir |-> [ddir EXCEPT ![e].inUse = FALSE],
                           map |-> dmap \ (blocks \cup {ddir[e].sector}),
                           entry |-> e, sector |-> ddir[e].sector, blocks |-> blocks]
                /\ opened' = {IF f.sector = ddir[e].sector THEN [f EXCEPT !.current = FALSE] ELSE f
                                : f \in opened}
                /\ pc' = "rmap"
    BY RemoveStartIs DEF DiskInv
  <1>2. pc = "idle" /\ UNCHANGED <<dmap, ddir, dhdr, hdrs, sound>>
    BY DEF RemoveStart
  <1>3. AgreeOn(InUse(ddir), ddir, dmap, dhdr, hdrs) /\ e \in InUse(ddir)
    BY <1>1, <1>2 DEF DiskInv, IdleAgree, IsFirst, Matching, InUse
  <1>4. ddir[e].sector \in hdrs /\ blocks = dhdr[ddir[e].sector] /\ blocks \subseteq dmap /\ intact'
    <2>1. ddir[e].sector \in hdrs
      BY <1>3 DEF AgreeOn
    <2>2. dhdr[ddir[e].sector] \subseteq dmap
      BY <1>3, AgreeMarks
    <2>3. intact
      BY DEF DiskInv, Runs
    <2> QED BY <1>1, <2>1, <2>2, <2>3
  <1>5. /\ mem'.dir = [ddir EXCEPT ![e].inUse = FALSE]
        /\ mem'.map = dmap \ (dhdr[ddir[e].sector] \cup {ddir[e].sector})
        /\ mem'.entry = e /\ mem'.sector = ddir[e].sector
        /\ opened' = {IF f.sector = ddir[e].sector THEN [f EXCEPT !.current = FALSE] ELSE f
                        : f \in opened}
        /\ pc' = "rmap"
    <2>1. /\ mem' = [dir |-> [ddir EXCEPT ![e].inUse = FALSE],
                     map |-> dmap \ (dhdr[ddir[e].sector] \cup {ddir[e].sector}),
                     entry |-> e, sector |-> ddir[e].sector, blocks |-> dhdr[ddir[e].sector]]
          /\ opened' = {IF f.sector = ddir[e].sector THEN [f EXCEPT !.current = FALSE] ELSE f
                          : f \in opened}
          /\ pc' = "rmap"
      BY <1>1, <1>4
    <2> QED BY <2>1
  <1>6. mem'.map = dmap \ Own(ddir, dhdr, e) /\ mem'.sector \notin mem'.map
    BY <1>5 DEF Own
  <1>7. Others' = InUse(ddir) \ {e}
    BY <1>2, <1>5 DEF Others, InUse
  <1>8. AgreeOn(InUse(ddir) \ {e}, ddir, mem'.map, dhdr, hdrs)
    BY <1>3, <1>6, AgreeDrop
  <1>9. /\ \A i \in Slots : i # e => SameEntry(mem'.dir[i], ddir[i])
        /\ ~mem'.dir[e].inUse
    <2>1. \A i \in Slots : /\ mem'.dir[i].sector = ddir[i].sector
                          /\ mem'.dir[i].name = ddir[i].name
                          /\ mem'.dir[i].inUse = (IF i = e THEN FALSE ELSE ddir[i].inUse)
      BY <1>5, DiskFacts, FreedEntry
    <2> QED BY <2>1 DEF SameEntry
  <1>10. RemovingOK'
    BY <1>2, <1>3, <1>5, <1>6, <1>7, <1>8, <1>9 DEF RemovingOK, InUse
  <1>11. OpenedOK'
    <2>1. Live' = InUse(ddir) \ {e} /\ Live = InUse(ddir)
      BY <1>2, <1>5, <1>7 DEF Live, Creating, Removing
    <2>2. SUFFICES ASSUME NEW f \in opened', f.current
                   PROVE  /\ f.blocks = dhdr[f.sector]
                          /\ \E i \in InUse(ddir) \ {e} : ddir[i].sector = f.sector
      <3>1. \A g \in opened : [g EXCEPT !.current = FALSE].blocks = g.blocks
        BY DEF DiskInv, FSTypeOK, OpenFiles
      <3>2. \A f \in opened' : f.blocks \subseteq Sectors
        <4>1. \A g \in opened : g.blocks \subseteq Sectors
          BY DEF DiskInv, OpenedOK
        <4>2. ASSUME NEW h \in opened' PROVE h.blocks \subseteq Sectors
          <5>1. PICK g \in opened : h = IF g.sector = ddir[e].sector
                                        THEN [g EXCEPT !.current = FALSE] ELSE g
            BY <1>5
          <5> QED BY <3>1, <4>1, <5>1
        <4> QED BY <4>2
      <3> QED BY <1>2, <2>1, <3>2 DEF OpenedOK
    <2>3. \A g \in opened : ~[g EXCEPT !.current = FALSE].current
      BY DEF DiskInv, FSTypeOK, OpenFiles
    <2>4. f \in opened /\ f.sector # ddir[e].sector
      <3>1. PICK g \in opened : f = IF g.sector = ddir[e].sector
                                    THEN [g EXCEPT !.current = FALSE] ELSE g
        BY <1>5
      <3>2. g.sector # ddir[e].sector
        BY <2>2, <2>3, <3>1
      <3> QED BY <3>1, <3>2
    <2>5. OpenedOK
      BY DEF DiskInv
    <2> QED BY <2>1, <2>2, <2>4, <2>5 DEF OpenedOK
  <1> QED BY <1>4, <1>5, <1>10, <1>11

\* The bitmap comes first: the entry is still there and names free sectors.
LEMMA RemoveMapKeeps ==
  ASSUME DiskInv, RemoveMap, sound
  PROVE  RemovingOK' /\ OpenedOK'
  <1>1. /\ pc = "rmap" /\ pc' = "rdir1" /\ dmap' = mem.map
        /\ UNCHANGED <<ddir, dhdr, hdrs, mem, opened, sound>>
        /\ RemovingOK /\ OpenedOK
    BY DEF RemoveMap, DiskInv
  <1>2. Others' = Others /\ Live = Others /\ Live' = Others
    BY <1>1 DEF Others, InUse, Live, Removing
  <1> QED BY <1>1, <1>2 DEF RemovingOK, Removing, OpenedOK

\* Remove ends as the directory in memory reaches the disk.
LEMMA RemoveDir2Keeps ==
  ASSUME DiskInv, RemoveDir2, sound
  PROVE  IdleAgree' /\ OpenedOK'
  <1>1. /\ pc = "rdir2" /\ pc' = "idle" /\ ddir' = mem.dir
        /\ UNCHANGED <<dmap, dhdr, hdrs, opened, sound>>
        /\ RemovingOK /\ OpenedOK
    BY DEF RemoveDir2, DiskInv
  <1>2. /\ AgreeOn(Others, ddir, dmap, dhdr, hdrs)
        /\ \A i \in Slots : i # mem.entry => SameEntry(mem.dir[i], ddir[i])
        /\ ~mem.dir[mem.entry].inUse
    BY <1>1 DEF RemovingOK, Removing
  <1>3. InUse(ddir') = Others
    BY <1>1, <1>2, DiskFacts DEF Others, InUse, SameEntry
  <1>4. \A i \in Others : ddir'[i].sector = ddir[i].sector /\ ddir'[i].name = ddir[i].name
    BY <1>1, <1>2, DiskFacts DEF SameEntry
  <1>5. AgreeOn(Others, ddir', dmap, dhdr, hdrs)
    <2>1. \A i \in Others : ddir[i].sector \in hdrs
      BY <1>2 DEF AgreeOn
    <2> QED BY <1>2, <1>4, <2>1, AgreeFrame
  <1>6. IdleAgree'
    BY <1>1, <1>3, <1>5 DEF IdleAgree, InUse
  <1>7. Live = Others /\ Live' = Others
    BY <1>1, <1>3 DEF Live, Creating, Removing, InUse
  <1> QED BY <1>1, <1>4, <1>6, <1>7 DEF OpenedOK

\* A file that is opened has the header on the disk.
LEMMA OpenKeeps ==
  ASSUME DiskInv, NEW n \in Names, Open(n), sound
  PROVE  IdleAgree' /\ OpenedOK' /\ pc' = "idle" /\ intact'
  <1>1. PICK e \in Slots, blocks \in SUBSET Numbers :
          /\ IsFirst(e, Matching(ddir, n))
          /\ ddir[e].sector \in hdrs => blocks = dhdr[ddir[e].sector]
          /\ intact' = (intact /\ ddir[e].sector \in hdrs)
          /\ opened' = opened \cup
               {[sector |-> ddir[e].sector, blocks |-> blocks, current |-> TRUE]}
    BY OpenIs DEF DiskInv
  <1>2. pc = "idle" /\ UNCHANGED <<dmap, ddir, dhdr, hdrs, pc, mem, sound>>
    BY DEF Open
  <1>3. AgreeOn(InUse(ddir), ddir, dmap, dhdr, hdrs) /\ e \in InUse(ddir)
    BY <1>1, <1>2 DEF DiskInv, IdleAgree, IsFirst, Matching, InUse
  <1>4. /\ blocks = dhdr[ddir[e].sector] /\ blocks \subseteq Sectors /\ intact'
    <2>1. ddir[e].sector \in hdrs /\ intact
      BY <1>3 DEF AgreeOn, DiskInv, Runs
    <2>2. dhdr[ddir[e].sector] \subseteq Sectors
      BY DiskFacts DEF Entries
    <2> QED BY <1>1, <2>1, <2>2
  <1>5. Live = InUse(ddir) /\ Live' = InUse(ddir)
    BY <1>2 DEF Live, Creating, Removing, InUse
  <1>6. OpenedOK
    BY DEF DiskInv
  <1> QED BY <1>1, <1>2, <1>3, <1>4, <1>5, <1>6 DEF OpenedOK, IdleAgree, InUse

\* A file that is written to loses what its sectors held before: no header, as
\* long as they are its own or nobody's.
LEMMA WriteKeeps ==
  ASSUME DiskInv, NEW f \in opened, Write(f), sound'
  PROVE  IdleAgree' /\ OpenedOK' /\ pc' = "idle"
  <1>1. /\ pc = "idle" /\ sound /\ hdrs' = hdrs \ f.blocks
        /\ f.current \/ f.blocks \cap dmap = {}
        /\ UNCHANGED <<dmap, ddir, dhdr, mem, opened>>
        /\ pc' = IF f.blocks \cap Reserved # {} THEN "wild"
                 ELSE IF f.blocks \subseteq Sectors THEN pc ELSE "aborted"
    BY DEF Write
  <1>2. AgreeOn(InUse(ddir), ddir, dmap, dhdr, hdrs) /\ OpenedOK
    BY <1>1 DEF DiskInv, IdleAgree
  <1>3. ASSUME NEW j \in InUse(ddir)
        PROVE  ddir[j].sector \in hdrs'
    <2>1. ddir[j].sector \in hdrs /\ ddir[j].sector \in dmap
      <3>1. ddir[j].sector \in hdrs
        BY <1>2 DEF AgreeOn
      <3>2. ddir[j].sector \in dmap
        BY <1>2, AgreeMarks
      <3> QED BY <3>1, <3>2
    <2>2. CASE f.current
      <3>1. PICK i \in InUse(ddir) : ddir[i].sector = f.sector
        BY <1>1, <1>2, <2>2 DEF OpenedOK, Live, Creating, Removing
      <3>2. f.blocks = dhdr[ddir[i].sector]
        BY <1>2, <2>2, <3>1 DEF OpenedOK
      <3>3. ddir[j].sector \notin dhdr[ddir[i].sector]
        BY <1>2 DEF AgreeOn, Own
      <3> QED BY <1>1, <2>1, <3>2, <3>3
    <2>3. CASE f.blocks \cap dmap = {}
      BY <1>1, <2>1, <2>3
    <2> QED BY <1>1, <2>2, <2>3
  <1>4. AgreeOn(InUse(ddir), ddir, dmap, dhdr, hdrs')
    BY <1>2, <1>3, AgreeFrame
  <1>5. pc' = "idle"
    <2>1. f.blocks \subseteq Sectors
      BY <1>2 DEF OpenedOK
    <2>2. CASE f.current
      <3>1. PICK i \in InUse(ddir) : ddir[i].sector = f.sector
        BY <1>1, <1>2, <2>2 DEF OpenedOK, Live, Creating, Removing
      <3>2. f.blocks = dhdr[ddir[i].sector]
        BY <1>2, <2>2, <3>1 DEF OpenedOK
      <3>3. f.blocks \cap Reserved = {}
        BY <1>2, <3>2 DEF AgreeOn, Own
      <3> QED BY <1>1, <2>1, <3>3
    <2>3. CASE f.blocks \cap dmap = {}
      <3>1. Reserved \subseteq dmap
        BY <1>2, AgreeMarks
      <3> QED BY <1>1, <2>1, <2>3, <3>1
    <2> QED BY <1>1, <2>2, <2>3
  <1>6. Live' = Live
    BY <1>1, <1>5 DEF Live, Others, Creating, Removing, InUse
  <1> QED BY <1>1, <1>2, <1>4, <1>5, <1>6 DEF IdleAgree, OpenedOK, InUse

\* A stop that is not exposed leaves structures that agree.
LEMMA CrashKeeps ==
  ASSUME DiskInv, Crash, sound'
  PROVE  IdleAgree' /\ OpenedOK'
  <1>1. /\ sound /\ ~Exposed /\ pc' = "down" /\ opened' = {}
        /\ UNCHANGED <<dmap, ddir, dhdr, hdrs>>
        /\ IdleAgree /\ CreatingOK /\ RemovingOK /\ pc \notin Stopped
    BY DEF Crash, DiskInv, Runs
  <1>2. pc \in {"idle", "down", "rmap"} \cup Creating \cup {"rdir1", "rdir2"}
    BY <1>1 DEF DiskInv, FSTypeOK, Removing
  <1>3. AgreeOn(InUse(ddir), ddir, dmap, dhdr, hdrs)
    <2>1. CASE pc \in {"idle", "down", "rmap"}
      BY <1>1, <2>1 DEF IdleAgree, RemovingOK, Removing
    <2>2. CASE pc \in Creating
      <3>1. ~ddir[mem.entry].inUse /\ AgreeOn(Others, ddir, dmap, dhdr, hdrs)
        BY <1>1, <2>2 DEF CreatingOK, Exposed, Creating
      <3> QED BY <3>1, DiskFacts
    <2>3. CASE pc \in {"rdir1", "rdir2"}
      <3>1. ~ddir[mem.entry].inUse /\ AgreeOn(Others, ddir, dmap, dhdr, hdrs)
        BY <1>1, <2>3, DiskFacts DEF RemovingOK, Exposed, Removing
      <3> QED BY <3>1, DiskFacts
    <2> QED BY <1>2, <2>1, <2>2, <2>3
  <1> QED BY <1>1, <1>3 DEF IdleAgree, OpenedOK, InUse

\* The properties of the structures, without the types.
Kept == IdleAgree /\ CreatingOK /\ RemovingOK /\ OpenedOK /\ Runs

\* Every step keeps the invariant.
LEMMA DiskStep == DiskInv /\ [Next]_vars => DiskInv'
  <1> SUFFICES ASSUME DiskInv, [Next]_vars, sound' PROVE Kept'
    BY FSNextTyped DEF DiskInv, Kept
  <1>0. sound => Runs
    BY DEF DiskInv
  <1> USE <1>0 DEF Creating, Removing, Stopped, Runs
  <1>1. CASE UNCHANGED vars
    BY <1>1 DEF vars, DiskInv, Kept, IdleAgree, CreatingOK, RemovingOK, OpenedOK, Live, Others, InUse
  <1>2. ASSUME NEW n \in Names, NEW k \in Sizes,
               CreateFails(n, k) \/ CreateTooBig(n, k) \/ CreateStart(n, k)
        PROVE  Kept'
    <2>1. CASE CreateFails(n, k)
      BY <2>1 DEF CreateFails, DiskInv, Kept, IdleAgree, OpenedOK, Live, InUse,
                  CreatingOK, RemovingOK
    <2>2. CASE CreateTooBig(n, k)
      BY <2>2 DEF CreateTooBig
    <2>3. CASE CreateStart(n, k)
      <3>1. pc' = "chdr" /\ sound /\ intact'
        BY <2>3 DEF CreateStart
      <3> QED BY <2>3, <3>1, CreateStartKeeps DEF Kept, IdleAgree, RemovingOK
    <2> QED BY <1>2, <2>1, <2>2, <2>3
  <1>3. CASE CreateHeader
    BY <1>3, CreateHeaderKeeps DEF CreateHeader, Kept, IdleAgree, RemovingOK
  <1>4. CASE CreateDir1 \/ RemoveDir1
    BY <1>4, Dir1Keeps DEF CreateDir1, RemoveDir1, WriteDir1, Kept, IdleAgree
  <1>5. CASE CreateDir2
    BY <1>5, CreateDir2Keeps DEF CreateDir2, Kept, IdleAgree, RemovingOK
  <1>6. CASE CreateMap
    BY <1>6, CreateMapKeeps DEF CreateMap, Kept, CreatingOK, RemovingOK
  <1>7. ASSUME NEW n \in Names, RemoveFails(n) \/ RemoveStart(n) \/ Open(n)
        PROVE  Kept'
    <2>1. CASE RemoveFails(n)
      BY <2>1 DEF RemoveFails, DiskInv, Kept, IdleAgree, OpenedOK, Live, InUse,
                  CreatingOK, RemovingOK
    <2>2. CASE RemoveStart(n)
      <3>1. sound
        BY <2>2 DEF RemoveStart
      <3> QED BY <2>2, <3>1, RemoveStartKeeps DEF Kept, IdleAgree, CreatingOK
    <2>3. CASE Open(n)
      <3>1. sound
        BY <2>3 DEF Open
      <3> QED BY <2>3, <3>1, OpenKeeps DEF Kept, CreatingOK, RemovingOK
    <2> QED BY <1>7, <2>1, <2>2, <2>3
  <1>8. CASE RemoveMap
    BY <1>8, RemoveMapKeeps DEF RemoveMap, Kept, IdleAgree, CreatingOK
  <1>9. CASE RemoveDir2
    BY <1>9, RemoveDir2Keeps DEF RemoveDir2, Kept, CreatingOK, RemovingOK
  <1>10. ASSUME NEW f \in opened, Close(f) \/ Write(f)
         PROVE  Kept'
    <2>1. CASE Close(f)
      BY <2>1 DEF Close, DiskInv, Kept, IdleAgree, OpenedOK, Live, InUse, CreatingOK, RemovingOK
    <2>2. CASE Write(f)
      <3>1. pc' = "idle"
        BY <2>2, WriteKeeps
      <3> QED BY <2>2, <3>1, WriteKeeps DEF Write, Kept, CreatingOK, RemovingOK
    <2> QED BY <1>10, <2>1, <2>2
  <1>11. CASE Crash
    <2>1. pc' = "down" /\ intact'
      BY <1>11 DEF Crash
    <2> QED BY <1>11, <2>1, CrashKeeps DEF Kept, CreatingOK, RemovingOK
  <1>12. CASE Reboot
    BY <1>12 DEF Reboot, DiskInv, Kept, IdleAgree, OpenedOK, Live, InUse, CreatingOK, RemovingOK
  <1> QED BY <1>1, <1>2, <1>3, <1>4, <1>5, <1>6, <1>7, <1>8, <1>9, <1>10, <1>11, <1>12 DEF Next

\* The formatted disk is in it.
LEMMA DiskInit == Init => DiskInv
  <1> SUFFICES ASSUME Init PROVE IdleAgree /\ CreatingOK /\ RemovingOK /\ OpenedOK
                                 /\ Runs
    BY FSInitTyped DEF DiskInv
  <1>1. InUse(ddir) = {}
    BY DEF Init, InUse, FreeEntry
  <1>2. AgreeOn(InUse(ddir), ddir, dmap, dhdr, hdrs)
    BY <1>1 DEF Init, AgreeOn
  <1> QED BY <1>2 DEF Init, IdleAgree, CreatingOK, RemovingOK, OpenedOK, Creating, Removing, Stopped, Runs

LEMMA DiskCorrect == Spec => []DiskInv
  BY DiskInit, DiskStep, PTL DEF Spec

\* Between operations, and after a stop that was not in an exposed moment,
\* directory, headers and bitmap agree: Create and Remove neither lose a
\* sector nor give one to two files.
THEOREM DiskConsistent == Spec => []Consistent
  BY DiskCorrect, DiskInvImplies, PTL

\* The moments called exposed are exactly those at which a stop leaves a file
\* on sectors that the bitmap has free.
THEOREM ExposureExact == Spec => []ExposedExactly
  BY DiskCorrect, DiskInvImplies, PTL

\* On a disk nobody has damaged no ASSERT fails, no sector is taken for a
\* header that is none.
THEOREM NoAborts == Spec => []NeverAborts
  BY DiskCorrect, DiskInvImplies, PTL

\* An open file whose file was not removed reads and writes its own sectors.
THEOREM OpenFilesOwn == Spec => []OpenFilesCurrent
  BY DiskCorrect, DiskInvImplies, PTL

\* A proper subset of a finite set has fewer elements.
LEMMA ProperSubset ==
  ASSUME NEW S, IsFiniteSet(S), NEW T, T \subseteq S, NEW x \in S, x \notin T
  PROVE  /\ IsFiniteSet(T) /\ Cardinality(T) \in Nat /\ Cardinality(S) \in Nat
         /\ Cardinality(T) < Cardinality(S)
  <1>1. T \in SUBSET S /\ S # T
    OBVIOUS
  <1>2. IsFiniteSet(T) /\ Cardinality(T) <= Cardinality(S) /\ Cardinality(S) # Cardinality(T)
    BY <1>1, FS_Subset
  <1>3. Cardinality(T) \in Nat /\ Cardinality(S) \in Nat
    BY <1>2, FS_CardinalityType
  <1> QED
    BY <1>2, <1>3

\* Find applied k times finds k sectors, when there are so many (BitMap::Find,
\* in FileHeader::Allocate).
LEMMA LowestIs ==
  ASSUME NEW k \in Nat, NEW S \in SUBSET Int, IsFiniteSet(S), k <= Cardinality(S)
  PROVE  Cardinality(Lowest(k, S)) = k
  <1> DEFINE N == Cardinality(S)
             below(s) == {t \in S : t < s}
             rank == [s \in S |-> Cardinality(below(s))]
             L == Lowest(k, S)
             rankL == [s \in L |-> rank[s]]
  <1>1. N \in Nat
    BY FS_CardinalityType
  <1>2. \A s \in S : rank[s] \in 0..(N - 1)
    <2> SUFFICES ASSUME NEW s \in S PROVE Cardinality(below(s)) \in 0..(N - 1)
      OBVIOUS
    <2>1. below(s) \subseteq S /\ s \notin below(s)
      OBVIOUS
    <2> HIDE DEF below
    <2>2. Cardinality(below(s)) \in Nat /\ Cardinality(below(s)) < N
      BY <2>1, ProperSubset
    <2> QED
      BY <1>1, <2>2
  <1>3. \A s, u \in S : s < u => rank[s] < rank[u]
    <2> SUFFICES ASSUME NEW s \in S, NEW u \in S, s < u
                 PROVE  Cardinality(below(s)) < Cardinality(below(u))
      OBVIOUS
    <2>1. s \in Int /\ u \in Int /\ \A t \in S : t < s => t < u
      <3>1. \A t \in Int : s \in Int /\ u \in Int /\ t < s => t < u
        OBVIOUS
      <3> QED
        BY <3>1
    <2>2. s \in below(u) /\ s \notin below(s)
      BY <2>1
    <2>3. below(s) \subseteq below(u) /\ below(u) \in SUBSET S
      BY <2>1
    <2>4. IsFiniteSet(below(u))
      BY <2>3, FS_Subset
    <2> HIDE DEF below
    <2> QED
      BY <2>2, <2>3, <2>4, ProperSubset
  <1>4. rank \in [S -> 0..(N - 1)]
    BY <1>2
  <1>5. L = {s \in S : rank[s] < k} /\ L \in SUBSET S
    BY DEF Lowest
  <1> HIDE DEF rank, N, L
  <1>6. \A s, u \in S : rank[s] = rank[u] => s = u
    <2> SUFFICES ASSUME NEW s \in S, NEW u \in S, rank[s] = rank[u], s # u PROVE FALSE
      OBVIOUS
    <2>1. s < u \/ u < s
      OBVIOUS
    <2>2. rank[s] \in Int /\ rank[u] \in Int
      BY <1>2
    <2> QED
      BY <1>3, <2>1, <2>2
  <1>7. rank \in Injection(S, 0..(N - 1))
    BY <1>4, <1>6 DEF Injection, IsInjective
  <1>8. rank \in Surjection(S, 0..(N - 1))
    <2>1. IsFiniteSet(0..(N - 1)) /\ Cardinality(0..(N - 1)) = N
      BY <1>1, FS_Interval
    <2> QED
      BY <1>7, <2>1, FS_Injection DEF N
  <1>9. rankL \in Bijection(L, 0..(k - 1))
    <2>1. ASSUME NEW s \in L PROVE rank[s] \in 0..(k - 1)
      BY <1>2, <1>5, <2>1
    <2>2. rankL \in Injection(L, 0..(k - 1))
      BY <1>5, <1>6, <2>1 DEF Injection, IsInjective
    <2>3. \A r \in 0..(k - 1) : \E s \in L : rankL[s] = r
      <3> SUFFICES ASSUME NEW r \in 0..(k - 1) PROVE \E s \in L : rankL[s] = r
        OBVIOUS
      <3>1. r \in 0..(N - 1) /\ r < k
        BY <1>1 DEF N
      <3>2. PICK s \in S : rank[s] = r
        BY <1>8, <3>1 DEF Surjection
      <3> QED
        BY <1>5, <3>1, <3>2
    <2> HIDE DEF rankL
    <2> QED
      BY <2>2, <2>3 DEF Bijection, Surjection, Injection
  <1>10. IsFiniteSet(L) /\ Cardinality(0..(k - 1)) = Cardinality(L)
    <2>1. ExistsBijection(L, 0..(k - 1))
      BY <1>9 DEF ExistsBijection
    <2> QED
      BY <1>5, <2>1, FS_Subset, FS_Bijection
  <1> QED
    BY <1>10, FS_Interval DEF L

-------------------------------------------------------------------------------
(* The files of a directory *)

\* No two entries in use have the same name.
NamesDiffer(dir) == \A i, j \in InUse(dir) : i # j => dir[i].name # dir[j].name

\* Of names that differ, FindIndex finds the one entry.
LEMMA FilesOfIs ==
  ASSUME NEW dir, NEW hdr, NEW n \in Names, NamesDiffer(dir)
  PROVE  /\ (\A i \in InUse(dir) : dir[i].name # n) => FilesOf(dir, hdr)[n] = -1
         /\ \A i \in InUse(dir) :
              dir[i].name = n => FilesOf(dir, hdr)[n] = Cardinality(hdr[dir[i].sector])
  <1> DEFINE first == CHOOSE e \in Slots : IsFirst(e, Matching(dir, n))
  <1>1. FilesOf(dir, hdr)[n] = IF Matching(dir, n) = {} THEN -1 ELSE Cardinality(hdr[dir[first].sector])
    BY DEF FilesOf
  <1>2. Matching(dir, n) = {i \in InUse(dir) : dir[i].name = n}
    BY DEF Matching, InUse
  <1>3. ASSUME NEW i \in InUse(dir), dir[i].name = n
        PROVE  FilesOf(dir, hdr)[n] = Cardinality(hdr[dir[i].sector])
    <2>1. i \in Slots /\ i \in Int
      BY <1>3, FSAssumption DEF InUse, Slots
    <2>2. Matching(dir, n) = {i}
      BY <1>2, <1>3 DEF NamesDiffer
    <2>3. IsFirst(i, {i}) /\ \A e : IsFirst(e, {i}) => e = i
      BY <2>1 DEF IsFirst
    <2>4. first = i
      BY <2>1, <2>2, <2>3
    <2> QED
      BY <1>1, <2>2, <2>4
  <1> QED
    BY <1>1, <1>2, <1>3

\* Two directories with the same entries in use, and headers of the same sizes,
\* hold the same files.
LEMMA SameFiles ==
  ASSUME NEW dir, NEW hdr, NEW dir2, NEW hdr2, NamesDiffer(dir),
         InUse(dir2) = InUse(dir),
         \A i \in InUse(dir) : /\ dir2[i].name = dir[i].name
                               /\ hdr2[dir2[i].sector] = hdr[dir[i].sector]
  PROVE  FilesOf(dir2, hdr2) = FilesOf(dir, hdr)
  <1>1. NamesDiffer(dir2)
    BY DEF NamesDiffer
  <1>2. ASSUME NEW n \in Names PROVE FilesOf(dir2, hdr2)[n] = FilesOf(dir, hdr)[n]
    <2>1. CASE \E i \in InUse(dir) : dir[i].name = n
      BY <1>1, <2>1, FilesOfIs
    <2>2. CASE ~\E i \in InUse(dir) : dir[i].name = n
      BY <1>1, <2>2, FilesOfIs
    <2> QED
      BY <2>1, <2>2
  <1>3. /\ FilesOf(dir, hdr) = [n \in Names |-> FilesOf(dir, hdr)[n]]
        /\ FilesOf(dir2, hdr2) = [n \in Names |-> FilesOf(dir2, hdr2)[n]]
    BY DEF FilesOf
  <1> QED
    BY <1>2, <1>3

\* One entry more is one file more.
LEMMA OneFileMore ==
  ASSUME NEW dir, NEW dir2, NEW hdr, NEW e \in InUse(dir2), NamesDiffer(dir2),
         InUse(dir) = InUse(dir2) \ {e}, dir2[e].name \in Names,
         \A i \in InUse(dir) : dir2[i].name = dir[i].name /\ dir2[i].sector = dir[i].sector
  PROVE  /\ FilesOf(dir2, hdr) = [FilesOf(dir, hdr) EXCEPT
                                     ![dir2[e].name] = Cardinality(hdr[dir2[e].sector])]
         /\ FilesOf(dir, hdr) = [FilesOf(dir2, hdr) EXCEPT ![dir2[e].name] = -1]
         /\ FilesOf(dir, hdr)[dir2[e].name] = -1
  <1> DEFINE name == dir2[e].name
  <1>1. NamesDiffer(dir)
    BY DEF NamesDiffer
  <1>2. \A i \in InUse(dir) : dir[i].name # name
    BY DEF NamesDiffer
  <1>3. ASSUME NEW n \in Names
        PROVE  /\ n = name => /\ FilesOf(dir2, hdr)[n] = Cardinality(hdr[dir2[e].sector])
                              /\ FilesOf(dir, hdr)[n] = -1
               /\ n # name => FilesOf(dir2, hdr)[n] = FilesOf(dir, hdr)[n]
    <2>1. CASE n = name
      BY <1>1, <1>2, <2>1, FilesOfIs
    <2>2. CASE n # name /\ \E i \in InUse(dir) : dir[i].name = n
      BY <1>1, <2>2, FilesOfIs
    <2>3. CASE n # name /\ ~\E i \in InUse(dir) : dir[i].name = n
      <3>1. \A i \in InUse(dir2) : dir2[i].name # n
        BY <2>3
      <3> QED
        BY <1>1, <2>3, <3>1, FilesOfIs
    <2> QED
      BY <2>1, <2>2, <2>3
  <1>4. /\ FilesOf(dir, hdr) = [n \in Names |-> FilesOf(dir, hdr)[n]]
        /\ FilesOf(dir2, hdr) = [n \in Names |-> FilesOf(dir2, hdr)[n]]
    BY DEF FilesOf
  <1> HIDE DEF name
  <1>5. /\ FilesOf(dir2, hdr) = [FilesOf(dir, hdr) EXCEPT ![name] = Cardinality(hdr[dir2[e].sector])]
        /\ FilesOf(dir, hdr) = [FilesOf(dir2, hdr) EXCEPT ![name] = -1]
    BY <1>3, <1>4
  <1>6. FilesOf(dir, hdr)[name] = -1
    BY <1>3 DEF name
  <1> QED
    BY <1>5, <1>6 DEF name

\* The sectors and the entries of the directory are finitely many.
LEMMA DiskFinite ==
  /\ IsFiniteSet(Sectors) /\ Cardinality(Sectors) = NumSectors
  /\ IsFiniteSet(Slots) /\ Cardinality(Slots) = NumDirEntries
  /\ IsFiniteSet(Reserved) /\ Cardinality(Reserved) = 5
  <1>1. /\ 0 \in Int /\ 1 \in Int /\ 4 \in Int /\ NumSectors - 1 \in Int /\ NumDirEntries \in Int
        /\ ~(0 > NumSectors - 1) /\ (NumSectors - 1) - 0 + 1 = NumSectors
        /\ NumDirEntries = IF 1 > NumDirEntries THEN 0 ELSE NumDirEntries - 1 + 1
        /\ ~(0 > 4) /\ 4 - 0 + 1 = 5
    BY FSAssumption
  <1>2. IsFiniteSet(Sectors) /\ Cardinality(Sectors) = NumSectors
    BY <1>1, FS_Interval DEF Sectors
  <1>3. IsFiniteSet(Slots) /\ Cardinality(Slots) = NumDirEntries
    BY <1>1, FS_Interval, Zenon DEF Slots
  <1>4. IsFiniteSet(Reserved) /\ Cardinality(Reserved) = 5
    BY <1>1, FS_Interval DEF Reserved
  <1> QED
    BY <1>2, <1>3, <1>4

\* The sectors of a file are its pieces: one for the header, one for each sector
\* of its data.
LEMMA OwnIs ==
  ASSUME NEW dir \in [Slots -> Entries], NEW hdr \in [Sectors -> SUBSET Sectors],
         NEW i \in Slots, dir[i].sector \notin hdr[dir[i].sector]
  PROVE  /\ Own(dir, hdr, i) \subseteq Sectors
         /\ Cardinality(hdr[dir[i].sector]) \in Nat
         /\ ExistsBijection(0..Cardinality(hdr[dir[i].sector]), Own(dir, hdr, i))
  <1> DEFINE sector == dir[i].sector
             data == hdr[sector]
             own == data \cup {sector}
  <1>1. sector \in Sectors /\ data \in SUBSET Sectors /\ own \subseteq Sectors
    BY DEF Entries
  <1>2. Own(dir, hdr, i) = own
    BY DEF Own
  <1>3. sector \notin data
    OBVIOUS
  <1> HIDE DEF sector, data
  <1>4. IsFiniteSet(data) /\ Cardinality(data) \in Nat
    BY <1>1, DiskFinite, FS_Subset, FS_CardinalityType
  <1>5. IsFiniteSet(own) /\ Cardinality(own) = Cardinality(data) + 1
    BY <1>3, <1>4, FS_AddElement
  <1>6. IsFiniteSet(0..Cardinality(data)) /\ Cardinality(0..Cardinality(data)) = Cardinality(data) + 1
    BY <1>4, FS_Interval
  <1>7. ExistsBijection(0..Cardinality(data), own)
    BY <1>5, <1>6, FS_SameCardinalityBij
  <1> QED
    BY <1>1, <1>2, <1>4, <1>7 DEF data, sector

\* What a directory stores: as many files as it has entries in use, and as many
\* pieces as the bitmap marks sectors, but for those of the bitmap and of the
\* directory.
LEMMA StoredIs ==
  ASSUME NEW dir \in [Slots -> Entries], NEW hdr \in [Sectors -> SUBSET Sectors],
         NEW map, NEW headers, AgreeOn(InUse(dir), dir, map, hdr, headers),
         \A i \in InUse(dir) : dir[i].name \in Names
  PROVE  LET files == FilesOf(dir, hdr)
             stored == {n \in Names : files[n] # -1}
             pieces == UNION {{n} \X (0..files[n]) : n \in stored}
         IN  /\ Cardinality(stored) = Cardinality(InUse(dir))
             /\ Cardinality(pieces) \in Nat /\ Cardinality(pieces) + 5 = Cardinality(map)
  <1> DEFINE files == FilesOf(dir, hdr)
             stored == {n \in Names : files[n] # -1}
             pieces == UNION {{n} \X (0..files[n]) : n \in stored}
             I == InUse(dir)
             size(i) == Cardinality(hdr[dir[i].sector])
             own(i) == Own(dir, hdr, i)
             used == UNION {own(i) : i \in I}
  <1>1. /\ NamesDiffer(dir)
        /\ \A i \in I : i \in Slots /\ dir[i].sector \notin hdr[dir[i].sector] /\ own(i) \cap Reserved = {}
        /\ \A i, j \in I : i # j => own(i) \cap own(j) = {}
        /\ map = Reserved \cup used
    BY DEF AgreeOn, NamesDiffer, InUse
  <1>2. \A i \in I : /\ own(i) \subseteq Sectors /\ size(i) \in Nat
                     /\ ExistsBijection(0..size(i), own(i))
    BY <1>1, OwnIs
  <1>3. \A i \in I : dir[i].name \in Names /\ files[dir[i].name] = size(i)
    BY <1>1, FilesOfIs
  <1>4. \A n \in Names : n \in stored <=> \E i \in I : dir[i].name = n
    <2> SUFFICES ASSUME NEW n \in Names PROVE files[n] # -1 <=> \E i \in I : dir[i].name = n
      OBVIOUS
    <2>1. ASSUME NEW i \in I, dir[i].name = n PROVE files[n] # -1
      <3>1. files[n] = size(i) /\ size(i) \in Nat
        BY <1>2, <1>3, <2>1
      <3> HIDE DEF files, size
      <3> QED
        BY <3>1
    <2>2. (\A i \in I : dir[i].name # n) => files[n] = -1
      BY <1>1, FilesOfIs
    <2> QED
      BY <2>1, <2>2
  <1>5. stored \subseteq Names
    OBVIOUS
  <1>6. \A i, j \in I : dir[i].name = dir[j].name => i = j
    BY <1>1 DEF NamesDiffer
  <1>7. IsFiniteSet(I) /\ IsFiniteSet(used) /\ used \cap Reserved = {}
    <2>1. I \in SUBSET Slots /\ used \in SUBSET Sectors
      BY <1>1, <1>2
    <2> HIDE DEF used, I
    <2>2. IsFiniteSet(I) /\ IsFiniteSet(used)
      BY <2>1, DiskFinite, FS_Subset
    <2> QED
      BY <1>1, <2>2 DEF used
  <1> HIDE DEF files, I, size, own
  <1>8. Cardinality(stored) = Cardinality(I)
    <2> DEFINE name == [i \in I |-> dir[i].name]
    <2>1. name \in [I -> stored]
      BY <1>3, <1>4
    <2>2. name \in Injection(I, stored)
      BY <1>6, <2>1 DEF Injection, IsInjective
    <2>3. name \in Surjection(I, stored)
      BY <1>4, <1>5, <2>1 DEF Surjection
    <2>4. ExistsBijection(I, stored)
      BY <2>2, <2>3 DEF Bijection, ExistsBijection
    <2> QED
      BY <1>7, <2>4, FS_Bijection
  <1>9. IsFiniteSet(pieces) /\ Cardinality(pieces) = Cardinality(used)
    <2> DEFINE entry(n) == CHOOSE i \in I : dir[i].name = n
               g == [i \in I |-> CHOOSE f : f \in Bijection(0..size(i), own(i))]
               h == [p \in pieces |-> g[entry(p[1])][p[2]]]
    <2>1. \A n \in stored : entry(n) \in I /\ dir[entry(n)].name = n /\ files[n] = size(entry(n))
      BY <1>3, <1>4, <1>5
    <2>2. \A i \in I : g[i] \in Bijection(0..size(i), own(i))
      BY <1>2 DEF ExistsBijection
    <2>3. \A i \in I : /\ g[i] \in [0..size(i) -> own(i)]
                       /\ \A r, q \in 0..size(i) : g[i][r] = g[i][q] => r = q
                       /\ \A x \in own(i) : \E r \in 0..size(i) : g[i][r] = x
      <3> SUFFICES ASSUME NEW i \in I
                   PROVE  /\ g[i] \in [0..size(i) -> own(i)]
                          /\ \A r, q \in 0..size(i) : g[i][r] = g[i][q] => r = q
                          /\ \A x \in own(i) : \E r \in 0..size(i) : g[i][r] = x
        OBVIOUS
      <3>1. g[i] \in Injection(0..size(i), own(i)) /\ g[i] \in Surjection(0..size(i), own(i))
        BY <2>2 DEF Bijection
      <3> HIDE DEF g
      <3> QED
        BY <3>1 DEF Injection, Surjection, IsInjective
    <2>4. \A p : p \in pieces <=> \E n \in stored : \E r \in 0..files[n] : p = <<n, r>>
      OBVIOUS
    <2> HIDE DEF entry, g, stored, pieces
    <2>5. ASSUME NEW p \in pieces
          PROVE  /\ p[1] \in stored /\ p = <<p[1], p[2]>> /\ p[2] \in 0..size(entry(p[1]))
                 /\ entry(p[1]) \in I /\ h[p] = g[entry(p[1])][p[2]] /\ h[p] \in own(entry(p[1]))
      <3>1. PICK n \in stored : \E r \in 0..files[n] : p = <<n, r>>
        BY <2>4
      <3>2. PICK r \in 0..files[n] : p = <<n, r>>
        BY <3>1
      <3>3. p[1] = n /\ p[2] = r
        BY <3>2
      <3>4. entry(n) \in I /\ files[n] = size(entry(n))
        BY <2>1
      <3>5. h[p] = g[entry(n)][r] /\ g[entry(n)][r] \in own(entry(n))
        BY <2>3, <3>2, <3>3, <3>4
      <3> QED
        BY <3>2, <3>3, <3>4, <3>5
    <2>6. h \in [pieces -> used]
      BY <2>5
    <2>7. ASSUME NEW p \in pieces, NEW q \in pieces, h[p] = h[q] PROVE p = q
      <3>1. entry(p[1]) = entry(q[1])
        BY <1>1, <2>5, <2>7
      <3>2. p[1] = q[1]
        BY <2>1, <2>5, <3>1
      <3>3. p[2] = q[2]
        BY <2>3, <2>5, <2>7, <3>1
      <3> QED
        BY <2>5, <3>2, <3>3
    <2>8. ASSUME NEW x \in used PROVE \E p \in pieces : h[p] = x
      <3>1. PICK i \in I : x \in own(i)
        OBVIOUS
      <3>2. PICK r \in 0..size(i) : g[i][r] = x
        BY <2>3, <3>1
      <3> DEFINE n == dir[i].name
      <3>3. n \in stored /\ files[n] = size(i) /\ entry(n) = i
        BY <1>3, <1>4, <1>6, <2>1
      <3>4. <<n, r>> \in pieces /\ <<n, r>>[1] = n /\ <<n, r>>[2] = r
        BY <2>4, <3>3
      <3> QED
        BY <3>2, <3>3, <3>4
    <2> HIDE DEF h, used
    <2>9. h \in Injection(pieces, used) /\ h \in Surjection(pieces, used)
      BY <2>6, <2>7, <2>8 DEF Injection, Surjection, IsInjective
    <2> QED
      BY <1>7, <2>9, FS_Injection
  <1>10. Cardinality(pieces) \in Nat /\ Cardinality(pieces) + 5 = Cardinality(map)
    <2>1. Cardinality(pieces) \in Nat
      BY <1>9, FS_CardinalityType
    <2> HIDE DEF pieces, used
    <2>2. Reserved \cap used = {}
      BY <1>7
    <2>3. Cardinality(map) = Cardinality(Reserved) + Cardinality(used) - Cardinality(Reserved \cap used)
      BY <1>1, <1>7, DiskFinite, FS_Union
    <2>4. Cardinality(Reserved) = 5 /\ Cardinality(Reserved \cap used) = 0
      BY <2>2, DiskFinite, FS_EmptySet
    <2> QED
      BY <1>9, <2>1, <2>3, <2>4
  <1> QED
    BY <1>8, <1>10 DEF I, files

-------------------------------------------------------------------------------
(* FileSystem implements FileStore *)

\* On a disk nobody has damaged, the entries in use bear names of files, and
\* while one is removed the copy in memory still says which.
NameInv ==
  sound =>
    /\ \A i \in Live : ddir[i].name \in Names
    /\ pc \in Creating \cup Removing => mem.dir[mem.entry].name \in Names
    /\ pc \in Removing => /\ mem.dir[mem.entry].sector = mem.sector
                          /\ \A i \in Others : ddir[i].name # mem.dir[mem.entry].name
    /\ pc = "rmap" => ddir[mem.entry].name = mem.dir[mem.entry].name

\* What Create puts into its copies.
LEMMA CreateStartCopies ==
  ASSUME DiskInv, NEW n \in Names, NEW k \in Sizes, CreateStart(n, k)
  PROVE  /\ pc = "idle" /\ pc' = "chdr" /\ ~Refused(n, k) /\ k <= NumDirect
         /\ refused' = NoRefusal /\ UNCHANGED <<dmap, ddir, dhdr, hdrs, opened, sound>>
         /\ mem'.entry \in Slots /\ mem'.sector \in Sectors \ dmap
         /\ ~ddir[mem'.entry].inUse /\ Others' = InUse(ddir)
         /\ mem'.blocks = Lowest(k, Sectors \ (dmap \cup {mem'.sector}))
         /\ \A i \in Slots : i # mem'.entry => mem'.dir[i] = ddir[i]
         /\ mem'.dir[mem'.entry].inUse /\ mem'.dir[mem'.entry].name = n
  <1>1. PICK sector \in Sectors, e \in Slots :
          /\ IsFirst(sector, Sectors \ dmap)
          /\ IsFirst(e, Unused(ddir))
          /\ mem' = [dir |-> [ddir EXCEPT ![e] = [inUse |-> TRUE, sector |-> sector, name |-> n]],
                     map |-> dmap \cup {sector} \cup Lowest(k, Sectors \ (dmap \cup {sector})),
                     entry |-> e, sector |-> sector,
                     blocks |-> Lowest(k, Sectors \ (dmap \cup {sector}))]
    BY DEF CreateStart
  <1>2. /\ mem'.entry = e /\ mem'.sector = sector
        /\ mem'.blocks = Lowest(k, Sectors \ (dmap \cup {sector}))
        /\ sector \in Sectors \ dmap /\ ~ddir[e].inUse
    BY <1>1 DEF IsFirst, Unused
  <1>3. /\ \A i \in Slots : i # e => mem'.dir[i] = ddir[i]
        /\ mem'.dir[e].inUse /\ mem'.dir[e].name = n
    BY <1>1, DiskFacts
  <1>4. /\ pc = "idle" /\ pc' = "chdr" /\ ~Refused(n, k) /\ k <= NumDirect
        /\ refused' = NoRefusal /\ UNCHANGED <<dmap, ddir, dhdr, hdrs, opened, sound>>
    BY DEF CreateStart
  <1>5. Others' = InUse(ddir)
    BY <1>2, <1>4 DEF Others, InUse
  <1> QED
    BY <1>2, <1>3, <1>4, <1>5

\* What Remove puts into its copies on a sound disk.
LEMMA RemoveStartCopies ==
  ASSUME DiskInv, sound, NEW n \in Names, RemoveStart(n)
  PROVE  /\ pc = "idle" /\ pc' = "rmap"
         /\ refused' = NoRefusal /\ UNCHANGED <<dmap, ddir, dhdr, hdrs, sound>>
         /\ mem'.entry \in InUse(ddir) /\ ddir[mem'.entry].name = n
         /\ mem'.sector = ddir[mem'.entry].sector
         /\ \A i \in Slots : /\ mem'.dir[i].sector = ddir[i].sector
                             /\ mem'.dir[i].name = ddir[i].name
                             /\ mem'.dir[i].inUse = (IF i = mem'.entry THEN FALSE ELSE ddir[i].inUse)
         /\ Others' = InUse(ddir) \ {mem'.entry}
  <1>1. PICK e \in Slots, blocks \in SUBSET Numbers :
          /\ IsFirst(e, Matching(ddir, n))
          /\ \/ ~(blocks \subseteq dmap) /\ pc' = "aborted" /\ UNCHANGED <<mem, opened>>
             \/ /\ blocks \subseteq dmap
                /\ mem' = [dir |-> [ddir EXCEPT ![e].inUse = FALSE],
                           map |-> dmap \ (blocks \cup {ddir[e].sector}),
                           entry |-> e, sector |-> ddir[e].sector, blocks |-> blocks]
                /\ opened' = {IF f.sector = ddir[e].sector THEN [f EXCEPT !.current = FALSE] ELSE f
                                : f \in opened}
                /\ pc' = "rmap"
    BY RemoveStartIs DEF DiskInv
  <1>2. pc' = "rmap"
    BY RemoveStartKeeps
  <1>3. /\ mem'.dir = [ddir EXCEPT ![e].inUse = FALSE]
        /\ mem'.entry = e /\ mem'.sector = ddir[e].sector
    BY <1>1, <1>2
  <1>4. e \in InUse(ddir) /\ ddir[e].name = n
    BY <1>1 DEF IsFirst, Matching, InUse
  <1>5. /\ pc = "idle" /\ refused' = NoRefusal /\ UNCHANGED <<dmap, ddir, dhdr, hdrs, sound>>
    BY DEF RemoveStart
  <1>6. \A i \in Slots : /\ mem'.dir[i].sector = ddir[i].sector
                         /\ mem'.dir[i].name = ddir[i].name
                         /\ mem'.dir[i].inUse = (IF i = e THEN FALSE ELSE ddir[i].inUse)
    BY <1>3, DiskFacts, FreedEntry
  <1>7. Others' = InUse(ddir) \ {e}
    BY <1>3, <1>5 DEF Others, InUse
  <1> QED
    BY <1>2, <1>3, <1>4, <1>5, <1>6, <1>7

\* While an operation is under way, its copy of the directory has the other
\* entries of the disk.
LEMMA OthersSame ==
  ASSUME DiskInv, sound, pc \in Creating \cup Removing
  PROVE  \A i \in Slots : i # mem.entry => SameEntry(mem.dir[i], ddir[i])
  BY DEF DiskInv, CreatingOK, RemovingOK

\* Every step keeps the names.
LEMMA NameStep == DiskInv /\ NameInv /\ [Next]_vars => NameInv'
  <1> SUFFICES ASSUME DiskInv, NameInv, [Next]_vars, sound' PROVE NameInv'
    BY DEF NameInv
  <1> USE DEF Creating, Removing
  <1>1. ASSUME UNCHANGED <<ddir, mem, pc>>, sound PROVE NameInv'
    BY <1>1 DEF NameInv, Live, Others, InUse
  <1>2. CASE UNCHANGED vars
    BY <1>1, <1>2 DEF vars
  <1>3. ASSUME NEW n \in Names, NEW k \in Sizes,
               CreateFails(n, k) \/ CreateTooBig(n, k) \/ CreateStart(n, k)
        PROVE  NameInv'
    <2>1. CASE CreateFails(n, k)
      BY <1>1, <2>1 DEF CreateFails
    <2>2. CASE CreateTooBig(n, k)
      BY <2>2 DEF CreateTooBig
    <2>3. CASE CreateStart(n, k)
      <3>1. /\ pc = "idle" /\ pc' = "chdr" /\ Others' = InUse(ddir) /\ sound /\ UNCHANGED ddir
            /\ mem'.dir[mem'.entry].name = n
        BY <2>3, CreateStartCopies
      <3>2. \A i \in InUse(ddir) : ddir[i].name \in Names
        BY <3>1 DEF NameInv, Live
      <3> QED
        BY <3>1, <3>2 DEF NameInv, Live
    <2> QED
      BY <1>3, <2>1, <2>2, <2>3
  <1>4. CASE CreateHeader
    <2>1. pc' = "cdir1"
      BY <1>4, CreateHeaderKeeps DEF CreateHeader
    <2> QED
      BY <1>4, <2>1 DEF CreateHeader, NameInv, Live, Others, InUse
  <1>5. ASSUME CreateDir1 \/ RemoveDir1 PROVE NameInv'
    <2>1. /\ ddir' = FirstHalf(ddir, mem.dir) /\ UNCHANGED <<mem, sound>>
          /\ \/ pc = "cdir1" /\ pc' = "cdir2"
             \/ pc = "rdir1" /\ pc' = "rdir2"
      BY <1>5 DEF CreateDir1, RemoveDir1, WriteDir1
    <2>2. \A i \in Slots : i # mem.entry => SameEntry(mem.dir[i], ddir[i])
      BY <2>1, OthersSame
    <2>3. \A i \in Slots : i # mem.entry => SameEntry(ddir'[i], ddir[i])
      <3>1. \A i \in Slots : /\ i < SplitEntry => ddir'[i] = mem.dir[i]
                             /\ i = SplitEntry => /\ ddir'[i].inUse = mem.dir[i].inUse
                                                  /\ ddir'[i].sector = mem.dir[i].sector
                                                  /\ ddir'[i].name = ddir[i].name
                             /\ i > SplitEntry => ddir'[i] = ddir[i]
        BY <2>1, FirstHalfTyped, DiskFacts
      <3>2. ASSUME NEW i \in Slots, i # mem.entry PROVE SameEntry(ddir'[i], ddir[i])
        <4>1. i \in Int /\ SplitEntry \in Int
          BY DiskFacts
        <4>2. i < SplitEntry \/ i = SplitEntry \/ i > SplitEntry
          BY <4>1
        <4>3. SameEntry(mem.dir[i], ddir[i])
          BY <2>2, <3>2
        <4> QED
          BY <3>1, <4>2, <4>3 DEF SameEntry
      <3> QED
        BY <3>2
    <2>4. Others' = Others /\ \A i \in Others : ddir'[i].name = ddir[i].name
      BY <2>1, <2>3 DEF Others, InUse, SameEntry
    <2>5. Live = Others /\ Live' = Others
      BY <2>1, <2>4 DEF Live
    <2> QED
      BY <2>1, <2>4, <2>5 DEF NameInv
  <1>6. CASE CreateDir2 \/ RemoveDir2
    <2>1. /\ ddir' = mem.dir /\ sound
          /\ \/ pc = "cdir2" /\ pc' = "cmap" /\ UNCHANGED mem
             \/ pc = "rdir2" /\ pc' = "idle"
      BY <1>6 DEF CreateDir2, RemoveDir2
    <2>2. \A i \in Slots : i # mem.entry => SameEntry(mem.dir[i], ddir[i])
      BY <2>1, OthersSame
    <2>3. /\ InUse(ddir') \ {mem.entry} = Others
          /\ \A i \in Others : ddir'[i].name = ddir[i].name
      BY <2>1, <2>2 DEF Others, InUse, SameEntry
    <2>4. \A i \in Others : ddir[i].name \in Names
      BY <2>1 DEF NameInv, Live
    <2>5. CASE pc = "cdir2"
      <3>1. Live' = Others
        BY <2>1, <2>3, <2>5 DEF Live, Others, InUse
      <3> QED
        BY <2>1, <2>3, <2>4, <2>5, <3>1 DEF NameInv
    <2>6. CASE pc = "rdir2"
      <3>1. ~mem.dir[mem.entry].inUse
        BY <2>1, <2>6 DEF DiskInv, RemovingOK
      <3>2. Live' = Others
        BY <2>1, <2>3, <2>6, <3>1 DEF Live, InUse
      <3> QED
        BY <2>1, <2>3, <2>4, <2>6, <3>2 DEF NameInv
    <2> QED
      BY <2>1, <2>5, <2>6
  <1>7. CASE CreateMap
    <2>1. pc = "cmap" /\ pc' = "idle" /\ UNCHANGED <<ddir, sound>> /\ ddir = mem.dir
      BY <1>7 DEF CreateMap, DiskInv, CreatingOK
    <2>2. /\ \A i \in Others : ddir[i].name \in Names
          /\ ddir[mem.entry].name \in Names
      BY <2>1 DEF NameInv, Live
    <2>3. Live' \subseteq Others \cup {mem.entry}
      BY <2>1 DEF Live, Others, InUse
    <2> QED
      BY <2>1, <2>2, <2>3 DEF NameInv
  <1>8. ASSUME NEW n \in Names, RemoveFails(n) \/ RemoveStart(n) \/ Open(n)
        PROVE  NameInv'
    <2>1. CASE RemoveFails(n)
      BY <1>1, <2>1 DEF RemoveFails
    <2>2. CASE RemoveStart(n)
      <3>1. sound
        BY <2>2 DEF RemoveStart
      <3>2. /\ pc = "idle" /\ pc' = "rmap" /\ UNCHANGED <<ddir, sound>>
            /\ mem'.entry \in InUse(ddir) /\ ddir[mem'.entry].name = n
            /\ mem'.sector = ddir[mem'.entry].sector
            /\ \A i \in Slots : /\ mem'.dir[i].sector = ddir[i].sector
                                /\ mem'.dir[i].name = ddir[i].name
            /\ Others' = InUse(ddir) \ {mem'.entry}
        BY <2>2, <3>1, RemoveStartCopies
      <3>3. mem'.entry \in Slots /\ mem'.dir[mem'.entry].name = n
            /\ mem'.dir[mem'.entry].sector = mem'.sector
        BY <3>2 DEF InUse
      <3>4. /\ \A i \in InUse(ddir) : ddir[i].name \in Names
            /\ NamesDiffer(ddir)
        BY <3>1, <3>2 DEF NameInv, Live, DiskInv, IdleAgree, AgreeOn, NamesDiffer
      <3>5. \A i \in Others' : ddir[i].name # n
        BY <3>2, <3>4 DEF NamesDiffer
      <3> QED
        BY <3>2, <3>3, <3>4, <3>5 DEF NameInv, Live
    <2>3. CASE Open(n)
      <3>1. sound /\ pc = "idle" /\ UNCHANGED <<ddir, mem>>
        BY <2>3 DEF Open
      <3>2. pc' = "idle"
        BY <2>3, <3>1, OpenKeeps
      <3> QED
        BY <1>1, <3>1, <3>2
    <2> QED
      BY <1>8, <2>1, <2>2, <2>3
  <1>9. CASE RemoveMap
    BY <1>9 DEF RemoveMap, NameInv, Live, Others, InUse
  <1>10. ASSUME NEW f \in opened, Close(f) \/ Write(f)
         PROVE  NameInv'
    <2>1. CASE Write(f)
      <3>1. pc' = "idle" /\ pc = "idle" /\ sound /\ UNCHANGED <<ddir, mem>>
        BY <2>1, WriteKeeps DEF Write
      <3> QED
        BY <1>1, <3>1
    <2> QED
      BY <1>1, <1>10, <2>1 DEF Close
  <1>11. CASE Crash
    <2>1. pc' = "down" /\ UNCHANGED ddir /\ sound /\ ~Exposed
      BY <1>11 DEF Crash
    <2>2. Live' = InUse(ddir)
      BY <2>1 DEF Live, InUse
    <2>3. ASSUME NEW i \in InUse(ddir) PROVE ddir[i].name \in Names
      <3>1. CASE i \in Live
        BY <2>1, <3>1 DEF NameInv
      <3>2. CASE i \notin Live
        <4>1. pc \in Creating \cup Removing /\ i = mem.entry /\ ddir[mem.entry].inUse
          BY <2>3, <3>2 DEF Live, Others, InUse
        <4>2. pc = "rmap"
          BY <2>1, <4>1, DiskFacts DEF DiskInv, CreatingOK, RemovingOK, Exposed
        <4> QED
          BY <2>1, <4>1, <4>2 DEF NameInv
      <3> QED
        BY <3>1, <3>2
    <2> QED
      BY <2>1, <2>2, <2>3 DEF NameInv
  <1>12. CASE Reboot
    BY <1>12 DEF Reboot, NameInv, Live, InUse
  <1> QED
    BY <1>2, <1>3, <1>4, <1>5, <1>6, <1>7, <1>8, <1>9, <1>10, <1>11, <1>12 DEF Next

-------------------------------------------------------------------------------
(* What a caller sees, between operations and during one *)

\* Setting the flag of one entry changes nothing else.
LEMMA FlaggedEntry ==
  ASSUME NEW dir \in [Slots -> Entries], NEW e \in Slots, NEW flag \in BOOLEAN
  PROVE  \A i \in Slots :
           /\ [dir EXCEPT ![e].inUse = flag][i].sector = dir[i].sector
           /\ [dir EXCEPT ![e].inUse = flag][i].name = dir[i].name
           /\ [dir EXCEPT ![e].inUse = flag][i].inUse <=> (IF i = e THEN flag ELSE dir[i].inUse)
  BY DEF Entries

\* Between operations the caller sees the directory on the disk.
LEMMA IdleSeen ==
  ASSUME DiskInv, NameInv, sound, pc \in {"idle", "down"}
  PROVE  /\ CallerFiles = FilesOf(ddir, dhdr) /\ CallUnderWay = [op |-> "none"]
         /\ NamesDiffer(ddir) /\ AgreeOn(InUse(ddir), ddir, dmap, dhdr, hdrs)
         /\ \A i \in InUse(ddir) : ddir[i].name \in Names
  <1>1. pc \notin Creating \cup Removing
    BY DEF Creating, Removing
  <1>2. AgreeOn(InUse(ddir), ddir, dmap, dhdr, hdrs)
    BY DEF DiskInv, IdleAgree
  <1>3. NamesDiffer(ddir)
    BY <1>2 DEF AgreeOn, NamesDiffer
  <1>4. \A i \in InUse(ddir) : ddir[i].name \in Names
    BY <1>1 DEF NameInv, Live
  <1> QED
    BY <1>1, <1>2, <1>3, <1>4 DEF CallerFiles, CallUnderWay, CallerDir

\* During one, the one it started from.
LEMMA BusySeen ==
  ASSUME DiskInv, NameInv, sound, pc \in Creating \cup Removing
  PROVE  /\ CallerFiles = FilesOf(OldDir, dhdr)
         /\ CallUnderWay = IF pc \in Creating
                           THEN [op |-> "create", name |-> mem.dir[mem.entry].name,
                                 size |-> Cardinality(mem.blocks)]
                           ELSE [op |-> "remove", name |-> mem.dir[mem.entry].name]
         /\ InUse(OldDir) = IF pc \in Removing THEN Others \cup {mem.entry} ELSE Others
         /\ \A i \in Others : OldDir[i].name = ddir[i].name /\ OldDir[i].sector = ddir[i].sector
         /\ OldDir[mem.entry].name = mem.dir[mem.entry].name
         /\ OldDir[mem.entry].sector = mem.dir[mem.entry].sector
         /\ NamesDiffer(OldDir)
  <1>1. /\ CallerFiles = FilesOf(OldDir, dhdr)
        /\ CallUnderWay = IF pc \in Creating
                          THEN [op |-> "create", name |-> mem.dir[mem.entry].name,
                                size |-> Cardinality(mem.blocks)]
                          ELSE [op |-> "remove", name |-> mem.dir[mem.entry].name]
    BY DEF CallerFiles, CallUnderWay, CallerDir
  <1>2. \A i \in Slots :
          /\ OldDir[i].sector = mem.dir[i].sector
          /\ OldDir[i].name = mem.dir[i].name
          /\ OldDir[i].inUse <=> (IF i = mem.entry THEN pc \in Removing ELSE mem.dir[i].inUse)
    <2> DEFINE flag == pc \in Removing
    <2>1. flag \in BOOLEAN /\ OldDir = [mem.dir EXCEPT ![mem.entry].inUse = flag]
      BY DEF OldDir
    <2> HIDE DEF flag
    <2>2. \A i \in Slots :
            /\ OldDir[i].sector = mem.dir[i].sector
            /\ OldDir[i].name = mem.dir[i].name
            /\ OldDir[i].inUse <=> (IF i = mem.entry THEN flag ELSE mem.dir[i].inUse)
      BY <2>1, DiskFacts, FlaggedEntry
    <2> QED
      BY <2>2 DEF flag
  <1>3. \A i \in Slots : i # mem.entry => SameEntry(mem.dir[i], ddir[i])
    BY OthersSame
  <1>4. InUse(OldDir) = IF pc \in Removing THEN Others \cup {mem.entry} ELSE Others
    BY <1>2, <1>3, DiskFacts DEF InUse, Others, SameEntry
  <1>5. \A i \in Others : OldDir[i].name = ddir[i].name /\ OldDir[i].sector = ddir[i].sector
    BY <1>2, <1>3, DiskFacts DEF SameEntry
  <1>6. \A i, j \in Others : i # j => ddir[i].name # ddir[j].name
    BY DEF DiskInv, CreatingOK, RemovingOK, AgreeOn
  <1>7. pc \in Removing => \A i \in Others : ddir[i].name # mem.dir[mem.entry].name
    BY DEF NameInv
  <1>8. NamesDiffer(OldDir)
    BY <1>2, <1>4, <1>5, <1>6, <1>7, DiskFacts DEF NamesDiffer
  <1> QED
    BY <1>1, <1>2, <1>4, <1>5, <1>8, DiskFacts

\* The prover keeps the two modules' operators apart.
LEMMA SameCardinality == \A S : Store!Cardinality(S) = Cardinality(S)
  BY DEF Store!Cardinality, Cardinality

\* FileStore counts files and their pieces where Create looks for a free entry
\* and free sectors: both refuse the same requests.
LEMMA RefusesTheSame ==
  ASSUME DiskInv, NameInv, sound, pc = "idle", NEW n \in Names
  PROVE  /\ Matching(ddir, n) = {} <=> CallerFiles[n] = -1
         /\ \A k \in Sizes : Refused(n, k) <=> CallerFiles[n] # -1 \/ ~Store!Fits(k)
  <1>1. /\ CallerFiles = FilesOf(ddir, dhdr) /\ NamesDiffer(ddir)
        /\ AgreeOn(InUse(ddir), ddir, dmap, dhdr, hdrs)
        /\ \A i \in InUse(ddir) : ddir[i].name \in Names
    BY IdleSeen
  <1>2. Matching(ddir, n) = {} <=> CallerFiles[n] = -1
    <2>1. Matching(ddir, n) = {i \in InUse(ddir) : ddir[i].name = n}
      BY DEF Matching, InUse
    <2>2. ASSUME NEW i \in InUse(ddir), ddir[i].name = n PROVE CallerFiles[n] # -1
      <3>1. CallerFiles[n] = Cardinality(dhdr[ddir[i].sector])
        BY <1>1, <2>2, FilesOfIs
      <3>2. i \in Slots /\ ddir[i].sector \notin dhdr[ddir[i].sector]
        BY <1>1 DEF AgreeOn, InUse
      <3>3. Cardinality(dhdr[ddir[i].sector]) \in Nat
        BY <3>2, DiskFacts, OwnIs
      <3> QED
        BY <3>1, <3>3
    <2>3. (\A i \in InUse(ddir) : ddir[i].name # n) => CallerFiles[n] = -1
      BY <1>1, FilesOfIs
    <2> QED
      BY <2>1, <2>2, <2>3
  <1>3. ASSUME NEW k \in Sizes PROVE Refused(n, k) <=> CallerFiles[n] # -1 \/ ~Store!Fits(k)
    <2> DEFINE stored(f) == {m \in Names : f[m] # -1}
               pieces(f) == UNION {{m} \X (0..f[m]) : m \in stored(f)}
               files == Cardinality(stored(CallerFiles))
               used == Cardinality(pieces(CallerFiles))
               free == Sectors \ dmap
    <2>1. /\ files = Cardinality(InUse(ddir))
          /\ used \in Nat /\ used + 5 = Cardinality(dmap)
      <3> DEFINE f == FilesOf(ddir, dhdr)
      <3>1. /\ Cardinality(stored(f)) = Cardinality(InUse(ddir))
            /\ Cardinality(pieces(f)) \in Nat /\ Cardinality(pieces(f)) + 5 = Cardinality(dmap)
        BY <1>1, DiskFacts, StoredIs
      <3> HIDE DEF stored, pieces
      <3> QED
        BY <1>1, <3>1
    <2>2. Store!Fits(k) <=> files < NumDirEntries /\ k + 1 + used <= NumSectors - 5
      <3>1. Store!Stored(CallerFiles) = stored(CallerFiles)
        BY DEF Store!Stored, Store!Absent
      <3>2. Store!Pieces = pieces(CallerFiles)
        BY <3>1 DEF Store!Pieces
      <3> HIDE DEF stored, pieces
      <3> QED
        BY <3>1, <3>2, SameCardinality DEF Store!Fits
    <2> HIDE DEF files, used
    <2>3. k \in Nat /\ NumSectors \in Nat /\ NumDirEntries \in Nat
      BY FSAssumption
    <2>4. dmap \subseteq Sectors
      BY DEF DiskInv, FSTypeOK
    <2>5. /\ IsFiniteSet(free) /\ Cardinality(free) \in Nat
          /\ Cardinality(free) = NumSectors - Cardinality(dmap)
      <3>1. Sectors \cap dmap = dmap
        BY <2>4
      <3>2. /\ IsFiniteSet(free)
            /\ Cardinality(free) = Cardinality(Sectors) - Cardinality(Sectors \cap dmap)
        BY DiskFinite, FS_Difference, Zenon
      <3>3. Cardinality(free) \in Nat
        BY <3>2, FS_CardinalityType
      <3> HIDE DEF free
      <3> QED
        BY <3>1, <3>2, <3>3, DiskFinite
    <2>6. free = {} => Cardinality(free) = 0
      BY FS_EmptySet
    <2> HIDE DEF free
    <2>7. Unused(ddir) = {} <=> ~(Cardinality(InUse(ddir)) < NumDirEntries)
      <3>1. InUse(ddir) \subseteq Slots /\ Unused(ddir) = Slots \ InUse(ddir)
        BY DEF InUse, Unused
      <3>2. CASE Unused(ddir) = {}
        <4>1. InUse(ddir) = Slots
          BY <3>1, <3>2
        <4> QED
          BY <2>3, <3>2, <4>1, DiskFinite
      <3>3. CASE Unused(ddir) # {}
        <4>1. PICK x \in Slots : x \notin InUse(ddir)
          BY <3>1, <3>3
        <4>2. Cardinality(InUse(ddir)) < Cardinality(Slots)
          BY <3>1, <4>1, DiskFinite, ProperSubset
        <4> QED
          BY <3>3, <4>2, DiskFinite
      <3> QED
        BY <3>2, <3>3
    <2>8. Refused(n, k) <=> \/ CallerFiles[n] # -1 \/ free = {} \/ Unused(ddir) = {}
                            \/ Cardinality(free) - 1 < k
      BY <1>2 DEF Refused, free
    <2>9. /\ k + 1 + used <= NumSectors - 5 <=> ~(Cardinality(free) - 1 < k)
          /\ free = {} => Cardinality(free) - 1 < k
      BY <2>1, <2>3, <2>5, <2>6
    <2> QED
      BY <2>1, <2>2, <2>7, <2>8, <2>9
  <1> QED
    BY <1>2, <1>3

-------------------------------------------------------------------------------
(* Every step is one of FileStore's, or changes nothing a caller sees *)

SeenStays == UNCHANGED <<CallerFiles, CallUnderWay, refused, sound>>

\* A request that Create or Remove refuses.
LEMMA RefusedSeen ==
  ASSUME DiskInv, NameInv, sound, NEW n \in Names
  PROVE  /\ \A k \in Sizes : CreateFails(n, k) => Store!Refuse(n, k)
         /\ RemoveFails(n) => Store!Refuse(n, -1)
  <1>1. ASSUME pc = "idle", UNCHANGED <<dmap, ddir, dhdr, hdrs, pc, mem, opened, sound>>
        PROVE  CallUnderWay = [op |-> "none"] /\ UNCHANGED <<CallerFiles, CallUnderWay, sound>>
    <2>1. pc' \notin Creating \cup Removing /\ pc \notin Creating \cup Removing
      BY <1>1 DEF Creating, Removing
    <2> QED
      BY <1>1, <2>1 DEF CallerFiles, CallerDir, CallUnderWay
  <1>2. ASSUME NEW k \in Sizes, CreateFails(n, k) PROVE Store!Refuse(n, k)
    <2>1. /\ pc = "idle" /\ Refused(n, k) /\ refused' = [name |-> n, size |-> k]
          /\ UNCHANGED <<dmap, ddir, dhdr, hdrs, pc, mem, opened, sound>>
      BY <1>2 DEF CreateFails
    <2>2. CallerFiles[n] # -1 \/ ~Store!Fits(k)
      BY <2>1, RefusesTheSame
    <2>3. k # -1
      BY FSAssumption
    <2> QED
      BY <1>1, <2>1, <2>2, <2>3 DEF Store!Refuse, Store!None, Store!Absent
  <1>3. ASSUME RemoveFails(n) PROVE Store!Refuse(n, -1)
    <2>1. /\ pc = "idle" /\ Matching(ddir, n) = {} /\ refused' = [name |-> n, size |-> -1]
          /\ UNCHANGED <<dmap, ddir, dhdr, hdrs, pc, mem, opened, sound>>
      BY <1>3 DEF RemoveFails
    <2>2. CallerFiles[n] = -1
      BY <2>1, RefusesTheSame
    <2> QED
      BY <1>1, <2>1, <2>2 DEF Store!Refuse, Store!None, Store!Absent
  <1> QED
    BY <1>2, <1>3

\* Create takes the sectors that FileStore finds room for.
LEMMA CreateStartSeen ==
  ASSUME DiskInv, NameInv, sound, NEW n \in Names, NEW k \in Sizes, CreateStart(n, k)
  PROVE  Store!BeginCreate(n, k)
  <1> DEFINE e == mem'.entry
             free == Sectors \ dmap
             rest == Sectors \ (dmap \cup {mem'.sector})
  <1>1. /\ pc = "idle" /\ pc' = "chdr" /\ ~Refused(n, k) /\ k <= NumDirect
        /\ refused' = NoRefusal /\ UNCHANGED <<dmap, ddir, dhdr, hdrs, opened, sound>>
        /\ e \in Slots /\ mem'.sector \in free
        /\ ~ddir[e].inUse /\ Others' = InUse(ddir)
        /\ mem'.blocks = Lowest(k, rest)
        /\ \A i \in Slots : i # e => mem'.dir[i] = ddir[i]
        /\ mem'.dir[e].inUse /\ mem'.dir[e].name = n
    BY CreateStartCopies
  <1>2. CallerFiles[n] = -1 /\ Store!Fits(k)
    BY <1>1, RefusesTheSame
  <1>3. Cardinality(mem'.blocks) = k
    <2>1. free \in SUBSET Sectors /\ IsFiniteSet(free) /\ Cardinality(free) \in Nat
      <3>1. free \in SUBSET Sectors
        OBVIOUS
      <3> QED
        BY <3>1, DiskFinite, FS_Subset, FS_CardinalityType
    <2>2. rest = free \ {mem'.sector}
      OBVIOUS
    <2>3. ~(Cardinality(free) - 1 < k) /\ k \in Nat
      BY <1>1, FSAssumption DEF Refused
    <2>4. rest \in SUBSET Int
      BY FSAssumption DEF Sectors
    <2> HIDE DEF free, rest
    <2>5. IsFiniteSet(rest) /\ Cardinality(rest) = Cardinality(free) - 1
      BY <1>1, <2>1, <2>2, FS_RemoveElement
    <2>6. k <= Cardinality(rest)
      BY <2>1, <2>3, <2>5
    <2> QED
      BY <1>1, <2>3, <2>4, <2>5, <2>6, LowestIs
  <1> HIDE DEF e
  <1>4. CallUnderWay = [op |-> "none"]
        /\ CallUnderWay' = [op |-> "create", name |-> n, size |-> k]
    BY <1>1, <1>3 DEF CallUnderWay, Creating, Removing, e
  <1>5. UNCHANGED CallerFiles
    <2>1. CallerFiles = FilesOf(ddir, dhdr) /\ NamesDiffer(ddir)
      BY <1>1, IdleSeen
    <2>2. CallerFiles' = FilesOf(OldDir', dhdr)
      BY <1>1 DEF CallerFiles, CallerDir, Creating
    <2>3. OldDir' = [mem'.dir EXCEPT ![e].inUse = FALSE] /\ mem'.dir \in [Slots -> Entries]
      <3>1. FSTypeOK'
        BY CreateStartTyped DEF DiskInv
      <3>2. (pc' \in Removing) = FALSE
        BY <1>1 DEF Removing
      <3>3. mem'.dir \in [Slots -> Entries]
        BY <3>1 DEF FSTypeOK, Halves
      <3>4. OldDir' = [mem'.dir EXCEPT ![mem'.entry].inUse = (pc' \in Removing)]
        BY DEF OldDir
      <3> QED
        BY <3>2, <3>3, <3>4, Zenon DEF e
    <2>4. \A i \in Slots : /\ OldDir'[i].sector = mem'.dir[i].sector
                           /\ OldDir'[i].name = mem'.dir[i].name
                           /\ OldDir'[i].inUse = (IF i = e THEN FALSE ELSE mem'.dir[i].inUse)
      BY <1>1, <2>3, FreedEntry
    <2>5. InUse(OldDir') = InUse(ddir)
      BY <1>1, <2>4 DEF InUse
    <2>6. \A i \in InUse(ddir) : OldDir'[i].sector = ddir[i].sector /\ OldDir'[i].name = ddir[i].name
      BY <1>1, <2>4 DEF InUse
    <2>7. FilesOf(OldDir', dhdr) = FilesOf(ddir, dhdr)
      BY <2>1, <2>5, <2>6, SameFiles
    <2> QED
      BY <2>1, <2>2, <2>7
  <1> QED
    BY <1>1, <1>2, <1>4, <1>5
       DEF Store!BeginCreate, Store!None, Store!Absent, Store!NoRefusal, NoRefusal

\* The writes of an operation before its last do not show.
LEMMA WritesUnseen ==
  ASSUME DiskInv, NameInv, sound, CreateHeader \/ CreateDir1 \/ RemoveDir1 \/ CreateDir2 \/ RemoveMap
  PROVE  SeenStays
  <1>1. /\ \/ pc \in Creating /\ pc' \in Creating
           \/ pc \in Removing /\ pc' \in Removing
        /\ UNCHANGED <<mem, refused, sound>>
    BY CreateHeaderKeeps
       DEF CreateHeader, CreateDir1, RemoveDir1, WriteDir1, CreateDir2, RemoveMap, Creating, Removing
  <1>2. /\ pc \in Creating \cup Removing /\ pc' \in Creating \cup Removing
        /\ (pc \in Creating) = (pc' \in Creating) /\ (pc \in Removing) = (pc' \in Removing)
    BY <1>1 DEF Creating, Removing
  <1>3. OldDir' = OldDir /\ CallUnderWay' = CallUnderWay
    BY <1>1, <1>2 DEF OldDir, CallUnderWay
  <1>4. CallerFiles = FilesOf(OldDir, dhdr) /\ CallerFiles' = FilesOf(OldDir, dhdr')
    BY <1>1, <1>2, <1>3 DEF CallerFiles, CallerDir
  <1>5. CASE CreateHeader
    <2>1. pc = "chdr" /\ dhdr' = [dhdr EXCEPT ![mem.sector] = mem.blocks]
      BY <1>5 DEF CreateHeader
    <2>2. /\ AgreeOn(Others, ddir, dmap, dhdr, hdrs) /\ mem.sector \notin dmap
      BY <2>1 DEF DiskInv, CreatingOK, Creating
    <2>3. /\ InUse(OldDir) = Others /\ NamesDiffer(OldDir)
          /\ \A i \in Others : OldDir[i].sector = ddir[i].sector
      BY <1>2, <2>1, BusySeen DEF Removing
    <2>4. \A i \in Others : ddir[i].sector \in Sectors /\ ddir[i].sector # mem.sector
      BY <2>2, AgreeMarks, DiskFacts DEF Entries
    <2>5. \A i \in Others : dhdr'[OldDir[i].sector] = dhdr[OldDir[i].sector]
      BY <2>1, <2>3, <2>4, DiskFacts
    <2>6. FilesOf(OldDir, dhdr') = FilesOf(OldDir, dhdr)
      BY <2>3, <2>5, SameFiles
    <2> QED
      BY <1>1, <1>3, <1>4, <2>6 DEF SeenStays
  <1>6. CASE ~CreateHeader
    <2>1. UNCHANGED dhdr
      BY <1>6 DEF CreateDir1, RemoveDir1, WriteDir1, CreateDir2, RemoveMap
    <2> QED
      BY <1>1, <1>3, <1>4, <2>1 DEF SeenStays
  <1> QED
    BY <1>5, <1>6

\* Create ends with the write of the bitmap.
LEMMA CreateMapSeen ==
  ASSUME DiskInv, NameInv, sound, CreateMap
  PROVE  Store!End
  <1> DEFINE e == mem.entry
             name == mem.dir[e].name
             size == Cardinality(mem.blocks)
  <1>1. /\ pc = "cmap" /\ pc' = "idle" /\ UNCHANGED <<ddir, dhdr, refused, sound>>
        /\ pc \in Creating /\ pc \notin Removing
    BY DEF CreateMap, Creating, Removing
  <1>2. /\ ddir = mem.dir /\ ddir[e].inUse /\ ddir[e].sector = mem.sector
        /\ dhdr[mem.sector] = mem.blocks /\ AgreeOn(Others, ddir, dmap, dhdr, hdrs)
        /\ \A i \in Others : ddir[i].name # name
    BY <1>1 DEF DiskInv, CreatingOK
  <1>3. name \in Names
    BY <1>1 DEF NameInv
  <1>4. /\ CallerFiles = FilesOf(OldDir, dhdr)
        /\ CallUnderWay = [op |-> "create", name |-> name, size |-> size]
        /\ InUse(OldDir) = Others
        /\ \A i \in Others : OldDir[i].name = ddir[i].name /\ OldDir[i].sector = ddir[i].sector
    BY <1>1, BusySeen
  <1>5. CallerFiles' = FilesOf(ddir, dhdr) /\ CallUnderWay' = [op |-> "none"]
    BY <1>1 DEF CallerFiles, CallerDir, CallUnderWay, Creating, Removing
  <1>6. e \in InUse(ddir) /\ Others = InUse(ddir) \ {e}
    BY <1>2, DiskFacts DEF InUse, Others
  <1>7. NamesDiffer(ddir)
    BY <1>2, <1>6 DEF NamesDiffer, AgreeOn
  <1>8. FilesOf(ddir, dhdr) = [FilesOf(OldDir, dhdr) EXCEPT
                                 ![ddir[e].name] = Cardinality(dhdr[ddir[e].sector])]
    <2>1. /\ InUse(OldDir) = InUse(ddir) \ {e} /\ ddir[e].name \in Names
          /\ \A i \in InUse(OldDir) : ddir[i].name = OldDir[i].name /\ ddir[i].sector = OldDir[i].sector
      BY <1>2, <1>3, <1>4, <1>6
    <2> QED
      BY <1>6, <1>7, <2>1, OneFileMore
  <1>9. CallerFiles' = [CallerFiles EXCEPT ![name] = size]
    BY <1>2, <1>4, <1>5, <1>8
  <1> HIDE DEF name, size
  <1> QED
    BY <1>1, <1>4, <1>5, <1>9 DEF Store!End, Store!After, Store!None

\* What Remove takes away, once it has taken effect.
LEMMA RemovedFiles ==
  ASSUME DiskInv, NameInv, sound, pc \in Removing,
         NEW dir, InUse(dir) = Others,
         \A i \in Others : dir[i].name = ddir[i].name /\ dir[i].sector = ddir[i].sector
  PROVE  FilesOf(dir, dhdr) = Store!After
  <1> DEFINE e == mem.entry
             name == mem.dir[e].name
  <1>1. name \in Names /\ pc \notin Creating
    BY DEF NameInv, Creating, Removing
  <1>2. /\ CallerFiles = FilesOf(OldDir, dhdr)
        /\ CallUnderWay = [op |-> "remove", name |-> name]
        /\ InUse(OldDir) = Others \cup {e}
        /\ \A i \in Others : OldDir[i].name = ddir[i].name /\ OldDir[i].sector = ddir[i].sector
        /\ OldDir[e].name = name /\ NamesDiffer(OldDir)
    BY <1>1, BusySeen
  <1>3. e \notin Others
    BY DiskFacts
  <1> HIDE DEF e
  <1>4. /\ e \in InUse(OldDir) /\ InUse(dir) = InUse(OldDir) \ {e} /\ OldDir[e].name \in Names
        /\ \A i \in InUse(dir) : OldDir[i].name = dir[i].name /\ OldDir[i].sector = dir[i].sector
    BY <1>1, <1>2, <1>3
  <1>5. FilesOf(dir, dhdr) = [FilesOf(OldDir, dhdr) EXCEPT ![OldDir[e].name] = -1]
    <2>1. NamesDiffer(OldDir)
      BY <1>2
    <2> QED
      BY <1>4, <2>1, OneFileMore
  <1>6. FilesOf(dir, dhdr) = [CallerFiles EXCEPT ![name] = -1]
    BY <1>2, <1>5
  <1> HIDE DEF name
  <1> QED
    BY <1>2, <1>6 DEF Store!After, Store!Absent

\* Remove begins ...
LEMMA RemoveStartSeen ==
  ASSUME DiskInv, NameInv, sound, NEW n \in Names, RemoveStart(n)
  PROVE  Store!BeginRemove(n)
  <1> DEFINE e == mem'.entry
  <1>1. /\ pc = "idle" /\ pc' = "rmap" /\ pc' \notin Creating /\ pc' \in Removing
        /\ refused' = NoRefusal /\ UNCHANGED <<dmap, ddir, dhdr, hdrs, sound>>
        /\ e \in InUse(ddir) /\ ddir[e].name = n
        /\ \A i \in Slots : /\ mem'.dir[i].sector = ddir[i].sector
                            /\ mem'.dir[i].name = ddir[i].name
                            /\ mem'.dir[i].inUse = (IF i = e THEN FALSE ELSE ddir[i].inUse)
    BY RemoveStartCopies DEF Creating, Removing
  <1>2. /\ CallerFiles = FilesOf(ddir, dhdr) /\ CallUnderWay = [op |-> "none"]
        /\ NamesDiffer(ddir)
    BY <1>1, IdleSeen
  <1>3. CallerFiles[n] # -1
    <2>1. Matching(ddir, n) # {}
      BY <1>1 DEF Matching, InUse
    <2> QED
      BY <1>1, <2>1, RefusesTheSame
  <1>4. /\ CallUnderWay' = [op |-> "remove", name |-> n]
        /\ CallerFiles' = FilesOf(OldDir', dhdr)
    <2>1. mem'.dir[e].name = n
      BY <1>1 DEF InUse
    <2> QED
      BY <1>1, <2>1 DEF CallUnderWay, CallerFiles, CallerDir
  <1>5. /\ OldDir' = [mem'.dir EXCEPT ![e].inUse = TRUE]
        /\ e \in Slots /\ mem'.dir \in [Slots -> Entries]
    <2>1. FSTypeOK'
      BY RemoveStartTyped DEF DiskInv
    <2>2. (pc' \in Removing) = TRUE
      BY <1>1
    <2>3. mem'.dir \in [Slots -> Entries] /\ e \in Slots
      BY <2>1 DEF FSTypeOK, Halves
    <2>4. OldDir' = [mem'.dir EXCEPT ![mem'.entry].inUse = (pc' \in Removing)]
      BY DEF OldDir
    <2> QED
      BY <2>2, <2>3, <2>4, Zenon
  <1> HIDE DEF e
  <1>6. \A i \in Slots : /\ OldDir'[i].sector = mem'.dir[i].sector
                         /\ OldDir'[i].name = mem'.dir[i].name
                         /\ OldDir'[i].inUse <=> (IF i = e THEN TRUE ELSE mem'.dir[i].inUse)
    BY <1>5, FlaggedEntry
  <1>7. InUse(OldDir') = InUse(ddir)
    BY <1>1, <1>6 DEF InUse
  <1>8. \A i \in InUse(ddir) : OldDir'[i].sector = ddir[i].sector /\ OldDir'[i].name = ddir[i].name
    BY <1>1, <1>6 DEF InUse
  <1>9. FilesOf(OldDir', dhdr) = FilesOf(ddir, dhdr)
    BY <1>2, <1>7, <1>8, SameFiles
  <1> QED
    BY <1>1, <1>2, <1>3, <1>4, <1>9
       DEF Store!BeginRemove, Store!None, Store!Absent, Store!NoRefusal, NoRefusal

\* ... and ends with the write of the directory's second half.
LEMMA RemoveDir2Seen ==
  ASSUME DiskInv, NameInv, sound, RemoveDir2
  PROVE  Store!End
  <1>1. /\ pc = "rdir2" /\ pc' = "idle" /\ ddir' = mem.dir /\ UNCHANGED <<dhdr, refused, sound>>
        /\ pc \in Removing /\ pc \notin Creating
    BY DEF RemoveDir2, Removing, Creating
  <1>2. \A i \in Slots : i # mem.entry => SameEntry(mem.dir[i], ddir[i])
    BY <1>1, OthersSame
  <1>3. ~mem.dir[mem.entry].inUse
    BY <1>1 DEF DiskInv, RemovingOK
  <1>4. /\ InUse(ddir') = Others
        /\ \A i \in Others : ddir'[i].name = ddir[i].name /\ ddir'[i].sector = ddir[i].sector
    BY <1>1, <1>2, <1>3, DiskFacts DEF InUse, Others, SameEntry
  <1>5. CallerFiles' = FilesOf(ddir', dhdr) /\ CallUnderWay' = [op |-> "none"]
    BY <1>1 DEF CallerFiles, CallerDir, CallUnderWay, Creating, Removing
  <1>6. CallerFiles' = Store!After
    BY <1>1, <1>4, <1>5, RemovedFiles
  <1>7. CallUnderWay # [op |-> "none"]
    <2>1. CallUnderWay.op = "remove"
      BY <1>1 DEF CallUnderWay
    <2> QED
      BY <2>1
  <1> QED
    BY <1>1, <1>5, <1>6, <1>7 DEF Store!End, Store!None

\* A stop that is not exposed leaves the files as they were or, late in Remove,
\* as they were to become.
LEMMA CrashSeen ==
  ASSUME DiskInv, NameInv, sound, Crash, sound'
  PROVE  SeenStays \/ Store!Stop
  <1>1. /\ pc' = "down" /\ ~Exposed /\ pc # "down" /\ UNCHANGED <<ddir, dhdr, refused>>
        /\ CallerFiles' = FilesOf(ddir, dhdr) /\ CallUnderWay' = [op |-> "none"]
    BY DEF Crash, CallerFiles, CallerDir, CallUnderWay, Creating, Removing
  <1>2. pc \in {"idle"} \cup Creating \cup Removing
    BY <1>1 DEF DiskInv, FSTypeOK, Runs
  <1>3. CASE pc = "idle"
    BY <1>1, <1>3, IdleSeen DEF SeenStays
  <1>4. ASSUME pc \in Creating \cup Removing PROVE CallUnderWay # Store!None
    <2>1. CallUnderWay.op \in {"create", "remove"}
      BY <1>4 DEF CallUnderWay
    <2> QED
      BY <2>1 DEF Store!None
  <1>5. ASSUME pc \in Creating \cup Removing, InUse(ddir) = InUse(OldDir),
               \A i \in InUse(OldDir) : ddir[i].name = OldDir[i].name /\ ddir[i].sector = OldDir[i].sector
        PROVE  Store!Stop
    <2>1. CallerFiles = FilesOf(OldDir, dhdr) /\ NamesDiffer(OldDir)
      BY <1>5, BusySeen
    <2>2. FilesOf(ddir, dhdr) = FilesOf(OldDir, dhdr)
      BY <1>5, <2>1, SameFiles
    <2> QED
      BY <1>1, <1>4, <1>5, <2>1, <2>2 DEF Store!Stop, Store!None
  <1>6. CASE pc \in Creating
    <2>1. ~ddir[mem.entry].inUse
      BY <1>1, <1>6, DiskFacts DEF DiskInv, CreatingOK, Exposed, Creating
    <2>2. InUse(ddir) = Others
      BY <2>1, DiskFacts
    <2>3. /\ InUse(OldDir) = Others
          /\ \A i \in Others : OldDir[i].name = ddir[i].name /\ OldDir[i].sector = ddir[i].sector
      BY <1>6, BusySeen DEF Creating, Removing
    <2> QED
      BY <1>5, <1>6, <2>2, <2>3
  <1>7. CASE pc = "rmap"
    <2>1. pc \in Removing /\ pc \notin Creating
      BY <1>7 DEF Removing, Creating
    <2>2. /\ ddir[mem.entry].inUse /\ ddir[mem.entry].sector = mem.sector
          /\ mem.dir[mem.entry].sector = mem.sector
          /\ ddir[mem.entry].name = mem.dir[mem.entry].name
      BY <1>7, <2>1 DEF DiskInv, RemovingOK, NameInv
    <2>3. InUse(ddir) = Others \cup {mem.entry}
      BY <2>2, DiskFacts
    <2>4. /\ InUse(OldDir) = Others \cup {mem.entry}
          /\ \A i \in Others : OldDir[i].name = ddir[i].name /\ OldDir[i].sector = ddir[i].sector
          /\ OldDir[mem.entry].name = mem.dir[mem.entry].name
          /\ OldDir[mem.entry].sector = mem.dir[mem.entry].sector
      BY <2>1, BusySeen
    <2> QED
      BY <1>5, <2>1, <2>2, <2>3, <2>4
  <1>8. CASE pc \in {"rdir1", "rdir2"}
    <2>1. pc \in Removing
      BY <1>8 DEF Removing
    <2>2. ~ddir[mem.entry].inUse
      BY <1>1, <1>8, <2>1, DiskFacts DEF DiskInv, RemovingOK, Exposed
    <2>3. InUse(ddir) = Others
      BY <2>2, DiskFacts
    <2>4. CallerFiles' = Store!After
      BY <1>1, <2>1, <2>3, RemovedFiles
    <2> QED
      BY <1>1, <1>4, <2>1, <2>4 DEF Store!Stop, Store!None
  <1> QED
    BY <1>2, <1>3, <1>6, <1>7, <1>8 DEF Removing

\* Once the disk may be damaged, nothing is promised.
LEMMA DamagedSeen ==
  ASSUME FSTypeOK, [Next]_vars, ~sound
  PROVE  Store!AfterDamage
  <1>1. ~sound'
    BY DEF Next, vars, CreateFails, CreateTooBig, CreateStart, CreateHeader, CreateDir1, RemoveDir1,
           WriteDir1, CreateDir2, CreateMap, RemoveFails, RemoveStart, Open, RemoveMap, RemoveDir2,
           Close, Write, Crash, Reboot
  <1>2. refused' \in Store!Requests
    BY FSNextTyped DEF FSTypeOK, Requests, Store!Requests
  <1>3. UNCHANGED <<CallerFiles, CallUnderWay>>
    BY <1>1 DEF CallerFiles, CallUnderWay
  <1> QED
    BY <1>1, <1>2, <1>3 DEF Store!AfterDamage

\* Create of too large a file, a write through a file that was removed and a
\* stop at an exposed moment are the steps that can damage it.
LEMMA DamageSeen ==
  ASSUME [Next]_vars, sound, ~sound'
  PROVE  Store!Damage
  <1>1. UNCHANGED refused
    BY DEF Next, vars, CreateFails, CreateTooBig, CreateStart, CreateHeader, CreateDir1, RemoveDir1,
           WriteDir1, CreateDir2, CreateMap, RemoveFails, RemoveStart, Open, RemoveMap, RemoveDir2,
           Close, Write, Crash, Reboot
  <1>2. CallerFiles' = [n \in Names |-> -1] /\ CallUnderWay' = [op |-> "none"]
    BY DEF CallerFiles, CallUnderWay
  <1> QED
    BY <1>1, <1>2 DEF Store!Damage, Store!None, Store!Absent

\* Steps between operations that a caller's files do not show.
LEMMA OtherStepsSeen ==
  ASSUME DiskInv, sound, sound',
         \/ UNCHANGED vars \/ Reboot
         \/ \E f \in opened : Close(f) \/ Write(f)
         \/ pc' = "idle" /\ \E n \in Names : Open(n)
  PROVE  SeenStays
  <1>1. UNCHANGED <<ddir, dhdr, mem, refused>>
        /\ (pc' = pc \/ {pc, pc'} \subseteq {"idle", "down"})
    BY WriteKeeps DEF vars, Reboot, Close, Write, Open
  <1>2. (pc' \in Creating) = (pc \in Creating) /\ (pc' \in Removing) = (pc \in Removing)
    BY <1>1 DEF Creating, Removing
  <1>3. UNCHANGED <<OldDir, CallerDir, CallUnderWay>>
    BY <1>1, <1>2 DEF OldDir, CallerDir, CallUnderWay
  <1> QED
    BY <1>1, <1>3 DEF SeenStays, CallerFiles

\* Every step of the file system is one of the file store, or nothing that is seen.
LEMMA StoreStep ==
  ASSUME DiskInv, NameInv, [Next]_vars
  PROVE  [Store!StoreNext]_Store!svars
  <1>1. CASE ~sound
    BY <1>1, DamagedSeen DEF DiskInv, Store!StoreNext
  <1>2. CASE sound /\ ~sound'
    BY <1>2, DamageSeen DEF Store!StoreNext
  <1>3. CASE sound /\ sound'
    <2>1. ASSUME SeenStays PROVE [Store!StoreNext]_Store!svars
      BY <2>1 DEF SeenStays, Store!svars
    <2>2. ASSUME NEW n \in Names, NEW k \in Sizes,
                 CreateFails(n, k) \/ CreateTooBig(n, k) \/ CreateStart(n, k)
          PROVE  [Store!StoreNext]_Store!svars
      <3>1. ~CreateTooBig(n, k)
        BY <1>3 DEF CreateTooBig
      <3>2. Store!Refuse(n, k) \/ Store!BeginCreate(n, k)
        BY <1>3, <2>2, <3>1, RefusedSeen, CreateStartSeen
      <3> QED
        BY <3>2 DEF Store!StoreNext
    <2>3. ASSUME NEW n \in Names, RemoveFails(n) \/ RemoveStart(n)
          PROVE  [Store!StoreNext]_Store!svars
      <3>1. Store!Refuse(n, -1) \/ Store!BeginRemove(n)
        BY <1>3, <2>3, RefusedSeen, RemoveStartSeen
      <3> QED
        BY <3>1 DEF Store!StoreNext
    <2>4. CASE CreateHeader \/ CreateDir1 \/ RemoveDir1 \/ CreateDir2 \/ RemoveMap
      BY <1>3, <2>1, <2>4, WritesUnseen
    <2>5. CASE CreateMap \/ RemoveDir2
      BY <1>3, <2>5, CreateMapSeen, RemoveDir2Seen DEF Store!StoreNext
    <2>6. CASE Crash
      BY <1>3, <2>1, <2>6, CrashSeen DEF Store!StoreNext
    <2>7. ASSUME NEW n \in Names, Open(n) PROVE SeenStays
      BY <1>3, <2>7, OpenKeeps, OtherStepsSeen
    <2>8. CASE UNCHANGED vars \/ Reboot \/ \E f \in opened : Close(f) \/ Write(f)
      BY <1>3, <2>1, <2>8, OtherStepsSeen
    <2> QED
      BY <2>1, <2>2, <2>3, <2>4, <2>5, <2>6, <2>7, <2>8 DEF Next
  <1> QED
    BY <1>1, <1>2, <1>3

\* A formatted disk is an empty file store.
LEMMA StoreStarts == Init => Store!StoreInit /\ NameInv
  <1> SUFFICES ASSUME Init PROVE Store!StoreInit /\ NameInv
    OBVIOUS
  <1>1. /\ sound /\ pc = "idle" /\ pc \notin Creating /\ pc \notin Removing /\ refused = NoRefusal
        /\ InUse(ddir) = {}
    BY DEF Init, Creating, Removing, InUse, FreeEntry
  <1>2. NameInv
    BY <1>1 DEF NameInv, Live
  <1>3. CallerFiles = FilesOf(ddir, dhdr) /\ CallUnderWay = [op |-> "none"]
    BY <1>1 DEF CallerFiles, CallerDir, CallUnderWay
  <1>4. \A n \in Names : Matching(ddir, n) = {}
    BY <1>1 DEF Matching, InUse
  <1>5. FilesOf(ddir, dhdr) = [n \in Names |-> -1]
    BY <1>4 DEF FilesOf
  <1> QED
    BY <1>1, <1>2, <1>3, <1>5
       DEF Store!StoreInit, Store!None, Store!Absent, Store!NoRefusal, NoRefusal

\* FileSystem implements FileStore: a caller of Create and Remove sees files of
\* a fixed size under unique names on a disk of a fixed capacity; an operation
\* takes effect as a whole; after a stop at any moment but those called exposed
\* the one that was under way has taken effect or it has not; and a request is
\* refused only because the name exists (or does not), the directory is full or
\* the sectors that are left are too few (filesys.cc).
THEOREM FileStoreImplemented == Spec => ImplementsFileStore
  <1>1. Init => DiskInv /\ NameInv /\ Store!StoreInit
    BY DiskInit, StoreStarts
  <1>2. DiskInv /\ NameInv /\ [Next]_vars => DiskInv' /\ NameInv' /\ [Store!StoreNext]_Store!svars
    BY DiskStep, NameStep, StoreStep
  <1> QED
    BY <1>1, <1>2, PTL DEF Spec, ImplementsFileStore, Store!StoreSpec
===============================================================================
