--------------------------------- MODULE Disk ---------------------------------
(***************************************************************************)
(* The simulated disk of machine/disk.cc, with the time its requests take, *)
(* and SynchDisk over it (filesys/synchdisk.cc). The Lock of SynchDisk has *)
(* empty operations in this code (threads/synch.cc), so nothing keeps two  *)
(* threads from being in the driver at once.                               *)
(*                                                                         *)
(* What the sectors hold is read and written when a request is made; the   *)
(* model keeps the head, the track buffer and the clock.                   *)
(***************************************************************************)
EXTENDS Integers, FiniteSets

CONSTANTS
  Clients,
  NumTracks, SectorsPerTrack,
  RotationTime,  \* ticks for one sector to pass the head
  SeekTime,      \* ticks to move the head by one track
  MaxTicks       \* bound on the clock

ASSUME DiskAssumption ==
  /\ {NumTracks, SectorsPerTrack, RotationTime, SeekTime} \subseteq Nat \ {0}
  /\ MaxTicks \in Nat

VARIABLES
  now,         \* stats->totalTicks
  lastSector, bufferInit,
  request,     \* the request being carried out, or NoRequest: active
  done,        \* the value of SynchDisk's semaphore
  inDriver,    \* the threads between Acquire and Release, and what they do next
  overlap,     \* history: two threads were in the driver at once
  diskFailed      \* ASSERT(!active) has failed

dvars == <<now, lastSector, bufferInit, request, done, inDriver, overlap, diskFailed>>

Sectors == 0..(NumTracks * SectorsPerTrack - 1)
NoRequest == [sector |-> -1, writing |-> FALSE, due |-> 0, buffered |-> FALSE]
Out == [at |-> "out", sector |-> 0, writing |-> FALSE]

DiskInit ==
  /\ now = 0 /\ lastSector = 0 /\ bufferInit = 0
  /\ request = NoRequest /\ done = 0
  /\ inDriver = [t \in Clients |-> Out]
  /\ overlap = FALSE /\ diskFailed = FALSE

-------------------------------------------------------------------------------
(* The time a request takes *)

Distance(n) == IF n < 0 THEN -n ELSE n
Track(sector) == sector \div SectorsPerTrack
Seek(sector) == Distance(Track(sector) - Track(lastSector)) * SeekTime

\* TimeToSeek, the part it returns through its pointer: the ticks left until
\* the head is at the start of a sector.
Rotation(sector) ==
  LET over == (now + Seek(sector)) % RotationTime
  IN  IF over > 0 THEN RotationTime - over ELSE 0

ModuloDiff(to, from) ==
  ((to % SectorsPerTrack) - (from % SectorsPerTrack) + SectorsPerTrack) % SectorsPerTrack

\* A slip: a sector that is just starting to pass the head counts as buffered.
InTrackBufferEarly(sector, writing) ==
  LET timeAfter == now + Seek(sector) + Rotation(sector)
  IN  /\ ~writing
      /\ Seek(sector) = 0
      /\ (timeAfter - bufferInit) \div RotationTime
           >= ModuloDiff(sector, bufferInit \div RotationTime)

\* The test of ComputeLatency: the sector is in the track buffer.
InTrackBuffer(sector, writing) ==
  LET timeAfter == now + Seek(sector) + Rotation(sector)
  IN  /\ ~writing
      /\ Seek(sector) = 0
      /\ (timeAfter - bufferInit) \div RotationTime
           > ModuloDiff(sector, bufferInit \div RotationTime)

ComputeLatency(sector, writing) ==
  LET timeAfter == now + Seek(sector) + Rotation(sector)
  IN  IF InTrackBuffer(sector, writing) THEN RotationTime
      ELSE Seek(sector) + Rotation(sector) + RotationTime
             + ModuloDiff(sector, timeAfter \div RotationTime) * RotationTime

-------------------------------------------------------------------------------

\* ReadSector and WriteSector, up to the request: Acquire does nothing.
Enter(t, sector, writing) ==
  /\ inDriver[t] = Out
  /\ inDriver' = [inDriver EXCEPT ![t] = [at |-> "request", sector |-> sector, writing |-> writing]]
  /\ overlap' = (overlap \/ \E u \in Clients : inDriver[u] # Out)
  /\ UNCHANGED <<now, lastSector, bufferInit, request, done, diskFailed>>

\* UpdateLast: after a seek the track buffer starts to fill again.
UpdateLast(sector) ==
  /\ lastSector' = sector
  /\ bufferInit' = IF Seek(sector) # 0 THEN now + Seek(sector) + Rotation(sector)
                   ELSE bufferInit

\* ReadRequest and WriteRequest.
Request(t) ==
  /\ inDriver[t].at = "request"
  /\ LET sector  == inDriver[t].sector
         writing == inDriver[t].writing
     IN  IF request # NoRequest
         THEN diskFailed' = TRUE /\ UNCHANGED <<request, lastSector, bufferInit, inDriver>>
         ELSE /\ request' = [sector |-> sector, writing |-> writing,
                             due |-> now + ComputeLatency(sector, writing),
                             buffered |-> InTrackBuffer(sector, writing)]
              /\ UpdateLast(sector)
              /\ inDriver' = [inDriver EXCEPT ![t].at = "wait"]
              /\ UNCHANGED diskFailed
  /\ UNCHANGED <<now, done, overlap>>

\* semaphore->P, then Release, which does nothing.
Answer(t) ==
  /\ inDriver[t].at = "wait"
  /\ done > 0
  /\ done' = done - 1
  /\ inDriver' = [inDriver EXCEPT ![t] = Out]
  /\ UNCHANGED <<now, lastSector, bufferInit, request, overlap, diskFailed>>

\* A slip: the handler does not signal the semaphore.
HandleInterruptSilent ==
  /\ request # NoRequest /\ now >= request.due
  /\ request' = NoRequest
  /\ UNCHANGED <<done, now, lastSector, bufferInit, inDriver, overlap, diskFailed>>

\* The interrupt, when it is due.
HandleInterrupt ==
  /\ request # NoRequest
  /\ now >= request.due
  /\ request' = NoRequest
  /\ done' = done + 1
  /\ UNCHANGED <<now, lastSector, bufferInit, inDriver, overlap, diskFailed>>

\* Time passes while threads compute, but not past an interrupt that is due.
Tick ==
  /\ now < IF request = NoRequest THEN MaxTicks ELSE request.due
  /\ now' = now + 1
  /\ UNCHANGED <<lastSector, bufferInit, request, done, inDriver, overlap, diskFailed>>

DiskNext ==
  /\ ~diskFailed
  /\ \/ \E t \in Clients : \/ Request(t) \/ Answer(t)
                           \/ now < MaxTicks /\ \E s \in Sectors, w \in BOOLEAN : Enter(t, s, w)
     \/ HandleInterrupt \/ Tick

DiskFairness == /\ \A t \in Clients : WF_dvars(~diskFailed /\ (Request(t) \/ Answer(t)))
                /\ WF_dvars(~diskFailed /\ (HandleInterrupt \/ Tick))

DiskSpec == DiskInit /\ [][DiskNext]_dvars

-------------------------------------------------------------------------------
(* Properties *)

\* The types of the clock, the head, the request and the threads.
DiskTypeOK ==
  /\ now \in Nat /\ bufferInit \in Nat /\ done \in Nat
  /\ lastSector \in Sectors
  /\ request = NoRequest \/ request.sector \in Sectors
  /\ \A t \in Clients : inDriver[t].at \in {"out", "request", "wait"}
  /\ overlap \in BOOLEAN /\ diskFailed \in BOOLEAN

Waiting == {t \in Clients : inDriver[t].at = "wait"}

\* What the lock was meant for: the disk's ASSERT fails only if two threads
\* were in the driver at once; as long as they were not, a thread that waits
\* has its own request under way, or answered, and no answer is left over.
AloneIsSafe ==
  ~overlap =>
    /\ ~diskFailed
    /\ Cardinality(Waiting) = done + (IF request = NoRequest THEN 0 ELSE 1)

\* A thread that is alone in the driver gets its answer.
Answered ==
  \A t \in Clients : (inDriver[t].at = "wait" /\ ~overlap)
                        ~> (inDriver[t].at = "out" \/ overlap)

\* The sector whose last tick passes the head at a time u that ends a sector.
UnderHead(u) == (u \div RotationTime - 1) % SectorsPerTrack

\* The clock agrees with a turning disk: a request that is not served from the
\* track buffer ends when its sector has just passed the head, within one turn
\* of the end of the seek; one that is served from it was passed by the head
\* since the head came to this track.
LatencyIsPhysical ==
  request # NoRequest =>
    IF request.buffered
    THEN \E u \in bufferInit..request.due :
           /\ u % RotationTime = 0 /\ u - RotationTime >= bufferInit
           /\ UnderHead(u) = request.sector % SectorsPerTrack
    ELSE /\ request.due % RotationTime = 0
         /\ UnderHead(request.due) = request.sector % SectorsPerTrack

\* What SynchDisk promises without a lock, over a disk that turns.
DiskSafe == DiskTypeOK /\ AloneIsSafe /\ LatencyIsPhysical
===============================================================================
