-------------------------------- MODULE Disk --------------------------------
(***************************************************************************)
(* The geometry of the simulated disk, machine/disk.cc: how long a request *)
(* takes with the head where it is, the rotation and the track buffer.     *)
(* The code computes the time when the request is made; the model lets the *)
(* disk turn and compares.                                                 *)
(***************************************************************************)
EXTENDS Integers

CONSTANTS SectorsPerTrack, NumTracks, RotationTime, SeekTime,
          MaxTicks   \* bound: the time that is simulated

ASSUME DiskAssumption ==
  {SectorsPerTrack, NumTracks, RotationTime, SeekTime} \subseteq Nat \ {0}

VARIABLES
  ticks,       \* stats->totalTicks
  lastSector,  \* Disk::lastSector
  bufferInit,  \* Disk::bufferInit
  request,     \* the request that is active, with the time of its interrupt
  arrival,     \* history: when the head reached its track
  passed       \* history: the sectors that passed under it since, completely

diskVars == <<ticks, lastSector, bufferInit, request, arrival, passed>>

NumSectors == SectorsPerTrack * NumTracks
NoRequest == [done |-> -1]

DiskInit ==
  /\ ticks = 0
  /\ lastSector = 0
  /\ bufferInit = 0
  /\ request = NoRequest
  /\ arrival = 0
  /\ passed = {}

Distance(a, b) == IF a > b THEN a - b ELSE b - a

\* Disk::TimeToSeek, and the time to the next sector boundary it returns in
\* *rotation.
TimeToSeek(newSector) ==
  Distance(newSector \div SectorsPerTrack, lastSector \div SectorsPerTrack) * SeekTime

Rotation(newSector) ==
  LET over == (ticks + TimeToSeek(newSector)) % RotationTime
  IN IF over > 0 THEN RotationTime - over ELSE 0

ModuloDiff(to, from) ==
  ((to % SectorsPerTrack) - (from % SectorsPerTrack) + SectorsPerTrack) % SectorsPerTrack

\* The time when the head can begin to read full sectors.
TimeAfter(newSector) == ticks + TimeToSeek(newSector) + Rotation(newSector)

\* Mutant of InTrackBuffer: the sector under the head counts as read.
InTrackBufferEarly(newSector) ==
  (TimeAfter(newSector) - bufferInit) \div RotationTime
     >= ModuloDiff(newSector, bufferInit \div RotationTime)

InTrackBuffer(newSector) ==
  (TimeAfter(newSector) - bufferInit) \div RotationTime
     > ModuloDiff(newSector, bufferInit \div RotationTime)

ComputeLatency(newSector, writing) ==
  IF ~writing /\ TimeToSeek(newSector) = 0 /\ InTrackBuffer(newSector)
    THEN RotationTime
    ELSE TimeToSeek(newSector) + Rotation(newSector)
           + ModuloDiff(newSector, TimeAfter(newSector) \div RotationTime) * RotationTime
           + RotationTime

\* ReadRequest and WriteRequest, with UpdateLast.
DiskRequest(newSector, writing) ==
  /\ request = NoRequest
  /\ request' = [sector |-> newSector, writing |-> writing,
                 done |-> ticks + ComputeLatency(newSector, writing)]
  /\ lastSector' = newSector
  /\ IF TimeToSeek(newSector) # 0
       THEN /\ bufferInit' = TimeAfter(newSector)
            /\ arrival' = ticks + TimeToSeek(newSector)
            /\ passed' = {}
       ELSE UNCHANGED <<bufferInit, arrival, passed>>
  /\ UNCHANGED ticks

\* The disk turns: at the end of a sector time that began when the head was on
\* its track, one more sector has passed.
Turn ==
  /\ ticks < MaxTicks
  /\ ticks # request.done
  /\ ticks' = ticks + 1
  /\ passed' = IF ticks' % RotationTime = 0 /\ ticks' - RotationTime >= arrival
                 THEN passed \cup {(ticks' \div RotationTime - 1) % SectorsPerTrack}
                 ELSE passed
  /\ UNCHANGED <<lastSector, bufferInit, request, arrival>>

\* DiskInt: Disk::HandleInterrupt.
HandleInterrupt ==
  /\ ticks = request.done
  /\ request' = NoRequest
  /\ UNCHANGED <<ticks, lastSector, bufferInit, arrival, passed>>

DiskWorn == ticks = MaxTicks /\ UNCHANGED diskVars

DiskNext ==
  \/ \E s \in 0 .. NumSectors - 1, w \in BOOLEAN : DiskRequest(s, w)
  \/ Turn
  \/ HandleInterrupt
  \/ DiskWorn

DiskSpec == DiskInit /\ [][DiskNext]_diskVars

\* When the interrupt comes, the data was there: a written sector has just
\* passed under the head, from its first bit to its last, and a sector that was
\* read has done so at some time since the head came to its track ("the disk
\* also has a track buffer", disk.cc:225).
TransferIsReal ==
  ticks = request.done =>
    LET offset == request.sector % SectorsPerTrack
    IN /\ offset \in passed
       /\ request.writing => /\ ticks % RotationTime = 0
                             /\ (ticks \div RotationTime - 1) % SectorsPerTrack = offset

=============================================================================
