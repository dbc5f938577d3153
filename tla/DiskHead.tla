------------------------------ MODULE DiskHead ------------------------------
(***************************************************************************)
(* How long a request to the disk takes (disk.cc): the seek to its track,  *)
(* the rotation to its sector, the transfer, and the track buffer, which   *)
(* answers a read of a sector that has passed under the head since it came *)
(* to the track.  One sector passes in RotationTime ticks and one track in *)
(* SeekTime.  Devices leaves the times open and is about who waits for     *)
(* them.                                                                   *)
(*                                                                         *)
(* A disk is a record:                                                     *)
(*   totalTicks  the time of the next request                              *)
(*   lastSector  the sector last asked for                                 *)
(*   bufferInit  when the track buffer started to be filled                *)
(*   arrived     history: when the head came to the track it is on         *)
(***************************************************************************)
EXTENDS Integers, FiniteSetsExt

CONSTANTS SectorsPerTrack, NumTracks, SeekTime, RotationTime   \* disk.h, stats.h

Sector == 0 .. SectorsPerTrack * NumTracks - 1

Disk == [totalTicks |-> 0, lastSector |-> 0, bufferInit |-> 0, arrived |-> 0]

-----------------------------------------------------------------------------

Track(sector) == sector \div SectorsPerTrack

\* How long the head takes to the track, and from there to the next boundary between
\* two sectors.
TimeToSeek(d, sector) ==
    LET from == Track(d.lastSector)
        to == Track(sector)
    IN  SeekTime * (IF to > from THEN to - from ELSE from - to)

Rotation(d, sector) == (-(d.totalTicks + TimeToSeek(d, sector))) % RotationTime

ModuloDiff(to, from) == (to - from) % SectorsPerTrack

\* Bug: the sector under the head counts as one that has passed.
BufferedEarly(d, sector, timeAfter) ==
    (timeAfter - d.bufferInit) \div RotationTime
        >= ModuloDiff(sector, d.bufferInit \div RotationTime)

\* The sector has passed since the buffer was started.
Buffered(d, sector, timeAfter) ==
    (timeAfter - d.bufferInit) \div RotationTime
        > ModuloDiff(sector, d.bufferInit \div RotationTime)

ComputeLatency(d, sector, writing) ==
    LET seek == TimeToSeek(d, sector)
        timeAfter == d.totalTicks + seek + Rotation(d, sector)
    IN  IF ~writing /\ seek = 0 /\ Buffered(d, sector, timeAfter) THEN RotationTime
        ELSE seek + Rotation(d, sector) + RotationTime
             + ModuloDiff(sector, timeAfter \div RotationTime) * RotationTime

UpdateLast(d, sector) ==
    LET seek == TimeToSeek(d, sector)
        moved == [d EXCEPT !.arrived = d.totalTicks + seek,
                           !.bufferInit = d.totalTicks + seek + Rotation(d, sector)]
    IN  [(IF seek # 0 THEN moved ELSE d) EXCEPT !.lastSector = sector]

\* ReadRequest or WriteRequest, its interrupt, and the time until the next request,
\* which the interrupt may be late by or the disk may be idle for.
Request(d, sector, writing, pause) ==
    [UpdateLast(d, sector) EXCEPT !.totalTicks = @ + ComputeLatency(d, sector, writing) + pause]

\* The disks that n requests lead to.
DisksAfter(n, pauses) ==
    LET after[i \in 0 .. n] ==
            IF i = 0 THEN {[Disk EXCEPT !.totalTicks = pause] : pause \in pauses}
            ELSE {Request(d, sector, writing, pause) :
                     d \in after[i - 1], sector \in Sector, writing \in BOOLEAN, pause \in pauses}
    IN  after[n]

-----------------------------------------------------------------------------
(* The reference *)

\* When the sector has passed the head completely for the first time, if the head is
\* on its track from the given time on.  The n-th passage under the head of any
\* sector takes the ticks from n * RotationTime on.
Passed(sector, from) ==
    Min({(n + 1) * RotationTime : n \in
            {k \in from \div RotationTime .. from \div RotationTime + SectorsPerTrack :
                k * RotationTime >= from /\ (k - sector) % SectorsPerTrack = 0}})

\* When a request can be done at the earliest.  A write, and a read on another track:
\* when the sector has passed the head for the first time after the seek.  A read on
\* the same track: when it has passed for the first time since the head came there,
\* which may be long ago, but there is the transfer of one sector at least.
Earliest(d, sector, writing) ==
    IF writing \/ Track(sector) # Track(d.lastSector)
    THEN Passed(sector, d.totalTicks + TimeToSeek(d, sector))
    ELSE Max({Passed(sector, d.arrived), d.totalTicks + RotationTime})

=============================================================================
