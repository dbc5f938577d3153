----------------------------- MODULE MCDevices -----------------------------
EXTENDS Devices

DiskTime == INSTANCE DiskHead WITH
    SectorsPerTrack <- 4, NumTracks <- 3, SeekTime <- 2, RotationTime <- 3

Pauses == 0 .. 5

\* A disk request ends when its data can be there, and as soon as that: whatever the
\* requests and pauses before it (up to three), ComputeLatency never lets the track
\* buffer answer with a sector of another track, or with one that has not passed under
\* the head since it came to the track, and never waits for one that has.  This is
\* evaluated in the initial state; how long a request takes in Devices is open.
LatencyIsPhysical ==
    Init => \A n \in 0 .. 2 : \A d \in DiskTime!DisksAfter(n, Pauses) :
                \A sector \in DiskTime!Sector, writing \in BOOLEAN :
                    d.totalTicks + DiskTime!ComputeLatency(d, sector, writing)
                    = DiskTime!Earliest(d, sector, writing)

=============================================================================
