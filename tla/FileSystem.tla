----------------------------- MODULE FileSystem -----------------------------
(***************************************************************************)
(* The Nachos file system (the FILESYS build) and the file descriptors of  *)
(* the processes that use it.  A step that changes the disk is one call of *)
(* WriteSector, so that the states in the middle of an operation are the   *)
(* disks a halt may leave behind.  A header and the bitmap of free sectors *)
(* fit a sector (1024 bits, 128 bytes); the directory, 10 entries of 20    *)
(* bytes, takes two, and one entry lies across the boundary: its inUse and *)
(* its sector number in the first, its name in the second.                 *)
(*                                                                         *)
(* filesys.cc states two restrictions that are kept here: there is no      *)
(* synchronization for concurrent accesses, so there is one operation at a *)
(* time, and a file has at most NumDirect sectors.                         *)
(***************************************************************************)
EXTENDS Integers, FiniteSets, SequencesExt

CONSTANTS
    Process, Name, NoName, Byte,
    NumSectors, SectorSize, NumDirEntries,
    SplitEntry,          \* the directory entry across the sector boundary
    NumDirect,           \* sectors a header has room for
    Sizes,               \* lengths of the files that are copied in
    MAX_FD               \* descriptors of a process

ASSUME DiskAssumption ==
    /\ SectorSize \in Nat \ {0} /\ NumDirEntries \in Nat \ {0}
    /\ SplitEntry \in 1 .. NumDirEntries
    /\ NumSectors \in Nat /\ NumSectors > 5
    /\ NumDirect \in Nat /\ MAX_FD \in Nat
    /\ 0 \in Sizes /\ Sizes \subseteq 0 .. NumDirect * SectorSize
    /\ NoName \notin Name /\ Byte # {}

VARIABLES
    freeMap,     \* on disk: the sectors marked
    directory,   \* on disk: the table of entries
    block,       \* on disk: the other sectors, each a header or bytes
    FDTable,     \* of each process
    op,          \* the operation under way
    unlinked     \* history: the descriptors of files removed since they were opened

vars == <<freeMap, directory, block, FDTable, op, unlinked>>

Sector == 0 .. NumSectors - 1
FreeMapSector == 0
DirectorySector == 1

\* The headers and data of the bitmap and the directory: what the constructor,
\* formatting the disk, allocates.
SystemSectors == {FreeMapSector, DirectorySector, 2, 3, 4}

DirectoryEntry == [inUse : BOOLEAN, name : Name \cup {NoName}, sector : Sector]
Bytes == [0 .. SectorSize - 1 -> Byte]

\* What a sector may hold.
Header(n, sectors) == [isHeader |-> TRUE, numBytes |-> n, dataSectors |-> sectors]
Data(bytes) == [isHeader |-> FALSE, data |-> bytes]

\* A sector read as data, and as a header: what the other kind looks like is left
\* open, as some bytes and as a header of an empty file.
AsBytes(contents) == IF contents.isHeader THEN CHOOSE b \in Bytes : TRUE ELSE contents.data
AsHeader(contents) == IF contents.isHeader THEN contents ELSE Header(0, <<>>)

divRoundUp(n, d) == (n + d - 1) \div d

-----------------------------------------------------------------------------
(* BitMap, FileHeader *)

Clear(map) == Sector \ map

\* The sectors Find returns when called n times: each the first one clear, and
\* marked before the next is looked for.
FindSectors(map, n) ==
    CHOOSE q \in [1 .. n -> Clear(map)] :
        \A i \in 1 .. n : q[i] = Min(Clear(map \cup {q[j] : j \in 1 .. i - 1}))

\* Mutant of Allocate: the sectors are taken and not marked.
AllocateUnmarked(map, fileSize) ==
    LET n == divRoundUp(fileSize, SectorSize)
    IN  IF Cardinality(Clear(map)) < n THEN [ok |-> FALSE]
        ELSE [ok |-> TRUE, hdr |-> Header(fileSize, FindSectors(map, n)), map |-> map]

\* FileHeader::Allocate: the header, and the map with its sectors marked.
Allocate(map, fileSize) ==
    LET n == divRoundUp(fileSize, SectorSize)
    IN  IF Cardinality(Clear(map)) < n THEN [ok |-> FALSE]
        ELSE [ok  |-> TRUE,
              hdr |-> Header(fileSize, FindSectors(map, n)),
              map |-> map \cup Range(FindSectors(map, n))]

Deallocate(map, hdr) == map \ Range(hdr.dataSectors)

ByteToSector(hdr, offset) == hdr.dataSectors[offset \div SectorSize + 1]

-----------------------------------------------------------------------------
(* Directory *)

\* The entries that match: FindIndex returns the first of them, if there is one.
FindIndex(table, name) == {i \in DOMAIN table : table[i].inUse /\ table[i].name = name}

Find(table, name) == table[Min(FindIndex(table, name))].sector

Unused(table) == {i \in DOMAIN table : ~table[i].inUse}

\* Mutant of Add: the last unused entry is taken.
AddLast(table, name, sector) ==
    [table EXCEPT ![Max(Unused(table))] =
        [inUse |-> TRUE, name |-> name, sector |-> sector]]

Add(table, name, sector) ==
    [table EXCEPT ![Min(Unused(table))] =
        [inUse |-> TRUE, name |-> name, sector |-> sector]]

RemoveEntry(table, name) ==
    [table EXCEPT ![Min(FindIndex(table, name))].inUse = FALSE]

\* The directory on disk, which held old, when WriteBack has written its first sector.
FirstSectorWritten(table, old) ==
    [i \in DOMAIN old |->
        IF i < SplitEntry THEN table[i]
        ELSE IF i = SplitEntry THEN [table[i] EXCEPT !.name = old[i].name]
        ELSE old[i]]

-----------------------------------------------------------------------------
(* OpenFile *)

\* How many bytes a request at position for n bytes transfers.
Transfer(hdr, n, position) ==
    IF n <= 0 \/ position >= hdr.numBytes THEN 0
    ELSE IF position + n > hdr.numBytes THEN hdr.numBytes - position ELSE n

FirstSector(position) == position \div SectorSize
LastSector(position, n) == (position + n - 1) \div SectorSize

\* ReadAt: the sectors that hold the request, then the part wanted.
ReadAt(hdr, n, position) ==
    LET k     == Transfer(hdr, n, position)
        first == FirstSector(position)
        buf   == [i \in first .. LastSector(position, k) |->
                    AsBytes(block[ByteToSector(hdr, i * SectorSize)])]
    IN  [j \in 1 .. k |-> buf[(position + j - 1) \div SectorSize]
                             [(position + j - 1) % SectorSize]]

\* Mutant of Preserved: the last sector is read only if it is not the first.
PreservedUnlessShort(hdr, n, position, i) ==
    LET first == FirstSector(position)
        last  == LastSector(position, n)
        firstAligned == position = first * SectorSize
        lastAligned  == position + n = (last + 1) * SectorSize
    IN  \/ i = first /\ ~firstAligned
        \/ i = last /\ ~lastAligned /\ first # last

\* Whether WriteAt reads sector i of the file before it changes a part of it.
Preserved(hdr, n, position, i) ==
    LET first == FirstSector(position)
        last  == LastSector(position, n)
        firstAligned == position = first * SectorSize
        lastAligned  == position + n = (last + 1) * SectorSize
    IN  \/ i = first /\ ~firstAligned
        \/ i = last /\ ~lastAligned /\ (first # last \/ firstAligned)

\* The sectors WriteAt writes, in order, for the bytes given.  What it has not
\* read, past the end of the file too, is what new char[] happens to hold.
WriteBuffer(hdr, bytes, position, junk) ==
    LET n     == Len(bytes)
        first == FirstSector(position)
        Byte1(i, j) ==
            LET at == i * SectorSize + j
            IN  IF at \in position .. position + n - 1 THEN bytes[at - position + 1]
                ELSE IF Preserved(hdr, n, position, i) /\ at < hdr.numBytes
                THEN AsBytes(block[ByteToSector(hdr, at)])[j]
                ELSE junk
    IN  [i \in 1 .. LastSector(position, n) - first + 1 |->
            [j \in 0 .. SectorSize - 1 |-> Byte1(first + i - 1, j)]]

-----------------------------------------------------------------------------

NoOp == [kind |-> "none", name |-> NoName]
Closed == [open |-> FALSE]

\* The descriptors that are not the console's.
Descriptor == 2 .. MAX_FD - 1

\* FileSystem::FileSystem with format, on a disk that holds anything.  Formatting
\* writes a directory of unused entries whose names are what new left there.
Init ==
    /\ freeMap = SystemSectors
    /\ \E junk \in [1 .. NumDirEntries -> Name \cup {NoName}] :
          directory = [i \in 1 .. NumDirEntries |->
                         [inUse |-> FALSE, name |-> junk[i], sector |-> 0]]
    /\ \E b \in Byte : block = [s \in Sector |-> Data([j \in 0 .. SectorSize - 1 |-> b])]
    /\ FDTable = [p \in Process |-> [fd \in Descriptor |-> Closed]]
    /\ op = NoOp
    /\ unlinked = {}

Idle == op = NoOp

\* FileSystem::Create, up to its first write: it fails, and changes nothing, if
\* the name is there, or there is no sector for the header, no entry in the
\* directory or no space for the data.
Create(name, initialSize) ==
    /\ Idle
    /\ FindIndex(directory, name) = {}
    /\ Clear(freeMap) # {}
    /\ Unused(directory) # {}
    /\ LET sector == Min(Clear(freeMap))
           a      == Allocate(freeMap \cup {sector}, initialSize)
       IN  /\ a.ok
           /\ op' = [kind |-> "create", step |-> "header", name |-> name, sector |-> sector,
                     hdr |-> a.hdr, map |-> a.map, table |-> Add(directory, name, sector)]
    /\ UNCHANGED <<freeMap, directory, block, FDTable, unlinked>>

\* System_Create makes a file of length 0; Copy one as long as the UNIX file it is
\* given, to be opened and written next.
System_Create(name) == Create(name, 0)
Copy(name, fileLength) == Create(name, fileLength)

\* hdr->WriteBack (sector)
CreateHeader ==
    /\ op.kind = "create" /\ op.step = "header"
    /\ block' = [block EXCEPT ![op.sector] = op.hdr]
    /\ op' = [op EXCEPT !.step = "directory"]
    /\ UNCHANGED <<freeMap, directory, FDTable, unlinked>>

CreateDirectory ==
    /\ op.kind = "create" /\ op.step = "directory"
    /\ directory' = FirstSectorWritten(op.table, directory)
    /\ op' = [op EXCEPT !.step = "rest"]
    /\ UNCHANGED <<freeMap, block, FDTable, unlinked>>

CreateDirectoryRest ==
    /\ op.kind = "create" /\ op.step = "rest"
    /\ directory' = op.table
    /\ op' = [op EXCEPT !.step = "map"]
    /\ UNCHANGED <<freeMap, block, FDTable, unlinked>>

CreateMap ==
    /\ op.kind = "create" /\ op.step = "map"
    /\ freeMap' = op.map
    /\ op' = NoOp
    /\ UNCHANGED <<directory, block, FDTable, unlinked>>

\* Mutant of RemovedMap: the header's sector is not given back.
RemovedMapKeepsHeader(name) == Deallocate(freeMap, AsHeader(block[Find(directory, name)]))

\* The bitmap without the data and the header of the file.
RemovedMap(name) ==
    LET sector == Find(directory, name)
    IN  Deallocate(freeMap, AsHeader(block[sector])) \ {sector}

\* FileSystem::Remove, up to its first write; it fails if there is no such file.
RemoveFile(name) ==
    /\ Idle
    /\ FindIndex(directory, name) # {}
    /\ op' = [kind |-> "remove", step |-> "map", name |-> name,
              map |-> RemovedMap(name), table |-> RemoveEntry(directory, name)]
    /\ UNCHANGED <<freeMap, directory, block, FDTable>>

\* Whoever has the file open.
System_Unlink(name) ==
    /\ RemoveFile(name)
    /\ unlinked' = unlinked \cup {d \in Process \X Descriptor :
          FDTable[d[1]][d[2]].open /\ FDTable[d[1]][d[2]].name = name}

RemoveMap ==
    /\ op.kind = "remove" /\ op.step = "map"
    /\ freeMap' = op.map
    /\ op' = [op EXCEPT !.step = "directory"]
    /\ UNCHANGED <<directory, block, FDTable, unlinked>>

RemoveDirectory ==
    /\ op.kind = "remove" /\ op.step = "directory"
    /\ directory' = FirstSectorWritten(op.table, directory)
    /\ op' = [op EXCEPT !.step = "rest"]
    /\ UNCHANGED <<freeMap, block, FDTable, unlinked>>

RemoveDirectoryRest ==
    /\ op.kind = "remove" /\ op.step = "rest"
    /\ directory' = op.table
    /\ op' = NoOp
    /\ UNCHANGED <<freeMap, block, FDTable, unlinked>>

-----------------------------------------------------------------------------
(* System calls on descriptors *)

\* What FileSystem::Open returns.  The header is in memory from here on.
OpenFile(name) ==
    [open |-> TRUE, name |-> name, seekPosition |-> 0,
     hdr |-> AsHeader(block[Find(directory, name)])]

Available(p) == {fd \in Descriptor : ~FDTable[p][fd].open}

setFD(p, fd, file) == FDTable' = [FDTable EXCEPT ![p][fd] = file]

\* System_Open
Open(p, name) ==
    /\ Idle
    /\ Available(p) # {}
    /\ FindIndex(directory, name) # {}
    /\ setFD(p, Min(Available(p)), OpenFile(name))
    /\ UNCHANGED <<freeMap, directory, block, op, unlinked>>

\* System_Read, of up to n bytes.
Read(p, fd, n) ==
    /\ Idle /\ FDTable[p][fd].open
    /\ LET f == FDTable[p][fd]
       IN  FDTable' = [FDTable EXCEPT ![p][fd].seekPosition =
                          @ + Len(ReadAt(f.hdr, n, f.seekPosition))]
    /\ UNCHANGED <<freeMap, directory, block, op, unlinked>>

\* System_Write, up to its first write to the disk; nothing is written at the
\* end of the file.  before is the contents, for WritesAreExact.
Write(p, fd, bytes) ==
    /\ Idle /\ FDTable[p][fd].open
    /\ LET f == FDTable[p][fd]
           k == Transfer(f.hdr, Len(bytes), f.seekPosition)
       IN  /\ k > 0
           /\ \E junk \in Byte :
                 op' = [kind |-> "write", name |-> f.name, hdr |-> f.hdr,
                        position |-> f.seekPosition, bytes |-> SubSeq(bytes, 1, k),
                        buf |-> WriteBuffer(f.hdr, SubSeq(bytes, 1, k), f.seekPosition, junk),
                        next |-> 1, before |-> ReadAt(f.hdr, f.hdr.numBytes, 0)]
           /\ FDTable' = [FDTable EXCEPT ![p][fd].seekPosition = @ + k]
    /\ UNCHANGED <<freeMap, directory, block, unlinked>>

WriteSector ==
    /\ op.kind = "write" /\ op.next <= Len(op.buf)
    /\ LET offset == (FirstSector(op.position) + op.next - 1) * SectorSize
       IN  block' = [block EXCEPT ![ByteToSector(op.hdr, offset)] = Data(op.buf[op.next])]
    /\ op' = [op EXCEPT !.next = @ + 1]
    /\ UNCHANGED <<freeMap, directory, FDTable, unlinked>>

WriteReturns ==
    /\ op.kind = "write" /\ op.next > Len(op.buf)
    /\ op' = NoOp
    /\ UNCHANGED <<freeMap, directory, block, FDTable, unlinked>>

\* System_Close: setFD deletes the OpenFile.
Close(p, fd) ==
    /\ Idle /\ FDTable[p][fd].open
    /\ setFD(p, fd, Closed)
    /\ unlinked' = unlinked \ {<<p, fd>>}
    /\ UNCHANGED <<freeMap, directory, block, op>>

\* Thread::~Thread closes what is open; a new Thread has the console only.
Exit(p) ==
    /\ Idle
    /\ FDTable' = [FDTable EXCEPT ![p] = [fd \in Descriptor |-> Closed]]
    /\ unlinked' = unlinked \ ({p} \X Descriptor)
    /\ UNCHANGED <<freeMap, directory, block, op>>

OtherThanWrite ==
    \/ \E name \in Name : System_Create(name)
    \/ \E name \in Name, n \in Sizes : Copy(name, n)
    \/ CreateHeader \/ CreateDirectory \/ CreateDirectoryRest \/ CreateMap
    \/ \E name \in Name : System_Unlink(name)
    \/ RemoveMap \/ RemoveDirectory \/ RemoveDirectoryRest
    \/ \E p \in Process, name \in Name : Open(p, name)
    \/ \E p \in Process, fd \in Descriptor, n \in 1 .. SectorSize + 1 : Read(p, fd, n)
    \/ WriteSector \/ WriteReturns
    \/ \E p \in Process, fd \in Descriptor : Close(p, fd)
    \/ \E p \in Process : Exit(p)

System_Write(p, fd) ==
    \E n \in 1 .. SectorSize + 1, b \in Byte : Write(p, fd, [i \in 1 .. n |-> b])

Next == OtherThanWrite \/ \E p \in Process, fd \in Descriptor : System_Write(p, fd)

Spec == Init /\ [][Next]_vars

\* The same for programs that do not write to a file that has been removed since
\* they opened it.  They may keep it open, read it and close it.
CarefulNext ==
    OtherThanWrite \/ \E p \in Process, fd \in Descriptor :
                         <<p, fd>> \notin unlinked /\ System_Write(p, fd)

CarefulSpec == Init /\ [][CarefulNext]_vars

-----------------------------------------------------------------------------
(* Properties *)

\* The directory that the next operation reads: between the two sectors of
\* WriteBack, the one that is being written.
Seen == IF op.kind \in {"create", "remove"} /\ op.step = "rest" THEN op.table ELSE directory

InUse(table) == {i \in 1 .. NumDirEntries : table[i].inUse}

\* The names of the files there are, their headers, the sectors they take, the bytes
\* they hold.
Names == {Seen[i].name : i \in InUse(Seen)}

FileSectors(sector) == {sector} \cup Range(AsHeader(block[sector]).dataSectors)
HeaderOf(name) == AsHeader(block[Find(Seen, name)])
SectorsOf(name) == FileSectors(Find(Seen, name))
Stored == [name \in Names |-> ReadAt(HeaderOf(name), HeaderOf(name).numBytes, 0)]

\* The free map tells the truth between operations: marked are the sectors of
\* the files there are and those of the system, and no others.  What a Remove
\* gives back is what Create took, and a file that is still open when it is
\* removed, or whose name is used again, loses no sector.
NoSectorLost ==
    Idle => freeMap = SystemSectors \cup UNION {SectorsOf(name) : name \in Names}

\* A halt between two writes of an operation, those of the two sectors of the
\* directory too, hurts at most the file it is about (filesys.cc: "it may corrupt
\* the disk").  On the disk as it is at any moment, a search for any other name
\* finds that file, with its header, and with sectors that are marked and belong
\* to no other entry in use and not to the system; so Remove's ASSERT, that the
\* sectors of the file are marked, holds.  A halt may leave an entry that is no
\* file, a name that was removed earlier with the sectors of the new file: it is
\* the one across the boundary, and no search for another file stops at it,
\* because Add takes the first unused entry.
HaltHurtsOneFile ==
    LET others == Names \ (IF op.kind \in {"create", "remove"} THEN {op.name} ELSE {})
    IN  /\ \A name \in others :
              LET sector == Find(directory, name)
                  h      == AsHeader(block[sector])
              IN  /\ FindIndex(directory, name) # {} /\ sector = Find(Seen, name)
                  /\ Len(h.dataSectors) = divRoundUp(h.numBytes, SectorSize)
                  /\ Cardinality(FileSectors(sector)) = Len(h.dataSectors) + 1
                  /\ FileSectors(sector) \subseteq freeMap \ SystemSectors
                  /\ \A i \in InUse(directory) \ {Min(FindIndex(directory, name))} :
                        FileSectors(sector) \cap FileSectors(directory[i].sector) = {}
        /\ \A i \in InUse(directory) :
              \/ i = Min(FindIndex(directory, directory[i].name))
                 /\ directory[i].name \in others \cup {op.name}
              \/ i = SplitEntry /\ op.kind = "create" /\ op.step = "rest"

\* A write changes the bytes it was given and no others: the part of a sector
\* that WriteAt does not change is read first, for every alignment of the first
\* and the last byte, and until it returns every byte is the old or the new one.
WritesAreExact ==
    op.kind = "write" =>
        LET now   == ReadAt(op.hdr, op.hdr.numBytes, 0)
            after == [i \in DOMAIN op.before |->
                        IF i - 1 \in op.position .. op.position + Len(op.bytes) - 1
                        THEN op.bytes[i - op.position] ELSE op.before[i]]
        IN  /\ \A i \in DOMAIN now : now[i] \in {op.before[i], after[i]}
            /\ op.next > Len(op.buf) => now = after

\* WriteAt has no side effects, "except that Write modifies the file, of course"
\* (openfile.cc): no sector it writes is of a file with another name.
WriteModifiesItsFile ==
    [][op.kind = "write" =>
          \A name \in Names \ {op.name} : Stored'[name] = Stored[name]]_vars

Abstract == INSTANCE Files WITH files <- Stored

\* The file system implements Files, as its operations see it: a file appears,
\* whole, and disappears when the directory is written, and no step of an
\* operation on one file, down to a single sector written, changes another.
FilesAreIndependent == Abstract!Spec

=============================================================================
