-------------------------- MODULE FileSystemProofs --------------------------
EXTENDS FileSystem, NumberLemmas, SequenceTheorems

(***************************************************************************)
(* The safety of the file system on disk, for any number of sectors,       *)
(* entries, names and processes, any sector size and any sizes of files:   *)
(* proofs about FileSystem.  They hold for programs that do not write to a *)
(* file that was removed since they opened it (CarefulSpec).               *)
(***************************************************************************)

Headers == [isHeader : {TRUE}, numBytes : Nat, dataSectors : Seq(Sector)]
Contents == Headers \cup [isHeader : {FALSE}, data : Bytes]
Tables == [1 .. NumDirEntries -> DirectoryEntry]

-----------------------------------------------------------------------------
(* The inductive invariant, of a map of sectors fm, a directory d, the other *)
(* sectors b, open files fds and an operation o                              *)

\* A header's numbers agree, and no sector is in it twice.
HeaderSound(h) ==
    /\ h \in Headers /\ h.numBytes \in Sizes
    /\ Len(h.dataSectors) = divRoundUp(h.numBytes, SectorSize)
    /\ \A i, j \in 1 .. Len(h.dataSectors) : h.dataSectors[i] = h.dataSectors[j] => i = j

\* The sectors of a file with its header h in sector s.
Span(s, h) == {s} \cup Range(h.dataSectors)

FileSound(s, h) == HeaderSound(h) /\ s \notin Range(h.dataSectors)

\* The sectors of the file of entry i.
Extent(d, b, i) == Span(d[i].sector, b[d[i].sector])

\* Entries are of different files, whose headers are right and which have no
\* sector in common, nor one of the system's.
DiskSound(d, b) ==
    /\ \A i \in InUse(d) : d[i].name \in Name
    /\ \A i, j \in InUse(d) : d[i].name = d[j].name => i = j
    /\ \A i \in InUse(d) : FileSound(d[i].sector, b[d[i].sector])
    /\ \A i \in InUse(d) : Extent(d, b, i) \cap SystemSectors = {}
    /\ \A i, j \in InUse(d) : i # j => Extent(d, b, i) \cap Extent(d, b, j) = {}

\* The sectors in use.
Allocated(d, b) == SystemSectors \cup UNION {Extent(d, b, i) : i \in InUse(d)}

SpanOf(d, b, name) == UNION {Extent(d, b, i) : i \in FindIndex(d, name)}

\* The split entry's stale name is that of no entry after it, so that a search for
\* the name stops before the split entry.
StaleSound(d) ==
    ~d[SplitEntry].inUse =>
        \A j \in InUse(d) : d[j].name = d[SplitEntry].name => j < SplitEntry

\* Create marks the sectors of the file after it enters it in the directory, and
\* Remove clears them before it takes it out.
Unmarked(d, b, o) ==
    IF \/ o.kind = "create" /\ o.step \in {"rest", "map"}
       \/ o.kind = "remove" /\ o.step = "directory"
    THEN SpanOf(d, b, o.name) ELSE {}

\* The header h in memory is that of the file there is with this name.
HeaderCurrent(h, name, d, b) ==
    \E i \in FindIndex(d, name) : h = b[d[i].sector]

Entered(d, i, name, sector) ==
    [d EXCEPT ![i] = [inUse |-> TRUE, name |-> name, sector |-> sector]]

\* The first unused entry.
FirstUnused(d, i) == i \in Unused(d) /\ \A j \in Unused(d) : i <= j

CreateSound(o, fm, d, b) ==
    /\ o \in [kind : {"create"}, step : {"header", "directory", "rest", "map"}, name : Name,
              sector : Sector, hdr : Headers, map : SUBSET Sector, table : Tables]
    /\ FileSound(o.sector, o.hdr)
    /\ o.step \in {"header", "directory"} =>
          /\ FindIndex(d, o.name) = {}
          /\ Span(o.sector, o.hdr) \cap fm = {}
          /\ o.map = fm \cup Span(o.sector, o.hdr)
          /\ \E i \in Unused(d) : FirstUnused(d, i) /\ o.table = Entered(d, i, o.name, o.sector)
    /\ o.step = "directory" => b[o.sector] = o.hdr
    /\ o.step = "rest" => d = o.table
    /\ o.step \in {"rest", "map"} => o.map = Allocated(d, b)

\* Whoever has a file with this name open is known to have a removed one.
OpenRemoved(name, fds, u) ==
    \A p \in Process, fd \in Descriptor :
        fds[p][fd].open /\ fds[p][fd].name = name => <<p, fd>> \in u

RemoveSound(o, fm, d, b, fds, u) ==
    /\ o \in [kind : {"remove"}, step : {"map", "directory", "rest"}, name : Name,
              map : SUBSET Sector, table : Tables]
    /\ o.step # "rest" => o.table = RemoveEntry(d, o.name) /\ FindIndex(d, o.name) # {}
    /\ o.step = "map" => o.map = fm \ SpanOf(d, b, o.name)
    /\ o.step = "rest" => d = o.table
    /\ OpenRemoved(o.name, fds, u)

\* Byte "at" of a file with header h.
ByteAt(b, h, at) == AsBytes(b[ByteToSector(h, at)])[at % SectorSize]

\* Byte "at" after the write o.
NewByte(o, at) ==
    IF at \in o.position .. o.position + Len(o.bytes) - 1
    THEN o.bytes[at - o.position + 1] ELSE o.before[at + 1]

\* What is to be written is the new contents, sector by sector, and what has been
\* written is there.
BytesSound(o, b) ==
    LET first == FirstSector(o.position)
        last  == LastSector(o.position, Len(o.bytes))
    IN  /\ Len(o.bytes) > 0 /\ o.position + Len(o.bytes) <= o.hdr.numBytes
        /\ Len(o.before) = o.hdr.numBytes
        /\ Len(o.buf) = last - first + 1
        /\ o.next \in 1 .. Len(o.buf) + 1
        /\ \A at \in 0 .. o.hdr.numBytes - 1 :
              /\ at \div SectorSize \in first .. last =>
                    o.buf[at \div SectorSize - first + 1][at % SectorSize] = NewByte(o, at)
              /\ ByteAt(b, o.hdr, at) =
                    IF at \div SectorSize \in first .. first + o.next - 2
                    THEN NewByte(o, at) ELSE o.before[at + 1]

WriteSound(o, d, b) ==
    /\ o \in [kind : {"write"}, name : Name, hdr : Headers, position : Nat,
              bytes : Seq(Byte), buf : Seq(Bytes), next : Nat, before : Seq(Byte)]
    /\ HeaderCurrent(o.hdr, o.name, d, b)
    /\ BytesSound(o, b)

OperationSound(o, fm, d, b, fds, u) ==
    \/ o = NoOp
    \/ CreateSound(o, fm, d, b)
    \/ RemoveSound(o, fm, d, b, fds, u)
    \/ WriteSound(o, d, b)

OpenFiles ==
    [open : {TRUE}, name : Name, seekPosition : Nat, hdr : {h \in Headers : HeaderSound(h)}]

FDTables == [Process -> [Descriptor -> {Closed} \cup OpenFiles]]

\* An open file has the header of the file with its name, if it was not removed.
FilesSound(d, b, fds, u) ==
    /\ fds \in FDTables
    /\ \A p \in Process, fd \in Descriptor :
          fds[p][fd].open /\ <<p, fd>> \notin u =>
              HeaderCurrent(fds[p][fd].hdr, fds[p][fd].name, d, b)

TablesSound(d, b) == d \in Tables /\ b \in [Sector -> Contents] /\ DiskSound(d, b)

Sound(fm, d, b, fds, u, o) ==
    /\ TablesSound(d, b) /\ StaleSound(d)
    /\ fm = Allocated(d, b) \ Unmarked(d, b, o)
    /\ FilesSound(d, b, fds, u)
    /\ OperationSound(o, fm, d, b, fds, u)

\* The directory t on disk when the first of its sectors has been written, for an
\* operation o that leaves d: its entries in use are among those of the sound
\* table full, but the one of a new file may have another name, and a search for
\* the name of another file stops at that file's entry.
Torn(t, full, d, b, o) ==
    /\ TablesSound(full, b)
    /\ \A i \in InUse(t) :
          /\ i \in InUse(full) /\ t[i].sector = full[i].sector
          /\ \/ t[i].name = full[i].name
             \/ i = SplitEntry /\ o.kind = "create" /\ full[i].name = o.name
    /\ \A i \in InUse(full) : full[i].name # o.name => i \in InUse(d) /\ d[i] = full[i]
    /\ \A i \in InUse(d) : d[i].name # o.name =>
          /\ i \in InUse(t) /\ t[i] = d[i]
          /\ \A j \in InUse(t) : t[j].name = d[i].name => i <= j

BetweenSectors(o) == o.kind \in {"create", "remove"} /\ o.step = "rest"

OnDisk(t, b, o) ==
    /\ t \in Tables
    /\ BetweenSectors(o) => \E full \in Tables : Torn(t, full, o.table, b, o)

\* The inductive invariant.
IInv ==
    /\ Sound(freeMap, Seen, block, FDTable, unlinked, op)
    /\ OnDisk(directory, block, op)

-----------------------------------------------------------------------------
(* Entries and their sectors *)

LEMMA SequenceRange ==
    ASSUME NEW S, NEW q \in Seq(S)
    PROVE  Range(q) \subseteq S /\ Range(q) = {q[k] : k \in 1 .. Len(q)}
  BY DEF Range

LEMMA SystemSectorsExist == SystemSectors \subseteq Sector
  BY DiskAssumption DEF SystemSectors, Sector, FreeMapSector, DirectorySector

\* What is known of an entry in use.
LEMMA EntryFacts ==
    ASSUME NEW d, NEW b, TablesSound(d, b), NEW i \in InUse(d)
    PROVE  /\ i \in 1 .. NumDirEntries /\ d[i].inUse
           /\ d[i].name \in Name /\ d[i].sector \in Sector
           /\ FindIndex(d, d[i].name) = {i}
           /\ Find(d, d[i].name) = d[i].sector
           /\ HeaderSound(b[d[i].sector])
           /\ d[i].sector \notin Range(b[d[i].sector].dataSectors)
           /\ Extent(d, b, i) = {d[i].sector} \cup Range(b[d[i].sector].dataSectors)
           /\ AsHeader(b[d[i].sector]) = b[d[i].sector]
           /\ Range(b[d[i].sector].dataSectors) \subseteq Sector
  <1> USE DEF TablesSound
  <1>1. i \in 1 .. NumDirEntries /\ d[i].inUse /\ d[i].name \in Name /\ d[i].sector \in Sector
    BY DEF InUse, DiskSound, Tables, DirectoryEntry
  <1>2. FindIndex(d, d[i].name) = {i}
    BY <1>1 DEF FindIndex, DiskSound, InUse, Tables
  <1>3. Find(d, d[i].name) = d[i].sector
    <2>1. Min({i}) = i
      BY <1>1, MinOfNaturals
    <2> QED BY <1>2, <2>1 DEF Find
  <1>4. FileSound(d[i].sector, b[d[i].sector])
    BY DEF DiskSound
  <1>5. b[d[i].sector] \in Headers
    BY <1>4 DEF FileSound, HeaderSound
  <1>6. AsHeader(b[d[i].sector]) = b[d[i].sector]
    BY <1>5 DEF AsHeader, Headers
  <1>7. Range(b[d[i].sector].dataSectors) \subseteq Sector
    <2>1. b[d[i].sector].dataSectors \in Seq(Sector)
      BY <1>5 DEF Headers
    <2> QED BY <2>1, SequenceRange
  <1> QED BY <1>1, <1>2, <1>3, <1>4, <1>6, <1>7 DEF FileSound, Extent, Span

\* The entry of a name.
LEMMA NameFacts ==
    ASSUME NEW d, NEW b, TablesSound(d, b), NEW name, FindIndex(d, name) # {}
    PROVE  \E i \in InUse(d) : d[i].name = name /\ FindIndex(d, name) = {i}
  <1>1. PICK i \in FindIndex(d, name) : TRUE
    OBVIOUS
  <1>2. i \in InUse(d) /\ d[i].name = name
    BY <1>1 DEF FindIndex, InUse, TablesSound, Tables
  <1> QED BY <1>2, EntryFacts

LEMMA AllocatedFacts ==
    ASSUME NEW d, NEW b, TablesSound(d, b)
    PROVE  /\ Allocated(d, b) \subseteq Sector /\ SystemSectors \subseteq Allocated(d, b)
           /\ \A i \in InUse(d) : /\ d[i].sector \in Allocated(d, b)
                                  /\ Extent(d, b, i) \subseteq Allocated(d, b)
  <1>1. \A i \in InUse(d) : /\ Extent(d, b, i) \subseteq Sector
                            /\ d[i].sector \in Extent(d, b, i)
    BY EntryFacts
  <1> QED BY <1>1, SystemSectorsExist DEF Allocated

SameButFor(s, b, e) ==
    /\ e \in [Sector -> Contents]
    /\ \A x \in Sector : x # s => e[x] = b[x]

NoHeaderAt(s, d) == \A i \in InUse(d) : d[i].sector # s

\* A write to a sector that is no file's header changes no file's place.
LEMMA OtherBlock ==
    ASSUME NEW d, NEW b, TablesSound(d, b), NEW s, NoHeaderAt(s, d),
           NEW e, SameButFor(s, b, e)
    PROVE  /\ TablesSound(d, e)
           /\ Allocated(d, e) = Allocated(d, b)
           /\ \A i \in InUse(d) : /\ e[d[i].sector] = b[d[i].sector]
                                  /\ Extent(d, e, i) = Extent(d, b, i)
  <1>1. \A i \in InUse(d) : e[d[i].sector] = b[d[i].sector]
    BY EntryFacts DEF NoHeaderAt, SameButFor
  <1>3. \A i \in InUse(d) : Extent(d, e, i) = Extent(d, b, i)
    BY <1>1 DEF Extent
  <1>4. DiskSound(d, e)
    BY <1>1, <1>3 DEF TablesSound, DiskSound
  <1>5. Allocated(d, e) = Allocated(d, b)
    BY <1>3 DEF Allocated
  <1> QED BY <1>1, <1>3, <1>4, <1>5 DEF TablesSound, SameButFor

\* A new file in a free entry.
LEMMA AddEntry ==
    ASSUME NEW d, NEW b, TablesSound(d, b), NEW i \in Unused(d), NEW name \in Name,
           FindIndex(d, name) = {}, NEW s \in Sector, FileSound(s, b[s]),
           Span(s, b[s]) \cap Allocated(d, b) = {}
    PROVE  LET t == Entered(d, i, name, s)
           IN  /\ TablesSound(t, b)
               /\ InUse(t) = InUse(d) \cup {i} /\ i \notin InUse(d)
               /\ FindIndex(t, name) = {i}
               /\ Extent(t, b, i) = Span(s, b[s])
               /\ Allocated(t, b) = Allocated(d, b) \cup Span(s, b[s])
               /\ \A j \in InUse(d) : t[j] = d[j]
               /\ \A n : n # name => FindIndex(t, n) = FindIndex(d, n)
  <1> DEFINE t == Entered(d, i, name, s)
  <1>1. i \in 1 .. NumDirEntries /\ ~d[i].inUse
    BY DEF Unused, TablesSound, Tables
  <1>2. t \in Tables /\ t[i] = [inUse |-> TRUE, name |-> name, sector |-> s]
    BY <1>1 DEF TablesSound, Tables, DirectoryEntry, Entered
  <1>3. \A j \in 1 .. NumDirEntries : j # i => t[j] = d[j]
    BY <1>1 DEF TablesSound, Tables, Entered
  <1> HIDE DEF t
  <1>4. InUse(t) = InUse(d) \cup {i} /\ i \notin InUse(d)
    BY <1>1, <1>2, <1>3 DEF InUse
  <1>5. \A j \in InUse(d) : t[j] = d[j] /\ Extent(t, b, j) = Extent(d, b, j)
    BY <1>3, <1>4 DEF InUse, Extent
  <1>6. t[i].sector = s /\ t[i].name = name /\ Extent(t, b, i) = Span(s, b[s])
    BY <1>2 DEF Extent
  <1>7. \A j \in InUse(d) : d[j].name # name
    BY DEF FindIndex, InUse, TablesSound, Tables
  <1>8. \A j \in InUse(d) : Extent(d, b, j) \cap Span(s, b[s]) = {}
    BY AllocatedFacts
  <1>9. Span(s, b[s]) \cap SystemSectors = {}
    BY AllocatedFacts
  <1>10. DiskSound(t, b)
    BY <1>4, <1>5, <1>6, <1>7, <1>8, <1>9 DEF DiskSound, TablesSound
  <1>11. Allocated(t, b) = Allocated(d, b) \cup Span(s, b[s])
    BY <1>4, <1>5, <1>6 DEF Allocated
  <1>12. TablesSound(t, b)
    BY <1>2, <1>10 DEF TablesSound
  <1>13. \A n : n # name => FindIndex(t, n) = FindIndex(d, n)
    BY <1>1, <1>2, <1>3 DEF FindIndex, Tables, TablesSound
  <1>14. FindIndex(t, name) = {i}
    BY <1>4, <1>6, <1>12, EntryFacts
  <1> QED BY <1>4, <1>5, <1>6, <1>11, <1>12, <1>13, <1>14 DEF t

\* The entry of a file taken out.
LEMMA DropEntry ==
    ASSUME NEW d, NEW b, TablesSound(d, b), NEW i \in InUse(d)
    PROVE  LET t == RemoveEntry(d, d[i].name)
           IN  /\ TablesSound(t, b)
               /\ InUse(t) = InUse(d) \ {i}
               /\ Allocated(t, b) = Allocated(d, b) \ Extent(d, b, i)
               /\ \A j \in InUse(t) : t[j] = d[j]
               /\ \A j \in 1 .. NumDirEntries : j # i => t[j] = d[j]
               /\ t[i].name = d[i].name /\ t[i].sector = d[i].sector
               /\ \A n : n # d[i].name => FindIndex(t, n) = FindIndex(d, n)
  <1> DEFINE t == RemoveEntry(d, d[i].name)
  <1>1. FindIndex(d, d[i].name) = {i} /\ i \in 1 .. NumDirEntries
    BY EntryFacts
  <1>2. d \in Tables /\ DOMAIN d = 1 .. NumDirEntries
    BY DEF TablesSound, Tables
  <1>3. t = [j \in 1 .. NumDirEntries |-> IF j = i THEN [d[j] EXCEPT !.inUse = FALSE] ELSE d[j]]
    <2>1. Min({i}) = i
      BY <1>1, MinOfNaturals
    <2> QED BY <1>1, <1>2, <2>1 DEF RemoveEntry
  <1>4. /\ t \in Tables /\ ~t[i].inUse /\ t[i].name = d[i].name /\ t[i].sector = d[i].sector
        /\ \A j \in 1 .. NumDirEntries : j # i => t[j] = d[j]
    BY <1>1, <1>2, <1>3 DEF Tables, DirectoryEntry
  <1> HIDE DEF t
  <1>5. InUse(t) = InUse(d) \ {i}
    BY <1>1, <1>4 DEF InUse
  <1>6. \A j \in InUse(t) : t[j] = d[j] /\ Extent(t, b, j) = Extent(d, b, j)
    BY <1>4, <1>5 DEF InUse, Extent
  <1>7. DiskSound(t, b)
    BY <1>5, <1>6 DEF DiskSound, TablesSound
  <1>8. \A j \in InUse(t) : Extent(d, b, j) \cap Extent(d, b, i) = {}
    BY <1>5 DEF DiskSound, TablesSound
  <1>9. SystemSectors \cap Extent(d, b, i) = {}
    BY DEF DiskSound, TablesSound
  <1>10. Allocated(t, b) = Allocated(d, b) \ Extent(d, b, i)
    BY <1>5, <1>6, <1>8, <1>9 DEF Allocated
  <1>11. \A n : n # d[i].name => FindIndex(t, n) = FindIndex(d, n)
    BY <1>1, <1>2, <1>4 DEF FindIndex, Tables
  <1> QED BY <1>4, <1>5, <1>6, <1>7, <1>10, <1>11 DEF TablesSound, t

-----------------------------------------------------------------------------
(* Allocation *)

LEMMA ClearFinite ==
    ASSUME NEW map
    PROVE  Clear(map) \subseteq Nat /\ IsFiniteSet(Clear(map)) /\ Clear(map) \subseteq Sector
  <1>1. IsFiniteSet(Sector) /\ Sector \subseteq Nat
    BY DiskAssumption, FS_Interval DEF Sector
  <1> QED BY <1>1, FS_Subset DEF Clear

\* The first k sectors of q.
Found(q, k) == {q[j] : j \in 1 .. k}

\* After k sectors have been found and marked there is another, if there were
\* more than k.
LEMMA AnotherClear ==
    ASSUME NEW map, NEW k \in Nat, NEW m \in Nat, k <= m, NEW q \in [1 .. m -> Clear(map)],
           k < Cardinality(Clear(map))
    PROVE  Min(Clear(map \cup Found(q, k))) \in Clear(map) \ Found(q, k)
  <1> DEFINE T == Found(q, k)
             C == Clear(map \cup T)
             f == [j \in 1 .. k |-> q[j]]
  <1>1. IsFiniteSet(1 .. k) /\ Cardinality(1 .. k) = k
    BY FS_Interval
  <1>2. f \in Surjection(1 .. k, T)
    BY DEF Surjection, Found
  <1>3. IsFiniteSet(T) /\ Cardinality(T) <= k
    <2> HIDE DEF T, f
    <2> QED BY <1>1, <1>2, FS_Surjection
  <1>4. T \subseteq Clear(map)
    BY DEF Found
  <1>5. C = Clear(map) \ T
    BY DEF Clear
  <1>6. C # {}
    <2> SUFFICES ASSUME C = {} PROVE FALSE
      OBVIOUS
    <2>1. T = Clear(map)
      BY <1>4, <1>5
    <2> HIDE DEF T
    <2> QED BY <1>3, <2>1, ClearFinite, FS_CardinalityType
  <1>7. C \in SUBSET Nat
    BY <1>5, ClearFinite
  <1> HIDE DEF C
  <1>8. Min(C) \in C
    BY <1>6, <1>7, MinOfNaturals
  <1> QED BY <1>5, <1>8 DEF C

FoundInOrder(map, n, q) ==
    \A i \in 1 .. n : q[i] = Min(Clear(map \cup Found(q, i - 1)))

\* The loop of Allocate finds as many sectors as it needs, all different.
LEMMA SectorsFound ==
    ASSUME NEW map, NEW n \in Nat, n <= Cardinality(Clear(map))
    PROVE  LET q == FindSectors(map, n)
           IN  /\ q \in [1 .. n -> Clear(map)] /\ q \in Seq(Sector) /\ Len(q) = n
               /\ \A i, j \in 1 .. n : q[i] = q[j] => i = j
  <1> DEFINE S == {k \in 0 .. n : \E q \in [1 .. k -> Clear(map)] : FoundInOrder(map, k, q)}
  <1>0. Cardinality(Clear(map)) \in Nat
    BY ClearFinite, FS_CardinalityType
  <1>1. 0 \in S
    <2> DEFINE q == [i \in 1 .. 0 |-> 0]
    <2>1. q \in [1 .. 0 -> Clear(map)] /\ FoundInOrder(map, 0, q)
      BY DEF FoundInOrder
    <2>2. 0 \in 0 .. n
      OBVIOUS
    <2> HIDE DEF q
    <2> QED BY <2>1, <2>2, Zenon
  <1>2. ASSUME NEW k \in 0 .. n - 1, k \in S
        PROVE  k + 1 \in S
    <2>1. PICK q \in [1 .. k -> Clear(map)] : FoundInOrder(map, k, q)
      BY <1>2
    <2> DEFINE x == Min(Clear(map \cup Found(q, k)))
               r == [i \in 1 .. k + 1 |-> IF i = k + 1 THEN x ELSE q[i]]
    <2>2. x \in Clear(map)
      <3>1. k \in Nat /\ k <= k /\ k < Cardinality(Clear(map))
        BY <1>0
      <3> QED BY <3>1, AnotherClear, Zenon
    <2> HIDE DEF x
    <2>3. r \in [1 .. k + 1 -> Clear(map)]
      BY <2>2
    <2>4. ASSUME NEW i \in 1 .. k + 1
          PROVE  r[i] = Min(Clear(map \cup Found(r, i - 1)))
      <3>1. Found(r, i - 1) = Found(q, i - 1)
        <4>1. \A j \in 1 .. i - 1 : r[j] = q[j]
          OBVIOUS
        <4> HIDE DEF r
        <4> QED BY <4>1 DEF Found
      <3>2. CASE i = k + 1
        <4>1. r[i] = x /\ i - 1 = k
          BY <3>2
        <4> HIDE DEF r
        <4> QED BY <3>1, <4>1 DEF x
      <3>3. CASE i # k + 1
        <4>1. r[i] = q[i] /\ i \in 1 .. k
          BY <3>3
        <4> HIDE DEF r
        <4> QED BY <2>1, <3>1, <4>1 DEF FoundInOrder
      <3> QED BY <3>2, <3>3
    <2>5. FoundInOrder(map, k + 1, r)
      BY <2>4 DEF FoundInOrder
    <2> HIDE DEF r
    <2> QED BY <2>3, <2>5
  <1>3. n \in S
    <2> HIDE DEF S
    <2>1. \A k \in 0 .. n - 1 : k \in S => k + 1 \in S
      BY <1>2
    <2> QED BY <1>1, <2>1, SetInduction
  <1> DEFINE q == FindSectors(map, n)
  <1>4. q \in [1 .. n -> Clear(map)] /\ FoundInOrder(map, n, q)
    BY <1>3 DEF FindSectors, FoundInOrder, Found
  <1> HIDE DEF q, S
  <1>5. q \in Seq(Sector) /\ Len(q) = n
    BY <1>4, ClearFinite
  <1>6. ASSUME NEW i \in 1 .. n, NEW h \in 1 .. n, i < h
        PROVE  q[i] # q[h]
    <2>1. PICK k \in Nat : k = h - 1
      OBVIOUS
    <2>2. Min(Clear(map \cup Found(q, k))) \in Clear(map) \ Found(q, k)
      <3>1. k <= n /\ k < Cardinality(Clear(map))
        BY <1>0, <2>1
      <3> QED BY <1>4, <3>1, AnotherClear, Zenon
    <2>3. q[h] = Min(Clear(map \cup Found(q, k)))
      BY <1>4, <2>1 DEF FoundInOrder
    <2>4. q[h] \notin Found(q, k) /\ i \in 1 .. k
      BY <1>6, <2>1, <2>2, <2>3
    <2> QED BY <2>4 DEF Found
  <1>7. \A i, j \in 1 .. n : q[i] = q[j] => i = j
    BY <1>6
  <1> QED BY <1>4, <1>5, <1>7 DEF q

\* FileHeader::Allocate after the header's sector has been found.
Granted(a, map, s, n) == a = Allocate(map \cup {s}, n) /\ a.ok

LEMMA AllocateSound ==
    ASSUME NEW map \in SUBSET Sector, NEW s \in Clear(map), NEW n \in Sizes,
           NEW a, Granted(a, map, s, n)
    PROVE  /\ FileSound(s, a.hdr) /\ a.hdr \in Headers
           /\ Span(s, a.hdr) \cap map = {}
           /\ a.map = map \cup Span(s, a.hdr) /\ a.map \subseteq Sector
  <1> DEFINE k == divRoundUp(n, SectorSize)
             q == FindSectors(map \cup {s}, k)
  <1>1. n \in Nat /\ k \in Nat
    BY DiskAssumption DEF divRoundUp
  <1>2. Cardinality(Clear(map \cup {s})) \in Nat /\ Clear(map \cup {s}) \subseteq Sector
    BY ClearFinite, FS_CardinalityType
  <1>3. k <= Cardinality(Clear(map \cup {s}))
    <2> SUFFICES ASSUME Cardinality(Clear(map \cup {s})) < k PROVE FALSE
      BY <1>1, <1>2
    <2> QED BY DEF Allocate, Granted
  <1>4. /\ a.hdr = [isHeader |-> TRUE, numBytes |-> n, dataSectors |-> q]
        /\ a.map = map \cup {s} \cup Range(q)
    <2>1. ~(Cardinality(Clear(map \cup {s})) < k)
      BY <1>1, <1>2, <1>3
    <2> HIDE DEF q
    <2> QED BY <2>1 DEF Allocate, Header, Granted, q
  <1> HIDE DEF k
  <1>5. /\ q \in [1 .. k -> Clear(map \cup {s})] /\ q \in Seq(Sector) /\ Len(q) = k
        /\ \A i, j \in 1 .. k : q[i] = q[j] => i = j
    BY <1>1, <1>3, SectorsFound
  <1> HIDE DEF q
  <1>6. a.hdr \in Headers /\ HeaderSound(a.hdr)
    <2> DEFINE r == [isHeader |-> TRUE, numBytes |-> n, dataSectors |-> q]
    <2>1. r \in Headers /\ r.numBytes = n /\ r.dataSectors = q
      BY <1>1, <1>5 DEF Headers
    <2> HIDE DEF r
    <2>2. HeaderSound(r)
      BY <1>5, <2>1 DEF HeaderSound, k
    <2>3. a.hdr = r
      BY <1>4 DEF r
    <2> QED BY <2>1, <2>2, <2>3, Zenon
  <1>7. Range(q) \subseteq Clear(map \cup {s})
    <2>1. Range(q) = {q[i] : i \in 1 .. Len(q)}
      BY <1>5, SequenceRange
    <2>2. \A i \in 1 .. Len(q) : q[i] \in Clear(map \cup {s})
      BY <1>5
    <2> QED BY <2>1, <2>2
  <1>8. s \notin Range(a.hdr.dataSectors) /\ Span(s, a.hdr) \cap map = {}
    BY <1>4, <1>7 DEF Span, Clear
  <1>9. a.map = map \cup Span(s, a.hdr) /\ a.map \subseteq Sector
    BY <1>2, <1>4, <1>7, ClearFinite DEF Span
  <1> QED BY <1>6, <1>8, <1>9 DEF FileSound

-----------------------------------------------------------------------------
(* Create and Remove *)

LEMMA NoOpFacts ==
    ASSUME NEW fm, NEW d, NEW b, NEW fds, NEW u, Sound(fm, d, b, fds, u, NoOp)
    PROVE  /\ TablesSound(d, b) /\ fm = Allocated(d, b) /\ FilesSound(d, b, fds, u)
           /\ fm \subseteq Sector /\ StaleSound(d)
  <1>1. Unmarked(d, b, NoOp) = {}
    BY DEF Unmarked, NoOp
  <1> QED BY <1>1, AllocatedFacts DEF Sound

LEMMA NoOpSound ==
    ASSUME NEW d, NEW b, NEW fds, NEW u, TablesSound(d, b), StaleSound(d),
           FilesSound(d, b, fds, u)
    PROVE  Sound(Allocated(d, b), d, b, fds, u, NoOp)
  <1>1. Unmarked(d, b, NoOp) = {}
    BY DEF Unmarked, NoOp
  <1> QED BY <1>1 DEF Sound, OperationSound

LEMMA CreateBegins ==
    ASSUME NEW fm, NEW d, NEW b, NEW fds, NEW u, Sound(fm, d, b, fds, u, NoOp),
           NEW name \in Name, NEW n \in Sizes, FindIndex(d, name) = {},
           Clear(fm) # {}, Unused(d) # {},
           NEW s, s = Min(Clear(fm)), NEW a, a = Allocate(fm \cup {s}, n), a.ok,
           NEW o, o = [kind |-> "create", step |-> "header", name |-> name, sector |-> s,
                       hdr |-> a.hdr, map |-> a.map, table |-> Add(d, name, s)]
    PROVE  Sound(fm, d, b, fds, u, o)
  <1>1. /\ TablesSound(d, b) /\ fm = Allocated(d, b) /\ FilesSound(d, b, fds, u)
        /\ fm \subseteq Sector /\ StaleSound(d)
    BY NoOpFacts
  <1>2. s \in Clear(fm)
    BY ClearFinite, MinOfNaturals
  <1>3. /\ FileSound(s, a.hdr) /\ a.hdr \in Headers
        /\ Span(s, a.hdr) \cap fm = {}
        /\ a.map = fm \cup Span(s, a.hdr) /\ a.map \subseteq Sector
    <2>1. fm \in SUBSET Sector
      BY <1>1
    <2>2. Granted(a, fm, s, n)
      BY DEF Granted
    <2> QED BY ONLY n \in Sizes, <1>2, <2>1, <2>2, AllocateSound
  <1>4. PICK i \in Unused(d) : FirstUnused(d, i) /\ Add(d, name, s) = Entered(d, i, name, s)
    <2>1. Unused(d) \in SUBSET Nat
      BY <1>1 DEF TablesSound, Tables, Unused
    <2>2. Min(Unused(d)) \in Unused(d) /\ \A j \in Unused(d) : Min(Unused(d)) <= j
      BY <2>1, MinOfNaturals
    <2> QED BY <2>2 DEF Add, Entered, FirstUnused
  <1>5. s \in Sector
    BY <1>2, ClearFinite
  <1>6. Entered(d, i, name, s) \in Tables
    BY <1>1, <1>5 DEF TablesSound, Tables, DirectoryEntry, Entered
  <1>7. /\ o \in [kind : {"create"}, step : {"header", "directory", "rest", "map"}, name : Name,
                  sector : Sector, hdr : Headers, map : SUBSET Sector, table : Tables]
        /\ o.step = "header" /\ o.kind = "create" /\ o.hdr = a.hdr /\ o.map = a.map
        /\ o.sector = s /\ o.name = name /\ o.table = Entered(d, i, name, s)
    BY <1>3, <1>4, <1>5, <1>6
  <1>8. CreateSound(o, fm, d, b)
    BY <1>3, <1>4, <1>7 DEF CreateSound
  <1>9. Unmarked(d, b, o) = {}
    BY <1>7 DEF Unmarked
  <1> QED BY <1>1, <1>8, <1>9 DEF Sound, OperationSound

\* What remains of the invariant when sectors change that are no file's.
LEMMA FilesUntouched ==
    ASSUME NEW d, NEW b, NEW e, NEW t, NEW fds, NEW u, FilesSound(d, b, fds, u),
           \A p \in Process, fd \in Descriptor : fds[p][fd].open /\ <<p, fd>> \notin u =>
              /\ FindIndex(t, fds[p][fd].name) = FindIndex(d, fds[p][fd].name)
              /\ \A i \in FindIndex(d, fds[p][fd].name) : e[t[i].sector] = b[d[i].sector]
    PROVE  FilesSound(t, e, fds, u)
  BY DEF FilesSound, HeaderCurrent

LEMMA CreateKind ==
    ASSUME NEW fm, NEW d, NEW b, NEW fds, NEW u, NEW o, Sound(fm, d, b, fds, u, o), o.kind = "create"
    PROVE  CreateSound(o, fm, d, b)
  BY DEF Sound, OperationSound, NoOp, RemoveSound, WriteSound

LEMMA RemoveKind ==
    ASSUME NEW fm, NEW d, NEW b, NEW fds, NEW u, NEW o, Sound(fm, d, b, fds, u, o), o.kind = "remove"
    PROVE  RemoveSound(o, fm, d, b, fds, u)
  BY DEF Sound, OperationSound, NoOp, CreateSound, WriteSound

LEMMA WriteKind ==
    ASSUME NEW fm, NEW d, NEW b, NEW fds, NEW u, NEW o, Sound(fm, d, b, fds, u, o), o.kind = "write"
    PROVE  WriteSound(o, d, b)
  BY DEF Sound, OperationSound, NoOp, CreateSound, RemoveSound

LEMMA HeaderWritten ==
    ASSUME NEW fm, NEW d, NEW b, NEW fds, NEW u, NEW o, Sound(fm, d, b, fds, u, o),
           o.kind = "create", o.step = "header",
           NEW e, e = [b EXCEPT ![o.sector] = o.hdr],
           NEW x, x = [o EXCEPT !.step = "directory"]
    PROVE  Sound(fm, d, e, fds, u, x)
  <1>1. CreateSound(o, fm, d, b)
    BY CreateKind
  <1>2. /\ Unmarked(d, b, o) = {} /\ TablesSound(d, b) /\ FilesSound(d, b, fds, u)
        /\ StaleSound(d)
    BY DEF Unmarked, Sound
  <1>3. fm = Allocated(d, b)
    BY <1>2 DEF Sound
  <1>4. o.sector \in Sector /\ o.hdr \in Contents /\ o.sector \in Span(o.sector, o.hdr)
    BY <1>1 DEF CreateSound, Contents, Span
  <1>5. NoHeaderAt(o.sector, d)
    BY <1>1, <1>2, <1>3, <1>4, AllocatedFacts DEF CreateSound, NoHeaderAt
  <1>6. /\ TablesSound(d, e) /\ Allocated(d, e) = Allocated(d, b)
        /\ \A i \in InUse(d) : e[d[i].sector] = b[d[i].sector]
    <2>1. SameButFor(o.sector, b, e)
      BY <1>2, <1>4 DEF TablesSound, SameButFor
    <2>2. PICK f : f = e
      OBVIOUS
    <2>3. SameButFor(o.sector, b, f)
      BY <2>1, <2>2
    <2>4. TablesSound(d, b) /\ NoHeaderAt(o.sector, d)
      BY <1>2, <1>5
    <2>5. /\ TablesSound(d, f) /\ Allocated(d, f) = Allocated(d, b)
          /\ \A i \in InUse(d) : f[d[i].sector] = b[d[i].sector]
      BY ONLY <2>3, <2>4, OtherBlock
    <2> QED BY <2>2, <2>5
  <1>7. FilesSound(d, e, fds, u)
    <2>1. \A name : FindIndex(d, name) \subseteq InUse(d)
      BY <1>2 DEF FindIndex, InUse, TablesSound, Tables
    <2> QED BY <1>2, <1>6, <2>1, FilesUntouched
  <1>8. e[o.sector] = o.hdr
    BY <1>2, <1>4 DEF TablesSound
  <1>9. /\ x \in [kind : {"create"}, step : {"header", "directory", "rest", "map"}, name : Name,
                  sector : Sector, hdr : Headers, map : SUBSET Sector, table : Tables]
        /\ x.kind = "create" /\ x.step = "directory" /\ x.sector = o.sector /\ x.hdr = o.hdr
        /\ x.name = o.name /\ x.map = o.map /\ x.table = o.table
    BY <1>1 DEF CreateSound
  <1>10. CreateSound(x, fm, d, e)
    BY <1>1, <1>8, <1>9 DEF CreateSound
  <1>11. Unmarked(d, e, x) = {}
    BY <1>9 DEF Unmarked
  <1> QED BY <1>2, <1>3, <1>6, <1>7, <1>10, <1>11 DEF Sound, OperationSound

\* What an entry taken by a new file does to the table.
EntryAdded(t, d, i, o) ==
    /\ FirstUnused(d, i) /\ t = Entered(d, i, o.name, o.sector)
    /\ FindIndex(d, o.name) = {}
    /\ InUse(t) = InUse(d) \cup {i} /\ i \notin InUse(d) /\ i \in 1 .. NumDirEntries
    /\ t[i].name = o.name /\ t[i].sector = o.sector
    /\ \A j \in InUse(d) : t[j] = d[j]
    /\ \A j \in 1 .. NumDirEntries : j # i => t[j] = d[j]

LEMMA AddFacts ==
    ASSUME NEW d \in Tables, NEW i, FirstUnused(d, i), NEW o, FindIndex(d, o.name) = {},
           NEW t, t = Entered(d, i, o.name, o.sector)
    PROVE  EntryAdded(t, d, i, o)
  <1>1. i \in 1 .. NumDirEntries /\ ~d[i].inUse
    BY DEF FirstUnused, Unused, Tables
  <1>2. t[i].inUse /\ t[i].name = o.name /\ t[i].sector = o.sector
    BY <1>1 DEF Tables, Entered
  <1>3. \A j \in 1 .. NumDirEntries : j # i => t[j] = d[j]
    BY <1>1 DEF Tables, Entered
  <1>4. InUse(t) = InUse(d) \cup {i} /\ i \notin InUse(d)
    BY <1>1, <1>2, <1>3 DEF InUse
  <1>5. \A j \in InUse(d) : t[j] = d[j]
    BY <1>3, <1>4 DEF InUse
  <1> QED BY <1>1, <1>2, <1>3, <1>4, <1>5 DEF EntryAdded

LEMMA StaleAfterAdd ==
    ASSUME NEW d \in Tables, StaleSound(d), NEW i, NEW o, NEW t, EntryAdded(t, d, i, o)
    PROVE  StaleSound(t)
  <1> SUFFICES ASSUME ~t[SplitEntry].inUse, NEW j \in InUse(t), t[j].name = t[SplitEntry].name
               PROVE  j < SplitEntry
    BY DEF StaleSound
  <1>1. SplitEntry \in 1 .. NumDirEntries /\ NumDirEntries \in Nat
    BY DiskAssumption
  <1>2. SplitEntry \notin InUse(t)
    BY DEF InUse
  <1>3. SplitEntry # i /\ t[SplitEntry] = d[SplitEntry]
    BY <1>1, <1>2 DEF EntryAdded
  <1>4. CASE j = i
    <2>1. SplitEntry \in Unused(d) /\ i \in 1 .. NumDirEntries
      BY <1>1, <1>3 DEF Unused, Tables, EntryAdded
    <2>2. i <= SplitEntry
      BY <2>1 DEF EntryAdded, FirstUnused
    <2> QED BY <1>1, <1>3, <1>4, <2>1, <2>2
  <1>5. CASE j # i
    <2>1. j \in InUse(d) /\ d[j] = t[j]
      BY <1>5 DEF EntryAdded
    <2> QED BY <1>3, <2>1 DEF StaleSound
  <1> QED BY <1>4, <1>5

\* The first sector of a directory, written over d.
LEMMA FirstSectorFacts ==
    ASSUME NEW d \in Tables, NEW t \in Tables, NEW w, w = FirstSectorWritten(t, d)
    PROVE  /\ w \in Tables
           /\ \A i \in 1 .. NumDirEntries :
                 /\ i < SplitEntry => w[i] = t[i]
                 /\ i > SplitEntry => w[i] = d[i]
                 /\ i = SplitEntry => /\ w[i].inUse = t[i].inUse /\ w[i].sector = t[i].sector
                                      /\ w[i].name = d[i].name
                 /\ t[i] = d[i] => w[i] = d[i]
  <1>1. DOMAIN d = 1 .. NumDirEntries
    BY DEF Tables
  <1>2. SplitEntry \in 1 .. NumDirEntries
    BY DiskAssumption
  <1>3. ASSUME NEW i \in 1 .. NumDirEntries
        PROVE  /\ w[i] \in DirectoryEntry
               /\ i < SplitEntry => w[i] = t[i]
               /\ i > SplitEntry => w[i] = d[i]
               /\ i = SplitEntry => /\ w[i].inUse = t[i].inUse /\ w[i].sector = t[i].sector
                                    /\ w[i].name = d[i].name
               /\ t[i] = d[i] => w[i] = d[i]
    <2>1. t[i] \in DirectoryEntry /\ d[i] \in DirectoryEntry
      BY DEF Tables
    <2>2. CASE i < SplitEntry
      BY <1>1, <1>2, <2>1, <2>2 DEF FirstSectorWritten
    <2>3. CASE i > SplitEntry
      BY <1>1, <1>2, <2>1, <2>3 DEF FirstSectorWritten
    <2>4. CASE i = SplitEntry
      <3>1. w[i] = [t[i] EXCEPT !.name = d[i].name]
        BY <1>1, <1>2, <2>4 DEF FirstSectorWritten
      <3> QED BY <1>2, <2>1, <2>4, <3>1 DEF DirectoryEntry
    <2> QED BY <1>2, <2>2, <2>3, <2>4
  <1>4. w \in Tables
    <2>1. DOMAIN w = 1 .. NumDirEntries /\ w = [i \in DOMAIN w |-> w[i]]
      BY <1>1 DEF FirstSectorWritten
    <2> QED BY <1>3, <2>1 DEF Tables
  <1> QED BY <1>3, <1>4

\* Between the two sectors of a Create, the new entry is there, or is not, or has the
\* stale name of the split entry, which no search for another file gets to.
LEMMA TornByCreate ==
    ASSUME NEW d \in Tables, StaleSound(d), NEW b, NEW i, NEW o, o.kind = "create",
           NEW t, TablesSound(t, b), EntryAdded(t, d, i, o),
           NEW w, w = FirstSectorWritten(t, d)
    PROVE  w \in Tables /\ Torn(w, t, t, b, o)
  <1>1. t \in Tables
    BY DEF TablesSound
  <1>2. /\ w \in Tables
        /\ \A j \in 1 .. NumDirEntries : j # i => w[j] = d[j] /\ w[j] = t[j]
    BY <1>1, FirstSectorFacts DEF EntryAdded
  <1>3. /\ SplitEntry \in 1 .. NumDirEntries /\ i \in 1 .. NumDirEntries
        /\ NumDirEntries \in Nat
    BY DiskAssumption DEF EntryAdded
  <1>4. /\ i \in InUse(w) => i <= SplitEntry /\ w[i].sector = t[i].sector
        /\ i \in InUse(w) /\ i # SplitEntry => w[i] = t[i]
        /\ i = SplitEntry => w[i].name = d[i].name
    <2>1. ~d[i].inUse
      BY <1>3 DEF EntryAdded, InUse
    <2>2. i > SplitEntry => i \notin InUse(w)
      BY <1>1, <1>3, <2>1, FirstSectorFacts DEF InUse
    <2> QED BY <1>1, <1>3, <2>2, FirstSectorFacts
  <1>5. ASSUME NEW j \in InUse(w)
        PROVE  /\ j \in InUse(t) /\ w[j].sector = t[j].sector
               /\ \/ w[j].name = t[j].name
                  \/ j = SplitEntry /\ o.kind = "create" /\ t[j].name = o.name
    <2>1. CASE j = i
      BY <1>4, <2>1 DEF EntryAdded
    <2>2. CASE j # i
      BY <1>2, <2>2 DEF InUse
    <2> QED BY <2>1, <2>2
  <1>6. ASSUME NEW j \in InUse(t), t[j].name # o.name
        PROVE  /\ j \in InUse(w) /\ w[j] = t[j]
               /\ \A k \in InUse(w) : w[k].name = t[j].name => j <= k
    <2>1. j # i /\ j \in InUse(d) /\ d[j] = t[j] /\ j \in 1 .. NumDirEntries
      BY <1>6 DEF EntryAdded, InUse
    <2>2. w[j] = t[j] /\ j \in InUse(w)
      BY <1>2, <2>1 DEF InUse
    <2>3. ASSUME NEW k \in InUse(w), w[k].name = t[j].name, k # i
          PROVE  k = j
      <3>1. k \in InUse(t) /\ w[k] = t[k]
        BY <1>2, <1>5, <2>3 DEF InUse
      <3> QED BY <2>3, <3>1 DEF TablesSound, DiskSound
    <2>4. ASSUME i \in InUse(w), w[i].name = t[j].name
          PROVE  j <= i
      <3>1. i = SplitEntry
        BY <1>4, <1>6, <2>4 DEF EntryAdded
      <3>2. ~d[SplitEntry].inUse /\ d[j].name = d[SplitEntry].name
        BY <1>3, <1>4, <2>1, <2>4, <3>1 DEF EntryAdded, InUse
      <3>3. j < SplitEntry
        BY <2>1, <3>2 DEF StaleSound
      <3> QED BY <1>3, <2>1, <3>1, <3>3
    <2> QED BY <1>3, <2>1, <2>2, <2>3, <2>4
  <1> QED BY <1>2, <1>5, <1>6 DEF Torn

LEMMA EntryWritten ==
    ASSUME NEW fm, NEW d, NEW b, NEW fds, NEW u, NEW o, Sound(fm, d, b, fds, u, o),
           o.kind = "create", o.step = "directory",
           NEW x, x = [o EXCEPT !.step = "rest"]
    PROVE  /\ Sound(fm, o.table, b, fds, u, x) /\ x.table = o.table
           /\ OnDisk(FirstSectorWritten(o.table, d), b, x)
           /\ \E i : EntryAdded(o.table, d, i, o)
  <1>1. CreateSound(o, fm, d, b)
    BY CreateKind
  <1>2. /\ Unmarked(d, b, o) = {} /\ TablesSound(d, b) /\ FilesSound(d, b, fds, u)
        /\ StaleSound(d) /\ d \in Tables
    BY DEF Unmarked, Sound, TablesSound
  <1>3. fm = Allocated(d, b)
    BY <1>2 DEF Sound
  <1>4. /\ o.name \in Name /\ o.sector \in Sector /\ b[o.sector] = o.hdr
        /\ FileSound(o.sector, o.hdr) /\ FindIndex(d, o.name) = {}
        /\ Span(o.sector, o.hdr) \cap fm = {} /\ o.map = fm \cup Span(o.sector, o.hdr)
    BY <1>1 DEF CreateSound
  <1>5. PICK t : t = o.table
    OBVIOUS
  <1>6. PICK i \in Unused(d) : FirstUnused(d, i) /\ t = Entered(d, i, o.name, o.sector)
    BY <1>1, <1>5 DEF CreateSound
  <1>7. EntryAdded(t, d, i, o)
    BY <1>2, <1>4, <1>6, AddFacts
  <1>8. /\ TablesSound(t, b) /\ FindIndex(t, o.name) = {i} /\ t \in Tables
        /\ Extent(t, b, i) = Span(o.sector, o.hdr)
        /\ Allocated(t, b) = Allocated(d, b) \cup Span(o.sector, o.hdr)
        /\ \A n : n # o.name => FindIndex(t, n) = FindIndex(d, n)
    BY <1>2, <1>3, <1>4, <1>6, AddEntry DEF TablesSound
  <1>9. FilesSound(t, b, fds, u)
    <2>1. \A name : FindIndex(d, name) \subseteq InUse(d)
      BY <1>2 DEF FindIndex, InUse, Tables
    <2>2. \A p \in Process, fd \in Descriptor :
             fds[p][fd].open /\ <<p, fd>> \notin u => fds[p][fd].name # o.name
      BY <1>2, <1>4 DEF FilesSound, HeaderCurrent
    <2>3. \A j \in InUse(d) : t[j] = d[j]
      BY <1>7 DEF EntryAdded
    <2> QED BY <1>2, <1>8, <2>1, <2>2, <2>3, FilesUntouched
  <1>10. /\ x \in [kind : {"create"}, step : {"header", "directory", "rest", "map"}, name : Name,
                   sector : Sector, hdr : Headers, map : SUBSET Sector, table : Tables]
         /\ x.kind = "create" /\ x.step = "rest" /\ x.sector = o.sector /\ x.hdr = o.hdr
         /\ x.name = o.name /\ x.map = o.map /\ x.table = t
    BY <1>1, <1>5 DEF CreateSound
  <1>11. CreateSound(x, fm, t, b)
    BY <1>3, <1>4, <1>8, <1>10 DEF CreateSound
  <1>12. Unmarked(t, b, x) = Span(o.sector, o.hdr)
    BY <1>8, <1>10 DEF Unmarked, SpanOf
  <1>13. fm = Allocated(t, b) \ Unmarked(t, b, x)
    BY <1>3, <1>4, <1>8, <1>12
  <1>14. StaleSound(t)
    BY <1>2, <1>7, StaleAfterAdd
  <1>15. Sound(fm, t, b, fds, u, x)
    BY <1>8, <1>9, <1>11, <1>13, <1>14 DEF Sound, OperationSound
  <1>16. EntryAdded(t, d, i, x)
    BY <1>7, <1>10 DEF EntryAdded
  <1>17. OnDisk(FirstSectorWritten(t, d), b, x)
    <2>1. PICK w : w = FirstSectorWritten(t, d)
      OBVIOUS
    <2>2. w \in Tables /\ Torn(w, t, t, b, x)
      BY <1>2, <1>8, <1>10, <1>16, <2>1, TornByCreate
    <2> QED BY <1>8, <1>10, <2>1, <2>2 DEF OnDisk
  <1> QED BY <1>5, <1>7, <1>10, <1>15, <1>17

\* The second sector: the directory is what the system saw already.
LEMMA RestWritten ==
    ASSUME NEW fm, NEW d, NEW b, NEW fds, NEW u, NEW o, Sound(fm, d, b, fds, u, o),
           o.kind = "create", o.step = "rest", NEW x, x = [o EXCEPT !.step = "map"]
    PROVE  Sound(fm, d, b, fds, u, x) /\ d = o.table /\ ~BetweenSectors(x)
  <1>1. CreateSound(o, fm, d, b)
    BY CreateKind
  <1>2. /\ x \in [kind : {"create"}, step : {"header", "directory", "rest", "map"}, name : Name,
                   sector : Sector, hdr : Headers, map : SUBSET Sector, table : Tables]
        /\ x.kind = "create" /\ x.step = "map" /\ x.sector = o.sector /\ x.hdr = o.hdr
        /\ x.name = o.name /\ x.map = o.map /\ x.table = o.table
    BY <1>1 DEF CreateSound
  <1>3. CreateSound(x, fm, d, b) /\ d = o.table
    BY <1>1, <1>2 DEF CreateSound
  <1>4. Unmarked(d, b, x) = Unmarked(d, b, o)
    BY <1>2 DEF Unmarked
  <1> QED BY <1>2, <1>3, <1>4 DEF Sound, OperationSound, BetweenSectors

LEMMA SectorsMarked ==
    ASSUME NEW fm, NEW d, NEW b, NEW fds, NEW u, NEW o, Sound(fm, d, b, fds, u, o),
           o.kind = "create", o.step = "map"
    PROVE  Sound(o.map, d, b, fds, u, NoOp)
  <1>1. CreateSound(o, fm, d, b)
    BY CreateKind
  <1> QED BY <1>1, NoOpSound DEF CreateSound, Sound

\* What RemoveFile gives back is the sectors of the file.
LEMMA SectorsGivenBack ==
    ASSUME TablesSound(directory, block), NEW name, FindIndex(directory, name) # {}
    PROVE  RemovedMap(name) = freeMap \ SpanOf(directory, block, name)
  <1>1. PICK i \in InUse(directory) : directory[i].name = name /\ FindIndex(directory, name) = {i}
    BY NameFacts
  <1>2. SpanOf(directory, block, name) = Extent(directory, block, i)
    BY <1>1 DEF SpanOf
  <1>3. /\ Find(directory, name) = directory[i].sector
        /\ AsHeader(block[directory[i].sector]) = block[directory[i].sector]
        /\ Extent(directory, block, i) =
              {directory[i].sector} \cup Range(block[directory[i].sector].dataSectors)
    BY <1>1, EntryFacts
  <1> QED BY <1>2, <1>3 DEF RemovedMap, Deallocate

LEMMA RemoveBegins ==
    ASSUME NEW fm, NEW d, NEW b, NEW fds, NEW u, Sound(fm, d, b, fds, u, NoOp),
           NEW name \in Name, FindIndex(d, name) # {},
           NEW v, u \subseteq v, OpenRemoved(name, fds, v),
           NEW o, o = [kind |-> "remove", step |-> "map", name |-> name,
                       map |-> fm \ SpanOf(d, b, name), table |-> RemoveEntry(d, name)]
    PROVE  Sound(fm, d, b, fds, v, o)
  <1>1. /\ TablesSound(d, b) /\ fm = Allocated(d, b) /\ FilesSound(d, b, fds, u)
        /\ fm \subseteq Sector /\ StaleSound(d)
    BY NoOpFacts
  <1>2. RemoveEntry(d, name) \in Tables
    <2>1. PICK i \in InUse(d) : d[i].name = name
      BY <1>1, NameFacts
    <2> QED BY <1>1, <2>1, DropEntry DEF TablesSound
  <1>3. /\ o \in [kind : {"remove"}, step : {"map", "directory", "rest"}, name : Name,
                  map : SUBSET Sector, table : Tables]
        /\ o.kind = "remove" /\ o.step = "map" /\ o.name = name
        /\ o.map = fm \ SpanOf(d, b, name) /\ o.table = RemoveEntry(d, name)
    BY <1>1, <1>2
  <1>4. RemoveSound(o, fm, d, b, fds, v)
    BY <1>3 DEF RemoveSound
  <1>5. Unmarked(d, b, o) = {}
    BY <1>3 DEF Unmarked
  <1>6. FilesSound(d, b, fds, v)
    BY <1>1 DEF FilesSound
  <1> QED BY <1>1, <1>4, <1>5, <1>6 DEF Sound, OperationSound

LEMMA SectorsCleared ==
    ASSUME NEW fm, NEW d, NEW b, NEW fds, NEW u, NEW o, Sound(fm, d, b, fds, u, o),
           o.kind = "remove", o.step = "map",
           NEW x, x = [o EXCEPT !.step = "directory"]
    PROVE  Sound(o.map, d, b, fds, u, x)
  <1>1. RemoveSound(o, fm, d, b, fds, u)
    BY RemoveKind
  <1>2. /\ Unmarked(d, b, o) = {} /\ TablesSound(d, b) /\ FilesSound(d, b, fds, u)
        /\ StaleSound(d)
    BY DEF Unmarked, Sound
  <1>3. o.map = Allocated(d, b) \ SpanOf(d, b, o.name)
    BY <1>1, <1>2 DEF Sound, RemoveSound
  <1>4. /\ x \in [kind : {"remove"}, step : {"map", "directory", "rest"}, name : Name,
                  map : SUBSET Sector, table : Tables]
        /\ x.kind = "remove" /\ x.step = "directory" /\ x.name = o.name
        /\ x.map = o.map /\ x.table = o.table
    BY <1>1 DEF RemoveSound
  <1>5. RemoveSound(x, o.map, d, b, fds, u)
    BY <1>1, <1>4 DEF RemoveSound
  <1>6. Unmarked(d, b, x) = SpanOf(d, b, o.name)
    BY <1>4 DEF Unmarked
  <1> QED BY <1>2, <1>3, <1>5, <1>6 DEF Sound, OperationSound

\* What it does to the table to take out the entry of a file.
EntryDropped(t, d, i, name) ==
    /\ i \in InUse(d) /\ d[i].name = name
    /\ InUse(t) = InUse(d) \ {i}
    /\ \A j \in 1 .. NumDirEntries : j # i => t[j] = d[j]
    /\ t[i].name = d[i].name /\ t[i].sector = d[i].sector

LEMMA StaleAfterDrop ==
    ASSUME NEW d, NEW b, TablesSound(d, b), StaleSound(d), NEW i, NEW name, NEW t,
           EntryDropped(t, d, i, name)
    PROVE  StaleSound(t)
  <1> SUFFICES ASSUME ~t[SplitEntry].inUse, NEW j \in InUse(t), t[j].name = t[SplitEntry].name
               PROVE  j < SplitEntry
    BY DEF StaleSound
  <1>1. SplitEntry \in 1 .. NumDirEntries
    BY DiskAssumption
  <1>2. j \in InUse(d) /\ j # i /\ t[j] = d[j]
    BY DEF EntryDropped, InUse
  <1>3. CASE i = SplitEntry
    BY <1>2, <1>3 DEF EntryDropped, TablesSound, DiskSound
  <1>4. CASE i # SplitEntry
    BY <1>1, <1>2, <1>4 DEF EntryDropped, StaleSound
  <1> QED BY <1>3, <1>4

\* Between the two sectors of a Remove, the entry is still there or is not.
LEMMA TornByRemove ==
    ASSUME NEW d, NEW b, TablesSound(d, b), NEW i, NEW o, NEW t \in Tables,
           EntryDropped(t, d, i, o.name), NEW w, w = FirstSectorWritten(t, d)
    PROVE  w \in Tables /\ Torn(w, d, t, b, o)
  <1>1. d \in Tables
    BY DEF TablesSound
  <1>2. /\ w \in Tables
        /\ \A j \in 1 .. NumDirEntries : j # i => w[j] = d[j] /\ w[j] = t[j]
    BY <1>1, FirstSectorFacts DEF EntryDropped
  <1>3. ASSUME NEW j \in InUse(w)
        PROVE  j \in InUse(d) /\ w[j].sector = d[j].sector /\ w[j].name = d[j].name
    <2>1. CASE j = i
      <3>1. \/ j < SplitEntry /\ w[j] = t[j]
            \/ j > SplitEntry /\ w[j] = d[j]
            \/ w[j].sector = t[j].sector /\ w[j].name = d[j].name
        BY <1>1, DiskAssumption, FirstSectorFacts DEF InUse
      <3> QED BY <2>1, <3>1 DEF EntryDropped
    <2>2. CASE j # i
      BY <1>2, <2>2 DEF InUse
    <2> QED BY <2>1, <2>2
  <1>4. ASSUME NEW j \in InUse(d), d[j].name # o.name
        PROVE  j \in InUse(t) /\ t[j] = d[j]
    BY <1>4 DEF EntryDropped, InUse
  <1>5. ASSUME NEW j \in InUse(t)
        PROVE  /\ j \in InUse(w) /\ w[j] = t[j]
               /\ \A k \in InUse(w) : w[k].name = t[j].name => j <= k
    <2>1. j # i /\ j \in InUse(d) /\ j \in 1 .. NumDirEntries
      BY DEF EntryDropped, InUse
    <2>2. w[j] = t[j] /\ w[j] = d[j] /\ j \in InUse(w)
      BY <1>2, <2>1 DEF InUse
    <2>3. \A k \in InUse(w) : w[k].name = t[j].name => j = k
      BY <1>3, <2>1, <2>2 DEF TablesSound, DiskSound
    <2> QED BY <2>1, <2>2, <2>3
  <1> QED BY <1>2, <1>3, <1>4, <1>5 DEF Torn

LEMMA EntryRemoved ==
    ASSUME NEW fm, NEW d, NEW b, NEW fds, NEW u, NEW o, Sound(fm, d, b, fds, u, o),
           o.kind = "remove", o.step = "directory",
           NEW x, x = [o EXCEPT !.step = "rest"]
    PROVE  /\ Sound(fm, o.table, b, fds, u, x) /\ x.table = o.table
           /\ OnDisk(FirstSectorWritten(o.table, d), b, x)
           /\ \E i \in InUse(d) : EntryDropped(o.table, d, i, o.name)
  <1>1. RemoveSound(o, fm, d, b, fds, u)
    BY RemoveKind
  <1>2. /\ Unmarked(d, b, o) = SpanOf(d, b, o.name) /\ StaleSound(d) /\ d \in Tables
        /\ TablesSound(d, b) /\ FilesSound(d, b, fds, u)
    BY DEF Unmarked, Sound, TablesSound
  <1>3. PICK i \in InUse(d) : d[i].name = o.name /\ FindIndex(d, o.name) = {i}
    BY <1>1, <1>2, NameFacts DEF RemoveSound
  <1>4. fm = Allocated(d, b) \ Extent(d, b, i)
    <2>1. SpanOf(d, b, o.name) = Extent(d, b, i)
      BY <1>3 DEF SpanOf
    <2> QED BY <1>2, <2>1 DEF Sound
  <1>5. PICK t : t = RemoveEntry(d, d[i].name) /\ t = o.table
    BY <1>1, <1>3 DEF RemoveSound
  <1>6. /\ TablesSound(t, b) /\ t \in Tables
        /\ Allocated(t, b) = Allocated(d, b) \ Extent(d, b, i)
        /\ EntryDropped(t, d, i, d[i].name)
        /\ \A j \in InUse(t) : t[j] = d[j]
        /\ \A n : n # d[i].name => FindIndex(t, n) = FindIndex(d, n)
    <2>1. TablesSound(d, b) /\ t = RemoveEntry(d, d[i].name)
      BY <1>2, <1>5
    <2> QED BY ONLY <2>1, i \in InUse(d), DropEntry DEF TablesSound, EntryDropped
  <1>7. FilesSound(t, b, fds, u)
    <2>1. \A name : FindIndex(t, name) \subseteq InUse(t)
      BY <1>6 DEF FindIndex, InUse, Tables
    <2>2. \A p \in Process, fd \in Descriptor :
             fds[p][fd].open /\ <<p, fd>> \notin u => fds[p][fd].name # d[i].name
      BY <1>1, <1>3 DEF RemoveSound, OpenRemoved
    <2> QED BY <1>2, <1>6, <2>1, <2>2, FilesUntouched
  <1>8. /\ x \in [kind : {"remove"}, step : {"map", "directory", "rest"}, name : Name,
                  map : SUBSET Sector, table : Tables]
        /\ x.kind = "remove" /\ x.step = "rest" /\ x.name = o.name
        /\ x.map = o.map /\ x.table = t
    BY <1>1, <1>5 DEF RemoveSound
  <1>9. RemoveSound(x, fm, t, b, fds, u)
    BY <1>1, <1>8 DEF RemoveSound
  <1>10. Unmarked(t, b, x) = {}
    BY <1>8 DEF Unmarked
  <1>11. StaleSound(t)
    BY <1>2, <1>6, StaleAfterDrop
  <1>12. Sound(fm, t, b, fds, u, x)
    BY <1>4, <1>6, <1>7, <1>9, <1>10, <1>11 DEF Sound, OperationSound
  <1>13. OnDisk(FirstSectorWritten(t, d), b, x)
    <2>1. PICK w : w = FirstSectorWritten(t, d)
      OBVIOUS
    <2>2. EntryDropped(t, d, i, x.name)
      BY <1>3, <1>6, <1>8
    <2>3. w \in Tables /\ Torn(w, d, t, b, x)
      BY <1>2, <1>6, <2>1, <2>2, TornByRemove
    <2> QED BY <1>2, <1>8, <2>1, <2>3 DEF OnDisk
  <1> QED BY <1>3, <1>5, <1>6, <1>8, <1>12, <1>13

\* The second sector, and Remove returns.
LEMMA RemoveEnds ==
    ASSUME NEW fm, NEW d, NEW b, NEW fds, NEW u, NEW o, Sound(fm, d, b, fds, u, o),
           o.kind = "remove", o.step = "rest"
    PROVE  Sound(fm, d, b, fds, u, NoOp) /\ d = o.table
  <1>1. RemoveSound(o, fm, d, b, fds, u)
    BY RemoveKind
  <1>2. Unmarked(d, b, o) = {}
    BY DEF Unmarked
  <1>3. Sound(fm, d, b, fds, u, NoOp)
    BY <1>2, NoOpSound DEF Sound
  <1> QED BY <1>1, <1>3 DEF RemoveSound

-----------------------------------------------------------------------------
(* Reading *)

\* The bytes of a file are in its sectors.
LEMMA SectorOfByte ==
    ASSUME NEW h, HeaderSound(h), NEW at \in 0 .. h.numBytes - 1
    PROVE  /\ at \div SectorSize \in Nat /\ at \div SectorSize + 1 \in 1 .. Len(h.dataSectors)
           /\ at % SectorSize \in 0 .. SectorSize - 1
           /\ ByteToSector(h, at) = h.dataSectors[at \div SectorSize + 1]
           /\ ByteToSector(h, at) \in Range(h.dataSectors)
           /\ ByteToSector(h, at) \in Sector
  <1>1. h.numBytes \in Nat /\ h.dataSectors \in Seq(Sector) /\ SectorSize \in Nat \ {0}
    BY DiskAssumption DEF HeaderSound, Headers
  <1>2. at \div SectorSize \in Nat /\ at % SectorSize \in 0 .. SectorSize - 1
    <2>1. at \in Nat
      BY <1>1
    <2> QED BY ONLY <1>1, <2>1, Division
  <1>3. Len(h.dataSectors) = (h.numBytes + SectorSize - 1) \div SectorSize
    BY DEF HeaderSound, divRoundUp
  <1>4. at \div SectorSize + 1 <= Len(h.dataSectors)
    <2>1. (at + SectorSize) \div SectorSize = at \div SectorSize + 1
      BY <1>1
    <2>2. at + SectorSize <= h.numBytes + SectorSize - 1
      BY <1>1
    <2>3. at + SectorSize \in Nat /\ h.numBytes + SectorSize - 1 \in Nat
      BY <1>1
    <2>4. (at + SectorSize) \div SectorSize <= (h.numBytes + SectorSize - 1) \div SectorSize
      BY <1>1, <2>2, <2>3, DivisionMonotone, Zenon
    <2> QED BY <1>3, <2>1, <2>4
  <1>5. at \div SectorSize + 1 \in 1 .. Len(h.dataSectors)
    BY <1>1, <1>2, <1>4
  <1>6. ByteToSector(h, at) = h.dataSectors[at \div SectorSize + 1]
    BY DEF ByteToSector
  <1> QED BY <1>1, <1>2, <1>5, <1>6, SequenceRange

LEMMA ByteRead ==
    ASSUME NEW b \in [Sector -> Contents], NEW h, HeaderSound(h), NEW at \in 0 .. h.numBytes - 1
    PROVE  ByteAt(b, h, at) \in Byte
  <1>1. Bytes # {}
    <2>1. PICK c \in Byte : TRUE
      BY DiskAssumption
    <2>2. [j \in 0 .. SectorSize - 1 |-> c] \in Bytes
      BY DEF Bytes
    <2> QED BY <2>2
  <1>2. AsBytes(b[ByteToSector(h, at)]) \in Bytes
    BY <1>1, SectorOfByte DEF AsBytes, Contents, Headers
  <1> QED BY <1>2, SectorOfByte DEF ByteAt, Bytes

\* How many of n bytes are there, and the bytes.
TransferRight(k, h, n, position) ==
    /\ k \in Nat /\ k <= n /\ (k > 0 => position + k <= h.numBytes)
    /\ (position + n <= h.numBytes => k = n)

ReadRight(r, k, h, position) ==
    /\ r \in Seq(Byte) /\ Len(r) = k /\ r \in [1 .. k -> Byte]
    /\ \A j \in 1 .. k : r[j] = ByteAt(block, h, position + j - 1)

\* ReadAt returns the bytes of the file from the position on.
LEMMA ReadBytes ==
    ASSUME block \in [Sector -> Contents], NEW h, HeaderSound(h),
           NEW n \in Nat, NEW position \in Nat
    PROVE  /\ TransferRight(Transfer(h, n, position), h, n, position)
           /\ ReadRight(ReadAt(h, n, position), Transfer(h, n, position), h, position)
  <1> DEFINE r == ReadAt(h, n, position)
             k == Transfer(h, n, position)
             first == FirstSector(position)
             buf == [i \in first .. LastSector(position, k) |->
                       AsBytes(block[ByteToSector(h, i * SectorSize)])]
  <1>1. h.numBytes \in Nat /\ SectorSize \in Nat \ {0}
    BY DiskAssumption DEF HeaderSound, Headers
  <1>2. /\ k \in Nat /\ k <= n /\ (k > 0 => position + k <= h.numBytes)
        /\ (position + n <= h.numBytes => k = n)
    BY <1>1 DEF Transfer
  <1>3. r = [j \in 1 .. k |-> buf[(position + j - 1) \div SectorSize]
                                 [(position + j - 1) % SectorSize]]
    BY DEF ReadAt
  <1> HIDE DEF k, r
  <1>4. ASSUME NEW j \in 1 .. k
        PROVE  r[j] = ByteAt(block, h, position + j - 1) /\ r[j] \in Byte
    <2>1. PICK at \in 0 .. h.numBytes - 1 : at = position + j - 1
      BY <1>1, <1>2
    <2>2. PICK i \in Nat : i = at \div SectorSize
      BY SectorOfByte
    <2>3. i \in first .. LastSector(position, k)
      <3>1. position <= at /\ at <= position + k - 1 /\ at \in Nat /\ position + k - 1 \in Nat
        BY <1>1, <1>2, <2>1
      <3>2. position \div SectorSize <= i /\ i <= (position + k - 1) \div SectorSize
        BY <1>1, <2>2, <3>1, DivisionMonotone
      <3>3. position \div SectorSize \in Nat /\ (position + k - 1) \div SectorSize \in Nat
        BY <1>1, <3>1, Division
      <3> QED BY <3>2, <3>3 DEF FirstSector, LastSector
    <2>4. ByteToSector(h, i * SectorSize) = ByteToSector(h, at)
      <3>1. (i * SectorSize + 0) \div SectorSize = i
        BY <1>1, DivisionUnique
      <3>2. i * SectorSize + 0 = i * SectorSize
        BY <1>1
      <3> QED BY <2>2, <3>1, <3>2 DEF ByteToSector
    <2>5. buf[i] = AsBytes(block[ByteToSector(h, at)])
      BY <2>3, <2>4
    <2> HIDE DEF buf, first
    <2>6. r[j] = buf[i][at % SectorSize]
      BY <1>3, <2>1, <2>2
    <2>7. r[j] = ByteAt(block, h, at)
      BY <2>5, <2>6 DEF ByteAt
    <2> QED BY <2>1, <2>7, ByteRead
  <1>5. r \in [1 .. k -> Byte]
    <2> HIDE DEF buf
    <2>1. DOMAIN r = 1 .. k /\ r = [j \in 1 .. k |-> r[j]]
      BY <1>3
    <2> QED BY <1>4, <2>1
  <1>6. r \in Seq(Byte) /\ Len(r) = k
    BY <1>2, <1>5
  <1> QED BY <1>2, <1>4, <1>5, <1>6 DEF r, k, TransferRight, ReadRight

\* The whole of a file.
LEMMA ReadWhole ==
    ASSUME block \in [Sector -> Contents], NEW h, HeaderSound(h)
    PROVE  LET r == ReadAt(h, h.numBytes, 0)
           IN  /\ r \in Seq(Byte) /\ Len(r) = h.numBytes /\ r \in [1 .. h.numBytes -> Byte]
               /\ \A j \in 1 .. h.numBytes : r[j] = ByteAt(block, h, j - 1)
  <1>1. PICK n \in Nat : n = h.numBytes
    BY DEF HeaderSound, Headers
  <1>2. PICK z \in Nat : z = 0
    OBVIOUS
  <1> DEFINE r == ReadAt(h, n, z)
             k == Transfer(h, n, z)
  <1>3. TransferRight(k, h, n, z) /\ ReadRight(r, k, h, z)
    BY ReadBytes, Zenon
  <1> HIDE DEF r, k
  <1>4. k = n
    BY <1>1, <1>2, <1>3 DEF TransferRight
  <1>5. \A j \in 1 .. n : z + j - 1 = j - 1
    BY <1>2
  <1>6. r = ReadAt(h, h.numBytes, 0)
    BY <1>1, <1>2, Zenon DEF r
  <1> QED BY <1>1, <1>3, <1>4, <1>5, <1>6 DEF ReadRight

-----------------------------------------------------------------------------
(* Descriptors *)

\* The header of an open file is its entry's.
LEMMA CurrentFacts ==
    ASSUME NEW d, NEW b, TablesSound(d, b), NEW h, NEW name, HeaderCurrent(h, name, d, b)
    PROVE  \E i \in InUse(d) : /\ d[i].name = name /\ FindIndex(d, name) = {i}
                               /\ h = b[d[i].sector] /\ HeaderSound(h)
  <1>1. PICK i \in FindIndex(d, name) : h = b[d[i].sector]
    BY DEF HeaderCurrent
  <1>2. i \in InUse(d) /\ d[i].name = name
    BY <1>1 DEF FindIndex, InUse, TablesSound, Tables
  <1> QED BY <1>1, <1>2, EntryFacts

LEMMA OpenFacts ==
    ASSUME NEW d, NEW b, NEW fds, NEW u, FilesSound(d, b, fds, u),
           NEW p \in Process, NEW fd \in Descriptor, fds[p][fd].open
    PROVE  /\ fds[p][fd] \in OpenFiles /\ HeaderSound(fds[p][fd].hdr)
           /\ <<p, fd>> \notin u => HeaderCurrent(fds[p][fd].hdr, fds[p][fd].name, d, b)
  <1>1. fds[p][fd] \in OpenFiles
    BY DEF FilesSound, FDTables, Closed
  <1> QED BY <1>1 DEF FilesSound, OpenFiles

\* What is known of a descriptor after it is set.
DescriptorRight(f, p, fd, d, b, v) ==
    \/ f = Closed
    \/ f \in OpenFiles /\ (<<p, fd>> \notin v => HeaderCurrent(f.hdr, f.name, d, b))

LEMMA DescriptorSet ==
    ASSUME NEW d, NEW b, NEW fds, NEW u, FilesSound(d, b, fds, u),
           NEW p \in Process, NEW fd \in Descriptor,
           NEW v, u \ {<<p, fd>>} \subseteq v,
           NEW f, DescriptorRight(f, p, fd, d, b, v),
           NEW g, g = [fds EXCEPT ![p][fd] = f]
    PROVE  FilesSound(d, b, g, v)
  <1>1. /\ f \in {Closed} \cup OpenFiles
        /\ f.open /\ <<p, fd>> \notin v => HeaderCurrent(f.hdr, f.name, d, b)
    BY DEF DescriptorRight, Closed
  <1>2. fds \in FDTables
    BY DEF FilesSound
  <1>3. g \in FDTables
    BY <1>1, <1>2 DEF FDTables
  <1>4. \A q \in Process, e \in Descriptor :
           g[q][e] = IF q = p /\ e = fd THEN f ELSE fds[q][e]
    BY <1>2 DEF FDTables
  <1>5. ASSUME NEW q \in Process, NEW e \in Descriptor, g[q][e].open, <<q, e>> \notin v
        PROVE  HeaderCurrent(g[q][e].hdr, g[q][e].name, d, b)
    <2>1. CASE q = p /\ e = fd
      BY <1>1, <1>4, <1>5, <2>1
    <2>2. CASE ~(q = p /\ e = fd)
      <3>1. <<q, e>> \notin u /\ g[q][e] = fds[q][e]
        BY <1>4, <1>5, <2>2
      <3> QED BY <1>5, <3>1 DEF FilesSound
    <2> QED BY <2>1, <2>2
  <1> QED BY <1>3, <1>5 DEF FilesSound

\* A position that moves forward.
LEMMA PositionMoved ==
    ASSUME NEW d, NEW b, NEW fds, NEW u, FilesSound(d, b, fds, u),
           NEW p \in Process, NEW fd \in Descriptor, fds[p][fd].open, NEW k \in Nat,
           NEW g, g = [fds EXCEPT ![p][fd].seekPosition = @ + k]
    PROVE  FilesSound(d, b, g, u)
  <1>1. PICK x : /\ x = fds[p][fd] /\ x \in OpenFiles
                 /\ <<p, fd>> \notin u => HeaderCurrent(x.hdr, x.name, d, b)
    BY OpenFacts
  <1>2. PICK f : f = [x EXCEPT !.seekPosition = @ + k]
    OBVIOUS
  <1>3. f \in OpenFiles /\ f.hdr = x.hdr /\ f.name = x.name
    <2>1. x \in OpenFiles
      BY <1>1
    <2>2. x.seekPosition + k \in Nat
      BY ONLY <2>1, k \in Nat DEF OpenFiles
    <2> QED BY ONLY <1>2, <2>1, <2>2 DEF OpenFiles
  <1>4. DescriptorRight(f, p, fd, d, b, u)
    BY <1>1, <1>3 DEF DescriptorRight
  <1>5. g = [fds EXCEPT ![p][fd] = f]
    BY <1>1, <1>2
  <1>6. u \ {<<p, fd>>} \subseteq u
    OBVIOUS
  <1> QED BY ONLY FilesSound(d, b, fds, u), p \in Process, fd \in Descriptor, <1>4, <1>5,
                  <1>6, DescriptorSet

LEMMA IdleAgain ==
    ASSUME NEW fm, NEW d, NEW b, NEW fds, NEW u, Sound(fm, d, b, fds, u, NoOp),
           NEW g, NEW v, FilesSound(d, b, g, v)
    PROVE  Sound(fm, d, b, g, v, NoOp)
  BY NoOpFacts, NoOpSound

-----------------------------------------------------------------------------
(* Writing *)

LEMMA SectorsOrdered ==
    ASSUME NEW n \in Nat \ {0}, NEW position \in Nat
    PROVE  /\ FirstSector(position) \in Nat /\ LastSector(position, n) \in Nat
           /\ FirstSector(position) <= LastSector(position, n)
  <1>1. SectorSize \in Nat \ {0}
    BY DiskAssumption
  <1>2. PICK x \in Nat : x = position + n - 1 /\ position <= x
    OBVIOUS
  <1>3. position \div SectorSize \in Nat /\ x \div SectorSize \in Nat
    BY ONLY <1>1, position \in Nat, x \in Nat, Division
  <1>4. position \div SectorSize <= x \div SectorSize
    BY ONLY <1>1, <1>2, position \in Nat, x \in Nat, DivisionMonotone
  <1> QED BY <1>2, <1>3, <1>4 DEF FirstSector, LastSector

\* The bytes that WriteAt is not given it reads first.
LEMMA OthersPreserved ==
    ASSUME NEW h, NEW n \in Nat \ {0}, NEW position \in Nat, NEW at \in Nat,
           at \div SectorSize \in FirstSector(position) .. LastSector(position, n),
           at \notin position .. position + n - 1
    PROVE  Preserved(h, n, position, at \div SectorSize)
  <1> DEFINE first == FirstSector(position)
             last == LastSector(position, n)
             i == at \div SectorSize
  <1>0. SectorSize \in Nat \ {0} /\ position + n - 1 \in Nat
    BY DiskAssumption
  <1>1. first \in Nat /\ last \in Nat /\ i \in Nat /\ first <= i /\ i <= last
    BY <1>0, Division DEF FirstSector, LastSector
  <1>2. /\ at = i * SectorSize + (at % SectorSize)
        /\ at % SectorSize \in 0 .. SectorSize - 1
    BY <1>0, Division
  <1>3. CASE at < position
    <2>1. i <= first
      BY <1>0, <1>3, DivisionMonotone DEF FirstSector
    <2>2. i = first
      BY <1>1, <2>1
    <2>3. position # i * SectorSize
      BY <1>0, <1>1, <1>2, <1>3
    <2> QED BY <2>2, <2>3 DEF Preserved
  <1>4. CASE at >= position + n
    <2>1. last <= i
      BY <1>0, <1>4, DivisionMonotone DEF LastSector
    <2>2. i = last
      BY <1>1, <2>1
    <2>3. position + n # (i + 1) * SectorSize
      <3>1. at < i * SectorSize + SectorSize
        BY <1>0, <1>1, <1>2
      <3>2. (i + 1) * SectorSize = i * SectorSize + SectorSize
        BY <1>0, <1>1
      <3> QED BY <1>0, <1>1, <1>4, <3>1, <3>2
    <2> QED BY <2>2, <2>3 DEF Preserved
  <1> QED BY <1>3, <1>4

BufferRight(buf, h, bytes, position) ==
    LET first == FirstSector(position)
        last  == LastSector(position, Len(bytes))
    IN  /\ buf \in Seq(Bytes) /\ Len(buf) = last - first + 1
        /\ \A at \in 0 .. h.numBytes - 1 : at \div SectorSize \in first .. last =>
              buf[at \div SectorSize - first + 1][at % SectorSize] =
                 IF at \in position .. position + Len(bytes) - 1
                 THEN bytes[at - position + 1] ELSE ByteAt(block, h, at)

\* WriteAt writes the bytes it is given and, around them, those of the file.
LEMMA BufferFilled ==
    ASSUME block \in [Sector -> Contents], NEW h, HeaderSound(h), NEW position \in Nat,
           NEW bytes \in Seq(Byte), Len(bytes) > 0, position + Len(bytes) <= h.numBytes,
           NEW junk \in Byte
    PROVE  BufferRight(WriteBuffer(h, bytes, position, junk), h, bytes, position)
  <1> DEFINE n == Len(bytes)
             first == FirstSector(position)
             last == LastSector(position, n)
             Byte1(i, j) ==
               LET at == i * SectorSize + j
               IN  IF at \in position .. position + n - 1 THEN bytes[at - position + 1]
                   ELSE IF Preserved(h, n, position, i) /\ at < h.numBytes
                   THEN AsBytes(block[ByteToSector(h, at)])[j]
                   ELSE junk
             buf == WriteBuffer(h, bytes, position, junk)
  <1>1. /\ SectorSize \in Nat \ {0} /\ n \in Nat \ {0} /\ h.numBytes \in Nat
        /\ position + n - 1 \in Nat
    BY DiskAssumption DEF HeaderSound, Headers
  <1>2. first \in Nat /\ last \in Nat /\ first <= last
    BY <1>1, SectorsOrdered
  <1>3. buf = [i \in 1 .. last - first + 1 |->
                 [j \in 0 .. SectorSize - 1 |-> Byte1(first + i - 1, j)]]
    BY DEF WriteBuffer
  <1>4. ASSUME NEW i \in Nat, NEW j \in 0 .. SectorSize - 1
        PROVE  Byte1(i, j) \in Byte
    <2>1. PICK at \in Nat : at = i * SectorSize + j
      BY <1>1
    <2>2. at \div SectorSize = i /\ at % SectorSize = j
      BY <1>1, <2>1, DivisionUnique
    <2>3. CASE at \in position .. position + n - 1
      <3>1. bytes[at - position + 1] \in Byte
        BY <1>1, <2>3
      <3> QED BY <2>1, <2>3, <3>1
    <2>4. CASE at < h.numBytes
      <3>1. ByteAt(block, h, at) \in Byte
        BY <1>1, <2>4, ByteRead
      <3>2. AsBytes(block[ByteToSector(h, at)])[j] \in Byte
        BY <2>2, <3>1 DEF ByteAt
      <3> QED BY <2>1, <2>3, <2>4, <3>2
    <2> QED BY <2>1, <2>3, <2>4
  <1>5. ASSUME NEW at \in 0 .. h.numBytes - 1, at \div SectorSize \in first .. last
        PROVE  Byte1(at \div SectorSize, at % SectorSize) =
                 IF at \in position .. position + n - 1
                 THEN bytes[at - position + 1] ELSE ByteAt(block, h, at)
    <2>1. at \in Nat /\ at < h.numBytes
      BY <1>1
    <2>2. at = (at \div SectorSize) * SectorSize + (at % SectorSize)
      BY <1>1, <2>1, Division
    <2>3. at \notin position .. position + n - 1 => Preserved(h, n, position, at \div SectorSize)
      BY <1>1, <1>5, <2>1, OthersPreserved
    <2> QED BY <2>1, <2>2, <2>3 DEF ByteAt
  <1> HIDE DEF Byte1, buf
  <1>6. buf \in [1 .. last - first + 1 -> Bytes]
    <2>1. \A i \in 1 .. last - first + 1 : first + i - 1 \in Nat
      BY <1>2
    <2> QED BY <1>3, <1>4, <2>1 DEF Bytes
  <1>7. buf \in Seq(Bytes) /\ Len(buf) = last - first + 1
    <2>1. PICK m \in Nat : m = last - first + 1
      BY <1>2
    <2>2. buf \in [1 .. m -> Bytes]
      BY <1>6, <2>1
    <2>3. buf \in Seq(Bytes) /\ Len(buf) = m
      BY <2>2
    <2> QED BY <2>1, <2>3
  <1>8. ASSUME NEW at \in 0 .. h.numBytes - 1, at \div SectorSize \in first .. last
        PROVE  buf[at \div SectorSize - first + 1][at % SectorSize] =
                 Byte1(at \div SectorSize, at % SectorSize)
    <2>1. PICK i \in first .. last : i = at \div SectorSize
      BY <1>8
    <2>2. PICK j \in 0 .. SectorSize - 1 : j = at % SectorSize
      BY SectorOfByte
    <2>3. i - first + 1 \in 1 .. last - first + 1 /\ first + (i - first + 1) - 1 = i
      BY <1>2
    <2>4. buf[i - first + 1][j] = Byte1(i, j)
      BY <1>3, <2>3
    <2> QED BY <2>1, <2>2, <2>4
  <1> QED BY <1>5, <1>7, <1>8 DEF BufferRight, buf

\* System_Write before its first write.
LEMMA WriteBegins ==
    ASSUME NEW fm, NEW d, NEW fds, NEW u, Sound(fm, d, block, fds, u, NoOp),
           NEW g, FilesSound(d, block, g, u),
           NEW f \in OpenFiles, HeaderCurrent(f.hdr, f.name, d, block),
           NEW bytes \in Seq(Byte), Len(bytes) > 0,
           f.seekPosition + Len(bytes) <= f.hdr.numBytes, NEW junk \in Byte,
           NEW o, o = [kind |-> "write", name |-> f.name, hdr |-> f.hdr,
                       position |-> f.seekPosition, bytes |-> bytes,
                       buf |-> WriteBuffer(f.hdr, bytes, f.seekPosition, junk),
                       next |-> 1, before |-> ReadAt(f.hdr, f.hdr.numBytes, 0)]
    PROVE  Sound(fm, d, block, g, u, o)
  <1>1. /\ TablesSound(d, block) /\ StaleSound(d) /\ fm = Allocated(d, block)
        /\ block \in [Sector -> Contents]
    BY NoOpFacts DEF TablesSound
  <1>2. /\ f.name \in Name /\ f.hdr \in Headers /\ f.seekPosition \in Nat
        /\ HeaderCurrent(f.hdr, f.name, d, block) /\ HeaderSound(f.hdr)
    BY <1>1 DEF OpenFiles
  <1>3. PICK h : h = f.hdr
    OBVIOUS
  <1>4. PICK position \in Nat : position = f.seekPosition
    BY <1>2
  <1>5. PICK buf : buf = WriteBuffer(h, bytes, position, junk)
    OBVIOUS
  <1>6. PICK r : r = ReadAt(h, h.numBytes, 0)
    OBVIOUS
  <1>7. BufferRight(buf, h, bytes, position)
    BY <1>1, <1>2, <1>3, <1>4, <1>5, BufferFilled
  <1>8. /\ r \in Seq(Byte) /\ Len(r) = h.numBytes
        /\ \A j \in 1 .. h.numBytes : r[j] = ByteAt(block, h, j - 1)
    BY <1>1, <1>2, <1>3, <1>6, ReadWhole
  <1>9. /\ o.kind = "write" /\ o.name = f.name /\ o.hdr = h /\ o.position = position
        /\ o.bytes = bytes /\ o.buf = buf /\ o.next = 1 /\ o.before = r
    BY <1>3, <1>4, <1>5, <1>6
  <1>10. o \in [kind : {"write"}, name : Name, hdr : Headers, position : Nat,
                bytes : Seq(Byte), buf : Seq(Bytes), next : Nat, before : Seq(Byte)]
    BY <1>2, <1>3, <1>4, <1>5, <1>6, <1>7, <1>8 DEF BufferRight
  <1>11. BytesSound(o, block)
    <2>1. h.numBytes \in Nat
      BY <1>2, <1>3 DEF HeaderSound, Headers
    <2>2. \A at \in 0 .. h.numBytes - 1 : r[at + 1] = ByteAt(block, h, at)
      BY <1>8, <2>1
    <2>3. \A at \in 0 .. h.numBytes - 1 : NewByte(o, at) =
             IF at \in position .. position + Len(bytes) - 1
             THEN bytes[at - position + 1] ELSE ByteAt(block, h, at)
      BY <1>9, <2>2 DEF NewByte
    <2>4. FirstSector(position) \in Nat /\ Len(buf) \in Nat /\ 1 \in 1 .. Len(buf) + 1
      <3>1. Len(bytes) \in Nat \ {0}
        OBVIOUS
      <3>2. FirstSector(position) \in Nat
        BY <3>1, SectorsOrdered
      <3>3. buf \in Seq(Bytes)
        BY <1>7 DEF BufferRight
      <3> QED BY ONLY <3>2, <3>3
    <2>5. \A at \in 0 .. h.numBytes - 1 :
             at \div SectorSize \notin FirstSector(position) .. FirstSector(position) + o.next - 2
      BY <1>9, <2>4
    <2>6. position + Len(bytes) <= h.numBytes
      BY <1>3, <1>4
    <2>7. ASSUME NEW at \in 0 .. h.numBytes - 1
          PROVE  ByteAt(block, h, at) =
                   IF at \div SectorSize \in FirstSector(position) .. FirstSector(position) + o.next - 2
                   THEN NewByte(o, at) ELSE o.before[at + 1]
      BY <1>9, <2>2, <2>5
    <2>8. \A at \in 0 .. h.numBytes - 1 :
             at \div SectorSize \in FirstSector(position) .. LastSector(position, Len(bytes)) =>
                buf[at \div SectorSize - FirstSector(position) + 1][at % SectorSize]
                   = NewByte(o, at)
      BY <1>7, <2>3 DEF BufferRight
    <2>9. Len(buf) = LastSector(position, Len(bytes)) - FirstSector(position) + 1
      BY <1>7 DEF BufferRight
    <2> QED BY ONLY <1>8, <1>9, <2>4, <2>6, <2>7, <2>8, <2>9, Len(bytes) > 0 DEF BytesSound
  <1>12. WriteSound(o, d, block)
    BY <1>2, <1>3, <1>9, <1>10, <1>11 DEF WriteSound
  <1>13. Unmarked(d, block, o) = {}
    BY <1>9 DEF Unmarked
  <1> QED BY <1>1, <1>12, <1>13 DEF Sound, OperationSound

SectorOf(name, z, d, b) == \E i \in InUse(d) : d[i].name = name /\ z \in Extent(d, b, i)

OneSector(o, b, z, e, x) ==
    /\ o.kind = "write" /\ o.next <= Len(o.buf)
    /\ z = ByteToSector(o.hdr, (FirstSector(o.position) + o.next - 1) * SectorSize)
    /\ e = [b EXCEPT ![z] = Data(o.buf[o.next])]
    /\ x = [o EXCEPT !.next = @ + 1]

\* One sector of a write: it is one of the file's, and not a header.
LEMMA SectorWritten ==
    ASSUME NEW fm, NEW d, NEW b, NEW fds, NEW u, NEW o, Sound(fm, d, b, fds, u, o),
           NEW z, NEW e, NEW x, OneSector(o, b, z, e, x)
    PROVE  /\ Sound(fm, d, e, fds, u, x)
           /\ SameButFor(z, b, e) /\ NoHeaderAt(z, d)
           /\ SectorOf(o.name, z, d, b)
  <1>0. /\ o.kind = "write" /\ o.next <= Len(o.buf)
        /\ z = ByteToSector(o.hdr, (FirstSector(o.position) + o.next - 1) * SectorSize)
        /\ e = [b EXCEPT ![z] = Data(o.buf[o.next])]
        /\ x = [o EXCEPT !.next = @ + 1]
    BY DEF OneSector
  <1>1. /\ WriteSound(o, d, b) /\ TablesSound(d, b) /\ FilesSound(d, b, fds, u)
        /\ StaleSound(d)
    BY <1>0, WriteKind DEF Sound
  <1>2. fm = Allocated(d, b)
    BY <1>0 DEF Sound, Unmarked
  <1>3. PICK i \in InUse(d) : d[i].name = o.name /\ FindIndex(d, o.name) = {i}
                              /\ o.hdr = b[d[i].sector] /\ HeaderSound(o.hdr)
    BY <1>1, CurrentFacts DEF WriteSound
  <1>4. PICK h : h = o.hdr
    OBVIOUS
  <1>5. PICK m \in Nat : m = o.next
    BY <1>1 DEF WriteSound
  <1>6. PICK buf \in Seq(Bytes) : buf = o.buf
    BY <1>1 DEF WriteSound
  <1>7. PICK position \in Nat : position = o.position
    BY <1>1 DEF WriteSound
  <1>8. PICK n \in Nat \ {0} : n = Len(o.bytes)
    <2>1. o.bytes \in Seq(Byte)
      BY <1>1 DEF WriteSound
    <2>2. Len(o.bytes) > 0
      BY <1>1 DEF WriteSound, BytesSound
    <2> QED BY ONLY <2>1, <2>2
  <1>9. PICK first \in Nat, last \in Nat :
           first = FirstSector(position) /\ last = LastSector(position, n) /\ first <= last
    BY SectorsOrdered
  <1>10. /\ position + n <= h.numBytes /\ h.numBytes \in Nat /\ HeaderSound(h)
         /\ Len(buf) = last - first + 1 /\ m \in 1 .. Len(buf)
    <2>1. h.numBytes \in Nat /\ HeaderSound(h)
      BY <1>3, <1>4 DEF HeaderSound, Headers
    <2>2. BytesSound(o, b)
      BY <1>1 DEF WriteSound
    <2> QED BY <1>0, <1>4, <1>5, <1>6, <1>7, <1>8, <1>9, <2>1, <2>2 DEF BytesSound
  \* The sector's number in the file.
  <1>11. PICK k \in first .. last : k = first + m - 1
    BY <1>10
  <1>12. z = h.dataSectors[k + 1] /\ k + 1 \in 1 .. Len(h.dataSectors)
    <2>1. SectorSize \in Nat \ {0} /\ k \in Nat
      BY DiskAssumption
    <2>2. (k * SectorSize + 0) \div SectorSize = k
      BY <2>1, DivisionUnique
    <2>3. k * SectorSize + 0 = k * SectorSize
      BY <2>1
    <2>4. z = h.dataSectors[k + 1]
      BY <1>0, <1>4, <1>5, <1>7, <1>9, <1>11, <2>2, <2>3 DEF ByteToSector
    <2>5. PICK at \in 0 .. h.numBytes - 1 : at = position + n - 1
      BY ONLY <1>10, position \in Nat, n \in Nat \ {0}
    <2>6. last + 1 \in 1 .. Len(h.dataSectors)
      BY <1>9, <1>10, <2>5, SectorOfByte DEF LastSector
    <2> QED BY ONLY <2>1, <2>4, <2>6, first \in Nat, last \in Nat, k \in first .. last
  <1>13. z \in Range(h.dataSectors) /\ z \in Sector /\ h.dataSectors \in Seq(Sector)
    BY <1>10, <1>12, SequenceRange DEF HeaderSound, Headers
  <1>14. z \in Extent(d, b, i) /\ d[i].sector # z
    BY <1>1, <1>3, <1>4, <1>13, EntryFacts
  <1>15. NoHeaderAt(z, d)
    <2> SUFFICES ASSUME NEW j \in InUse(d), j # i PROVE d[j].sector # z
      BY <1>14 DEF NoHeaderAt
    <2>1. d[j].sector \in Extent(d, b, j)
      BY <1>1, EntryFacts
    <2>2. Extent(d, b, i) \cap Extent(d, b, j) = {}
      BY <1>1 DEF TablesSound, DiskSound
    <2> QED BY <1>14, <2>1, <2>2
  <1>16. buf[m] \in Bytes
    BY <1>10
  <1>17. SameButFor(z, b, e) /\ e[z] = Data(buf[m])
    <2>1. PICK c : c = Data(buf[m])
      OBVIOUS
    <2>2. c \in Contents
      BY <1>16, <2>1 DEF Contents, Data
    <2>3. e = [b EXCEPT ![z] = c] /\ b \in [Sector -> Contents]
      BY <1>0, <1>1, <1>5, <1>6, <2>1 DEF TablesSound
    <2> QED BY ONLY <1>13, <2>1, <2>2, <2>3 DEF SameButFor
  <1>18. /\ TablesSound(d, e) /\ Allocated(d, e) = Allocated(d, b)
         /\ \A j \in InUse(d) : e[d[j].sector] = b[d[j].sector]
    <2>1. TablesSound(d, b) /\ SameButFor(z, b, e)
      BY <1>1, <1>17
    <2> QED BY ONLY <1>15, <2>1, OtherBlock
  <1>19. FilesSound(d, e, fds, u)
    <2>1. \A name : FindIndex(d, name) \subseteq InUse(d)
      BY <1>1 DEF FindIndex, InUse, TablesSound, Tables
    <2> QED BY <1>1, <1>18, <2>1, FilesUntouched
  <1>20. /\ x \in [kind : {"write"}, name : Name, hdr : Headers, position : Nat,
                   bytes : Seq(Byte), buf : Seq(Bytes), next : Nat, before : Seq(Byte)]
         /\ x.kind = "write" /\ x.name = o.name /\ x.hdr = o.hdr /\ x.position = o.position
         /\ x.bytes = o.bytes /\ x.buf = o.buf /\ x.next = o.next + 1 /\ x.before = o.before
    <2>1. o \in [kind : {"write"}, name : Name, hdr : Headers, position : Nat,
                 bytes : Seq(Byte), buf : Seq(Bytes), next : Nat, before : Seq(Byte)]
      BY <1>1 DEF WriteSound
    <2>2. PICK c \in Nat : c = o.next + 1
      BY <1>5
    <2>3. x = [o EXCEPT !.next = c]
      BY <1>0, <2>2
    <2>4. x \in [kind : {"write"}, name : Name, hdr : Headers, position : Nat,
                 bytes : Seq(Byte), buf : Seq(Bytes), next : Nat, before : Seq(Byte)]
      BY ONLY <2>1, <2>3, c \in Nat
    <2>5. /\ x.kind = "write" /\ x.name = o.name /\ x.hdr = o.hdr /\ x.position = o.position
          /\ x.bytes = o.bytes /\ x.buf = o.buf /\ x.next = c /\ x.before = o.before
      BY ONLY <2>1, <2>3
    <2> QED BY ONLY <2>2, <2>4, <2>5
  <1>21. HeaderCurrent(x.hdr, x.name, d, e)
    BY <1>3, <1>18, <1>20 DEF HeaderCurrent
  <1>22. ASSUME NEW at \in 0 .. h.numBytes - 1
         PROVE  ByteAt(e, h, at) = IF at \div SectorSize = k THEN buf[m][at % SectorSize]
                                   ELSE ByteAt(b, h, at)
    <2>1. /\ at \div SectorSize + 1 \in 1 .. Len(h.dataSectors) /\ at \div SectorSize \in Nat
          /\ ByteToSector(h, at) = h.dataSectors[at \div SectorSize + 1]
          /\ ByteToSector(h, at) \in Sector
      BY <1>10, SectorOfByte
    <2>2. CASE at \div SectorSize = k
      <3>1. ByteToSector(h, at) = z
        BY <1>12, <2>1, <2>2
      <3>2. AsBytes(e[z]) = buf[m]
        BY <1>17 DEF AsBytes, Data
      <3> QED BY <2>2, <3>1, <3>2 DEF ByteAt
    <2>3. CASE at \div SectorSize # k
      <3>1. at \div SectorSize + 1 # k + 1
        BY <2>1, <2>3
      <3>2. ByteToSector(h, at) # z
        BY <1>10, <1>12, <2>1, <3>1 DEF HeaderSound
      <3>3. e[ByteToSector(h, at)] = b[ByteToSector(h, at)]
        BY <1>17, <2>1, <3>2 DEF SameButFor
      <3> QED BY <2>3, <3>3 DEF ByteAt
    <2> QED BY <2>2, <2>3
  <1>23. BytesSound(x, e)
    <2>0. BytesSound(o, b)
      BY <1>1 DEF WriteSound
    <2>1. \A at : NewByte(x, at) = NewByte(o, at)
      BY <1>20 DEF NewByte
    <2>2. ASSUME NEW at \in 0 .. h.numBytes - 1
          PROVE  ByteAt(e, h, at) =
                    IF at \div SectorSize \in first .. first + (m + 1) - 2
                    THEN NewByte(x, at) ELSE o.before[at + 1]
      <3>1. at \div SectorSize \in Nat
        BY <1>10, SectorOfByte
      <3>2. CASE at \div SectorSize = k
        <4>1. buf[k - first + 1][at % SectorSize] = NewByte(o, at)
          BY <1>4, <1>6, <1>7, <1>8, <1>9, <2>0, <3>2 DEF BytesSound
        <4>2. k - first + 1 = m /\ k \in first .. first + (m + 1) - 2
          BY ONLY <1>11, first \in Nat, last \in Nat, m \in Nat, k \in first .. last
        <4> QED BY <1>22, <2>1, <3>2, <4>1, <4>2
      <3>3. CASE at \div SectorSize # k
        <4>1. ByteAt(b, h, at) = IF at \div SectorSize \in first .. first + m - 2
                                 THEN NewByte(o, at) ELSE o.before[at + 1]
          BY <1>4, <1>5, <1>7, <1>9, <2>0 DEF BytesSound
        <4>2. at \div SectorSize \in first .. first + m - 2
                 <=> at \div SectorSize \in first .. first + (m + 1) - 2
          BY ONLY <1>11, <3>1, <3>3, first \in Nat, m \in Nat
        <4> QED BY <1>22, <2>1, <3>3, <4>1, <4>2
      <3> QED BY <3>2, <3>3
    <2>3. x.next = m + 1 /\ m + 1 \in 1 .. Len(buf) + 1
      <3>1. x.next = m + 1
        BY ONLY <1>5, <1>20
      <3>2. Len(buf) \in Nat
        OBVIOUS
      <3> QED BY ONLY <1>10, <3>1, <3>2, m \in Nat
    <2>4. x.hdr = h /\ x.position = position /\ Len(x.bytes) = n /\ x.buf = buf
      BY <1>4, <1>6, <1>7, <1>8, <1>20
    <2>5. Len(x.before) = h.numBytes /\ x.before = o.before
      BY <1>4, <1>20, <2>0 DEF BytesSound
    <2>6. \A at \in 0 .. h.numBytes - 1 : at \div SectorSize \in first .. last =>
             buf[at \div SectorSize - first + 1][at % SectorSize] = NewByte(x, at)
      BY <1>4, <1>6, <1>7, <1>8, <1>9, <2>0, <2>1 DEF BytesSound
    <2>7. Len(x.bytes) > 0 /\ x.position + Len(x.bytes) <= x.hdr.numBytes
      BY ONLY <1>10, n \in Nat \ {0}, <2>4
    <2>8. /\ FirstSector(x.position) = first /\ LastSector(x.position, Len(x.bytes)) = last
          /\ Len(x.buf) = last - first + 1 /\ x.next \in 1 .. Len(x.buf) + 1
      BY ONLY <1>9, <1>10, <2>3, <2>4
    <2>9. \A at \in 0 .. x.hdr.numBytes - 1 :
              /\ at \div SectorSize \in first .. last =>
                    x.buf[at \div SectorSize - first + 1][at % SectorSize] = NewByte(x, at)
              /\ ByteAt(e, x.hdr, at) =
                    IF at \div SectorSize \in first .. first + x.next - 2
                    THEN NewByte(x, at) ELSE x.before[at + 1]
      BY ONLY <2>2, <2>3, <2>4, <2>5, <2>6
    <2>10. Len(x.before) = x.hdr.numBytes
      BY <2>4, <2>5
    <2> QED BY ONLY <2>7, <2>8, <2>9, <2>10 DEF BytesSound
  <1>24. WriteSound(x, d, e)
    BY <1>20, <1>21, <1>23 DEF WriteSound
  <1>25. Unmarked(d, e, x) = {}
    BY <1>20 DEF Unmarked
  <1>26. Sound(fm, d, e, fds, u, x)
    BY <1>1, <1>2, <1>18, <1>19, <1>24, <1>25 DEF Sound, OperationSound
  <1>27. SectorOf(o.name, z, d, b)
    BY <1>3, <1>14 DEF SectorOf
  <1> QED BY <1>15, <1>17, <1>26, <1>27

-----------------------------------------------------------------------------
(* The invariant *)

LEMMA InitInvariant == Init => IInv
  <1> SUFFICES ASSUME Init PROVE IInv
    OBVIOUS
  <1>1. directory \in Tables /\ InUse(directory) = {}
    <2>1. 0 \in Sector
      BY DiskAssumption DEF Sector
    <2>2. PICK junk \in [1 .. NumDirEntries -> Name \cup {NoName}] :
             directory = [i \in 1 .. NumDirEntries |->
                            [inUse |-> FALSE, name |-> junk[i], sector |-> 0]]
      BY DEF Init
    <2> QED BY <2>1, <2>2 DEF Tables, DirectoryEntry, InUse
  <1>2. block \in [Sector -> Contents]
    <2>1. PICK c \in Byte : block = [s \in Sector |-> Data([j \in 0 .. SectorSize - 1 |-> c])]
      BY DEF Init
    <2>2. Data([j \in 0 .. SectorSize - 1 |-> c]) \in Contents
      BY DEF Data, Contents, Bytes
    <2> QED BY <2>1, <2>2
  <1>3. TablesSound(directory, block)
    BY <1>1, <1>2 DEF TablesSound, DiskSound
  <1>4. freeMap = Allocated(directory, block)
    BY <1>1 DEF Allocated, Init
  <1>5. FilesSound(directory, block, FDTable, unlinked)
    <2>1. FDTable = [p \in Process |-> [fd \in Descriptor |-> Closed]]
      BY DEF Init
    <2>2. FDTable \in FDTables
      BY <2>1 DEF FDTables
    <2>3. \A p \in Process, fd \in Descriptor : ~FDTable[p][fd].open
      BY <2>1 DEF Closed
    <2> QED BY <2>2, <2>3 DEF FilesSound
  <1>6. StaleSound(directory)
    BY <1>1 DEF StaleSound
  <1>7. op = NoOp /\ ~BetweenSectors(op)
    BY DEF Init, BetweenSectors, NoOp
  <1>8. Seen = directory /\ OnDisk(directory, block, op)
    BY <1>1, <1>7 DEF Seen, BetweenSectors, OnDisk
  <1> QED BY <1>3, <1>4, <1>5, <1>6, <1>7, <1>8, NoOpSound DEF IInv

\* Most of the time there is one directory.
LEMMA OneDirectory ==
    ASSUME IInv, ~BetweenSectors(op)
    PROVE  /\ Seen = directory /\ directory \in Tables
           /\ Sound(freeMap, directory, block, FDTable, unlinked, op)
  <1>1. Seen = directory
    BY DEF Seen, BetweenSectors
  <1> QED BY <1>1 DEF IInv, OnDisk

\* Every step of the file system keeps it, if no program writes to a file that was
\* removed since it opened it.
LEMMA StepInvariant ==
    ASSUME IInv, [CarefulNext]_vars
    PROVE  IInv'
  <1>0. ASSUME Sound(freeMap', directory', block', FDTable', unlinked', op'),
               directory' \in Tables, ~BetweenSectors(op')
        PROVE  IInv'
    <2>1. Seen' = directory' /\ OnDisk(directory', block', op')
      BY <1>0 DEF Seen, BetweenSectors, OnDisk
    <2> QED BY <1>0, <2>1 DEF IInv
  <1>one. ASSUME ~BetweenSectors(op)
          PROVE  /\ directory \in Tables
                 /\ Sound(freeMap, directory, block, FDTable, unlinked, op)
    BY <1>one, OneDirectory
  <1>none. ~BetweenSectors(NoOp)
    BY DEF BetweenSectors, NoOp
  <1>1. ASSUME Idle
        PROVE  /\ Sound(freeMap, directory, block, FDTable, unlinked, NoOp)
               /\ TablesSound(directory, block) /\ FilesSound(directory, block, FDTable, unlinked)
               /\ block \in [Sector -> Contents] /\ directory \in Tables
    <2>1. Sound(freeMap, directory, block, FDTable, unlinked, NoOp)
      <3>1. op = NoOp /\ ~BetweenSectors(op)
        BY <1>1, <1>none DEF Idle
      <3> QED BY <1>one, <3>1
    <2> QED BY <2>1, NoOpFacts DEF TablesSound
  <1>2. ASSUME NEW name \in Name, NEW n \in Sizes, Create(name, n)
        PROVE  IInv'
    <2>1. PICK s : s = Min(Clear(freeMap))
      OBVIOUS
    <2>2. PICK a : a = Allocate(freeMap \cup {s}, n)
      OBVIOUS
    <2>3. Sound(freeMap, directory, block, FDTable, unlinked, NoOp)
      BY <1>1, <1>2 DEF Create
    <2>4. /\ a.ok
          /\ op' = [kind |-> "create", step |-> "header", name |-> name, sector |-> s,
                    hdr |-> a.hdr, map |-> a.map, table |-> Add(directory, name, s)]
      BY <1>2, <2>1, <2>2 DEF Create
    <2>5. FindIndex(directory, name) = {} /\ Clear(freeMap) # {} /\ Unused(directory) # {}
      BY <1>2 DEF Create
    <2>6. Sound(freeMap, directory, block, FDTable, unlinked, op')
      BY <2>1, <2>2, <2>3, <2>4, <2>5, CreateBegins
    <2>7. directory \in Tables /\ ~BetweenSectors(op')
      BY <1>1, <1>2, <2>4 DEF Create, BetweenSectors
    <2> QED BY <1>0, <1>2, <2>6, <2>7 DEF Create
  <1>3. CASE CreateHeader
    <2>1. /\ directory \in Tables
          /\ Sound(freeMap, directory, block, FDTable, unlinked, op)
      <3>1. ~BetweenSectors(op)
        BY <1>3 DEF CreateHeader, BetweenSectors
      <3> QED BY <1>one, <3>1
    <2>2. PICK x : x = [op EXCEPT !.step = "directory"] /\ op' = x
      BY <1>3 DEF CreateHeader
    <2>3. Sound(freeMap, directory, block', FDTable, unlinked, x)
      BY <1>3, <2>1, <2>2, HeaderWritten DEF CreateHeader
    <2>4. ~BetweenSectors(x)
      <3>1. op.step = "header" /\ CreateSound(op, freeMap, directory, block)
        BY <1>3, <2>1, CreateKind DEF CreateHeader
      <3>2. x.step = "directory"
        BY <2>2, <3>1 DEF CreateSound
      <3> QED BY <3>2 DEF BetweenSectors
    <2> QED BY <1>0, <1>3, <2>1, <2>2, <2>3, <2>4 DEF CreateHeader
  <1>4. CASE CreateDirectory
    <2>1. Sound(freeMap, directory, block, FDTable, unlinked, op)
      <3>1. ~BetweenSectors(op)
        BY <1>4 DEF CreateDirectory, BetweenSectors
      <3> QED BY <1>one, <3>1
    <2>2. PICK x : x = [op EXCEPT !.step = "rest"] /\ op' = x
      BY <1>4 DEF CreateDirectory
    <2>3. /\ Sound(freeMap, op.table, block, FDTable, unlinked, x) /\ x.table = op.table
          /\ OnDisk(directory', block, x)
      BY <1>4, <2>1, <2>2, EntryWritten DEF CreateDirectory
    <2>4. x.kind = "create" /\ x.step = "rest"
      BY <1>4, <2>1, <2>2, CreateKind DEF CreateDirectory, CreateSound
    <2>5. Seen' = op.table
      BY <2>2, <2>3, <2>4 DEF Seen
    <2> QED BY <1>4, <2>2, <2>3, <2>5 DEF CreateDirectory, IInv
  <1>5. CASE CreateDirectoryRest
    <2>1. Seen = op.table /\ Sound(freeMap, op.table, block, FDTable, unlinked, op)
      BY <1>5 DEF Seen, IInv, CreateDirectoryRest
    <2>2. PICK x : x = [op EXCEPT !.step = "map"] /\ op' = x
      BY <1>5 DEF CreateDirectoryRest
    <2>3. Sound(freeMap, op.table, block, FDTable, unlinked, x) /\ ~BetweenSectors(x)
      BY <1>5, <2>1, <2>2, RestWritten DEF CreateDirectoryRest
    <2>4. op.table \in Tables
      BY <2>1 DEF Sound, TablesSound
    <2> QED BY <1>0, <1>5, <2>2, <2>3, <2>4 DEF CreateDirectoryRest
  <1>6. CASE CreateMap
    <2>1. Sound(freeMap, directory, block, FDTable, unlinked, op) /\ directory \in Tables
      <3>1. ~BetweenSectors(op)
        BY <1>6 DEF CreateMap, BetweenSectors
      <3> QED BY <1>one, <3>1
    <2>2. Sound(op.map, directory, block, FDTable, unlinked, NoOp)
      BY <1>6, <2>1, SectorsMarked DEF CreateMap
    <2> QED BY <1>0, <1>6, <1>none, <2>1, <2>2 DEF CreateMap
  <1>7. ASSUME NEW name \in Name, System_Unlink(name)
        PROVE  IInv'
    <2>1. /\ Sound(freeMap, directory, block, FDTable, unlinked, NoOp)
          /\ TablesSound(directory, block) /\ directory \in Tables
      BY <1>1, <1>7 DEF System_Unlink, RemoveFile
    <2>2. FindIndex(directory, name) # {}
      BY <1>7 DEF System_Unlink, RemoveFile
    <2>3. unlinked \subseteq unlinked' /\ OpenRemoved(name, FDTable, unlinked')
      BY <1>7 DEF System_Unlink, OpenRemoved
    <2>4. RemovedMap(name) = freeMap \ SpanOf(directory, block, name)
      BY <2>1, <2>2, SectorsGivenBack
    <2>5. op' = [kind |-> "remove", step |-> "map", name |-> name,
                 map |-> freeMap \ SpanOf(directory, block, name),
                 table |-> RemoveEntry(directory, name)]
      BY <1>7, <2>4 DEF System_Unlink, RemoveFile
    <2>6. Sound(freeMap, directory, block, FDTable, unlinked', op')
      BY <2>1, <2>2, <2>3, <2>5, RemoveBegins
    <2>7. ~BetweenSectors(op')
      BY <2>5 DEF BetweenSectors
    <2> QED BY <1>0, <1>7, <2>1, <2>6, <2>7 DEF System_Unlink, RemoveFile
  <1>8. CASE RemoveMap
    <2>1. Sound(freeMap, directory, block, FDTable, unlinked, op) /\ directory \in Tables
      <3>1. ~BetweenSectors(op)
        BY <1>8 DEF RemoveMap, BetweenSectors
      <3> QED BY <1>one, <3>1
    <2>2. PICK x : x = [op EXCEPT !.step = "directory"] /\ op' = x
      BY <1>8 DEF RemoveMap
    <2>3. Sound(op.map, directory, block, FDTable, unlinked, x)
      BY <1>8, <2>1, <2>2, SectorsCleared DEF RemoveMap
    <2>4. ~BetweenSectors(x)
      <3>1. RemoveSound(op, freeMap, directory, block, FDTable, unlinked)
        BY <1>8, <2>1, RemoveKind DEF RemoveMap
      <3>2. x.step = "directory"
        BY <2>2, <3>1 DEF RemoveSound
      <3> QED BY <3>2 DEF BetweenSectors
    <2> QED BY <1>0, <1>8, <2>1, <2>2, <2>3, <2>4 DEF RemoveMap
  <1>8a. CASE RemoveDirectory
    <2>1. Sound(freeMap, directory, block, FDTable, unlinked, op)
      <3>1. ~BetweenSectors(op)
        BY <1>8a DEF RemoveDirectory, BetweenSectors
      <3> QED BY <1>one, <3>1
    <2>2. PICK x : x = [op EXCEPT !.step = "rest"] /\ op' = x
      BY <1>8a DEF RemoveDirectory
    <2>3. /\ Sound(freeMap, op.table, block, FDTable, unlinked, x) /\ x.table = op.table
          /\ OnDisk(directory', block, x)
      BY <1>8a, <2>1, <2>2, EntryRemoved DEF RemoveDirectory
    <2>4. x.kind = "remove" /\ x.step = "rest"
      BY <1>8a, <2>1, <2>2, RemoveKind DEF RemoveDirectory, RemoveSound
    <2>5. Seen' = op.table
      BY <2>2, <2>3, <2>4 DEF Seen
    <2> QED BY <1>8a, <2>2, <2>3, <2>5 DEF RemoveDirectory, IInv
  <1>8b. CASE RemoveDirectoryRest
    <2>1. Seen = op.table /\ Sound(freeMap, op.table, block, FDTable, unlinked, op)
      BY <1>8b DEF Seen, IInv, RemoveDirectoryRest
    <2>2. Sound(freeMap, op.table, block, FDTable, unlinked, NoOp)
      BY <1>8b, <2>1, RemoveEnds DEF RemoveDirectoryRest
    <2>3. op.table \in Tables
      BY <2>1 DEF Sound, TablesSound
    <2> QED BY <1>0, <1>8b, <1>none, <2>2, <2>3 DEF RemoveDirectoryRest
  <1>9. ASSUME Idle, UNCHANGED <<freeMap, directory, block, op>>,
               FilesSound(directory, block, FDTable', unlinked')
        PROVE  IInv'
    <2>1. Sound(freeMap, directory, block, FDTable', unlinked', NoOp)
      BY <1>1, <1>9, IdleAgain
    <2>2. op' = NoOp /\ directory \in Tables
      BY <1>1, <1>9 DEF Idle
    <2> QED BY <1>0, <1>9, <1>none, <2>1, <2>2
  <1>10. ASSUME NEW p \in Process, NEW name \in Name, Open(p, name)
         PROVE  IInv'
    <2>1. PICK fd \in Descriptor : fd = Min(Available(p))
      <3>1. Available(p) \in SUBSET Nat /\ Available(p) # {} /\ Available(p) \subseteq Descriptor
        BY <1>10, DiskAssumption DEF Available, Descriptor, Open
      <3> QED BY <3>1, MinOfNaturals
    <2>2. /\ OpenFile(name) \in OpenFiles
          /\ HeaderCurrent(OpenFile(name).hdr, OpenFile(name).name, directory, block)
      <3>1. PICK i \in InUse(directory) :
               directory[i].name = name /\ FindIndex(directory, name) = {i}
        BY <1>1, <1>10, NameFacts DEF Open
      <3>2. PICK h : h = block[directory[i].sector]
        OBVIOUS
      <3>3. h \in Headers /\ HeaderSound(h) /\ AsHeader(block[Find(directory, name)]) = h
        BY <1>1, <1>10, <3>1, <3>2, EntryFacts DEF Open, HeaderSound
      <3>4. HeaderCurrent(h, name, directory, block)
        BY <3>1, <3>2 DEF HeaderCurrent
      <3> QED BY <3>3, <3>4 DEF OpenFile, OpenFiles
    <2>3. PICK f : f = OpenFile(name)
      OBVIOUS
    <2>4. /\ FilesSound(directory, block, FDTable, unlinked)
          /\ DescriptorRight(f, p, fd, directory, block, unlinked)
          /\ unlinked \ {<<p, fd>>} \subseteq unlinked
      BY <1>1, <1>10, <2>2, <2>3 DEF Open, DescriptorRight
    <2>5. FDTable' = [FDTable EXCEPT ![p][fd] = f]
      BY <1>10, <2>1, <2>3 DEF Open, setFD
    <2>6. FilesSound(directory, block, FDTable', unlinked)
      BY ONLY <2>4, <2>5, p \in Process, fd \in Descriptor, DescriptorSet
    <2> QED BY <1>9, <1>10, <2>6 DEF Open
  <1>11. ASSUME NEW p \in Process, NEW fd \in Descriptor, NEW n \in 1 .. SectorSize + 1,
                Read(p, fd, n)
         PROVE  IInv'
    <2>1. /\ TablesSound(directory, block) /\ FilesSound(directory, block, FDTable, unlinked)
          /\ FDTable[p][fd].open /\ block \in [Sector -> Contents]
      BY <1>1, <1>11 DEF Read
    <2>2. PICK f : f = FDTable[p][fd] /\ HeaderSound(f.hdr) /\ f \in OpenFiles
      BY <2>1, OpenFacts
    <2>3. f.seekPosition \in Nat /\ n \in Nat
      <3>1. f \in OpenFiles /\ n \in Int /\ n >= 1
        BY <2>2, DiskAssumption
      <3> QED BY ONLY <3>1 DEF OpenFiles
    <2>4. PICK k \in Nat : k = Len(ReadAt(f.hdr, n, f.seekPosition))
      <3>1. PICK h : h = f.hdr
        OBVIOUS
      <3>2. PICK position : position = f.seekPosition
        OBVIOUS
      <3>3. block \in [Sector -> Contents] /\ HeaderSound(h) /\ n \in Nat /\ position \in Nat
        BY <2>1, <2>2, <2>3, <3>1, <3>2
      <3>4. /\ TransferRight(Transfer(h, n, position), h, n, position)
            /\ ReadRight(ReadAt(h, n, position), Transfer(h, n, position), h, position)
        BY ONLY <3>3, ReadBytes
      <3>5. Len(ReadAt(h, n, position)) \in Nat
        BY ONLY <3>4 DEF ReadRight, TransferRight
      <3> QED BY <3>1, <3>2, <3>5
    <2>5. FDTable' = [FDTable EXCEPT ![p][fd].seekPosition = @ + k]
      BY <1>11, <2>2, <2>4 DEF Read
    <2>6. FilesSound(directory, block, FDTable', unlinked)
      BY <2>1, <2>5, PositionMoved
    <2> QED BY <1>9, <1>11, <2>6 DEF Read
  <1>12. ASSUME NEW p \in Process, NEW fd \in Descriptor, NEW n \in 1 .. SectorSize + 1,
                NEW c \in Byte, <<p, fd>> \notin unlinked, Write(p, fd, [i \in 1 .. n |-> c])
         PROVE  IInv'
    <2> DEFINE given == [i \in 1 .. n |-> c]
    <2>1. /\ TablesSound(directory, block) /\ FilesSound(directory, block, FDTable, unlinked)
          /\ FDTable[p][fd].open /\ block \in [Sector -> Contents]
          /\ Sound(freeMap, directory, block, FDTable, unlinked, NoOp)
          /\ directory \in Tables
      BY <1>1, <1>12 DEF Write
    <2>2. PICK f : /\ f = FDTable[p][fd] /\ HeaderSound(f.hdr) /\ f \in OpenFiles
                   /\ HeaderCurrent(f.hdr, f.name, directory, block)
      BY <1>12, <2>1, OpenFacts
    <2>3. f.seekPosition \in Nat /\ n \in Nat
      <3>1. f \in OpenFiles /\ n \in Int /\ n >= 1
        BY <2>2, DiskAssumption
      <3> QED BY ONLY <3>1 DEF OpenFiles
    <2>4. given \in Seq(Byte) /\ Len(given) = n
      BY <2>3
    <2> HIDE DEF given
    <2>5. PICK k : k = Transfer(f.hdr, Len(given), f.seekPosition)
      OBVIOUS
    <2>6. /\ k > 0
          /\ \E junk \in Byte :
                 op' = [kind |-> "write", name |-> f.name, hdr |-> f.hdr,
                        position |-> f.seekPosition, bytes |-> SubSeq(given, 1, k),
                        buf |-> WriteBuffer(f.hdr, SubSeq(given, 1, k), f.seekPosition, junk),
                        next |-> 1, before |-> ReadAt(f.hdr, f.hdr.numBytes, 0)]
          /\ FDTable' = [FDTable EXCEPT ![p][fd].seekPosition = @ + k]
          /\ UNCHANGED <<freeMap, directory, block, unlinked>>
      BY <1>12, <2>2, <2>5 DEF Write, given
    <2>7. /\ k \in Nat /\ k <= n /\ f.seekPosition + k <= f.hdr.numBytes
      BY <2>1, <2>2, <2>3, <2>4, <2>5, <2>6, ReadBytes DEF TransferRight
    <2>8. PICK bytes : bytes = SubSeq(given, 1, k)
      OBVIOUS
    <2>9. bytes \in Seq(Byte) /\ Len(bytes) = k
      BY <2>4, <2>6, <2>7, <2>8
    <2>10. PICK junk \in Byte :
                 op' = [kind |-> "write", name |-> f.name, hdr |-> f.hdr,
                        position |-> f.seekPosition, bytes |-> bytes,
                        buf |-> WriteBuffer(f.hdr, bytes, f.seekPosition, junk),
                        next |-> 1, before |-> ReadAt(f.hdr, f.hdr.numBytes, 0)]
      BY <2>6, <2>8
    <2>11. FilesSound(directory, block, FDTable', unlinked)
      BY <2>1, <2>6, <2>7, PositionMoved
    <2>12. Len(bytes) > 0 /\ f.seekPosition + Len(bytes) <= f.hdr.numBytes
      BY <2>6, <2>7, <2>9
    <2>13. f \in OpenFiles /\ HeaderCurrent(f.hdr, f.name, directory, block) /\ bytes \in Seq(Byte)
      BY <2>2, <2>9
    <2>14. Sound(freeMap, directory, block, FDTable, unlinked, NoOp)
      BY <2>1
    <2>15. Sound(freeMap, directory, block, FDTable', unlinked, op')
      BY ONLY <2>10, <2>11, <2>12, <2>13, <2>14, WriteBegins
    <2>16. ~BetweenSectors(op')
      BY <2>10 DEF BetweenSectors
    <2> QED BY <1>0, <2>1, <2>6, <2>15, <2>16
  <1>13. CASE WriteSector
    <2>1. PICK z : z = ByteToSector(op.hdr, (FirstSector(op.position) + op.next - 1) * SectorSize)
      OBVIOUS
    <2>2. /\ op.kind = "write" /\ op.next <= Len(op.buf)
          /\ block' = [block EXCEPT ![z] = Data(op.buf[op.next])]
          /\ op' = [op EXCEPT !.next = @ + 1] /\ UNCHANGED <<freeMap, directory, FDTable, unlinked>>
      BY <1>13, <2>1 DEF WriteSector
    <2>3. Sound(freeMap, directory, block, FDTable, unlinked, op) /\ directory \in Tables
      <3>1. ~BetweenSectors(op)
        BY <2>2 DEF BetweenSectors
      <3> QED BY <1>one, <3>1
    <2>4. Sound(freeMap, directory, block', FDTable, unlinked, op')
      <3>1. OneSector(op, block, z, block', op')
        BY <2>1, <2>2 DEF OneSector
      <3> QED BY <2>3, <3>1, SectorWritten
    <2>5. op'.kind = "write"
      BY <2>2, <2>3, WriteKind DEF WriteSound
    <2>6. ~BetweenSectors(op')
      BY <2>5 DEF BetweenSectors
    <2> QED BY <1>0, <2>2, <2>3, <2>4, <2>6
  <1>14. CASE WriteReturns
    <2>1. Unmarked(directory, block, op) = {}
      BY <1>14 DEF WriteReturns, Unmarked
    <2>2. /\ freeMap = Allocated(directory, block) /\ TablesSound(directory, block)
          /\ StaleSound(directory) /\ directory \in Tables
          /\ FilesSound(directory, block, FDTable, unlinked)
      <3>1. ~BetweenSectors(op)
        BY <1>14 DEF BetweenSectors, WriteReturns
      <3>2. Sound(freeMap, directory, block, FDTable, unlinked, op) /\ directory \in Tables
        BY <1>one, <3>1
      <3> QED BY <2>1, <3>2 DEF Sound
    <2>3. Sound(freeMap, directory, block, FDTable, unlinked, NoOp)
      BY <2>2, NoOpSound
    <2> QED BY <1>0, <1>14, <1>none, <2>2, <2>3 DEF WriteReturns
  <1>15. ASSUME NEW p \in Process, NEW fd \in Descriptor, Close(p, fd)
         PROVE  IInv'
    <2>1. FilesSound(directory, block, FDTable, unlinked)
      BY <1>1, <1>15 DEF Close
    <2>2. FDTable' = [FDTable EXCEPT ![p][fd] = Closed]
      BY <1>15 DEF Close, setFD
    <2>3. /\ unlinked \ {<<p, fd>>} \subseteq unlinked'
          /\ DescriptorRight(Closed, p, fd, directory, block, unlinked')
      BY <1>15 DEF Close, DescriptorRight
    <2>4. FilesSound(directory, block, FDTable', unlinked')
      BY ONLY <2>1, <2>2, <2>3, p \in Process, fd \in Descriptor, DescriptorSet
    <2> QED BY <1>9, <1>15, <2>4 DEF Close
  <1>16. ASSUME NEW p \in Process, Exit(p)
         PROVE  IInv'
    <2>1. FilesSound(directory, block, FDTable, unlinked)
      BY <1>1, <1>16 DEF Exit
    <2>2. PICK row : row = [fd \in Descriptor |-> Closed]
      OBVIOUS
    <2>3. row \in [Descriptor -> {Closed} \cup OpenFiles] /\ \A fd \in Descriptor : ~row[fd].open
      BY <2>2 DEF Closed
    <2>4. FDTable' = [FDTable EXCEPT ![p] = row]
      BY <1>16, <2>2 DEF Exit
    <2>5. FDTable' \in FDTables
      BY <2>1, <2>3, <2>4 DEF FilesSound, FDTables
    <2>6. \A q \in Process : FDTable'[q] = IF q = p THEN row ELSE FDTable[q]
      BY <2>1, <2>4 DEF FilesSound, FDTables
    <2>7. \A q \in Process, e \in Descriptor :
             q # p /\ <<q, e>> \notin unlinked' => <<q, e>> \notin unlinked
      BY <1>16 DEF Exit
    <2>8. FilesSound(directory, block, FDTable', unlinked')
      BY <2>1, <2>3, <2>5, <2>6, <2>7 DEF FilesSound
    <2> QED BY <1>9, <1>16, <2>8 DEF Exit
  <1>17. CASE UNCHANGED vars
    BY <1>17 DEF vars, IInv, Seen
  <1>18. 0 \in Sizes
    BY DiskAssumption
  <1> QED
    BY <1>2, <1>3, <1>4, <1>5, <1>6, <1>7, <1>8, <1>10, <1>11, <1>12, <1>13, <1>14, <1>15,
       <1>16, <1>17, <1>18, <1>8a, <1>8b
       DEF CarefulNext, OtherThanWrite, System_Write, System_Create, Copy

-----------------------------------------------------------------------------
(* What the invariant says of the files there are *)

LEMMA NamesFacts ==
    ASSUME TablesSound(Seen, block)
    PROVE  /\ Names = {Seen[i].name : i \in InUse(Seen)}
           /\ \A i \in InUse(Seen) :
                 /\ Seen[i].name \in Names
                 /\ HeaderOf(Seen[i].name) = block[Seen[i].sector]
                 /\ FileSectors(Seen[i].sector) = Extent(Seen, block, i)
                 /\ SectorsOf(Seen[i].name) = Extent(Seen, block, i)
  <1>1. ASSUME NEW i \in InUse(Seen)
        PROVE  /\ HeaderOf(Seen[i].name) = block[Seen[i].sector]
               /\ FileSectors(Seen[i].sector) = Extent(Seen, block, i)
               /\ SectorsOf(Seen[i].name) = Extent(Seen, block, i)
    BY EntryFacts DEF HeaderOf, SectorsOf, FileSectors
  <1> QED BY <1>1 DEF Names

LEMMA SectorsAccountedFor == IInv => NoSectorLost
  <1> SUFFICES ASSUME IInv, Idle
               PROVE  freeMap = SystemSectors \cup UNION {SectorsOf(name) : name \in Names}
    BY DEF NoSectorLost
  <1>1. freeMap = Allocated(Seen, block) /\ TablesSound(Seen, block)
    BY NoOpFacts DEF IInv, Idle
  <1>2. UNION {SectorsOf(name) : name \in Names} = UNION {Extent(Seen, block, i) : i \in InUse(Seen)}
    BY <1>1, NamesFacts
  <1> QED BY <1>1, <1>2 DEF Allocated

\* A file has as many sectors as its header says, and one for the header.
LEMMA ExtentSize ==
    ASSUME NEW d, NEW b, TablesSound(d, b), NEW i \in InUse(d)
    PROVE  Cardinality(Extent(d, b, i)) = Len(b[d[i].sector].dataSectors) + 1
  <1>1. PICK h : h = b[d[i].sector]
    OBVIOUS
  <1>2. /\ HeaderSound(h) /\ d[i].sector \notin Range(h.dataSectors)
        /\ Extent(d, b, i) = {d[i].sector} \cup Range(h.dataSectors)
    BY <1>1, EntryFacts
  <1>3. PICK q \in Seq(Sector) : q = h.dataSectors
    BY <1>2 DEF HeaderSound, Headers
  <1>4. PICK n \in Nat : n = Len(q)
    OBVIOUS
  <1>5. \A k, j \in 1 .. n : q[k] = q[j] => k = j
    BY <1>2, <1>3, <1>4 DEF HeaderSound
  <1>6. DOMAIN q = 1 .. n /\ Range(q) = {q[k] : k \in 1 .. n}
    BY <1>4, SequenceRange
  <1>7. q \in Bijection(1 .. n, Range(q))
    <2>1. q \in [1 .. n -> Range(q)]
      BY <1>4, <1>6
    <2>2. q \in Injection(1 .. n, Range(q))
      BY <1>5, <1>6, <2>1 DEF Injection, IsInjective
    <2>3. \A v \in Range(q) : \E k \in 1 .. n : q[k] = v
      BY <1>6
    <2>4. q \in Surjection(1 .. n, Range(q))
      BY <2>1, <2>3 DEF Surjection
    <2> QED BY <2>2, <2>4 DEF Bijection
  <1>8. ExistsBijection(1 .. n, Range(q))
    BY <1>7 DEF ExistsBijection
  <1>9. IsFiniteSet(Range(q)) /\ Cardinality(Range(q)) = n
    BY <1>8, FS_CountingElements, FS_NatBijection
  <1>10. Cardinality(Range(q) \cup {d[i].sector}) = n + 1
    BY <1>2, <1>3, <1>9, FS_AddElement
  <1>11. Extent(d, b, i) = Range(q) \cup {d[i].sector}
    BY <1>2, <1>3
  <1> QED BY <1>1, <1>3, <1>4, <1>10, <1>11

\* The table on disk at any moment: Torn between the two sectors, and else the one
\* the system sees.
Shown(t, full, d, b, o) ==
    \/ t = d /\ full = d /\ TablesSound(d, b) /\ ~BetweenSectors(o)
    \/ BetweenSectors(o) /\ Torn(t, full, d, b, o)

\* An entry of another file than the one that an operation is about.
Apart(name, o) == o.kind \in {"create", "remove"} => name # o.name

Ghost(i, o) == i = SplitEntry /\ o.kind = "create" /\ o.step = "rest"

LEMMA ShownFacts ==
    ASSUME NEW t \in Tables, NEW full, NEW d, NEW b, NEW o, TablesSound(d, b),
           Shown(t, full, d, b, o)
    PROVE  /\ TablesSound(full, b)
           /\ \A i \in InUse(t) :
                 /\ i \in InUse(full) /\ t[i].sector = full[i].sector
                 /\ t[i].name = full[i].name \/ (Ghost(i, o) /\ full[i].name = o.name)
           /\ \A i \in InUse(full) : Apart(full[i].name, o) => i \in InUse(d) /\ d[i] = full[i]
           /\ \A i \in InUse(d) : Apart(d[i].name, o) =>
                 /\ i \in InUse(t) /\ t[i] = d[i] /\ i \in 1 .. NumDirEntries
                 /\ FindIndex(t, d[i].name) # {}
                 /\ Min(FindIndex(t, d[i].name)) = i
                 /\ Find(t, d[i].name) = d[i].sector
  <1>1. /\ TablesSound(full, b)
        /\ \A i \in InUse(t) :
              /\ i \in InUse(full) /\ t[i].sector = full[i].sector
              /\ t[i].name = full[i].name \/ (Ghost(i, o) /\ full[i].name = o.name)
        /\ \A i \in InUse(full) : Apart(full[i].name, o) => i \in InUse(d) /\ d[i] = full[i]
    BY DEF Shown, Torn, Apart, Ghost, BetweenSectors
  <1>2. ASSUME NEW i \in InUse(d), Apart(d[i].name, o)
        PROVE  /\ i \in InUse(t) /\ t[i] = d[i]
               /\ \A j \in InUse(t) : t[j].name = d[i].name => i <= j
    <2>1. CASE ~BetweenSectors(o)
      <3>1. t = d
        BY <2>1 DEF Shown
      <3>2. \A j \in InUse(d) : d[j].name = d[i].name => j = i
        BY DEF TablesSound, DiskSound
      <3>3. i \in Nat
        BY DEF InUse
      <3> QED BY <3>1, <3>2, <3>3
    <2>2. CASE BetweenSectors(o)
      BY <1>2, <2>2 DEF Shown, Torn, Apart, BetweenSectors
    <2> QED BY <2>1, <2>2
  <1>3. ASSUME NEW i \in InUse(d), Apart(d[i].name, o)
        PROVE  /\ i \in 1 .. NumDirEntries /\ FindIndex(t, d[i].name) # {}
               /\ Min(FindIndex(t, d[i].name)) = i
               /\ Find(t, d[i].name) = d[i].sector
    <2>1. PICK T : T = FindIndex(t, d[i].name)
      OBVIOUS
    <2>2. i \in T /\ T \in SUBSET Nat /\ (\A j \in T : j \in InUse(t) /\ t[j].name = d[i].name)
      BY <1>2, <1>3, <2>1 DEF FindIndex, InUse, Tables
    <2>3. Min(T) \in T /\ Min(T) <= i
      BY <2>2, MinOfNaturals
    <2>4. i <= Min(T)
      BY <1>2, <1>3, <2>2, <2>3
    <2>5. Min(T) = i
      <3>1. PICK m \in Nat : m = Min(T) /\ m <= i /\ i <= m
        BY <2>2, <2>3, <2>4
      <3>2. i \in Nat
        BY <2>2
      <3> QED BY ONLY <3>1, <3>2
    <2>6. i \in 1 .. NumDirEntries
      BY DEF InUse
    <2> QED BY <1>2, <1>3, <2>1, <2>2, <2>5, <2>6 DEF Find
  <1> QED BY <1>1, <1>2, <1>3

LEMMA OneFileHurt == IInv => HaltHurtsOneFile
  <1> SUFFICES ASSUME IInv PROVE HaltHurtsOneFile
    OBVIOUS
  <1>1. /\ TablesSound(Seen, block) /\ directory \in Tables
        /\ freeMap = Allocated(Seen, block) \ Unmarked(Seen, block, op)
    BY DEF IInv, Sound, OnDisk
  <1>2. PICK full : Shown(directory, full, Seen, block, op)
    <2>1. CASE BetweenSectors(op)
      BY <2>1 DEF IInv, OnDisk, Shown, Seen, BetweenSectors
    <2>2. CASE ~BetweenSectors(op)
      BY <1>1, <2>2, OneDirectory DEF Shown
    <2> QED BY <2>1, <2>2
  <1>3. PICK d : d = Seen
    OBVIOUS
  <1>4. PICK t : t = directory
    OBVIOUS
  <1>5. t \in Tables /\ TablesSound(d, block) /\ Shown(t, full, d, block, op)
    BY <1>1, <1>2, <1>3, <1>4
  <1>6. /\ TablesSound(full, block)
        /\ \A i \in InUse(t) :
              /\ i \in InUse(full) /\ t[i].sector = full[i].sector
              /\ t[i].name = full[i].name \/ (Ghost(i, op) /\ full[i].name = op.name)
        /\ \A i \in InUse(full) : Apart(full[i].name, op) => i \in InUse(d) /\ d[i] = full[i]
        /\ \A i \in InUse(d) : Apart(d[i].name, op) =>
              /\ i \in InUse(t) /\ t[i] = d[i] /\ i \in 1 .. NumDirEntries
              /\ FindIndex(t, d[i].name) # {}
              /\ Min(FindIndex(t, d[i].name)) = i
              /\ Find(t, d[i].name) = d[i].sector
    BY ONLY <1>5, ShownFacts
  <1>7. PICK others : others = Names \ (IF op.kind \in {"create", "remove"} THEN {op.name} ELSE {})
    OBVIOUS
  <1>8. \A name \in others : Apart(name, op) /\ \E i \in InUse(d) : d[i].name = name
    BY <1>1, <1>3, <1>7, NamesFacts DEF Apart
  <1>9. \A i \in InUse(d) : Apart(d[i].name, op) => d[i].name \in others
    BY <1>1, <1>3, <1>7, NamesFacts DEF Apart
  <1>10. \A i \in InUse(full) : FileSectors(full[i].sector) = Extent(full, block, i)
    BY <1>6, EntryFacts DEF FileSectors
  \* A search for another file.
  <1>11. ASSUME NEW name \in others
         PROVE  LET sector == Find(directory, name)
                    h      == AsHeader(block[sector])
                IN  /\ FindIndex(directory, name) # {} /\ sector = Find(Seen, name)
                    /\ Len(h.dataSectors) = divRoundUp(h.numBytes, SectorSize)
                    /\ Cardinality(FileSectors(sector)) = Len(h.dataSectors) + 1
                    /\ FileSectors(sector) \subseteq freeMap \ SystemSectors
                    /\ \A i \in InUse(directory) \ {Min(FindIndex(directory, name))} :
                          FileSectors(sector) \cap FileSectors(directory[i].sector) = {}
    <2>1. PICK i \in InUse(d) : d[i].name = name /\ Apart(d[i].name, op)
      BY <1>8
    <2>2. /\ FindIndex(directory, name) # {} /\ Min(FindIndex(directory, name)) = i
          /\ Find(directory, name) = d[i].sector /\ i \in InUse(t) /\ t[i] = d[i]
      BY <1>4, <1>6, <2>1
    <2>3. Find(Seen, name) = d[i].sector
      BY <1>1, <1>3, <2>1, EntryFacts
    <2>4. PICK h : h = block[d[i].sector]
      OBVIOUS
    <2>5. /\ AsHeader(block[d[i].sector]) = h
          /\ Len(h.dataSectors) = divRoundUp(h.numBytes, SectorSize)
      BY <1>5, <2>1, <2>4, EntryFacts DEF HeaderSound
    <2>6. FileSectors(d[i].sector) = Extent(d, block, i)
      BY <1>1, <1>3, NamesFacts
    <2>7. Cardinality(Extent(d, block, i)) = Len(h.dataSectors) + 1
      BY <1>5, <2>4, ExtentSize
    <2>8. Extent(d, block, i) \subseteq freeMap \ SystemSectors
      <3>1. Extent(d, block, i) \cap Unmarked(d, block, op) = {}
        <4>1. CASE op.kind \in {"create", "remove"}
          <5>1. \A j \in FindIndex(d, op.name) : j \in InUse(d) /\ j # i
            BY <1>5, <2>1, <4>1 DEF FindIndex, InUse, TablesSound, Tables, Apart
          <5>2. Extent(d, block, i) \cap SpanOf(d, block, op.name) = {}
            BY <1>5, <5>1 DEF SpanOf, TablesSound, DiskSound
          <5> QED BY <5>2 DEF Unmarked
        <4>2. CASE op.kind \notin {"create", "remove"}
          BY <4>2 DEF Unmarked
        <4> QED BY <4>1, <4>2
      <3>2. Extent(d, block, i) \subseteq Allocated(d, block)
        BY <1>5, AllocatedFacts
      <3>3. Extent(d, block, i) \cap SystemSectors = {}
        BY <1>5 DEF TablesSound, DiskSound
      <3> QED BY <1>1, <1>3, <3>1, <3>2, <3>3
    <2>9. ASSUME NEW j \in InUse(t) \ {i}
          PROVE  Extent(d, block, i) \cap FileSectors(t[j].sector) = {}
      <3>1. j \in InUse(full) /\ FileSectors(t[j].sector) = Extent(full, block, j)
        BY <1>6, <1>10
      <3>2. i \in InUse(full) /\ full[i].sector = d[i].sector
        BY <1>6, <2>2
      <3>3. Extent(full, block, i) = Extent(d, block, i)
        BY <3>2 DEF Extent
      <3> QED BY <1>6, <3>1, <3>2, <3>3 DEF TablesSound, DiskSound
    <2>10. \A j \in InUse(directory) \ {Min(FindIndex(directory, name))} :
              FileSectors(Find(directory, name)) \cap FileSectors(directory[j].sector) = {}
      BY <1>4, <2>2, <2>6, <2>9
    <2> QED BY <2>2, <2>3, <2>4, <2>5, <2>6, <2>7, <2>8, <2>10
  \* The entries in use.
  <1>12. ASSUME NEW i \in InUse(t), ~Ghost(i, op)
         PROVE  i = Min(FindIndex(t, t[i].name)) /\ t[i].name \in others \cup {op.name}
    <2>1. i \in InUse(full) /\ t[i].name = full[i].name
      BY <1>6, <1>12
    <2>2. CASE Apart(full[i].name, op)
      <3>1. i \in InUse(d) /\ d[i] = full[i]
        BY <1>6, <2>1, <2>2
      <3> QED BY <1>6, <1>9, <2>1, <2>2, <3>1
    <2>3. CASE ~Apart(full[i].name, op)
      <3>1. full[i].name = op.name
        BY <2>3 DEF Apart
      <3>2. \A j \in InUse(t) : t[j].name = op.name => full[j].name = op.name /\ j \in InUse(full)
        BY <1>6
      <3>3. \A j \in InUse(t) : t[j].name = op.name => j = i
        BY <1>6, <2>1, <3>1, <3>2 DEF TablesSound, DiskSound
      <3>4. FindIndex(t, op.name) = {i}
        BY <1>5, <2>1, <3>1, <3>3 DEF FindIndex, InUse, Tables
      <3>5. {i} \in SUBSET Nat
        BY DEF InUse
      <3>6. Min({i}) = i
        BY <3>5, MinOfNaturals
      <3> QED BY <2>1, <3>1, <3>4, <3>6
    <2> QED BY <2>2, <2>3
  <1> QED BY <1>4, <1>7, <1>11, <1>12 DEF HaltHurtsOneFile, Ghost

LEMMA ExactWrite == IInv => WritesAreExact
  <1> SUFFICES ASSUME IInv, op.kind = "write" PROVE WritesAreExact
    BY DEF WritesAreExact
  <1>1. WriteSound(op, Seen, block) /\ TablesSound(Seen, block)
    BY WriteKind DEF IInv, Sound
  <1>2. BytesSound(op, block) /\ HeaderSound(op.hdr) /\ block \in [Sector -> Contents]
    BY <1>1, CurrentFacts DEF WriteSound, TablesSound
  <1>3. PICK now : now = ReadAt(op.hdr, op.hdr.numBytes, 0)
    OBVIOUS
  <1>4. PICK N \in Nat : N = op.hdr.numBytes
    BY <1>2 DEF HeaderSound, Headers
  <1>5. now \in [1 .. N -> Byte] /\ \A j \in 1 .. N : now[j] = ByteAt(block, op.hdr, j - 1)
    BY <1>2, <1>3, <1>4, ReadWhole
  <1>6. PICK n \in Nat \ {0} : n = Len(op.bytes)
    <2>1. op.bytes \in Seq(Byte)
      BY <1>1 DEF WriteSound
    <2>2. Len(op.bytes) > 0
      BY <1>2 DEF BytesSound
    <2> QED BY <2>1, <2>2
  <1>7. PICK position \in Nat : position = op.position
    BY <1>1 DEF WriteSound
  <1>8. PICK first \in Nat, last \in Nat :
           first = FirstSector(position) /\ last = LastSector(position, n) /\ first <= last
    BY SectorsOrdered
  <1>9. op.before \in Seq(Byte) /\ Len(op.before) = N
    BY <1>1, <1>2, <1>4 DEF WriteSound, BytesSound
  <1>10. DOMAIN op.before = 1 .. N
    BY <1>9
  <1>11. PICK after : after = [i \in DOMAIN op.before |->
                        IF i - 1 \in op.position .. op.position + Len(op.bytes) - 1
                        THEN op.bytes[i - op.position] ELSE op.before[i]]
    OBVIOUS
  <1>12. ASSUME NEW j \in 1 .. N
         PROVE  /\ after[j] = NewByte(op, j - 1)
                /\ now[j] = IF (j - 1) \div SectorSize \in first .. first + op.next - 2
                            THEN after[j] ELSE op.before[j]
    <2>1. PICK at \in 0 .. N - 1 : at = j - 1 /\ at + 1 = j
      OBVIOUS
    <2>2. at - position + 1 = j - position
      BY <2>1
    <2>3. after[j] = NewByte(op, at)
      BY <1>7, <1>10, <1>11, <2>1, <2>2 DEF NewByte
    <2>4. ByteAt(block, op.hdr, at) =
             IF at \div SectorSize \in first .. first + op.next - 2
             THEN NewByte(op, at) ELSE op.before[at + 1]
      BY <1>2, <1>4, <1>7, <1>8, <2>1 DEF BytesSound
    <2> QED BY <1>5, <2>1, <2>3, <2>4
  <1>13. \A j \in 1 .. N : now[j] \in {op.before[j], after[j]}
    BY <1>12
  <1>14. ASSUME op.next > Len(op.buf)
         PROVE  now = after
    <2>1. op.next = last - first + 2
      <3>1. Len(op.buf) = last - first + 1 /\ op.next \in 1 .. Len(op.buf) + 1
        BY <1>2, <1>6, <1>7, <1>8 DEF BytesSound
      <3> QED BY <1>14, <3>1
    <2>2. ASSUME NEW j \in 1 .. N
          PROVE  now[j] = after[j]
      <3>1. PICK at \in Nat : at = j - 1
        OBVIOUS
      <3>2. CASE at \in position .. position + n - 1
        <4>1. SectorSize \in Nat \ {0} /\ position + n - 1 \in Nat
          BY DiskAssumption
        <4>2. at \div SectorSize \in Nat
          BY <4>1, Division
        <4>3. first <= at \div SectorSize
          BY <1>8, <3>2, <4>1, DivisionMonotone DEF FirstSector
        <4>4. at \div SectorSize <= last
          BY <1>8, <3>2, <4>1, DivisionMonotone DEF LastSector
        <4>5. at \div SectorSize \in first .. first + op.next - 2
          BY <2>1, <4>2, <4>3, <4>4
        <4> QED BY <1>12, <3>1, <4>5
      <3>3. CASE at \notin position .. position + n - 1
        <4>1. after[j] = op.before[j]
          BY <1>6, <1>7, <1>10, <1>11, <3>1, <3>3
        <4> QED BY <1>12, <4>1
      <3> QED BY <3>2, <3>3
    <2>3. DOMAIN after = 1 .. N /\ DOMAIN now = 1 .. N
      BY <1>5, <1>10, <1>11
    <2>4. now = [j \in 1 .. N |-> now[j]] /\ after = [j \in 1 .. N |-> after[j]]
      BY <1>5, <1>10, <1>11
    <2> QED BY <2>2, <2>4
  <1>15. DOMAIN now = 1 .. N
    BY <1>5
  <1> QED BY <1>3, <1>11, <1>13, <1>14, <1>15 DEF WritesAreExact

-----------------------------------------------------------------------------
(* The files as Files sees them *)

FileBytes(b, h) == [j \in 1 .. h.numBytes |-> ByteAt(b, h, j - 1)]

NamesOf(d) == {d[i].name : i \in InUse(d)}

Store(d, b) == [name \in NamesOf(d) |-> FileBytes(b, b[Find(d, name)])]

LEMMA StoreFacts ==
    ASSUME NEW d, NEW b, TablesSound(d, b)
    PROVE  /\ DOMAIN Store(d, b) = NamesOf(d)
           /\ NamesOf(d) \subseteq Name
           /\ \A i \in InUse(d) :
                 /\ d[i].name \in NamesOf(d)
                 /\ Store(d, b)[d[i].name] = FileBytes(b, b[d[i].sector])
                 /\ b[d[i].sector].numBytes \in Sizes
                 /\ FileBytes(b, b[d[i].sector]) \in [1 .. b[d[i].sector].numBytes -> Byte]
  <1>1. NamesOf(d) \subseteq Name /\ \A i \in InUse(d) : d[i].name \in NamesOf(d)
    BY EntryFacts DEF NamesOf
  <1>2. ASSUME NEW i \in InUse(d)
        PROVE  /\ Store(d, b)[d[i].name] = FileBytes(b, b[d[i].sector])
               /\ b[d[i].sector].numBytes \in Sizes
               /\ FileBytes(b, b[d[i].sector]) \in [1 .. b[d[i].sector].numBytes -> Byte]
    <2>1. PICK h : h = b[d[i].sector]
      OBVIOUS
    <2>2. HeaderSound(h) /\ Find(d, d[i].name) = d[i].sector
      BY <2>1, EntryFacts
    <2>3. Store(d, b)[d[i].name] = FileBytes(b, h)
      BY <1>1, <2>1, <2>2 DEF Store
    <2>4. h.numBytes \in Nat /\ h.numBytes \in Sizes
      BY <2>2 DEF HeaderSound, Headers
    <2>5. \A j \in 1 .. h.numBytes : ByteAt(b, h, j - 1) \in Byte
      <3> TAKE j \in 1 .. h.numBytes
      <3>1. PICK at \in 0 .. h.numBytes - 1 : at = j - 1
        BY <2>4
      <3> QED BY <2>2, <3>1, ByteRead DEF TablesSound
    <2>6. FileBytes(b, h) \in [1 .. h.numBytes -> Byte]
      BY <2>5 DEF FileBytes
    <2> QED BY <2>1, <2>3, <2>4, <2>6
  <1> QED BY <1>1, <1>2 DEF Store

LEMMA FilesAreStored ==
    IInv => Stored = Store(Seen, block) /\ TablesSound(Seen, block)
  <1> SUFFICES ASSUME IInv
               PROVE  Stored = Store(Seen, block) /\ TablesSound(Seen, block)
    OBVIOUS
  <1>1. TablesSound(Seen, block) /\ block \in [Sector -> Contents]
    BY DEF IInv, Sound, TablesSound
  <1>2. Names = NamesOf(Seen)
    BY <1>1, NamesFacts DEF NamesOf
  <1>3. ASSUME NEW name \in Names
        PROVE  ReadAt(HeaderOf(name), HeaderOf(name).numBytes, 0)
                 = FileBytes(block, block[Find(Seen, name)])
    <2>1. PICK i \in InUse(Seen) : Seen[i].name = name
      BY <1>1, NamesFacts
    <2>2. PICK h : h = block[Seen[i].sector]
      OBVIOUS
    <2>3. /\ HeaderOf(name) = h /\ Find(Seen, name) = Seen[i].sector
          /\ HeaderSound(h)
      BY <1>1, <2>1, <2>2, EntryFacts, NamesFacts
    <2>4. PICK r : r = ReadAt(h, h.numBytes, 0)
      OBVIOUS
    <2>5. r \in [1 .. h.numBytes -> Byte]
          /\ \A j \in 1 .. h.numBytes : r[j] = ByteAt(block, h, j - 1)
      BY <1>1, <2>3, <2>4, ReadWhole
    <2>6. r = FileBytes(block, h)
      BY <2>5 DEF FileBytes
    <2> QED BY <2>2, <2>3, <2>4, <2>6
  <1> QED BY <1>1, <1>2, <1>3 DEF Stored, Store

\* A write to one sector changes only the file, if any, that the sector is of.
LEMMA SectorOfOneFile ==
    ASSUME NEW d, NEW b, TablesSound(d, b), NEW s, NoHeaderAt(s, d), NEW e, SameButFor(s, b, e),
           NEW i \in InUse(d), s \notin Extent(d, b, i)
    PROVE  Store(d, e)[d[i].name] = Store(d, b)[d[i].name]
  <1>1. TablesSound(d, e) /\ e[d[i].sector] = b[d[i].sector]
    BY OtherBlock
  <1>2. PICK h : h = b[d[i].sector]
    OBVIOUS
  <1>3. HeaderSound(h) /\ s \notin Range(h.dataSectors)
    BY <1>2, EntryFacts
  <1>4. ASSUME NEW j \in 1 .. h.numBytes
        PROVE  ByteAt(e, h, j - 1) = ByteAt(b, h, j - 1)
    <2>1. h.numBytes \in Nat
      BY <1>3 DEF HeaderSound, Headers
    <2>2. PICK at \in 0 .. h.numBytes - 1 : at = j - 1
      BY <2>1
    <2>3. ByteToSector(h, at) \in Sector /\ ByteToSector(h, at) # s
      BY <1>3, SectorOfByte
    <2>4. e[ByteToSector(h, at)] = b[ByteToSector(h, at)]
      BY <2>3 DEF SameButFor
    <2> QED BY <2>2, <2>4 DEF ByteAt
  <1>5. FileBytes(e, h) = FileBytes(b, h)
    BY <1>4 DEF FileBytes
  <1> QED BY <1>1, <1>2, <1>5, StoreFacts

LEMMA FilesInit ==
    Init => Abstract!Init
  <1> SUFFICES ASSUME Init PROVE Stored = <<>>
    BY DEF Abstract!Init
  <1>1. Stored = Store(Seen, block) /\ TablesSound(Seen, block)
    BY InitInvariant, FilesAreStored
  <1>2. InUse(Seen) = {}
    BY DEF Init, InUse, Seen, NoOp
  <1>3. NamesOf(Seen) = {}
    BY <1>2 DEF NamesOf
  <1> QED BY <1>1, <1>3 DEF Store

\* One sector written is of the file that is written, and of no other.
LEMMA SectorStored ==
    ASSUME IInv, WriteSector
    PROVE  \E i \in InUse(Seen) :
              /\ Seen[i].name = op.name /\ Seen' = Seen
              /\ block'[Seen[i].sector] = block[Seen[i].sector]
              /\ \A name \in NamesOf(Seen) \ {op.name} :
                    Store(Seen, block')[name] = Store(Seen, block)[name]
  <1>1. PICK z : z = ByteToSector(op.hdr, (FirstSector(op.position) + op.next - 1) * SectorSize)
    OBVIOUS
  <1>2. /\ op.kind = "write" /\ op.next <= Len(op.buf) /\ directory' = directory
        /\ block' = [block EXCEPT ![z] = Data(op.buf[op.next])]
        /\ op' = [op EXCEPT !.next = @ + 1]
    BY <1>1 DEF WriteSector
  <1>3. Sound(freeMap, Seen, block, FDTable, unlinked, op) /\ TablesSound(Seen, block)
    BY DEF IInv, Sound
  <1>4. op'.kind = "write"
    BY <1>2, <1>3, WriteKind DEF WriteSound
  <1>5. Seen' = Seen
    BY <1>2, <1>4 DEF Seen
  <1>6. PICK d : d = Seen
    OBVIOUS
  <1>7. PICK e : e = block'
    OBVIOUS
  <1>8. /\ SameButFor(z, block, e) /\ NoHeaderAt(z, d)
        /\ SectorOf(op.name, z, d, block)
    <2>1. Sound(freeMap, d, block, FDTable, unlinked, op)
      BY <1>3, <1>6
    <2>2. PICK x : x = op'
      OBVIOUS
    <2>3. OneSector(op, block, z, e, x)
      BY <1>1, <1>2, <1>7, <2>2 DEF OneSector
    <2> QED BY ONLY <2>1, <2>3, SectorWritten
  <1>9. PICK i \in InUse(d) : d[i].name = op.name /\ z \in Extent(d, block, i)
    BY <1>8 DEF SectorOf
  <1>10. TablesSound(d, block)
    BY <1>3, <1>6
  <1>11. e[d[i].sector] = block[d[i].sector]
    BY ONLY <1>8, <1>10, i \in InUse(d), OtherBlock
  <1>12. ASSUME NEW name \in NamesOf(d) \ {op.name}
         PROVE  Store(d, e)[name] = Store(d, block)[name]
    <2>1. PICK j \in InUse(d) : d[j].name = name
      BY DEF NamesOf
    <2>2. z \notin Extent(d, block, j)
      BY <1>9, <1>10, <2>1 DEF TablesSound, DiskSound
    <2>3. Store(d, e)[d[j].name] = Store(d, block)[d[j].name]
      BY ONLY <1>8, <1>10, <2>2, j \in InUse(d), SectorOfOneFile
    <2> QED BY <2>1, <2>3
  <1> QED BY <1>5, <1>6, <1>7, <1>9, <1>11, <1>12

\* The steps that change neither the directory as it is seen nor another sector.
LEMMA OtherSteps ==
    ASSUME [CarefulNext]_vars
    PROVE  CreateHeader \/ CreateDirectory \/ RemoveDirectory \/ WriteSector
           \/ (Seen' = Seen /\ block' = block)
  <1> DEFINE Same == Seen' = Seen /\ block' = block
  <1>0. NoOp.kind = "none"
    BY DEF NoOp
  <1>1. \A name, n : Create(name, n) => Same
    BY <1>0 DEF Create, Idle, Seen
  <1>2. CreateDirectoryRest => Same
    <2> SUFFICES ASSUME CreateDirectoryRest PROVE Same
      OBVIOUS
    <2>1. Seen = op.table /\ directory' = op.table /\ block' = block
      BY DEF CreateDirectoryRest, Seen
    <2>2. op' = [op EXCEPT !.step = "map"]
      BY DEF CreateDirectoryRest
    <2>3. op'.table = op.table
      BY <2>2
    <2> QED BY <2>1, <2>3 DEF Seen
  <1>3. CreateMap => Same
    BY <1>0 DEF CreateMap, Seen
  <1>4. \A name : System_Unlink(name) => Same
    BY <1>0 DEF System_Unlink, RemoveFile, Idle, Seen
  <1>5. RemoveMap => Same
    <2> SUFFICES ASSUME RemoveMap PROVE Same
      OBVIOUS
    <2>1. Seen = directory /\ directory' = directory /\ block' = block
      BY DEF RemoveMap, Seen
    <2>2. op' = [op EXCEPT !.step = "directory"]
      BY DEF RemoveMap
    <2>3. op.step = "map" => op'.step \in {"directory", "map"}
      BY <2>2
    <2>4. op'.step # "rest"
      BY <2>3 DEF RemoveMap
    <2> QED BY <2>1, <2>4 DEF Seen
  <1>6. RemoveDirectoryRest => Same
    BY <1>0 DEF RemoveDirectoryRest, Seen
  <1>7. \A p, name : Open(p, name) => Same
    BY DEF Open, Seen
  <1>8. \A p, fd, n : Read(p, fd, n) => Same
    BY DEF Read, Seen
  <1>9. \A p, fd, bytes : Write(p, fd, bytes) => Same
    BY <1>0 DEF Write, Idle, Seen
  <1>10. WriteReturns => Same
    BY <1>0 DEF WriteReturns, Seen
  <1>11. \A p, fd : Close(p, fd) => Same
    BY DEF Close, Seen
  <1>12. \A p : Exit(p) => Same
    BY DEF Exit, Seen
  <1>13. UNCHANGED vars => Same
    BY DEF vars, Seen
  <1> HIDE DEF Same
  <1>14. CreateHeader \/ CreateDirectory \/ RemoveDirectory \/ WriteSector \/ Same
    BY <1>1, <1>2, <1>3, <1>4, <1>5, <1>6, <1>7, <1>8, <1>9, <1>10, <1>11, <1>12, <1>13
       DEF CarefulNext, OtherThanWrite, System_Write, System_Create, Copy
  <1> QED BY <1>14 DEF Same

\* Every step is one of Files', or changes no file.
LEMMA FilesStep ==
    ASSUME IInv, [CarefulNext]_vars
    PROVE  Abstract!Next \/ Stored' = Stored
  <1>1. Stored = Store(Seen, block) /\ TablesSound(Seen, block)
    BY FilesAreStored
  <1>2. Stored' = Store(Seen', block') /\ TablesSound(Seen', block')
    <2>1. IInv'
      BY StepInvariant
    <2>2. (IInv => Stored = Store(Seen, block) /\ TablesSound(Seen, block))'
      BY FilesAreStored, PTL
    <2> QED BY <2>1, <2>2
  <1>3. CASE Seen' = Seen /\ block' = block
    BY <1>1, <1>2, <1>3
  <1>domains. DOMAIN Stored = NamesOf(Seen) /\ DOMAIN Stored' = NamesOf(Seen')
    <2>1. DOMAIN Store(Seen', block') = NamesOf(Seen')
      BY DEF Store
    <2>2. DOMAIN Store(Seen, block) = NamesOf(Seen)
      BY DEF Store
    <2> QED BY <1>1, <1>2, <2>1, <2>2
  <1>4. CASE CreateHeader
    <2>0. Seen = directory /\ Sound(freeMap, directory, block, FDTable, unlinked, op)
      BY <1>4, OneDirectory DEF CreateHeader, BetweenSectors
    <2>1. CreateSound(op, freeMap, directory, block) /\ op.step = "header"
      BY <1>4, <2>0, CreateKind DEF CreateHeader
    <2>2. freeMap = Allocated(directory, block)
      BY <1>4, <2>0 DEF Sound, Unmarked, CreateHeader
    <2>3. PICK s \in Sector : s = op.sector
      BY <2>1 DEF CreateSound
    <2>4. s \notin Allocated(directory, block)
      BY <2>1, <2>2, <2>3 DEF CreateSound, Span
    <2>5. NoHeaderAt(s, directory) /\ \A i \in InUse(directory) : s \notin Extent(directory, block, i)
      BY <1>1, <2>0, <2>4, AllocatedFacts DEF NoHeaderAt
    <2>6. SameButFor(s, block, block') /\ directory' = directory
      <3>1. op.hdr \in Contents
        BY <2>1 DEF CreateSound, Contents
      <3>2. block' = [block EXCEPT ![s] = op.hdr] /\ block \in [Sector -> Contents]
        BY <1>1, <1>4, <2>3 DEF CreateHeader, TablesSound
      <3>3. directory' = directory
        BY <1>4 DEF CreateHeader
      <3> QED BY <3>1, <3>2, <3>3 DEF SameButFor
    <2>7. \A i \in InUse(directory) :
             Store(directory, block')[directory[i].name] = Store(directory, block)[directory[i].name]
      BY <1>1, <2>0, <2>5, <2>6, SectorOfOneFile
    <2>8. \A name \in NamesOf(directory) :
             Store(directory, block')[name] = Store(directory, block)[name]
      BY <2>7 DEF NamesOf
    <2>9. Store(directory, block') = Store(directory, block)
      BY <2>8 DEF Store
    <2>10. Seen' = directory
      <3>1. op' = [op EXCEPT !.step = "directory"]
        BY <1>4 DEF CreateHeader
      <3>2. op'.step = "directory"
        BY <2>1, <3>1 DEF CreateSound
      <3> QED BY <2>6, <3>2 DEF Seen
    <2> QED BY <1>1, <1>2, <2>0, <2>9, <2>10
  <1>5. CASE CreateDirectory
    <2>0. Seen = directory /\ Sound(freeMap, directory, block, FDTable, unlinked, op)
      BY <1>5, OneDirectory DEF CreateDirectory, BetweenSectors
    <2>1. PICK name, t, d : name = op.name /\ t = op.table /\ d = directory
      OBVIOUS
    <2>2. PICK x : x = [op EXCEPT !.step = "rest"] /\ op' = x
      BY <1>5 DEF CreateDirectory
    <2>3. /\ \E i : EntryAdded(t, d, i, op)
          /\ x.table = t
      BY <1>5, <2>0, <2>1, <2>2, EntryWritten DEF CreateDirectory
    <2>4. Seen' = t /\ block' = block
      <3>1. x.kind = "create" /\ x.step = "rest"
        BY <1>5, <2>0, <2>2, CreateKind DEF CreateDirectory, CreateSound
      <3> QED BY <1>5, <2>2, <2>3, <3>1 DEF Seen, CreateDirectory
    <2>5. name \in Name
      BY <1>5, <2>0, <2>1, CreateKind DEF CreateDirectory, CreateSound
    <2>6. PICK i : EntryAdded(t, d, i, op)
      BY <2>3
    <2>7. NamesOf(t) = NamesOf(d) \cup {name} /\ i \in InUse(t) /\ t[i].name = name
      BY <2>1, <2>6 DEF NamesOf, EntryAdded
    <2>8. TablesSound(t, block) /\ TablesSound(d, block)
      BY <1>1, <1>2, <2>0, <2>1, <2>4
    <2>9. name \notin NamesOf(d)
      BY <2>1, <2>6, <2>8 DEF NamesOf, FindIndex, InUse, TablesSound, Tables, EntryAdded
    <2>10. Store(t, block)[name] \in Abstract!Contents
      BY <2>7, <2>8, StoreFacts DEF Abstract!Contents
    <2>11. \A m \in NamesOf(d) : Store(t, block)[m] = Store(d, block)[m]
      <3> TAKE m \in NamesOf(d)
      <3>1. PICK j \in InUse(d) : m = d[j].name
        BY DEF NamesOf
      <3>2. j \in InUse(t) /\ t[j] = d[j]
        BY <2>6 DEF EntryAdded
      <3> QED BY <2>8, <3>1, <3>2, StoreFacts
    <2>12. Stored = Store(d, block) /\ Stored' = Store(t, block)
      BY <1>1, <1>2, <2>0, <2>1, <2>4
    <2>13. DOMAIN Stored = NamesOf(d) /\ DOMAIN Stored' = NamesOf(t)
      BY <1>domains, <2>0, <2>1, <2>4
    <2>14. /\ name \notin DOMAIN Stored /\ DOMAIN Stored' = DOMAIN Stored \cup {name}
           /\ Stored'[name] \in Abstract!Contents
           /\ \A m \in DOMAIN Stored : Stored'[m] = Stored[m]
      BY <2>7, <2>9, <2>10, <2>11, <2>12, <2>13
    <2>15. Abstract!Create(name)
      BY <2>14 DEF Abstract!Create, Abstract!Same
    <2> QED BY <2>5, <2>15 DEF Abstract!Next
  <1>6. CASE RemoveDirectory
    <2>0. Seen = directory /\ Sound(freeMap, directory, block, FDTable, unlinked, op)
      BY <1>6, OneDirectory DEF RemoveDirectory, BetweenSectors
    <2>1. PICK name, t, d : name = op.name /\ t = op.table /\ d = directory
      OBVIOUS
    <2>2. PICK x : x = [op EXCEPT !.step = "rest"] /\ op' = x
      BY <1>6 DEF RemoveDirectory
    <2>3. /\ \E i \in InUse(d) : EntryDropped(t, d, i, name)
          /\ x.table = t
      BY <1>6, <2>0, <2>1, <2>2, EntryRemoved DEF RemoveDirectory
    <2>4. Seen' = t /\ block' = block
      <3>1. x.kind = "remove" /\ x.step = "rest"
        BY <1>6, <2>0, <2>2, RemoveKind DEF RemoveDirectory, RemoveSound
      <3> QED BY <1>6, <2>2, <2>3, <3>1 DEF Seen, RemoveDirectory
    <2>5. name \in Name
      BY <1>6, <2>0, <2>1, RemoveKind DEF RemoveDirectory, RemoveSound
    <2>6. PICK i \in InUse(d) : EntryDropped(t, d, i, name)
      BY <2>3
    <2>7. TablesSound(t, block) /\ TablesSound(d, block)
      BY <1>1, <1>2, <2>0, <2>1, <2>4
    <2>8. d[i].name = name /\ \A j \in InUse(t) : j # i /\ j \in InUse(d) /\ t[j] = d[j]
      BY <2>6 DEF EntryDropped, InUse
    <2>9. \A j \in InUse(d) : j # i => d[j].name # name /\ j \in InUse(t)
      BY <2>6, <2>7, <2>8 DEF TablesSound, DiskSound, EntryDropped
    <2>10. NamesOf(t) = NamesOf(d) \ {name} /\ name \in NamesOf(d)
      BY <2>8, <2>9 DEF NamesOf
    <2>11. \A m \in NamesOf(t) : Store(t, block)[m] = Store(d, block)[m]
      <3> TAKE m \in NamesOf(t)
      <3>1. PICK j \in InUse(t) : m = t[j].name
        BY DEF NamesOf
      <3> QED BY <2>7, <2>8, <3>1, StoreFacts
    <2>12. Stored = Store(d, block) /\ Stored' = Store(t, block)
      BY <1>1, <1>2, <2>0, <2>1, <2>4
    <2>13. DOMAIN Stored = NamesOf(d) /\ DOMAIN Stored' = NamesOf(t)
      BY <1>domains, <2>0, <2>1, <2>4
    <2>14. /\ name \in DOMAIN Stored /\ DOMAIN Stored' = DOMAIN Stored \ {name}
           /\ \A m \in DOMAIN Stored' : Stored'[m] = Stored[m]
      BY <2>10, <2>11, <2>12, <2>13
    <2>15. Abstract!Remove(name)
      BY <2>14 DEF Abstract!Remove, Abstract!Same
    <2> QED BY <2>5, <2>15 DEF Abstract!Next
  <1>7. CASE WriteSector
    <2>1. PICK i \in InUse(Seen) :
              /\ Seen[i].name = op.name /\ Seen' = Seen
              /\ block'[Seen[i].sector] = block[Seen[i].sector]
              /\ \A name \in NamesOf(Seen) \ {op.name} :
                    Store(Seen, block')[name] = Store(Seen, block)[name]
      BY <1>7, SectorStored
    <2>2. PICK name, d, e : name = op.name /\ d = Seen /\ e = block'
      OBVIOUS
    <2>3. TablesSound(d, block) /\ TablesSound(d, e)
      BY <1>1, <1>2, <2>1, <2>2
    <2>4. /\ name \in NamesOf(d) /\ name \in Name
          /\ Store(d, e)[name] \in [DOMAIN Store(d, block)[name] -> Byte]
      <3>1. PICK s : s = d[i].sector
        OBVIOUS
      <3>2. /\ i \in InUse(d) /\ d[i].name = name /\ e[s] = block[s]
        BY <2>1, <2>2, <3>1
      <3>3. name \in NamesOf(d) /\ name \in Name
        BY <2>3, <3>2, StoreFacts
      <3>4. /\ Store(d, block)[name] = FileBytes(block, block[s])
            /\ FileBytes(block, block[s]) \in [1 .. block[s].numBytes -> Byte]
        BY <2>3, <3>1, <3>2, StoreFacts
      <3>5. /\ Store(d, e)[name] = FileBytes(e, e[s])
            /\ FileBytes(e, e[s]) \in [1 .. e[s].numBytes -> Byte]
        BY <2>3, <3>1, <3>2, StoreFacts
      <3> QED BY <3>2, <3>3, <3>4, <3>5
    <2>5. Stored = Store(d, block) /\ Stored' = Store(d, e)
      BY <1>1, <1>2, <2>1, <2>2
    <2>6. DOMAIN Stored = NamesOf(d) /\ DOMAIN Stored' = NamesOf(d)
      BY <1>domains, <2>1, <2>2
    <2>7. /\ name \in DOMAIN Stored /\ DOMAIN Stored' = DOMAIN Stored
          /\ Stored'[name] \in [DOMAIN Stored[name] -> Byte]
          /\ \A m \in DOMAIN Stored \ {name} : Stored'[m] = Stored[m]
      BY <2>1, <2>2, <2>4, <2>5, <2>6
    <2>8. Abstract!Write(name)
      BY <2>7 DEF Abstract!Write, Abstract!Same
    <2> QED BY <2>4, <2>8 DEF Abstract!Next
  <1> QED BY <1>3, <1>4, <1>5, <1>6, <1>7, OtherSteps

\* A step of a write leaves the files with other names as they are.
LEMMA WriteStep ==
    ASSUME IInv, [CarefulNext]_vars, op.kind = "write"
    PROVE  \A name \in Names \ {op.name} : Stored'[name] = Stored[name]
  <1>1. Stored = Store(Seen, block) /\ TablesSound(Seen, block)
    BY FilesAreStored
  <1>2. Stored' = Store(Seen', block') /\ TablesSound(Seen', block')
    <2>1. IInv'
      BY StepInvariant
    <2>2. (IInv => Stored = Store(Seen, block) /\ TablesSound(Seen, block))'
      BY FilesAreStored, PTL
    <2> QED BY <2>1, <2>2
  <1>3. Names = NamesOf(Seen)
    BY DEF Names, NamesOf
  <1>5. CASE Seen' = Seen /\ block' = block
    BY <1>1, <1>2, <1>3, <1>5
  <1>6. CASE WriteSector
    <2>1. /\ Seen' = Seen
          /\ \A name \in NamesOf(Seen) \ {op.name} :
                Store(Seen, block')[name] = Store(Seen, block)[name]
      BY <1>6, SectorStored
    <2> QED BY <1>1, <1>2, <1>3, <2>1
  <1> QED BY <1>5, <1>6, OtherSteps DEF CreateHeader, CreateDirectory, RemoveDirectory

-----------------------------------------------------------------------------

\* The inductive invariant holds in every state.
THEOREM Invariance == CarefulSpec => []IInv
  <1>1. IInv /\ [CarefulNext]_vars => IInv'
    BY StepInvariant
  <1> QED BY <1>1, InitInvariant, PTL DEF CarefulSpec

\* Between operations the free map marks the sectors of the files there are and
\* of the system, and no others.
THEOREM FreeMapTrue == CarefulSpec => []NoSectorLost
  BY Invariance, SectorsAccountedFor, PTL

\* A halt between any two sectors written, the two of the directory included, leaves
\* every file but the one being created or removed where a search for its name finds
\* it, with its header and with sectors of its own, marked in the free map.
THEOREM HaltContained == CarefulSpec => []HaltHurtsOneFile
  BY Invariance, OneFileHurt, PTL

\* WriteAt changes the bytes it is given and no others, for every alignment.
THEOREM WriteChangesItsBytes == CarefulSpec => []WritesAreExact
  BY Invariance, ExactWrite, PTL

\* A write modifies its file and no other, whatever was removed and created since
\* the file was opened, as long as it was not removed itself.
THEOREM WriteKeepsOtherFiles == CarefulSpec => WriteModifiesItsFile
  <1>1. IInv /\ [CarefulNext]_vars =>
           [op.kind = "write" =>
              \A name \in Names \ {op.name} : Stored'[name] = Stored[name]]_vars
    BY WriteStep
  <1> QED BY <1>1, Invariance, PTL DEF CarefulSpec, WriteModifiesItsFile

\* The file system on disk implements Files: independent files by name.
THEOREM Refinement == CarefulSpec => FilesAreIndependent
  <1>1. IInv /\ [CarefulNext]_vars => [Abstract!Next]_Stored
    BY FilesStep
  <1> QED BY <1>1, FilesInit, Invariance, PTL DEF CarefulSpec, FilesAreIndependent, Abstract!Spec

=============================================================================
