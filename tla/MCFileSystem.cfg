CONSTANTS
    Process = {p1}
    Name = {a, b, c}
    NoName = NoName
    Byte = {0, 1}
    NumSectors = 9
    SectorSize = 2
    NumDirEntries = 2
    SplitEntry = 1
    NumDirect = 2
    Sizes = {0, 1, 3}
    MAX_FD = 3
SPECIFICATION CarefulSpec
INVARIANTS NoSectorLost HaltHurtsOneFile WritesAreExact
PROPERTY FilesAreIndependent
SYMMETRY Symmetry
VIEW MCView
