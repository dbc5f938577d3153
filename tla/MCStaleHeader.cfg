CONSTANTS
    Process = {p1}
    Name = {a, b}
    NoName = NoName
    Byte = {0, 1}
    NumSectors = 9
    SectorSize = 2
    NumDirEntries = 2
    SplitEntry = 1
    NumDirect = 2
    Sizes = {0, 1, 3}
    MAX_FD = 3
SPECIFICATION Spec
PROPERTY WriteModifiesItsFile
SYMMETRY Symmetry
VIEW MCView
