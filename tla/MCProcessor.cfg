CONSTANTS
    W = 4
    Thread = {p1, p2}
    Root = p1
    Reg <- MCReg
    MemSize = 3
    Decode <- MCDecode
    Images <- MCImages
    Executables <- MCExecutables
    Call <- MCCall
    Results = {1}
    Ranges <- MCRanges
    Edits = {1}
    MaxCommands = 2
    TableRanges <- MCTableRanges
    MaxTableCommands = 6
SPECIFICATION Spec
INVARIANTS InstructionsExact QueriesAreExact
PROPERTIES RunsAsIsa StopsWhenAsked
CHECK_DEADLOCK FALSE
