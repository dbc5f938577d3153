CONSTANTS
    NumPages = 3
    TextPage = 0
    StackPage = 2
    HistoryBits = 2
    Deltas = {2}
    Contractions = {TRUE}
    MinWss = 1
    MaxWss = 2
    RefreshPeriod = 1
SPECIFICATION Spec
INVARIANTS VictimsMatchReference HistoryTellsRecency LruEvictsLeastRecent
PROPERTY FaultRespectsWorkingSet
VIEW MCView
