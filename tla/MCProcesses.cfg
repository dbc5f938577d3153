CONSTANTS
    Thread = {r, a, b}
    NoThread = NoThread
    Root = r
    MaxPriority = 2
    DefaultPriority = 1
    NiceRange = {1}
SPECIFICATION FairSpec
INVARIANTS TypeOK SchedulerSound WaitFindsChild NoDanglingThread NoCarcassLost
PROPERTIES ForkExitWait AllExit
CHECK_DEADLOCK FALSE
