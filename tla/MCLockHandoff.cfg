CONSTANTS
    Thread = {t1, t2}
    NoThread = NoThread
    MaxPriority = 0
    DefaultPriority = 0
    InitialValue = 0
    MaxValue = 0
SPECIFICATION FairSpec
PROPERTY AcquireReturns
CHECK_DEADLOCK FALSE
