CONSTANTS
    Thread = {t1, t2, t3, t4}
    NoThread = NoThread
    MaxPriority = 2
    DefaultPriority = 1
    InitialValue = 1
    MaxValue = 2
SPECIFICATION FairSpec
INVARIANTS TypeOK NoLostWakeup OnePlace MutualExclusion
PROPERTY SemaphoreProgress
CHECK_DEADLOCK FALSE
