CONSTANTS
    Thread = {t1, t2}
    NoThread = NoThread
    MaxPriority = 0
    DefaultPriority = 0
    SystemTick = 2
    UserTick = 1
    ConsoleTime = 5
    TimerDelays = {7}
    DiskLatencies = {4}
    EOF = EOF
    FLAG_EOF = FLAG_EOF
    MaxKeys = 2
    MaxCalls = 2
SPECIFICATION Spec
INVARIANTS TypeOK CompletionsExact LatencyIsPhysical KeysInOrder OutputUnbroken LatenessBounded
PROPERTIES WriteReturns
CHECK_DEADLOCK FALSE
