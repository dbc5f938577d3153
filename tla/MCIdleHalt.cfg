CONSTANTS
    Thread = {t1}
    NoThread = NoThread
    MaxPriority = 0
    DefaultPriority = 0
    SystemTick = 10
    UserTick = 1
    ConsoleTime = 100
    TimerDelays = {110}
    DiskLatencies = {500}
    EOF = EOF
    FLAG_EOF = FLAG_EOF
    MaxKeys = 0
    MaxCalls = 2
SPECIFICATION Spec
INVARIANTS HaltOnlyWhenDone
CHECK_DEADLOCK FALSE
