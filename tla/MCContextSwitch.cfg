CONSTANTS
    Thread = {main, t1, t2}
    Main = main
    NoThread = NoThread
SPECIFICATION Spec
INVARIANTS DeletedIsNotRunning
CHECK_DEADLOCK FALSE
