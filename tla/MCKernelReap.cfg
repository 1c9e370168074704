SPECIFICATION MCSpec
CONSTANTS
    Threads = {t1, t2, t3}
    Main = t1
    Sems = {s1}
    NoThread = NoThread
    NoSem = NoSem
    InitVal <- MCInitVal
    MaxValue = 1
    MaxPending = 1
PROPERTY
    FinishedIsDestroyed
CHECK_DEADLOCK FALSE
