SPECIFICATION MCFairSpec
CONSTANTS
    Threads = {t1, t2, t3}
    Main = t1
    Sems = {s1, s2}
    NoThread = NoThread
    NoSem = NoSem
    InitVal <- MCInitVal
    MaxValue = 2
    MaxPending = 1
INVARIANTS
    TypeOK
    ThreadPlacement
    NoLostWakeup
    DestroySafe
PROPERTIES
    ImplementsCountingSemaphore
    ReadyRuns
    PermitTaken
    IOWaiterRuns
CHECK_DEADLOCK FALSE
