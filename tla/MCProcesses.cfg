SPECIFICATION PSpec
CONSTANTS
    NumProc = 3
    Names = {"small", "big", "huge", "none"}
    Exists = {"small", "big", "huge"}
    Pages <- MCPages
    MainName = "small"
    NumFrames = 3
    MaxFds = 3
    Codes = {7, 8}
INVARIANTS
    PTypeOK
    PagesOwned
    LoadExclusive
    MutexExclusive
    JoinReadSafe
    DestroyedUnused
    IdleExplained
PROPERTIES
    ImplementsLifecycle
CHECK_DEADLOCK FALSE
