SPECIFICATION PSpec
CONSTANTS
    NumProc = 2
    Names = {"small"}
    Exists = {"small"}
    Pages <- MCPages
    MainName = "small"
    NumFrames = 2
    MaxFds = 3
    Codes = {7}
INVARIANT
    NobodyWaitsOnDestroyed
CHECK_DEADLOCK FALSE
