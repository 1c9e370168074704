SPECIFICATION PSpec
CONSTANTS
    NumProc = 2
    Names = {"small"}
    Exists = {"small"}
    Pages <- MCPages
    MainName = "small"
    NumFrames = 1
    MaxFds = 3
    Codes = {7}
INVARIANT
    StartedHasMemory
CHECK_DEADLOCK FALSE
