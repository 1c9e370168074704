SPECIFICATION PFairSpec
CONSTANTS
    NumProc = 3
    Names = {"small"}
    Exists = {"small"}
    Pages <- MCPages
    MainName = "small"
    NumFrames = 3
    MaxFds = 3
    Codes = {7}
PROPERTIES
    JoinReturns
    ReapedIsGone
    LoadEnds
CHECK_DEADLOCK FALSE
