SPECIFICATION FairSpec
CONSTANTS
    Ops = {"search", "paging", "dirsync"}
    N = 4
    Sizes = {0, 1, 2}
    SizeLimits = {0, 2}
    MaxCalls = 3
    MaxEmpty = 1
CHECK_DEADLOCK FALSE
INVARIANTS
    PagingComplete
    SizeLimitHard
PROPERTIES
    CallReturns
