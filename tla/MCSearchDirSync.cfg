SPECIFICATION Spec
CONSTANTS
    Ops = {"dirsync"}
    N = 4
    Sizes = {1}
    SizeLimits = {0}
    MaxCalls = 2
    MaxEmpty = 0
CHECK_DEADLOCK FALSE
INVARIANTS
    DirSyncSendsCookie
