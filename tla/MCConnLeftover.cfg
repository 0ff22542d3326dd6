SPECIFICATION FairSpec
CONSTANTS
    c1 = c1
    c2 = c2
    r1 = r1
    r2 = r2
    Readers = {r1, r2}
    None = None
    Callers = {c1, c2}
    Kinds = {"request", "starttls"}
    Timeouts = {FALSE}
    Replies = {"entry", "ok"}
    Strays = {}
    ServerMayClose = FALSE
    ChanCap = 1
    MaxOps = 2
    MaxExtra = 1
CHECK_DEADLOCK FALSE
PROPERTIES
    CallsReturn
