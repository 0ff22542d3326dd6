SPECIFICATION ClientFairSpec
CONSTANTS
    c1 = c1
    c2 = c2
    r1 = r1
    Readers = {r1}
    None = None
    Callers = {c1, c2}
    Kinds = {"request", "starttls"}
    Timeouts = {TRUE}
    Replies = {"fail"}
    Strays = {}
    ServerMayClose = FALSE
    ChanCap = 1
    MaxOps = 2
    MaxExtra = 0
CHECK_DEADLOCK FALSE
PROPERTIES
    CallsReturn
