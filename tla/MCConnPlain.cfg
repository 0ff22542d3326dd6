SPECIFICATION Spec
CONSTANTS
    c1 = c1
    c2 = c2
    r1 = r1
    Readers = {r1}
    None = None
    Callers = {c1, c2}
    Kinds = {"request", "async", "unbind", "close"}
    Timeouts = {FALSE}
    Replies = {"entry", "ok"}
    Strays = {"bad"}
    ServerMayClose = TRUE
    ChanCap = 1
    MaxOps = 2
    MaxExtra = 1
SYMMETRY Symmetry
CHECK_DEADLOCK FALSE
INVARIANTS
    TypeOK
    OutstandingExact
    NoOrphan
