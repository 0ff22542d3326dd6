SPECIFICATION Spec
CONSTANTS
    c1 = c1
    c2 = c2
    r1 = r1
    Readers = {r1}
    None = None
    Callers = {c1, c2}
    Kinds = {"request", "close"}
    Timeouts = {TRUE, FALSE}
    Replies = {"ok"}
    Strays = {}
    ServerMayClose = TRUE
    ChanCap = 1
    MaxOps = 2
    MaxExtra = 0
SYMMETRY Symmetry
CHECK_DEADLOCK FALSE
INVARIANTS
    ResponsesSafe
    ChanMessageSafe
PROPERTY ImplementsResponses
