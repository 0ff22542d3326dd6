SPECIFICATION Spec
CONSTANTS
    c1 = c1
    c2 = c2
    r1 = r1
    r2 = r2
    r3 = r3
    Readers = {r1, r2, r3}
    None = None
    Callers = {c1, c2}
    Kinds = {"request", "starttls", "close"}
    Timeouts = {FALSE}
    Replies = {"entry", "ok", "fail"}
    Strays = {"noid", "entry"}
    ServerMayClose = TRUE
    ChanCap = 1
    MaxOps = 3
    MaxExtra = 1
SYMMETRY Symmetry
CHECK_DEADLOCK FALSE
INVARIANTS
    StartTLSAlone
    HandshakeAlone
