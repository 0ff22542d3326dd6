SPECIFICATION FairSpec
CONSTANTS
    BufferSizes = {0, 1}
    Packets = {"entry", "done", "done control", "unknown tag", "bad attributes", "short"}
    Timeouts = {TRUE, FALSE}
    MaxPackets = 3
CHECK_DEADLOCK FALSE
INVARIANTS
    AllResults
    
    FinishedBeforeEnd
PROPERTIES
    ErrorIsFinal
    CancelStopsSends
    ConsumerReturns
