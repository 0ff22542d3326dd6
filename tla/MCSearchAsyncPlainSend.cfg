SPECIFICATION FairSpec
CONSTANTS
    BufferSizes = {1}
    Packets = {"entry", "bad attributes"}
    Timeouts = {FALSE}
    MaxPackets = 3
CHECK_DEADLOCK FALSE
PROPERTIES
    CancelStops
