SPECIFICATION Spec
CONSTANTS
    Codecs = {"dn", "names", "filter", "postal", "digest", "requests", "controls", "sync"}
    Items <- MCItems
    MaxItems <- MCMaxItems
    Values <- MCValues
    Word = 256
CHECK_DEADLOCK FALSE
INVARIANTS
    DNRoundTrip
    DNBlanks
    EscapeDNInert
    
    FilterRoundTrip
    FilterWhole
    EscapeFilterInert
    PostalRoundTrip
    DigestAgrees
    ControlsRoundTrip
    DescribedAlike
    DecodeReturns
    SyncMembersFound
