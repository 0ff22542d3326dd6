SPECIFICATION FairSpec
CONSTANTS
    Calls <- MCCalls
    Replies <- MCReplies
    PacketOf <- MCPacketOf
    Tokens <- MCTokens
    Word = 256
INVARIANTS
    NilMeansAccepted
    ResultReported
    ReferralReported
    
    MutualAuthentication
    NoPanic
 
