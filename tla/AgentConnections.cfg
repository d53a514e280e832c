SPECIFICATION FairSpec
CONSTANTS
    AgentId = {a, b}
    NoId = NoId
    Conn = {c1, c2}
    Nobody = Nobody
    ChanCap = 2
    MaxMessages = 5
CHECK_DEADLOCK FALSE
INVARIANTS
    TypeOK
    NoGhosts
    NothingLostOnALiveSocket
    IInv
PROPERTY DisconnectIsCleanedUp
