SPECIFICATION Spec
CONSTANTS
    AgentId = {a}
    NoId = NoId
    Conn = {c1, c2}
    Nobody = Nobody
    ChanCap = 1
    MaxMessages = 4
CHECK_DEADLOCK FALSE
INVARIANT NoSendOnClosedChannel
