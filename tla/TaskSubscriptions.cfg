SPECIFICATION FairSpec
CONSTANTS
    TaskId = {t}
    Subscriber = {x, y}
    Waiter = {w}
    Caller = {k, l}
    None = None
    Cap = 1
    MaxCalls = 3
CHECK_DEADLOCK FALSE
INVARIANTS
    TypeOK
    StreamInOrder
    CurrentUnlessDropped
    ClosedIsForgotten
    SignalledOnce
    IInv
PROPERTIES
    ImplementsLifecycle
    BroadcastsEnd
