SPECIFICATION FairSpec
CONSTANTS
    Agent = {a, b}
    UISlot = {u, v}
    TaskId = {t}
    NoAgent = NoAgent
    MaxMessages = 3
CHECK_DEADLOCK FALSE
INVARIANTS
    TypeOK
    ShownStatesAreReal
    SignalsAreEarned
    SpanLedger
    IInv
PROPERTIES
    RequesterToldInOrder
    ImplementsLifecycle
    EndedStaysEnded
    CancelSticks
    SpansAreEnded
    EndIsShown
