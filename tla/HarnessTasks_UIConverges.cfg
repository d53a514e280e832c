SPECIFICATION Spec
CONSTANTS
    Agent = {a, b}
    UISlot = {u}
    TaskId = {t}
    NoAgent = NoAgent
    MaxMessages = 3
CHECK_DEADLOCK FALSE
INVARIANT UIConverges
