SPECIFICATION FairSpec
CONSTANTS
    Client = {c, d}
    Goroutine = {g}
    NoOne = NoOne
    Session = {s}
    Limit = 1
    BufCap = 1
    MaxEvents = 2
CHECK_DEADLOCK FALSE
INVARIANTS TypeOK NothingMissed IInv
PROPERTIES OnlyAStallHoldsUp GoneIsForgotten
