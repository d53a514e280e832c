SPECIFICATION FairSpec
CONSTANTS
    TaskId = {t1, t2}
    NoTask = NoTask
    MaxMessages = 6
CHECK_DEADLOCK FALSE
INVARIANTS TypeOK FirstVerdictDecides OutcomeIsTrue IInv
PROPERTY EarlyCancelCutsShort
