SPECIFICATION FairSpec
CONSTANTS
    TaskId = {t1}
    NoTask = NoTask
    MaxMessages = 3
CHECK_DEADLOCK FALSE
PROPERTY CancelEndsCommand
