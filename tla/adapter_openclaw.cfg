SPECIFICATION FairSpec
CONSTANTS
    Mode = "openclaw"
    MaxId = 2
    PageSize = 1
    MaxRetry = 1
    WaitEventDriven = FALSE
    WorkThreads = {"k1"}
    ThreadOf <- OneThread
    Kind <- TwoWork
CHECK_DEADLOCK FALSE
INVARIANT AnsweredBeforeForgotten
PROPERTY EveryEventHandled
