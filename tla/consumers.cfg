SPECIFICATION ConsumersSpec
CONSTANTS
    MaxOrders = 6
    OrderKind <- RescueOrders
    Fates <- RescueFates
    PageLimit = 2
    MaxMishaps = 2
    Mode = "chat"
    MaxId = 4
    PageSize = 2
    MaxRetry = 1
    WaitEventDriven = FALSE
    WorkThreads = {"k1", "k2"}
    ThreadOf <- ChatThreads
    Kind <- WithEmpty
    Conns = {1, 2}
    Calls <- InboxCalls
    MaxEvents = 2
    Pids = {1, 2}
    MaxFaults = 2
CHECK_DEADLOCK FALSE
INVARIANT InboxSound
INVARIANT AcksAreEvidence
INVARIANT NothingForgotten
PROPERTY FinalReplyOnce
PROPERTY LatchFollowsDisk
INVARIANT RescueSound
PROPERTY EveryOrderEnds
PROPERTY EveryMessageDelivered
