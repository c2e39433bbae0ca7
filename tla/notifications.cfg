SPECIFICATION FairSpec
CONSTANTS
    MaxRows = 6
    Agents = {"ghost", "alice"}
    Operator = "operator"
    Owner <- Owners
    Backlog = {1, 2, 3, 4, 6}
    Visitors = {"alice"}
    Pullers = {"alice"}
    Scanners = {"worker", "request"}
    Worker = "worker"
    PageSize = 2
    Budget = 4
    MaxRestarts = 1
INVARIANT TypeOK
PROPERTY EveryHintPushed
PROPERTY EveryNotificationAcked
