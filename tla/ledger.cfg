SPECIFICATION Spec
CONSTANTS
    Peers = {"p", "q"}
    Everyone = "*"
    AnyCommand = "*"
    EventIds = {"m1", "m2", "m3", "c1", "c2", "a1", "a2", "a3"}
    Threads = {1, 2}
    Bodies <- AllBodies
    AckBodies <- MessageAcks
    Grants <- ScopedGrants
    AclPlans <- Plans
    FileDenied <- DeniedByFile
    MaxInboxDepth = 1
CHECK_DEADLOCK FALSE
ACTION_CONSTRAINT OneStory
INVARIANT LogSound
INVARIANT AnswersSound
INVARIANT BacklogOvershoot
INVARIANT AclFailsClosed
PROPERTY AuthorizedAtCommit
PROPERTY ImplementsLedgerSpec
