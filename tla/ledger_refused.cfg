SPECIFICATION Spec
CONSTANTS
    Peers = {"p", "q"}
    Everyone = "*"
    AnyCommand = "*"
    EventIds = {"m1", "m2", "m3"}
    Threads = {1, 2}
    Bodies <- MessageBodies
    AckBodies <- MessageAcks
    Grants <- None
    AclPlans <- None
    FileDenied <- None
    MaxInboxDepth = 1
CHECK_DEADLOCK FALSE
PROPERTY RefusedMeansNotStored
