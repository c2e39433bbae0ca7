SPECIFICATION Spec
CONSTANTS
    ForeignKeys = FALSE
    Peers = {"p", "q"}
    Everyone = "*"
    AnyCommand = "*"
    EventIds = {"m1", "m2", "c1", "c2"}
    Tokens = {"kp", "kq", "new"}
    FirstTokens <- PeersTokens
    Grace = 1
    MaxClock = 3
    Threads = {t1, t2}
    Cli = cli
    Endpoints = 2
    Bodies <- AllBodies
    AckBodies <- OneAck
    Grants <- OneGrant
    AclPlans <- OnePlan
    MaxGrants = 2
    MaxLate = 1
CHECK_DEADLOCK FALSE
SYMMETRY Symmetry
ACTION_CONSTRAINT OneStory
INVARIANT RaftLogSound
INVARIANT RaftAnswersSound
PROPERTY RaftAuthorizedAtCommit
PROPERTY RaftImplementsLedgerSpec
