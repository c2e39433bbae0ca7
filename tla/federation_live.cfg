SPECIFICATION FairSpec
CONSTANTS
    Origins = {"a"}
    Agents = {"bob"}
    EventIds = {"e1"}
    Texts = {"hi"}
    Times = {1}
    Keys = {"k1"}
    NoKey = "none"
    Intents <- OneIntent
    OriginConfigs <- Settled
    ReceiverConfigs <- SettledReceiver
    OutboxCap = 1
    AckTypes = {"applied"}
CHECK_DEADLOCK FALSE
PROPERTY EveryEventEnds
PROPERTY EveryEventDelivered
PROPERTY EveryAckReported
