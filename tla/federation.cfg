SPECIFICATION Spec
CONSTANTS
    Origins = {"a", "b"}
    Agents = {"bob"}
    EventIds = {"e1", "k1", "k2"}
    Texts = {"hi", "ho"}
    Times = {1, 2}
    Keys = {"k1", "k2"}
    NoKey = "none"
    Intents <- SeveralIntents
    OriginConfigs <- OriginChanges
    ReceiverConfigs <- ReceiverChanges
    OutboxCap = 1
    AckTypes = {"applied"}
CHECK_DEADLOCK FALSE
ACTION_CONSTRAINT OneStory
INVARIANT MessagesSound
INVARIANT ReceiptsSound
INVARIANT FailuresNotified
PROPERTY ImplementsFederationSpec
