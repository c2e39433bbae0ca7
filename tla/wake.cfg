SPECIFICATION FairSpec
CONSTANTS
    Clients = {"adapter", "wait"}
    Patient = {"wait"}
    Streams = {1, 2}
    NoStream = 0
    Senders = {"a"}
    Notes = {"n1"}
    NoNote = "none"
    MaxEvents = 1
    QueueSize = 1
    WireSize = 1
CHECK_DEADLOCK FALSE
INVARIANT WakeSound
PROPERTY LiveLaneKept
PROPERTY AdapterFindsEvents
