SPECIFICATION OperatorsSpec
CONSTANTS
    Peers = {"p"}
    Secrets = {s1, s2, s3}
    NoSecret = none
    Clis = {c1, c2}
    Grace = 1
    MaxClock = 4
    Tables = 2
    Keys = {"k1", "k2", "k3"}
    Snapshots = 2
    Content <- TwoSnapshots
    Defaults <- RetentionDays
    Nodes = 2
    MaxOrphans = 2
    MaxCommands = 3
    Mtimes = {1, 2, 3}
    Workers = {"a", "b"}
    Nobody = "nobody"
SYMMETRY Symmetry
CHECK_DEADLOCK FALSE
INVARIANT TokensSound
PROPERTY NoRevival
PROPERTY DevicesUnaffected
PROPERTY ImportWhole
INVARIANT SyncSound
INVARIANT AclFileSound
INVARIANT TaskSound
