SPECIFICATION MCSpec
CONSTANTS
    Account = {7, 9}
    Nonces <- SomeNonces
    Amounts <- SomeAmounts
    MethodSizes = {0, 33, 252}
    BufferSizes = {0, 1, 3}
    MaxSent = 2
    Versions = {0, 4, 5, 6, 7}
    MaxBlock = 3
    StateKept = 2
    MaxTimeouts = 2
    MAX_PEER_COUNT = 2
    MaxPeers = 3
    FirstBlock = 16
    LastBlock = 20
    Lengths = {2, 3}
    SessionsPerEra = 2
    EpochDuration = 3
    QueueLength = 2
INVARIANTS   LookupsAreRight  ReportsAreRight
CHECK_DEADLOCK FALSE
