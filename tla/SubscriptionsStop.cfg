CONSTANTS
    User = {u1, u2}
    MaxSubs = 2
    MaxUpdates = 1
    MaxSize = 2
    MaxTimeouts = 0
    MaxUnsubs = 1
SPECIFICATION FairSpec
PROPERTY ConsumerStops
CHECK_DEADLOCK FALSE
