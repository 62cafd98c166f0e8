CONSTANTS
    User = {u1, u2}
    MaxSubs = 2
    MaxUpdates = 2
    MaxSize = 2
    MaxTimeouts = 1
    MaxUnsubs = 1

SPECIFICATION FairSpec
INVARIANTS UpdatesKept NullOnlyAfterUnsubscribe
PROPERTIES EveryUpdateHandled
CHECK_DEADLOCK FALSE
