CONSTANTS
    Caller = {a, b}
    Ws = ws
    IntMax = 7
    MaxCalls = 3
SPECIFICATION FairSpec
INVARIANTS OwnResponse StoredIsReturned CrashNeedsEarlyWake
PROPERTIES EveryCallReturns
CHECK_DEADLOCK FALSE
