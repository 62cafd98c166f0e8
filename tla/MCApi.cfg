SPECIFICATION MCSpec
CONSTANTS
    User = {u}
    a = a
    Address = {a}
    Calls <- AllCalls
    MaxCalls = 4
    MaxSubs = 4
    MaxUpdates = 2
    MaxTimeouts = 1
    Leftover <- NoLeftover
    Threads = {t1, t2, t3}
    Null = null
INVARIANTS Dispatched 
 
CHECK_DEADLOCK FALSE
