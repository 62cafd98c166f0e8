CONSTANTS
    Caller = {a, b}
    Ws = ws
    IntMax = 7
    MaxCalls = 1
SPECIFICATION Spec
INVARIANTS WaitsForResponseOnly
CHECK_DEADLOCK FALSE
