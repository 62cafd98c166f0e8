CONSTANTS
    k1 = k1
    k2 = k2
    c1 = c1
    c2 = c2
    Key = {k1, k2}
    Producer = {p1}
    Consumer = {c1}
    Eraser = {e1}
    Serves <- ServesOwnKey
    MaxSize = 2
    MaxPut = 2
    MaxErase = 1
SPECIFICATION Spec
INVARIANTS Accounting FalseMeansErased  SemaphoresValid
CHECK_DEADLOCK FALSE
