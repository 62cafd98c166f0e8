CONSTANTS
    k1 = k1
    k2 = k2
    c1 = c1
    c2 = c2
    Key = {k1}
    Producer = {p1, p2}
    Consumer = {c1, c2}
    Eraser = {}
    Serves <- ServesOneKey
    MaxSize = 3
    MaxPut = 4
    MaxErase = 1

SPECIFICATION FairSpec
PROPERTIES ImplementsChannel ItemsMove
CHECK_DEADLOCK FALSE
