CONSTANTS
    None = None
    Sessions = {s1, s2}
    Dbs = {d1}
    Conns = {c1, c2}
    MaxConns = 1
    Commands = {"select", "begin", "end"}
    MaxRequests = 2
    MaxRows = 0
    Faults = {"dial", "drop", "main", "leave"}
SPECIFICATION Spec
SYMMETRY Symmetry
CHECK_DEADLOCK FALSE
INVARIANTS
    OwnPackets
    OneAnswer
    CleanIdle
    TxOnMain
PROPERTY ImplementsSplit
