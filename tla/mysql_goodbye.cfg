CONSTANTS
    None = None
    Sessions = {s1}
    Dbs = {d1}
    Conns = {c1}
    MaxConns = 1
    Commands = {"select"}
    MaxRequests = 1
    MaxRows = 1
    Faults = {"main"}
SPECIFICATION Spec
CHECK_DEADLOCK FALSE
INVARIANT
    UnbrokenAnswer
