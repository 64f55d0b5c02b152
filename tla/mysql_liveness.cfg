CONSTANTS
    None = None
    Sessions = {s1, s2}
    Dbs = {d1}
    Conns = {c1, c2}
    MaxConns = 1
    Commands = {"select", "end"}
    MaxRequests = 1
    MaxRows = 0
    Faults = {"main", "leave"}
SPECIFICATION FairSpec
CHECK_DEADLOCK FALSE
PROPERTIES
    Answered
    SessionEnds
