CONSTANTS
    None = None
    Sessions = {s1}
    Dbs = {d1}
    Conns = {c1}
    MaxConns = 1
    Commands = {"select", "write"}
    MaxRequests = 1
    MaxRows = 1
    Faults = {"dial"}
SPECIFICATION FairSpec
CHECK_DEADLOCK FALSE
PROPERTY Answered
