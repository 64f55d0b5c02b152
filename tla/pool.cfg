CONSTANTS
    None = None
    Users = {u1, u2}
    Openers = {u1}
    Closers = {k1}
    Procs = {u1, u2, k1}
    Conns = {c1, c2, c3}
    MinConns = 1
    MaxConns = 2
SPECIFICATION FairSpec
CHECK_DEADLOCK FALSE
INVARIANTS
    TypeOK
    Exclusive
    NoLeak
PROPERTIES
    ClosedIsFinal
    ImplementsOwnership
    CallsReturn
    ReaperTrims
