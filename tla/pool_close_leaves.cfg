CONSTANTS
    None = None
    Users = {u1, u2}
    Openers = {}
    Closers = {k1}
    Procs = {u1, u2, k1}
    Conns = {c1, c2, c3, c4}
    MinConns = 1
    MaxConns = 2
SPECIFICATION Spec
SYMMETRY Symmetry
CHECK_DEADLOCK FALSE
INVARIANT CloseDrains
