CONSTANTS
    None = None
    Sessions = {s1}
    Weights <- MCWeights
    Unopened = {3}
    ColumnSets <- MCColumnSets
    MaxOpen = 1
    Script <- MCScriptOne
    s1 = s1
    s2 = s2
    MaxRows = 1
    MaxFaults = 1
SPECIFICATION Spec
CHECK_DEADLOCK FALSE
INVARIANT NothingAfterFatal
