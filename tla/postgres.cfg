CONSTANTS
    None = None
    Sessions = {s1, s2}
    Weights <- MCWeights
    Unopened = {3}
    ColumnSets <- MCColumnSets
    MaxOpen = 1
    Script <- MCScript
    s1 = s1
    s2 = s2
    MaxRows = 1
    MaxFaults = 2
SPECIFICATION FairSpec
CHECK_DEADLOCK FALSE
INVARIANTS
    FairShare
    OneAnswer
    StatusTrue
    ResultWhole
    ColumnTypes
PROPERTIES
    Answered
    QueryProceeds
    SessionEnds
