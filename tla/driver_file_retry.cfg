SPECIFICATION Spec
CHECK_DEADLOCK FALSE
CONSTANTS
    Answers <- FileAnswers
    AfterFile <- Loaded
    AfterNoFile <- Loaded
    MaxCalls = 2
    None = None
INVARIANTS RetrySafe
