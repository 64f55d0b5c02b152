SPECIFICATION Spec
CHECK_DEADLOCK FALSE
CONSTANTS
    Answers <- FileAnswers
    AfterFile <- Loaded
    AfterNoFile <- LoadedMore
    MaxCalls = 2
    None = None
INVARIANTS CleanStart
