SPECIFICATION FairSpec
CHECK_DEADLOCK FALSE
CONSTANTS
    Answers <- MCAnswers
    AfterFile <- MCAfterFile
    AfterNoFile <- Simple
    MaxCalls = 2
    None = None
INVARIANTS RetrySafe CancelOwn CleanStart ResultCounts
PROPERTIES CancelEnds WatcherGone RowsCloseDrains
