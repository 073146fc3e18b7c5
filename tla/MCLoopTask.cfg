SPECIFICATION LoopSpec
CONSTANTS
    MaxRepeats = 2
    MaxReasoningRepeats = 4
    MaxStagnant = 3
    NavSpiralWindow = 2
    WanderMultiple = 2
    FrontierCap = 4
    GreenRepeatThreshold = 2
    ChurnNudgeRuns = 2
    DiagnoseAfterEdits = 2
    FinishNudgeWindow = 2
    AnswerNudgeWindow = 2
    evictionMaxRetries = 3
    transientMaxRetries = 2
    Scenarios <- Chatting
    Versions <- MCVersions
    Missing <- MCMissing
    RunOut <- MCRunOut
    TextRuns <- NoText
    Written <- MCWritten
    Known <- MCKnown
INVARIANT TaskStaysInContext
CHECK_DEADLOCK FALSE
