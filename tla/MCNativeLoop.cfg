SPECIFICATION BothLoops
CONSTANTS
    MaxRepeats = 2
    MaxReasoningRepeats = 4
    MaxStagnant = 3
    NavSpiralWindow = 2
    WanderMultiple = 2
    FrontierCap = 2
    GreenRepeatThreshold = 2
    ChurnNudgeRuns = 2
    DiagnoseAfterEdits = 2
    FinishNudgeWindow = 2
    AnswerNudgeWindow = 2
    evictionMaxRetries = 3
    transientMaxRetries = 2
    Scenarios <- MCScenarios
    Versions <- MCVersions
    Missing <- MCMissing
    RunOut <- MCRunOut
    TextRuns <- MCTextRuns
    Written <- MCWritten
    Known <- MCKnown
INVARIANTS
    LoopTypeOK
    TranscriptWellFormed
    SendsBounded
    ReadsAreCurrent
    KillsAreStalls
    ActionIsWritten
PROPERTIES
    EvictionIsSafe
    LoopEnds
CHECK_DEADLOCK FALSE
