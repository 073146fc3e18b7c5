SPECIFICATION ComponentsSpec
CONSTANTS
    g1 = g1
    g2 = g2
    r1 = r1
    r2 = r2
    Trees <- MCTrees
    Green <- MCGreen
    Pristine = g1
    MaxSends = 3
    Chains <- MCChains
    Commands <- MCCommands
    Procs = {p1}
    MaxCalls = 3
    Jobs <- MCJobs
    readLineCap = 2
    readLineCapExplicit = 3
    maxFileBytes = 6
    writeByteCap = 4
    MaxBytes = 6
    Runs <- MCRuns
    Replies <- MCReplies
    Faults <- MCFaults
    Upstreams <- MCUpstreams
    MaxResends = 2
    MaxTurns = 2
CHECK_DEADLOCK FALSE
INVARIANTS
    ComponentsTypeOK
    DerivedIsSoft
    UserVerifyStandsLazily
    NothingRunsUnasked
    ClaimIsReal
    SessionResumes
    CloseReaps
    TurnsArriveWhole
    RequestIsWellFormed
    RoutingIsSticky
    FaultsAreRouted
    FilesAddUp
    FilterKeepsEvents
PROPERTIES
    DecisionIsFinal
    SuccessIsReal
    CallsReturn
    EditIsSurgical
