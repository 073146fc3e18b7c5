SPECIFICATION DeliverySpec
CONSTANTS
    t0 = t0
    t1 = t1
    t2 = t2
    q1 = q1
    q2 = q2
    Trees <- MCTrees
    BaseTree = t0
    Claims <- MCClaims
    Quotes = {q1, q2}
    MaxClaims = 2
    MaxRounds = 2
    ReproCap = 1
    IOMayFail = TRUE
    Policies <- MCPolicies
    Invocations <- MCInvocations
    LoopOutcomes = {"answered", "hit_cap", "provider_error", "refused_unsafe"}
    GitMayFail = TRUE
    MaxSweeps = 1
SYMMETRY TreeSymmetry
CHECK_DEADLOCK FALSE
INVARIANTS
    DeliveryTypeOK
    RequiredMeansReviewed
    VerdictIsExplained
    RoundsBounded
    ReproBudgetHeld
    WorkspacePreserved
    DeliveredIsReported
    KnockoutIsSound
    SetupIsHonoured
PROPERTIES
    FatesAreFinal
    WorkIsNeverDropped
