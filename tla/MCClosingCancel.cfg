SPECIFICATION ClosingSpec
CONSTANTS
    t0 = t0
    good = good
    bad = bad
    cheat = cheat
    q1 = q1
    Trees <- HonestTrees
    BaseTree = t0
    VerifyOut <- HonestGreenBase
    FenceClean = {t0, good, bad}
    InScope = {t0, good, bad}
    ReproIntact = {good, bad}
    ReproGreen = {good}
    Quotes = {q1}
    Claims <- MCClaims
    MaxClaims = 1
    MaxRounds = 2
    ReproCap = 1
    MaxIters = 2
    MaxFeedback = 2
    IOMayFail = FALSE
    Policies <- WithReview
INVARIANTS
    ObservedCancelStops
CHECK_DEADLOCK FALSE
