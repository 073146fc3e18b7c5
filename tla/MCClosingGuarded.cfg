SPECIFICATION FairClosingSpec
CONSTANTS
    t0 = t0
    good = good
    bad = bad
    cheat = cheat
    q1 = q1
    Trees <- MCTrees
    BaseTree = t0
    VerifyOut <- RedBase
    FenceClean = {t0, good, bad}
    InScope = {t0, good, cheat}
    ReproIntact = {good, bad}
    ReproGreen = {good}
    Quotes = {q1}
    Claims <- MCClaims
    MaxClaims = 1
    MaxRounds = 2
    ReproCap = 1
    MaxIters = 3
    MaxFeedback = 2
    IOMayFail = TRUE
    Policies <- Guarded
INVARIANTS
    ClosingTypeOK
PROPERTIES
    KeepsContract
CHECK_DEADLOCK FALSE
