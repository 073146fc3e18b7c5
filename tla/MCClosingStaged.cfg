SPECIFICATION FairClosingSpec
CONSTANTS
    t0 = t0
    good = good
    bad = bad
    cheat = cheat
    q1 = q1
    Trees <- MCTrees
    BaseTree = t0
    VerifyOut <- GreenBase
    FenceClean = {t0, good, bad}
    InScope = {t0, good, bad}
    ReproIntact = {good, bad, cheat}
    ReproGreen = {good}
    Quotes = {q1}
    Claims <- MCClaims
    MaxClaims = 1
    MaxRounds = 2
    ReproCap = 1
    MaxIters = 4
    MaxFeedback = 2
    IOMayFail = FALSE
    Policies <- Staged
INVARIANTS
    EvidenceIsCurrent
PROPERTIES
    KeepsContract
CHECK_DEADLOCK FALSE
