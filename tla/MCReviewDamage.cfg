SPECIFICATION ReviewSpec
CONSTANTS
    t0 = t0
    t1 = t1
    t2 = t2
    q1 = q1
    q2 = q2
    Trees <- MCTrees
    BaseTree = t0
    Claims <- MCClaims
    Quotes = {q1, q2}
    MaxClaims = 1
    MaxRounds = 2
    ReproCap = 1
    IOMayFail = FALSE
    Policies <- DefaultPolicy
INVARIANTS
    DamageIsRestored
CHECK_DEADLOCK FALSE
