SPECIFICATION SessionSpec
CONSTANTS
    g1 = g1
    g2 = g2
    r1 = r1
    r2 = r2
    Trees <- MCTrees
    Green <- MCGreen
    Pristine = g1
    MaxSends = 3
CHECK_DEADLOCK FALSE
INVARIANT UserVerifyStands
