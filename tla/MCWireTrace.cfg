SPECIFICATION WireSpec
CONSTANTS
    Runs <- MCRuns
    Replies <- MCReplies
    Faults <- MCFaults
    Upstreams <- MCUpstreams
    MaxResends = 2
    MaxTurns = 2
CHECK_DEADLOCK FALSE
INVARIANT TracesAreWhole
