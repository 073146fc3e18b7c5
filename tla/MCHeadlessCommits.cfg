SPECIFICATION HeadlessSpec
CONSTANTS
    Invocations <- PlainRun
    LoopOutcomes = {"answered", "hit_cap", "provider_error", "refused_unsafe"}
    GitMayFail = FALSE
    MaxSweeps = 0
CHECK_DEADLOCK FALSE
INVARIANTS
    CommittedIsReported
