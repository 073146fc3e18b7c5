SPECIFICATION SandboxSpec
CONSTANTS
    Chains <- MCChains
    Commands <- MCCommands
    Procs = {p1}
    MaxCalls = 3
CHECK_DEADLOCK FALSE
PROPERTY TimeoutBoundsTheRun
