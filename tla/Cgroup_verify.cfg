SPECIFICATION Spec
CONSTANTS
    Pids <- MCPids
    Candidates <- MCCandidates
    LowValues = {1}
    HighValues = {5}
    DryRun = FALSE
    AllowMove = TRUE
    AllowReapply = FALSE
    ReuseDuringOp = FALSE
    MaxStart = 1
    MaxSnapshots = 1
    MaxFailures = 0
    MaxCrashes = 0
INVARIANT
    UndisturbedApplyVerifies
CHECK_DEADLOCK FALSE
