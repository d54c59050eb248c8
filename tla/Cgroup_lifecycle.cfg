SPECIFICATION FairSpec
CONSTANTS
    Pids <- MCPids
    Candidates <- MCCandidates
    LowValues = {1}
    HighValues = {5}
    DryRun = FALSE
    AllowMove = TRUE
    AllowReapply = FALSE
    ReuseDuringOp = FALSE
    MaxStart = 2
    MaxSnapshots = 2
    MaxFailures = 1
    MaxCrashes = 1
INVARIANTS
    AccountedFor
    NoResidue
PROPERTY
    RecoveryCompletes
CHECK_DEADLOCK FALSE
