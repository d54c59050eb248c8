SPECIFICATION FairSpec
CONSTANTS
    Names <- MCNames
    Baseline <- MCBaseline
    Adopted <- MCBaseline
    Original = "zram1"
    Contexts <- MCContexts
    MaxFailures = 2
    MaxCrashes = 1
INVARIANTS
    NoSwapLoss
    RollbackComplete
PROPERTIES
    SwapPromise
    PendingResolved
