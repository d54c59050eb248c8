SPECIFICATION FairSpec
CONSTANTS
    N = 2
    Scenarios <- BothScenarios
    MaxForeign = 2
    MaxDeaths = 1
    MaxRefusals = 1
CHECK_DEADLOCK FALSE
INVARIANTS
    AuditFirst
    ScannerReturned
    PassEarned
PROPERTY Finishes
