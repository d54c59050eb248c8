SPECIFICATION Spec
CONSTANTS
    Telemetry <- MCTelemetry
    Contexts <- OneContext
    StateHold = 1
    RecoveryHold = 2
    MaxTime = 6
INVARIANTS
    RecoveryPath
    TwoHoldRecovery
PROPERTY
    NoFlapping
