SPECIFICATION Spec
CONSTANTS
    Contracts <- InForce
    MaxReboots <- Reboots
    MaxDeaths = 0
    MaxFaults = 0
    NoTx = NoTx
    Torn = Torn
INVARIANT
    RestoreCompletes
CHECK_DEADLOCK FALSE
