SPECIFICATION Spec
CONSTANTS
    Contracts <- InForce
    MaxReboots <- Reboots
    MaxDeaths = 1
    MaxFaults = 0
    NoTx = NoTx
    Torn = Torn
INVARIANT
    Reconcilable
CHECK_DEADLOCK FALSE
