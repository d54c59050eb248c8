SPECIFICATION Spec
CONSTANTS
    Contracts <- Kept
    MaxReboots <- Reboots
    MaxDeaths = 1
    MaxFaults = 1
    NoTx = NoTx
    Torn = Torn
INVARIANTS
    WriteAhead
    BootableEntry
    EvidenceBacked
    TerminalClean
PROPERTIES
    BaselineProvenFirst
    StageMonotone
CHECK_DEADLOCK FALSE
