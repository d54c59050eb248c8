SPECIFICATION DamonSpec
CONSTANTS
    MaxFaults = 1
    MaxForeign = 2
    MaxRungs = 2
INVARIANTS
    SessionsSeparate
    WorkloadAfterOn
    DamonPassEarned
PROPERTIES
    ForeignKept
    Finishes
CHECK_DEADLOCK FALSE
