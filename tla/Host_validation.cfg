SPECIFICATION Spec
CONSTANTS
    Others = {1}
    MaxIndex = 4
    MaxRuns = 2
    MaxFaults = 1
    MaxForeign = 1
INVARIANTS
    PassClean
    ErrorPathsClean
    RollbackHonest
PROPERTIES
    ForeignSpared
CHECK_DEADLOCK FALSE
