SPECIFICATION Spec
CONSTANTS
    MaxFaults = 2
    MaxForeign = 1
    Quota = 1
    Ceiling = 2
    Deadline = 2
    ResetTicks = 3
INVARIANTS
    PageoutBounded
    PageoutAudited
    PassEarned
PROPERTIES
    ExternalSpared
    NoRunaway
CHECK_DEADLOCK FALSE
