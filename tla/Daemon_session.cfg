SPECIFICATION FairSpec
CONSTANTS
    Classes <- MCClasses
    Critical = "critical_pressure"
    Confirmations = 2
    Pressures <- MCPressures
    Conservative = "Watch"
    Plans <- MCPlans
    Decisions <- MCDecisions
    Heartbeat = 2
    Latest = 2
    MaxTime = 2
    MaxSessions = 2
    MaxRows = 2
    MaxChunks = 2
INVARIANTS SchemaSound CleanIsComplete EventChain AuditCurrent
PROPERTIES WorkloadHysteresis ShutdownCompletes
CHECK_DEADLOCK FALSE
