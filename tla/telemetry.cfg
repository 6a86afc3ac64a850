SPECIFICATION MCSpec
CONSTANTS
    Deployments = {"main", "register"}
    Cap <- MCCap
    SoftMax = 1
    HardMax = 1
    Results = 3
    BatchSize = 2
    RateLimit = 1
    MaxEvents = 3
    MaxCrashes = 1
    MaxGates = 2
    MaxRuns = 2
    MaxFaults = 2
INVARIANTS
    UsageAtMostOnce
    NoCrashLost
    ReportWithinABatch
    GateRemovesItsRows
PROPERTIES
    CrashDelivered
CHECK_DEADLOCK FALSE
