SPECIFICATION SupervisedSpec
CONSTANTS
    Platform = "desktop"
    HelperInstalled = {TRUE}
    MaxRequests = 1
    MaxCrashes = 1
    FailureThreshold = 2
    MaxEvents = 1
PROPERTIES
    GhostRepaired
    GuardReleased
