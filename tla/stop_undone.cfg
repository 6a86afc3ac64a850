SPECIFICATION SupervisedSpec
CONSTANTS
    Platform = "desktop"
    HelperInstalled = {TRUE}
    MaxRequests = 3
    MaxCrashes = 0
    FailureThreshold = 2
    MaxEvents = 1
INVARIANTS
    UserStopSticks
