SPECIFICATION SupervisedSpec
CONSTANTS
    Platform = "android"
    HelperInstalled = {FALSE}
    MaxRequests = 2
    MaxCrashes = 0
    FailureThreshold = 2
    MaxEvents = 2
INVARIANTS
    GuardOwned
PROPERTIES
    WatchersKeepStop
