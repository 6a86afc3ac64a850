SPECIFICATION Spec
CONSTANTS
    Platform = "android"
    HelperInstalled = {FALSE}
    MaxRequests = 4
    MaxCrashes = 1
INVARIANTS
    UserStopSticks
PROPERTIES
    OnlyConnectLiftsStop
