SPECIFICATION Spec
CONSTANTS
    Platform = "desktop"
    HelperInstalled = {TRUE}
    MaxRequests = 2
    MaxCrashes = 0
INVARIANTS
    HonestStatus
