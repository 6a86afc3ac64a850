SPECIFICATION Spec
CONSTANTS
    Platform = "desktop"
    HelperInstalled = {TRUE, FALSE}
    MaxRequests = 4
    MaxCrashes = 1
INVARIANTS
    FlagIsKept
    NoStrayCore
PROPERTIES
    KeepsUserIntent
    BusyEnds
