SPECIFICATION Spec
CONSTANTS
    Calls = {c1, c2}
    Procs = {p1, p2, p3, p4}
    NoProc = NoProc
    Free = Free
    WatchdogMaxCrashes = 1
INVARIANTS
    StopHolds
    NoStrayProcess
PROPERTIES
    StopMeansStopped
    Revives
