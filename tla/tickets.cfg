SPECIFICATION Spec
CONSTANTS
    a = a
    b = b
    Tickets = {a, b}
    BatchSize = 2
    FirstId = 2
    MaxPosts = 3
    MaxHuman = 1
    MaxFaults = 1
INVARIANTS
    AnsweredOnce
    LossExplained
PROPERTIES
    ClosedForAReason
    NothingStarves
CHECK_DEADLOCK FALSE
