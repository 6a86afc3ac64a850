SPECIFICATION MCSpec
CONSTANTS
    Threads = {t1, t2}
    Plans <- MCPlans
    InitPoints = 1
    InitStreak = 2
    Cost = 1
    PointReward = 1
    TrafficSizes = {1}
    Milestones = {3}
    MaxDay = 4
    MaxRequests = 3
    MaxUse = 1
    MaxFaults = 1
INVARIANTS
    StreakEarned
    CardIsPaid
    DebtBounded
PROPERTIES
    FinishedShutsOut
    LockoutEnds
CHECK_DEADLOCK FALSE
