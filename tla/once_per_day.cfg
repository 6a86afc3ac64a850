SPECIFICATION Spec
CONSTANTS
  t1 = t1
  t2 = t2
  t3 = t3
  Threads = {t1, t2}
  Plans <- MCPlans
  InitPoints = 2
  InitStreak = 2
  Cost = 2
  PointReward = 1
  TrafficSizes = {2}
  Milestones = {3}
  MaxDay = 2
  MaxRequests = 3
  MaxUse = 1
  MaxFaults = 1
INVARIANT OncePerDay
