SPECIFICATION MCSpec
CONSTANTS
  Deployments = {"main", "register"}
  Cap <- MCCap
  SoftMax = 1
  HardMax = 1
  Results = 2
  BatchSize = 1
  RateLimit = 1
  MaxEvents = 1
  MaxCrashes = 1
  MaxGates = 1
  MaxRuns = 0
  MaxFaults = 0
INVARIANT GreenGateIsClean
CHECK_DEADLOCK FALSE
