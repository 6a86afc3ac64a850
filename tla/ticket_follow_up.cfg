SPECIFICATION Spec
CONSTANTS
  a = a
  b = b
  Tickets = {a, b}
  BatchSize = 2
  FirstId = 2
  MaxPosts = 2
  MaxHuman = 0
  MaxFaults = 0
PROPERTY FollowUpPickedUp
CHECK_DEADLOCK FALSE
