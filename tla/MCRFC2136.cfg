SPECIFICATION LiveSpec
CONSTANTS
  d1 = d1
  d2 = d2
  d3 = d3
  Records <- MCRecords
  Wishes <- MCWishes
  Patient = TRUE
  MaxFaults = 3
  MaxRollovers = 3
INVARIANTS
  UpdateIsExact
  ParentFollowsZone
PROPERTIES
  IsPublication
  Converges
CHECK_DEADLOCK FALSE
