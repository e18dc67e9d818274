SPECIFICATION LiveSpec
CONSTANTS
  k1 = k1
  k2 = k2
  t1 = t1
  t2 = t2
  x = x
  Keys <- MCKeys
  KeySets <- MCKeySets
  TaskIds <- MCTaskIds
  OtherTasks <- MCOtherTasks
  DigestTypes = {2}
  WantedDigestType = 2
  PatientSigner = TRUE
  TasksMayDie = TRUE
  AllowAcceleration = TRUE
  MaxFaults = 2
  MaxRollovers = 2
  None = None
INVARIANTS
  AtMostOneTask
  SubmitsDesiredKeys
  ParentFollowsZone
  TracksDNSSECTask
PROPERTIES
  Converges
CHECK_DEADLOCK FALSE
