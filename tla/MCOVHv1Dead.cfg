SPECIFICATION LiveSpec
CONSTANTS
  k1 = k1
  k2 = k2
  t1 = t1
  t2 = t2
  x = x
  Keys <- MCKeys
  KeySets <- MCKeySets
  TaskIds <- MCTaskIds
  OtherTasks <- MCOtherTasks
  DigestTypes = {2}
  WantedDigestType = 2
  PatientSigner = TRUE
  TasksMayDie = TRUE
  AllowAcceleration = FALSE
  MaxFaults = 0
  MaxRollovers = 1
  None = None
PROPERTY
  DeadTaskIsLeft
CHECK_DEADLOCK FALSE
