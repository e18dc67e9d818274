SPECIFICATION LiveSpec
CONSTANTS
  z1 = z1
  z2 = z2
  s1 = s1
  s2 = s2
  Zones <- MCZones
  States <- MCStates
  None = None
  Absent = Absent
  Torn = Torn
INVARIANTS
  FileIsWhole
  SavedIsInFile
PROPERTIES
  SaveReturns
  IsStore
