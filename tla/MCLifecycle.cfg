SPECIFICATION LiveSpec
CONSTANTS
  g1 = g1
  g2 = g2
  n1 = n1
  n2 = n2
  blank = blank
  Groups <- MCGroups
  Names <- MCNames
  Blank = blank
  Env <- MCEnv
  Undecodable = Undecodable
  MaxInt = 31
  MaxPort = 20
  MaxTTL = 28
  ConfD <- MCConfD
  NotToml <- MCNotToml
  Contents <- MCContents
  Absent = Absent
  Unreadable = Unreadable
  MaxEdits = 1
INVARIANTS
  LastFileWins
  OneRunnerPerZone
  OptionsAreLegal
PROPERTIES
  IsContract
  Settles
