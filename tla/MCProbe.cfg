SPECIFICATION LiveSpec
CONSTANTS
  k1 = k1
  k2 = k2
  Keys <- MCKeys
  Servers <- MCServers
  NSSets <- MCNSSets
  InitialKeys <- MCInitialKeys
  RequireSignals = TRUE
  Warn = 2
  MaxTTL = 1
  MaxChanges = 2
  MaxFaults = 1
INVARIANTS
  TimersAreEarned
PROPERTIES
  TimersSurvive
  Recovers
  Reports
