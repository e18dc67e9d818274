SPECIFICATION LiveSpec
CONSTANTS
  z1 = z1
  z2 = z2
  g1 = g1
  g2 = g2
  Zones <- MCZones
  Groups <- MCGroups
  Plugins <- MCPlugins
  Tokens = {"a", "b"}
  TokensOf <- MCTokensOf
  Configs <- MCConfigs
  SkipInitialJitter = FALSE
  NoGroup = NoGroup
  None = None
INVARIANTS
  ResumesOwnRawOnly
  ResumesWhatWasReported
  QuietZoneIsDurable
  IntervalMatchesState
  NoWorkAfterClose
PROPERTIES
  OperationIsPolled
  ZoneIsStepped
  DrainEnds
