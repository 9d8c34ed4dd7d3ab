SPECIFICATION Devices
CONSTANTS
  a1 = a1
  a2 = a2
  c1 = c1
  c2 = c2
  None = None
  MaxBundles = 3
  MaxConsents = 2
  MaxFaults = 2
  Alias <- TwoAliases
  Content <- TwoContents
  OldBundle <- TwoAliases
  MaxDraws = 4
  MaxMishaps = 2
  Times <- ThreeTimes
  MaxEvents = 4
  Bundled <- LastOne
  Small = 1
  Large = 2
  Stone = 1
  PageItems = 2
  PageBytes = 4
  CursorBytes = 1
INVARIANTS
  RowsAreTrue
  DeletedForGood
  ExportComplete
  ConversionIsSafe
PROPERTIES
  StoredWithConsent
  DevicesEnd
CHECK_DEADLOCK FALSE
