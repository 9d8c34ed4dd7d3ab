SPECIFICATION Fetch
CONSTANTS
  apk = apk
  wear = wear
  a = a
  b = b
  beta = beta
  final = final
  None = None
  Unasked = Unasked
  MaxFaults = 3
  Slabs = 2
  Generation <- FirstTwo
  Name <- TwoNames
  Content <- TwoContents
  Code <- TwoCodes
  Tables <- AllTables
  Fresh <- Small
  Sizes <- OneOrTwo
  MaxTurns = 5
  Kinds <- InputTypes
  Filters <- SomeFilters
  AnyType = "any"
  Limit = 2
  MaxRows = 3
  MaxParts = 4
  MaxBytes = 3
  CursorBytes = 1
INVARIANTS
  FeedIsTrue
  NothingMissed
PROPERTIES
  FetchersEnd
CHECK_DEADLOCK FALSE
