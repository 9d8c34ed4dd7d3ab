SPECIFICATION Uploads
CONSTANTS
  voice = voice
  text = text
  a = a
  b = b
  None = None
  Undeclared = Undeclared
  Part <- TwoParts
  Audio <- OnlyVoice
  Payload <- TwoPayloads
  Size <- Sizes12
  NumSeqs = 2
  Asserted <- Wholes
  Declared <- TextDeclared
  PartLimit = 3
  TurnLimit = 3
  DiskFills = TRUE
  Expected = 5
  Limits <- PageSizes
INVARIANTS
  FilesAreTrue
  CountsAreTrue
PROPERTIES
  StoredIsKept
  UploadsEnd
CHECK_DEADLOCK FALSE
