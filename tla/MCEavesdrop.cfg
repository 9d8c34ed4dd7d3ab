SPECIFICATION Sessions
CONSTANTS
  w1 = w1
  w2 = w2
  i1 = i1
  i2 = i2
  speech = speech
  noise = noise
  MaxSegments = 2
  Id <- Ids
  Bytes <- Contained
  Spoken <- SpeechOnly
  Worker <- TwoWorkers
  JobAttempts = 2
  MaxFaults = 2
  Trouble <- Troubles
  TurnAttempts = 2
  Posts = 2
  MaxRuns = 3
  WireFaults = 3
INVARIANTS
  SegmentsAreTrue
PROPERTIES
  EndsAreFinal
  AnsweredByOneRun
  AnswersArriveUntroubled
CHECK_DEADLOCK FALSE
