SPECIFICATION SpeechSpec
CONSTANTS
  ttsJob = ttsJob
  w1 = w1
  w2 = w2
  recorderWorker = recorderWorker
  x1 = x1
  x2 = x2
  c1 = c1
  c2 = c2
  None = None
  NoOwner = NoOwner
  NoJob = NoJob
  Job <- OneJob
  TtsJob <- OneJob
  Worker <- TwoWorkers
  Owner <- OneOwner
  OwnerOf <- SameOwner
  AttemptLimit = 2
  MaxAttempts <- TwoAttempts
  LeaseSeconds = 2
  DeadlineSeconds <- NoDeadline
  ArtifactExpiry <- NoExpiry
  FollowUp <- NoFollowUp
  MaxWait = 1
  Horizon = 6
  Audio <- TwoResults
  Caller <- TwoCallers
  Spoken = 3
  Chains <- ThreeChains
  CallEnds <- AnyAnswer
  CallTime = 3
  SpeechAttempts = 2
  ChainStarts = 2
  Order <- ThreeProviders
  Configured <- TwoOfThree
  AsrAttempts = 2
  AsrFaults = 2
INVARIANTS
  SpeechIsTrue
  ChainsAgree
PROPERTIES
  EndingsStay
  SpeechEnds
CHECK_DEADLOCK FALSE
