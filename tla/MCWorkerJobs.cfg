SPECIFICATION Spec
CONSTANTS
  hermesJob = hermesJob
  historyJob = historyJob
  w1 = w1
  w2 = w2
  recorderWorker = recorderWorker
  NoOwner = NoOwner
  NoJob = NoJob
  Job <- HermesJobs
  TtsJob <- NoTts
  Worker <- MCWorker
  Owner <- MCOwner
  OwnerOf <- MCOwnerOf
  AttemptLimit = 2
  MaxAttempts <- HermesAttempts
  LeaseSeconds = 2
  DeadlineSeconds <- HermesDeadline
  ArtifactExpiry <- NoDeadline
  FollowUp <- HermesFollowUp
  MaxWait = 1
  Horizon = 3
SYMMETRY Symmetry
INVARIANTS
  TypeOK
  JournalAgrees
  ProjectedOnce
  SweepsAreDue
PROPERTIES
  TerminalIsFinal
  StaleAttemptNeverCommits
  ImplementsContract
CHECK_DEADLOCK FALSE
