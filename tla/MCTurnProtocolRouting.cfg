SPECIFICATION Turns
CONSTANTS
  t1 = t1
  t2 = t2
  spoken = spoken
  w1 = w1
  w2 = w2
  defaultSession = defaultSession
  NoTurn = NoTurn
  Turn <- AllTurns
  Voice <- Spoken
  Online <- AllTurns
  Worker <- TwoWorkers
  Session <- OneSession
  SessionOf <- SameSession
  JobAttempts <- TextAttempts
  HermesAttempts = 2
SYMMETRY Symmetry
INVARIANTS
  RoutingErrorMeansUnrouted
CHECK_DEADLOCK FALSE
