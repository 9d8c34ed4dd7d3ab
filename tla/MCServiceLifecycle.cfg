SPECIFICATION Lives
CONSTANTS
  c1 = c1
  c2 = c2
  Loops = {"worker", "scheduler"}
  Conns <- TwoConns
  Slots = 2
  Deps = {"asr", "tts"}
  Refreshers = {"monitor"}
  MaxFaults = 2
INVARIANTS
  ExitIsSafe
PROPERTIES
  NothingMoreAdmitted
  ServiceSettles
CHECK_DEADLOCK FALSE
