CONSTANTS
  t1 = t1
  t2 = t2
  Torrents <- Pair
  HashOrder <- FirstThenSecond
  MaxInFlight = 1
  BatchTimeout = 1
  PendingRetry = 1
  RecoveryRetry = 1
  SmallRetry = 1
  ActiveRetry = 1
  IdleRetry = 1
  SmallManifests = {}
  Tolerance = 1
  DispatchRetry = 1
  MaxLate = 0
  LastBatch <- FirstHasTwo
  Magnets = {t2}
  Near <- Together
  CommandCapacity = 1
  ActiveValues = {FALSE}
  Finished = {t1, t2}
  Breakable <- FirstOfFirst
  QuietReAdd = TRUE
  FaultKinds = {"remove", "timeout", "read", "read_lost"}
  MaxFaults = 1
SPECIFICATION Spec
INVARIANTS
  InFlightExact
  
CHECK_DEADLOCK FALSE
