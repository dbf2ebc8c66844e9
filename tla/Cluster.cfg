SPECIFICATION LiveSpec
CONSTANTS
  n1 = n1
  n2 = n2
  t1 = t1
  r1 = r1
  r2 = r2
  Nodes = {n1, n2}
  Torrents = {t1}
  Requests = {r1, r2}
  Op <- MCOp
  Target <- MCTarget
  Via <- MCVia
  Present = {t1}
  Validated = {t1}
  MaxFaults = 2
  FaultKinds = {"crash", "stop", "hostedit", "io", "load", "slow", "archive", "relay"}
CHECK_DEADLOCK FALSE
INVARIANTS TypeOK 
PROPERTIES  RequestsHandled 
