CONSTANTS
  Resources = {peer}
  Acquirable = {peer}
  Requests = {q1, q2, q3}
  MaxLimit = 2
  AcquireCap = 2
  Batch = 1
  MaxUpdates = 1
  MaxControl = 2
  Preemptive = TRUE
SPECIFICATION Spec
SYMMETRY Symmetry
INVARIANTS NoLostWakeup OneSender NoPermitLeak
