CONSTANTS
  Resources = {peer}
  Acquirable = {peer}
  Requests = {q1, q2, q3}
  MaxLimit = 2
  AcquireCap = 1
  Batch = 1
  MaxUpdates = 1
  MaxControl = 1
  Preemptive = FALSE
SPECIFICATION FairSpec
INVARIANTS TypeOK 
PROPERTY  WaitersServed
