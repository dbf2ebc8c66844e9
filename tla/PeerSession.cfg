CONSTANTS
  Blocks = {b1, b2}
  Tasks = {t1, t2}
  InFlightLimit = 1
  MaxWindow = 2
  Saturated = 0
  SessionCap = 1
  ManagerCap = 1
  WriterCap = 1
  InboxCap = 1
  StallTicks = 0
  IdleTicks = 0
  MaxChokes = 0
  Chatter = TRUE
SPECIFICATION FairSpec
INVARIANTS WindowConserved AnswersExpected
PROPERTY SilentPeerLeaves
CHECK_DEADLOCK FALSE
