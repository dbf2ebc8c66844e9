CONSTANTS
  MinPacket = 1
  MaxPacket = 2
  MinWindow = 2
  MaxWindow = 3
  ReceiveWindow = 4
  MaxInflight = 3
  MaxOutOfOrder = 1
  MaxRetransmits = 3
  AckThreshold = 2
  LossEvidence = 2
  ClientWrites = 1
  ServerWrites = 3
  Wrote <- Writes
  ReadSizes = {1}
  ClientSeq = 1
  ServerSeqs = {65535}
  ConnectRetries = 3
  MaxAccepts = 2
  Reading = {"prompt"}
  FaultKinds = {"lose", "duplicate", "delay", "full", "busy", "hangup"}
  MaxFaults = 1
CHECK_DEADLOCK FALSE
SPECIFICATION LiveSpec
INVARIANTS
  StreamPrefix
  AckedIsHeld
  CleanEnd
PROPERTIES
  StreamCompletes
  DriversEnd
