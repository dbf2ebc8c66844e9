CONSTANTS
  Peers = {p1, p2}
  Pieces = {x1, x2}
  Blocks = {b1}
  V2Pieces = {x1}
  PipelineDepth = 1
  DisconnectBatch = 2
  MaxPendingItems = 1
  SkipSets = {{}}
  Bitfields = {{x1, x2}}
  HavePieces = {}
  FaultKinds = {"choke", "disconnect", "block", "corrupt", "pause"}
  Validated = FALSE
  OnDisk = {}
  MaxFaults = 1
SPECIFICATION LiveSpec
PROPERTY WantedArrives
CHECK_DEADLOCK FALSE
