CONSTANTS
  Peers = {p1, p2}
  Pieces = {x1, x2, x3}
  Blocks = {b1}
  V2Pieces = {}
  PipelineDepth = 1
  DisconnectBatch = 2
  MaxPendingItems = 1
  SkipSets = {{}, {x1}}
  Bitfields = {{x1, x2, x3}}
  HavePieces = {x1}
  FaultKinds = {"choke", "disconnect", "corrupt", "write", "select", "pause", "late_register", "validation", "stop", "lost", "block", "bitfield"}
  Validated = FALSE
  OnDisk = {x3}
  MaxFaults = 2
SPECIFICATION Spec
SYMMETRY Symmetry
INVARIANTS PieceTracked NeedPendingDisjoint PendingIsWorked RemainingExact  WritesTracked RequestDiscipline
PROPERTY DoneIsStable
CHECK_DEADLOCK FALSE
