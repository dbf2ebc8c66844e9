CONSTANTS
  h1 = h1
  h2 = h2
  Hashes = {h1, h2}
  Subscribers = {1, 2, 3}
  Slices = {1, 2, 3}
  LookupIds = {1, 2, 3, 4}
  Families = {"v4"}
  Classes = {"NoConnectedPeers", "AwaitingMetadata"}
  SlotCount = 1
  FillPerTick = 1
  DrainsPerSlot = 1
  ClassCap <- OneEach
  Burst <- OneEach
  FaultKinds = {"stop","demand", "reconfigure"}
  MaxFaults = 1
CHECK_DEADLOCK FALSE
SYMMETRY TorrentsAlike
SPECIFICATION Spec
INVARIANTS
  SubscriberCountExact
  InProgressTracked
  SlotsRespected
  ClassFollows
