CONSTANTS
  h1 = h1
  h2 = h2
  Hashes = {h1}
  Subscribers = {1, 2}
  Slices = {1, 2, 3}
  LookupIds = {1, 2, 3, 4, 5, 6}
  Families = {"v4", "v6"}
  Classes = {"NoConnectedPeers"}
  SlotCount = 1
  FillPerTick = 1
  DrainsPerSlot = 1
  ClassCap <- OneEach
  Burst <- OneEach
  FaultKinds = {"stop", "reconfigure"}
  MaxFaults = 1
CHECK_DEADLOCK FALSE
SPECIFICATION LiveSpec
PROPERTIES
  InProgressEnds
  LookupsEnd
  DemandServed
