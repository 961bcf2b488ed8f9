CONSTANTS
  k1 = k1  k2 = k2  l1 = l1  l2 = l2  l3 = l3  None = None
  Keys = {k1, k2}
  Families = {"incoming"}
  Lanes = {l1, l2, l3}
  LaneOf <- SharedLane
  Coalesce = TRUE
  Readers = {}
  Kinds = {"put", "del", "unreadable"}
  MaxRev = 3
  LaneSize = 1
  MaxFaults = 1
  MaxRestarts = 0
SPECIFICATION IndexSpec
INVARIANTS TypeOK NoSilentStaleness ReadyIsHonest BootstrapIsHonest
PROPERTIES UsesWatermark
CHECK_DEADLOCK FALSE
SYMMETRY SwapLanes
