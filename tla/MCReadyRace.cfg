CONSTANTS
  k1 = k1  k2 = k2  l1 = l1  l2 = l2  None = None
  Keys = {k1}
  Families = {"incoming"}
  Lanes = {l1}
  LaneOf <- SingleLane
  Coalesce = FALSE
  Readers = {"heartbeat"}
  Kinds = {"put", "unreadable"}
  MaxRev = 2
  LaneSize = 1
  MaxFaults = 0
  MaxRestarts = 0
SPECIFICATION Spec
INVARIANTS ReadyIsHonest
CHECK_DEADLOCK FALSE
