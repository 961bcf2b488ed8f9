SPECIFICATION Spec
CONSTANTS
  a = a
  s = s
  t = t
  p = p
  q = q
  x = x
  Profile = profile
  Floor = floor
  None = None
  Entities = {a}
  Streams = {s}
  Preds = {p, q, profile}
  Lanes = {x}
  LaneOf <- MCLaneOf
  Msgs <- MCTwoUpdates
  QueueDepth = 2
  GuardCapacity = 1
  InitPoison = {a}
  MaxDeliver = 3
  MaxFaults = 0
  MaxCrashes = 0
INVARIANTS ArrivalNotDestroyed
CHECK_DEADLOCK FALSE
