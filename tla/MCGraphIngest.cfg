SPECIFICATION Spec
CONSTANTS
  a = a
  s = s
  t = t
  p = p
  q = q
  x = x
  Profile = profile
  Floor = floor
  None = None
  Entities = {a}
  Streams = {s, t}
  Preds = {p, q, profile}
  Lanes = {x}
  LaneOf <- MCLaneOf
  Msgs <- MCArrivals
  QueueDepth = 2
  GuardCapacity = 1
  InitPoison = {a}
  MaxDeliver = 2
  MaxFaults = 2
  MaxCrashes = 1
INVARIANTS TypeOK MemNeverAhead AckedNotRegressed AckedIsCovered
PROPERTIES ProfileImmutable
CHECK_DEADLOCK FALSE
