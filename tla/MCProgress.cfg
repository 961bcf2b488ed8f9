SPECIFICATION ProgressSpec
CONSTANTS
  c1 = c1
  c2 = c2
  c3 = c3
  j = j
  k = k
  h = h
  x = x
  y = y
  None = None
  Callers = {c1, c2, c3}
  Blocking = {c1, c2}
  Keys = {j, k, h}
  KeyOf <- MCKeyOf
  Lanes = {x, y}
  laneFor <- MClaneFor
  QueueDepth = 1
  Stoppers = {s1}
INVARIANTS LaneOrder StopMeansDrained NothingStranded
PROPERTIES
  StopCompletes NothingHangs Converges LaneProgress AllFlow
  IngestSettles EventuallyIndexed
CHECK_DEADLOCK FALSE
