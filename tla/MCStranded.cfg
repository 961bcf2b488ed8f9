SPECIFICATION Spec
CONSTANTS
  Units = {1, 2}
  DependsOn <- Chain
  Workers = {w1}
  QueueSize = 1
  MaxFaults = 1
  MaxResets = 0
  MaxStored = 2
INVARIANTS StrandedSurfaces
CHECK_DEADLOCK FALSE
