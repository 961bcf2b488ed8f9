SPECIFICATION SuiteSpec
CONSTANTS
  Keys = {k1, k2}
  MaxRev = 5
  MaxAt = 2
  ViewKeys = {k1, k2}
  Subs = {s1}
  ViewWrites <- EveryWrite
  ViewRevs = 3
  MaxEnds = 1
  Reqs = {r1, r2}
  Malformed = {r2}
  MaxDeliver = 2
  LaneFaults = 2
  Units = {1, 2}
  DependsOn <- Chain
  Workers = {w1}
  QueueSize = 1
  DagFaults = 1
  MaxResets = 1
  MaxStored = 2
INVARIANTS
  NeverNewer ExactWhenCaughtUp
  ComponentsTypeOK
  SnapshotExact NeverStale NoFrozenView
  AckedIsAnswered RepeatedOnlyInDoubt FatalIsDeclared
  DependencyOrder OnceEach
PROPERTIES FloorMonotonic
CHECK_DEADLOCK FALSE
