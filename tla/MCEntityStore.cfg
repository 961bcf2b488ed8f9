SPECIFICATION Spec
CONSTANTS
  p1 = p1
  p2 = p2
  p3 = p3
  Procs = {p1, p2}
  Ops = {"query", "read", "create", "merge", "append", "reconcile", "delete"}
  MaxRev = 4
  MaxFaults = 1
  MaxRestarts = 1
INVARIANTS TypeOK CacheCoherent NoStrandedRecord
PROPERTIES RepoisonKept
CHECK_DEADLOCK FALSE
SYMMETRY SwapProcs
