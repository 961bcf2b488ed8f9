SPECIFICATION Spec
CONSTANTS
  p1 = p1
  p2 = p2
  p3 = p3
  Procs = {p1, p2}
  Ops = {"create", "delete", "query"}
  MaxRev = 4
  MaxFaults = 0
  MaxRestarts = 0
INVARIANTS DeleteRepairs
CHECK_DEADLOCK FALSE
SYMMETRY SwapProcs
