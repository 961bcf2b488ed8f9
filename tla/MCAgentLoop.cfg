SPECIFICATION Spec
CONSTANTS
  Repeated = {1}
  Procs = {p1, p2}
  FaultKinds = {"kv", "publish", "crash", "lease", "graph", "payload"}
  MaxFaults = 1
INVARIANTS CommitOrder TaskNotLost AnswerNotLost
PROPERTIES RecordForward
CHECK_DEADLOCK FALSE
SYMMETRY SwapProcs
