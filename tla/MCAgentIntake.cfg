SPECIFICATION Spec
CONSTANTS
  Repeated = {}
  Procs = {p1}
  FaultKinds = {"graph"}
  MaxFaults = 1
INVARIANTS IntakeOpen
CHECK_DEADLOCK FALSE
