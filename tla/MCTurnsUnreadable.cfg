SPECIFICATION Spec
CONSTANTS
  Turns = {t1, t2}
  Window = 3
  MaxPlan = 6
  MaxIntents = 5
  Backends = {"redis"}
  Faults = {}
  None = None
SYMMETRY Symmetry
CHECK_DEADLOCK FALSE
INVARIANTS SessionReadable
