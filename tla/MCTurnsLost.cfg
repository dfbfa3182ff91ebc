SPECIFICATION Spec
CONSTANTS
  Turns = {t1, t2}
  Window = 3
  MaxPlan = 1
  MaxIntents = 5
  Backends = {"redis"}
  Faults = {"slow"}
  None = None
SYMMETRY Symmetry
CHECK_DEADLOCK FALSE
INVARIANTS NoLostTurn
