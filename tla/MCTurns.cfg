SPECIFICATION FairSpec
CONSTANTS
  Turns = {t1, t2, t3}
  Window = 3
  MaxPlan = 2
  MaxIntents = 1
  Backends = {"memory", "redis"}
  Faults = {"error", "crash", "slow"}
  None = None
CHECK_DEADLOCK FALSE
INVARIANTS TypeOK HistoryKept LeaseHeld
PROPERTIES TurnsEnd
