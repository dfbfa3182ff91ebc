SPECIFICATION Spec
CONSTANTS
  Calls = {q1, q2}
  Users = {u1}
  Traces = {t1}
  Keys = {k1}
  NoKey = NoKey
  None = None
  Faults = {"store"}
SYMMETRY Symmetry
CHECK_DEADLOCK FALSE
INVARIANTS LowRatingHasCandidate
