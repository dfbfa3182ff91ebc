SPECIFICATION Spec
CONSTANTS
  Calls = {q1, q2, q3}
  Users = {u1, u2}
  Traces = {t1, t2}
  Keys = {k1}
  NoKey = NoKey
  None = None
  Faults = {"store", "crash"}
SYMMETRY Symmetry
CHECK_DEADLOCK FALSE
INVARIANTS TypeOK SameKeySameAnswer NoOrphanCandidate OwnFeedbackOnly
  AuditedHasCandidate AnswersComplete
