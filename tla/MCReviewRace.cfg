SPECIFICATION Spec
CONSTANTS
  c1 = c1 c2 = c2 c3 = c3
  None = None
  Candidates = {c1, c2}
  Reviewers = {r1, r2, r3}
  LongNames = {r3}
  Requests = {q1, q2, q3}
  Blocked = {}
  Conflicts <- AllConflict
  Faults = {"knowledge", "store", "crash"}
SYMMETRY Symmetry
CHECK_DEADLOCK FALSE
INVARIANTS TypeOK OneClaimant PublishedIsServed RejectedNotServed
  DecisionAuditedOnce NeverUnexpected FlagsSurvive
PROPERTIES ImplementsLifecycle
