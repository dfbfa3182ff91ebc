SPECIFICATION FairSpec
CONSTANTS
  c1 = c1 c2 = c2 c3 = c3
  None = None
  Candidates = {c1, c3}
  Reviewers = {r1}
  LongNames = {}
  Requests = {q1, q2, q3}
  Blocked = {c3}
  Conflicts <- AllConflict
  Faults = {"knowledge"}
CHECK_DEADLOCK FALSE
INVARIANTS BlockedNeverServed
PROPERTIES PublishingEnds
