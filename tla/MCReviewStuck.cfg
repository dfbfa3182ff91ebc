SPECIFICATION FairSpec
CONSTANTS
  c1 = c1 c2 = c2 c3 = c3
  None = None
  Candidates = {c1}
  Reviewers = {r1}
  LongNames = {}
  Requests = {q1, q2}
  Blocked = {}
  Conflicts = {}
  Faults = {"store"}
CHECK_DEADLOCK FALSE
PROPERTIES PublishingEnds
