SPECIFICATION Spec
CONSTANTS
  Calls = {c1, c2, c3, c4}
  Agents = {order, product}
  AllowedAgents = {order}
  Threshold = 2
  Cooldown = 2
  Timeout = 1
  Horizon = 6
SYMMETRY Symmetry
CHECK_DEADLOCK FALSE
INVARIANTS TypeOK OpenExactly CallsAccounted ProlongedAtMost
