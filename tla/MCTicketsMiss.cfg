SPECIFICATION Spec
CONSTANTS
  c1 = c1 c2 = c2 u1 = u1 u2 = u2 o1 = o1 o2 = o2 k1 = k1 m1 = m1
  partner = partner
  None = None
  Refused = Refused
  Calls = {c1, c2}
  Queries <- PolicyQueries
  OwnerOf <- MCOwnerOf
  Deployments <- MCDeployments
  Readers <- MCReaders
  MaxRestarts = 1
CHECK_DEADLOCK FALSE
INVARIANTS MissHandedOver
