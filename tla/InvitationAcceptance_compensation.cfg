SPECIFICATION Spec
CONSTANTS
  i1 = i1  i2 = i2  s1 = s1  r1 = r1
  Invitations = {i1, i2}
  Slots = {s1}
  SlotOf <- SamePair
  Roles = {r1}
  RolesOf <- SmallBundles
  UserEdge = user
  Workers = {w1}
  ClaimIds = {c1, c2}
  NoClaim = noClaim
  Windows = {1}
  Lease = 1
  MaxTime = 0
  FaultHorizon <- NoFaults
CHECK_DEADLOCK FALSE
PROPERTY FailedAttemptCompensated
