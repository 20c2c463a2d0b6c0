SPECIFICATION FairSpec
CONSTANTS
  i1 = i1  i2 = i2  s1 = s1  r1 = r1
  Invitations = {i1}
  Slots = {s1}
  SlotOf <- OnePair
  Roles = {r1}
  RolesOf <- OneRole
  UserEdge = user
  Workers = {w1, w2}
  ClaimIds = {c1, c2, c3}
  NoClaim = noClaim
  Windows = {1}
  Lease = 1
  MaxTime = 2
  FaultHorizon = 1
CHECK_DEADLOCK FALSE
INVARIANTS
  ClaimBacked NoOrphanPolicies AcceptedHasRoles SupersededOnlyAfterLease
PROPERTIES
  PartialGrantConverges
