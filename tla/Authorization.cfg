SPECIFICATION Spec
CONSTANTS
  Invoices = {"wanted", "guarded"}
  System = {"guarded"}
  Grants = {g1, g2}
  Bundles <- SmallBundles
  Absent = Absent
  Idle = Idle
  MaxTime = 1
  MaxMemberships <- OnceTwice
  MaxMoments = 3
SYMMETRY Symmetry
INVARIANTS
  MembershipGate OneMoment KickIsFinal OutsidersFindNothing
