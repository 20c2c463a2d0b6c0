SPECIFICATION Spec
CONSTANTS
  Entitlements = {1, 2}
  Limit <- OneOfEach
  Unlimited = unlimited
  IdRank <- Backwards
  Grants = {1, 2}
  Ops = {a, b}
  MaxCost = 2
  Bundles <- AllKinds
SYMMETRY Symmetry
CHECK_DEADLOCK FALSE
INVARIANTS
  UsageAccounted LimitsRespected OwnerReservationBacked DecisionsAreUsable
PROPERTIES
  ConsumedInFull
