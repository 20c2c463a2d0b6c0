SPECIFICATION Spec
CONSTANTS
  Entitlements = {1}
  Limit <- OneRow
  Unlimited = unlimited
  IdRank <- Only
  Grants = {1, 2}
  Ops = {a}
  MaxCost = 1
  Bundles <- OneUnit
CHECK_DEADLOCK FALSE
INVARIANTS
  UnusedCapacityReturned
