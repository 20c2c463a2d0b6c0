SPECIFICATION StoreSpec
CONSTANTS
  Entitlements = {1, 2}
  Limit <- TwoLimited
  Unlimited = unlimited
  IdRank <- SameOrder
  Grants = {1}
  Ops = {a, b, c}
  MaxCost = 2
  Offers <- Lent
SYMMETRY Symmetry
INVARIANTS
  ReservationsBacked LedgerBalanced ReservationsHonoured
PROPERTIES
  SettledForEver
