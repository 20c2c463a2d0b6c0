SPECIFICATION IssueSpec
CONSTANTS
  Entitlements = {1}
  Limit <- OneRow
  Unlimited = unlimited
  IdRank <- Only
  Grants = {}
  Ops = {a, b}
  MaxCost = 1
  Organizations = {"one", "two"}
  NoOrganization = "nowhere"
  Requests = {r1, r2}
  Items <- SmallItems
  KindOf <- Kind
  Manage = "manage"
  Rules <- PlanRules
  Offered <- OfOne
  Bundles <- SmallBundles
  MaxIssues = 1
  Changing <- Fickle
  MaxChanges = 1
SYMMETRY Symmetry
INVARIANTS
  ApplicationsPaid ReviewIsFinal ManagedByMembers WithinMeans
