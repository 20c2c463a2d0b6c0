SPECIFICATION ApprovalSpec
CONSTANTS
  unassigned = unassigned
  assigned = assigned
  small = small
  member = member
  stranger = stranger
  k1 = k1
  k2 = k2
  k3 = k3
  Entitlements = {1}
  Limit <- OneRow
  Unlimited = unlimited
  IdRank <- Only
  Grants = {1, 2}
  Ops = {k1, k2, k3}
  MaxCost = 1
  Invoices = {unassigned, assigned, small}
  Low = {small}
  Approver <- Assigned
  Nobody = nobody
  ActorOf <- Scoped
  Members = {member}
  Handlers = {w1, w2}
  Versions = {1, 2}
  Bundles <- OneUnit
  Idle = idle
  NoRecord = none
SYMMETRY Symmetry
CHECK_DEADLOCK FALSE
INVARIANTS
  EffectsTogether AnswersTrue
PROPERTIES
  ApprovalIsAtomic
