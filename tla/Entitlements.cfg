SPECIFICATION SubjectSpec
CONSTANTS
  Subscriptions = {s1, s2}
  Plans = {"basic", "metered"}
  FeatureRules <- FeaturesOf
  QuotaRules <- QuotasOf
  Manual = manual
  Keys = {"approvals"}
  Features = {"search"}
  Periods = {1, 2}
  Ops = {a, b}
  Grants = {g}
  Limits = {0, 1}
SYMMETRY Symmetry
INVARIANTS
  FeaturesFollowPlan QuotasFollowPlan UsageIsNotForgotten
PROPERTIES
  HoldersKeepTheirRows
