SPECIFICATION FairSpec
CONSTANTS
  Principals = {"alice", "member", "clerk", "staff"}
  KindOf <- Prefix
  Granted = "clerk"
  Start = "alice"
  RuleLists <- Lists
  Own = "own"
  Grants = {"g1", "g2"}
  Null = Null
  MaxInt = 3
  RowLists <- AnyRows
INVARIANTS
  OriginsExactly OwnFactsAsDecided LentFactsAsDecided QuotasAsDecided PeriodSpansRows
PROPERTIES
  Answered
CHECK_DEADLOCK FALSE
