SPECIFICATION FairSpec
CONSTANTS
  Processes = {p1, p2, p3}
  Nobody = nobody
  Last = 2
  MaxRequests = 2
  MaxFaults = 3
INVARIANTS
  SchemaFollowsHistory
PROPERTIES
  EventuallyServes
