\* A Redis cache, a rules folder, and two requests.
SPECIFICATION FairSpec
CONSTANTS
  Requests = {r1, r2}
  Backend = "redis"
  HasSource = TRUE
CHECK_DEADLOCK FALSE
INVARIANTS
  TypeOK
  ReloadsEndBeforeTheCache
  SuccessLeavesNobody
PROPERTIES
  ProcessEnds
