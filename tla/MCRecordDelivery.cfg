SPECIFICATION FairSystem
CONSTANTS
  Call = {c1, c2}
  PoolSize = 1
  Worker = {w1}
  Name = {"dispatcher"}
  WorkerId <- MCWorkerId
  LeaseSeconds = 1
  AttemptMax = 2
  MaxFailures = 1
  Poison = {}
  NULL = NULL
INVARIANTS SystemInv NewsIsTrue
PROPERTIES OutboxSpec EndToEnd RecordsSettle
CHECK_DEADLOCK FALSE
