SPECIFICATION FairSpec
CONSTANTS
  Call = {c1, c2, c3}
  PoolSize = 2
  NULL = NULL
INVARIANTS Inv OutcomeTrue
PROPERTIES StoreSpec CallsEnd
CHECK_DEADLOCK FALSE
