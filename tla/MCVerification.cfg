SPECIFICATION FairSpec
CONSTANTS
  READY_TIMEOUT = 90
  REQUEST_TIMEOUT = 2
  READY_INTERVAL = 1
  NULL = NULL
INVARIANTS Inv EndsInTime SteadyIsNoticed
PROPERTIES VerificationEnds LoopAdvances
CHECK_DEADLOCK FALSE
