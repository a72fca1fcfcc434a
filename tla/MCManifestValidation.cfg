SPECIFICATION FairSpec
CONSTANTS
  Module <- MCModule
INVARIANTS Inv VerdictRight
PROPERTIES Advances Terminates
CHECK_DEADLOCK FALSE
