SPECIFICATION FairSpec
CONSTANTS
  Event <- MCTwoEvents
  Aggregate = {"a", "b"}
  AggregateOf <- MCOneAggregate
  SequenceOf <- MCTwoSequence
  Worker = {w1, w2}
  Name = {"dispatcher"}
  WorkerId <- MCWorkerId
  LeaseSeconds = 1
  AttemptMax = 2
  MaxFailures = 1
  ClockBack = 1
  Poison = {}
  NULL = NULL
INVARIANTS ExclusiveOwnership
PROPERTIES LeaseRespected Progress
