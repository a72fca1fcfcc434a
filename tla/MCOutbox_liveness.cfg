SPECIFICATION FairSpec
CONSTANTS
  Event <- MCTwoEvents
  Aggregate = {"a", "b"}
  AggregateOf <- MCOneAggregate
  SequenceOf <- MCTwoSequence
  Worker = {w1, w2}
  Name = {"dispatcher"}
  WorkerId <- MCWorkerId
  LeaseSeconds = 1
  AttemptMax = 3
  MaxFailures = 1
  ClockBack = 0
  Poison = {}
  NULL = NULL
PROPERTIES Progress
