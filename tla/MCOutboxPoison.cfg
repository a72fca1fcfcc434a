SPECIFICATION PoisonSpec
CONSTANTS
  Event <- MCEvent
  Aggregate = {"a", "b"}
  AggregateOf <- MCAggregateOf
  SequenceOf <- MCSequenceOf
  Worker = {w1}
  Name = {"dispatcher"}
  WorkerId <- MCWorkerId
  LeaseSeconds = 1
  AttemptMax = 2
  MaxFailures = 0
  ClockBack = 0
  Poison = {1}
  NULL = NULL
PROPERTIES FailureStaysInAggregate
