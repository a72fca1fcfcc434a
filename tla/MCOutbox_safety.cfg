SPECIFICATION Spec
CONSTANTS
  Event <- MCEvent
  Aggregate = {"a", "b"}
  AggregateOf <- MCAggregateOf
  SequenceOf <- MCSequenceOf
  Worker = {w1, w2}
  Name = {"dispatcher"}
  WorkerId <- MCWorkerId
  LeaseSeconds = 2
  AttemptMax = 2
  MaxFailures = 1
  ClockBack = 0
  Poison = {2}
  NULL = NULL
INVARIANTS TypeOK Inv NoOvertaking ExclusiveOwnership AttemptsCovered
PROPERTIES LeaseRespected LateIsRepeat OrderedSpec
SYMMETRY WorkerSymmetry
