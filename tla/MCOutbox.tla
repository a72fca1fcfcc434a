------------------------------- MODULE MCOutbox -------------------------------
(* Two aggregates, the first with two events, and two workers that share a name. *)
EXTENDS Outbox, TLC

MCEvent == {1, 2, 3}
MCAggregateOf == [e \in MCEvent |-> IF e = 2 THEN "b" ELSE "a"]
MCSequenceOf == [e \in MCEvent |-> IF e = 3 THEN 2 ELSE 1]
MCWorkerId == [w \in Worker |-> "dispatcher"]

\* The workers are interchangeable.
WorkerSymmetry == Permutations(Worker)

(* For liveness: two events of one aggregate. *)
MCTwoEvents == {1, 2}
MCOneAggregate == [e \in MCTwoEvents |-> "a"]
MCTwoSequence == [e \in MCTwoEvents |-> e]
===============================================================================
