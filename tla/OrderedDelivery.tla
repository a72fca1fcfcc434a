---------------------------- MODULE OrderedDelivery ----------------------------
(***************************************************************************)
(* What the outbox promises, without rows, leases, workers or time: every  *)
(* event is accepted by the delivery boundary before it counts as          *)
(* published, the events of one aggregate advance in sequence, and an      *)
(* event set aside as a dead letter holds back the rest of its aggregate.  *)
(***************************************************************************)
EXTENDS Naturals

CONSTANTS Event, AggregateOf, SequenceOf

VARIABLES
  created,      \* events a producer has committed
  accepted,     \* events the delivery boundary has taken at least once
  published,    \* events marked as published
  quarantined   \* events set aside as dead letters

vars == <<created, accepted, published, quarantined>>

Earlier(e) == {f \in Event : AggregateOf[f] = AggregateOf[e] /\ SequenceOf[f] < SequenceOf[e]}

Init == created = {} /\ accepted = {} /\ published = {} /\ quarantined = {}

Create(e) ==
  /\ e \notin created
  /\ Earlier(e) \subseteq created
  /\ created' = created \cup {e}
  /\ UNCHANGED <<accepted, published, quarantined>>

\* The first acceptance of e.  A worker that lost its lease may still hand over
\* an event that was set aside meanwhile, so quarantined events are not excluded.
Accept(e) ==
  /\ e \in created \ accepted
  /\ Earlier(e) \subseteq published
  /\ accepted' = accepted \cup {e}
  /\ UNCHANGED <<created, published, quarantined>>

Publish(e) ==
  /\ e \in accepted \ (published \cup quarantined)
  /\ published' = published \cup {e}
  /\ UNCHANGED <<created, accepted, quarantined>>

Quarantine(e) ==
  /\ e \in created \ (published \cup quarantined)
  /\ Earlier(e) \subseteq published
  /\ quarantined' = quarantined \cup {e}
  /\ UNCHANGED <<created, accepted, published>>

Next == \E e \in Event : Create(e) \/ Accept(e) \/ Publish(e) \/ Quarantine(e)

Spec == Init /\ [][Next]_vars
===============================================================================
