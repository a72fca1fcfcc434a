---------------------------- MODULE RecordDelivery ----------------------------
(***************************************************************************)
(* The two ends of the outbox together: calls of create_record             *)
(* (modules/example/src/database.rs), which this module takes over from    *)
(* Producer, and the workers that dispatch the events these commit         *)
(* (core/src/dispatcher.rs).  They share nothing but the table             *)
(* outbox_events, whose committed rows are what the claims see.  The clock *)
(* is not set back here.                                                   *)
(***************************************************************************)
EXTENDS Producer

CONSTANTS Worker, Name, WorkerId, LeaseSeconds, AttemptMax, MaxFailures, Poison   \* as in Outbox

\* A call takes one id at most.  Every record is an aggregate of its own, and its
\* one event has aggregate_sequence 1.
Event       == 1 .. Cardinality(Call)
AggregateOf == [e \in Event |-> e]
SequenceOf  == [e \in Event |-> 1]

ASSUME DispatchAssumption ==
  /\ WorkerId \in [Worker -> Name] /\ IsFiniteSet(Worker)
  /\ LeaseSeconds \in Nat \ {0} /\ AttemptMax \in Nat /\ MaxFailures \in Nat
  /\ Poison \subseteq Event
  /\ NULL \notin Event /\ NULL \notin Worker /\ NULL \notin Name \X Nat

VARIABLES
  at,              \* pc of Outbox; the others keep their names
  delivered, dead_lettered, claimed_by, claim_left, available_in, attempt_count,
  row_lock, snapshot, target, token, accepted_ids, attempts, failures_remaining, set_back

dispatching == <<at, delivered, dead_lettered, claimed_by, claim_left, available_in,
                 attempt_count, row_lock, snapshot, target, token, accepted_ids, attempts,
                 failures_remaining, set_back>>
system      == <<vars, dispatching>>

EventOf(row) == row[1]
visible      == {EventOf(r) : r \in outbox_events}

Outbox == INSTANCE Outbox WITH Aggregate <- Event, ClockBack <- 0, pc <- at

SystemInit == Init /\ Outbox!Init

Produce == Next /\ UNCHANGED dispatching

Dispatch(w) == UNCHANGED vars /\ Outbox!dispatch_one(w)
Lock(w)     == UNCHANGED vars /\ Outbox!ClaimLock(w)
Claim(w)    == UNCHANGED vars /\ Outbox!ClaimCommit(w)

\* The caller of a worker gives up the event or the whole call.
GiveUp(w) == UNCHANGED vars /\ (Outbox!DeadLetter(w) \/ Outbox!Abandon(w))

Tick == UNCHANGED vars /\ Outbox!Tick

RejectNext == UNCHANGED vars /\ Outbox!RejectNext

SystemNext ==
  \/ Produce
  \/ \E w \in Worker : Dispatch(w) \/ GiveUp(w)
  \/ Tick \/ RejectNext

SystemSpec == SystemInit /\ [][SystemNext]_system

\* The fairness of Outbox.  A call of create_record may stop anywhere.
FairSystem ==
  /\ SystemSpec
  /\ \A w \in Worker : WF_system(Dispatch(w)) /\ SF_system(Lock(w)) /\ SF_system(Claim(w))
  /\ WF_system(Tick)

-------------------------------------------------------------------------------
(* Properties *)

\* To the workers, all calls of create_record together are a producer as Outbox
\* assumes it: rows appear one by one, none goes, and each is the only one of its
\* aggregate, so that none can come before an earlier one.
OutboxSpec == Outbox!Spec

\* From the call to the boundary: a record and its event appear in one step and
\* under an id of their own, and of such an event alone the boundary hears before
\* it counts as published or, unpublished, is set aside for good.
EndToEnd == StoreSpec /\ Outbox!OrderedSpec

\* The boundary is never told of a record that is not there, or whose caller was
\* told that nothing was written.
NewsIsTrue ==
  \A e \in Event : attempts[e] > 0 =>
    \E c \in Call : <<e, c>> \in example_records /\ pc[c] # "failed"

Settled(e) == e \in delivered \cup dead_lettered

\* The event of every committed record is published or set aside, also when the
\* caller never learned of the COMMIT, unless an attempt_count is used up.
RecordsSettle ==
  \A e \in Event, c \in Call :
    <<e, c>> \in example_records
      ~> Settled(e) \/ \E f \in Event : Outbox!Exhausted(f)

\* The events a worker has in mind, or has handed over, are rows of the outbox.
KnownInv ==
  /\ at \in [Worker -> Outbox!PCs]
  /\ snapshot \in [Worker -> SUBSET visible]
  /\ target \in [Worker -> visible \cup {NULL}]
  /\ \A w \in Worker : at[w] \notin {"idle", "scanned"} => target[w] \in visible
  /\ attempts \in [Event -> Nat]
  /\ \A e \in Event : attempts[e] > 0 => e \in visible

\* Every id the sequence has given out is that of a call.
SequenceInv == last_id = Cardinality({c \in Call : event[c] # NULL})

\* The inductive invariant behind the theorems of RecordDeliveryProofs.
SystemInv == Inv /\ SequenceInv /\ KnownInv
===============================================================================
