-------------------------------- MODULE Outbox --------------------------------
(***************************************************************************)
(* The transactional outbox of better-commerce: the rows of                *)
(* bc_example.outbox_events, the workers that call                         *)
(* PostgresOutboxDispatcher (core/src/dispatcher.rs) and the EventDelivery *)
(* boundary they hand events to.                                           *)
(*                                                                         *)
(* One SQL statement is split where another transaction can come between:  *)
(* claim_next scans under a snapshot, then locks one row, then updates and *)
(* commits.  The settling statements touch one row they wait for, and are  *)
(* one step each.                                                          *)
(***************************************************************************)
EXTENDS Integers, FiniteSets

CONSTANTS
  Event,         \* rows of the outbox; their order as numbers is the order
                 \* of (occurred_at, event_id) the claim sorts by
  Aggregate,     \* (aggregate_type, aggregate_id) pairs
  AggregateOf,   \* [Event -> Aggregate]
  SequenceOf,    \* [Event -> aggregate_sequence]
  Worker,        \* concurrent callers of the dispatcher
  Name,          \* worker_id arguments
  WorkerId,      \* [Worker -> Name]; two workers may share a name
  LeaseSeconds,  \* lease_seconds of the dispatcher
  AttemptMax,    \* the largest value of the int4 column attempt_count
  MaxFailures,   \* bound on failures_remaining of the in-process adapter
  ClockBack,     \* bound on the seconds the clock is ever set back, in all
  Poison,        \* events the delivery boundary never accepts
  NULL           \* SQL NULL, and "none"

ASSUME EventAssumption == Event \subseteq Nat
ASSUME AggregateAssumption == AggregateOf \in [Event -> Aggregate]
ASSUME SequenceAssumption ==      \* UNIQUE (aggregate_type, aggregate_id, aggregate_sequence)
  /\ SequenceOf \in [Event -> Nat \ {0}]
  /\ \A e, f \in Event :
       AggregateOf[e] = AggregateOf[f] /\ SequenceOf[e] = SequenceOf[f] => e = f
ASSUME WorkerAssumption == WorkerId \in [Worker -> Name] /\ IsFiniteSet(Worker)
ASSUME LeaseAssumption == LeaseSeconds \in Nat \ {0}
ASSUME AttemptAssumption == AttemptMax \in Nat /\ MaxFailures \in Nat
ASSUME ClockAssumption == ClockBack \in Nat
ASSUME PoisonAssumption == Poison \subseteq Event
ASSUME NullAssumption == NULL \notin Event /\ NULL \notin Worker
                             /\ NULL \notin Name \X Nat

VARIABLES
  visible,            \* events whose producer transaction has committed
  delivered,          \* rows with delivered_at set
  dead_lettered,      \* rows with dead_lettered_at set
  claimed_by,         \* [Event -> Token or NULL]
  claim_left,         \* [Event -> seconds until claim_until, 0 when it is NULL]
  available_in,       \* [Event -> seconds until available_at]
  attempt_count,      \* [Event -> 0 .. AttemptMax]
  row_lock,           \* [Event -> the worker whose claim holds the row lock]
  pc,                 \* [Worker -> where its call stands]
  snapshot,           \* [Worker -> rows that qualified when its claim scanned]
  target,             \* [Worker -> row its claim has locked, or event it claimed]
  token,              \* [Worker -> claimed_by of its ClaimedEvent]
  accepted_ids,       \* events the delivery boundary has accepted
  attempts,           \* [Event -> times it was handed to the boundary]
  failures_remaining, \* rejections the in-process adapter still owes
  set_back            \* seconds the clock was set back so far

rows     == <<visible, delivered, dead_lettered, claimed_by, claim_left, available_in,
              attempt_count, set_back>>
calls    == <<pc, snapshot, target, token>>
boundary == <<accepted_ids, attempts, failures_remaining>>
vars     == <<rows, row_lock, calls, boundary>>

Token == Name \X Nat

TokenWithoutUuid(w, e) == <<WorkerId[w], 0>>   \* mutant: no uuid in claimed_by

\* claimed_by = worker_id || ':' || gen_random_uuid().  The attempt number
\* stands for the uuid: both are fresh for every claim of the row.
NewToken(w, e) == <<WorkerId[w], attempt_count[e] + 1>>

PCs == {"idle", "scanned", "locked", "claimed", "accepted", "rejected"}

Init ==
  /\ visible = {} /\ delivered = {} /\ dead_lettered = {}
  /\ claimed_by = [e \in Event |-> NULL]
  /\ claim_left = [e \in Event |-> 0]
  /\ available_in = [e \in Event |-> 0]
  /\ set_back = 0
  /\ attempt_count = [e \in Event |-> 0]
  /\ row_lock = [e \in Event |-> NULL]
  /\ pc = [w \in Worker |-> "idle"]
  /\ snapshot = [w \in Worker |-> {}]
  /\ target = [w \in Worker |-> NULL]
  /\ token = [w \in Worker |-> NULL]
  /\ accepted_ids = {}
  /\ attempts = [e \in Event |-> 0]
  /\ failures_remaining = 0

-------------------------------------------------------------------------------
(* Producers and time *)

Earlier(e) == {f \in Event : AggregateOf[f] = AggregateOf[e] /\ SequenceOf[f] < SequenceOf[e]}

\* A producer's transaction with the outbox row of e commits.  Rows of one
\* aggregate become visible in the order of their sequence numbers.
Enqueue(e) ==
  /\ e \notin visible
  /\ Earlier(e) \subseteq visible
  /\ visible' = visible \cup {e}
  /\ UNCHANGED <<delivered, dead_lettered, claimed_by, claim_left, available_in,
                 attempt_count, set_back, row_lock, calls, boundary>>

\* The database clock moves by so many seconds.  What is ClockBack seconds past
\* stays past, so that no smaller value is kept.
ClockMoves(by) ==
  LET Left(t) == IF t - by < -ClockBack THEN -ClockBack ELSE t - by IN
  /\ claim_left' = [e \in Event |-> IF claimed_by[e] = NULL THEN 0 ELSE Left(claim_left[e])]
  /\ available_in' = [e \in Event |-> IF e \in visible THEN Left(available_in[e]) ELSE 0]
  /\ <<claim_left', available_in'>> # <<claim_left, available_in>>
  /\ UNCHANGED <<visible, delivered, dead_lettered, claimed_by, attempt_count,
                 row_lock, calls, boundary>>

Tick == ClockMoves(1) /\ UNCHANGED set_back

\* Leases that had run out may run again.  A claim that finds its row between
\* the scan and the lock does not look at the time again: that is the set-back
\* after the lock.
SetBack ==
  /\ set_back < ClockBack
  /\ set_back' = set_back + 1
  /\ ClockMoves(-1)

-------------------------------------------------------------------------------
(* claim_next *)

DeadLettersRetried(e) ==     \* mutant: dead letters are claimed again
  e \in visible \ delivered /\ (claimed_by[e] = NULL \/ claim_left[e] <= 0)

ExpiredClaimsKept(e) ==      \* mutant: an expired lease still keeps others away
  e \in visible \ (delivered \cup dead_lettered) /\ claimed_by[e] = NULL

\* The conditions of the claim on the row itself, which PostgreSQL checks again
\* on the newest version of the row once it is locked.
RowClaimable(e) ==
  /\ e \in visible
  /\ e \notin delivered
  /\ e \notin dead_lettered
  /\ available_in[e] <= 0
  /\ claimed_by[e] = NULL \/ claim_left[e] <= 0

DeadLetterPasses(e) == Earlier(e) \cap visible \subseteq delivered \cup dead_lettered   \* mutant

\* NOT EXISTS (an earlier row of the aggregate that is not delivered), which is
\* evaluated under the snapshot of the statement only.
IsHead(e) == Earlier(e) \cap visible \subseteq delivered

Eligible == {e \in Event : RowClaimable(e) /\ IsHead(e)}

ClaimScan(w) ==
  /\ pc[w] = "idle"
  /\ pc' = [pc EXCEPT ![w] = "scanned"]
  /\ snapshot' = [snapshot EXCEPT ![w] = Eligible]
  /\ UNCHANGED <<rows, row_lock, target, token, boundary>>

\* The call of w ends and drops what it held.  Its outcome is only told to the
\* caller: no state depends on it, and whether the reply arrives makes no
\* difference to what follows.
Return(w) ==
  /\ pc' = [pc EXCEPT ![w] = "idle"]
  /\ snapshot' = [snapshot EXCEPT ![w] = {}]
  /\ target' = [target EXCEPT ![w] = NULL]
  /\ token' = [token EXCEPT ![w] = NULL]

\* ORDER BY occurred_at, event_id: the scanned row whose turn it is.
Foremost(w, e) == e \in snapshot[w] /\ \A f \in snapshot[w] : e <= f

\* FOR UPDATE OF event SKIP LOCKED: the row is not locked by another statement
\* and its newest version still satisfies the conditions on the row.
Lockable(e) == row_lock[e] = NULL /\ RowClaimable(e)

ClaimSkip(w) ==
  /\ pc[w] = "scanned"
  /\ \E e \in Event :
       /\ Foremost(w, e)
       /\ ~Lockable(e)
       /\ snapshot' = [snapshot EXCEPT ![w] = @ \ {e}]
  /\ UNCHANGED <<rows, row_lock, pc, target, token, boundary>>

\* LIMIT 1
ClaimLock(w) ==
  /\ pc[w] = "scanned"
  /\ \E e \in Event :
       /\ Foremost(w, e)
       /\ Lockable(e)
       /\ row_lock' = [row_lock EXCEPT ![e] = w]
       /\ target' = [target EXCEPT ![w] = e]
  /\ pc' = [pc EXCEPT ![w] = "locked"]
  /\ snapshot' = [snapshot EXCEPT ![w] = {}]
  /\ UNCHANGED <<rows, token, boundary>>

ClaimNothing(w) ==
  /\ pc[w] = "scanned"
  /\ snapshot[w] = {}
  /\ Return(w)
  /\ UNCHANGED <<rows, row_lock, boundary>>

CountFitsOnceMore(e) == attempt_count[e] <= AttemptMax   \* mutant

\* attempt_count + 1 is in the range of int4.
CountFits(e) == attempt_count[e] < AttemptMax

ClaimCommit(w) == LET e == target[w] IN
  /\ pc[w] = "locked"
  /\ CountFits(e)
  /\ claimed_by' = [claimed_by EXCEPT ![e] = NewToken(w, e)]
  /\ claim_left' = [claim_left EXCEPT ![e] = LeaseSeconds]
  /\ attempt_count' = [attempt_count EXCEPT ![e] = @ + 1]
  /\ row_lock' = [row_lock EXCEPT ![e] = NULL]
  /\ token' = [token EXCEPT ![w] = NewToken(w, e)]
  /\ pc' = [pc EXCEPT ![w] = "claimed"]
  /\ UNCHANGED <<visible, delivered, dead_lettered, available_in, set_back, snapshot, target, boundary>>

Unlocked(w) == [e \in Event |-> IF row_lock[e] = w THEN NULL ELSE row_lock[e]]

\* attempt_count + 1 is out of range: the statement fails and rolls back.
ClaimOverflow(w) ==
  /\ pc[w] = "locked"
  /\ ~CountFits(target[w])
  /\ row_lock' = Unlocked(w)
  /\ Return(w)
  /\ UNCHANGED <<rows, boundary>>

-------------------------------------------------------------------------------
(* deliver, and the statements that settle a claim *)

\* The boundary answers Ok for the claimed event.
DeliverAccept(w) == LET e == target[w] IN
  /\ pc[w] = "claimed"
  /\ failures_remaining = 0
  /\ e \notin Poison
  /\ attempts' = [attempts EXCEPT ![e] = @ + 1]
  /\ accepted_ids' = accepted_ids \cup {e}
  /\ pc' = [pc EXCEPT ![w] = "accepted"]
  /\ UNCHANGED <<rows, row_lock, snapshot, target, token, failures_remaining>>

\* The boundary answers Err: the in-process adapter owes a rejection, or the
\* boundary never takes this event.
DeliverReject(w) == LET e == target[w] IN
  /\ pc[w] = "claimed"
  /\ \/ failures_remaining > 0 /\ failures_remaining' = failures_remaining - 1
     \/ e \in Poison /\ failures_remaining = 0 /\ UNCHANGED failures_remaining
  /\ attempts' = [attempts EXCEPT ![e] = @ + 1]
  /\ pc' = [pc EXCEPT ![w] = "rejected"]
  /\ UNCHANGED <<rows, row_lock, snapshot, target, token, accepted_ids>>

\* reject_next, one rejection at a time.
RejectNext ==
  /\ failures_remaining < MaxFailures
  /\ failures_remaining' = failures_remaining + 1
  /\ UNCHANGED <<rows, row_lock, calls, accepted_ids, attempts>>

AnyOwnerSettles(w) == target[w] \notin delivered /\ claim_left[target[w]] > 0   \* mutant: no fence

\* The WHERE clause the three settling statements share: the claim is the row's
\* current one and its lease has not run out.
OwnsClaim(w) == LET e == target[w] IN
  /\ e \notin delivered
  /\ claimed_by[e] = token[w]
  /\ claim_left[e] > 0

ClearClaim(e) ==
  /\ claimed_by' = [claimed_by EXCEPT ![e] = NULL]
  /\ claim_left' = [claim_left EXCEPT ![e] = 0]

\* An UPDATE waits for the claim statement that has locked its row.
RowFree(w) == row_lock[target[w]] = NULL

Acknowledge(w) ==
  /\ pc[w] = "accepted"
  /\ RowFree(w)
  /\ OwnsClaim(w)
  /\ delivered' = delivered \cup {target[w]}
  /\ ClearClaim(target[w])
  /\ Return(w)
  /\ UNCHANGED <<visible, dead_lettered, available_in, attempt_count, set_back, row_lock, boundary>>

ReleaseForgetsCount(w) ==   \* mutant: the release starts the count anew
  /\ pc[w] = "rejected" /\ RowFree(w) /\ OwnsClaim(w)
  /\ attempt_count' = [attempt_count EXCEPT ![target[w]] = 0]
  /\ ClearClaim(target[w])
  /\ Return(w)
  /\ UNCHANGED <<visible, delivered, dead_lettered, available_in, set_back, row_lock, boundary>>

ReleaseRejected(w) ==
  /\ pc[w] = "rejected"
  /\ RowFree(w)
  /\ OwnsClaim(w)
  /\ ClearClaim(target[w])
  /\ available_in' = [available_in EXCEPT ![target[w]] = 0]
  /\ Return(w)
  /\ UNCHANGED <<visible, delivered, dead_lettered, attempt_count, set_back, row_lock, boundary>>

DeadLetterKeepsClaim(w) ==   \* mutant: the dead letter stays claimed
  /\ pc[w] \in {"claimed", "rejected"} /\ RowFree(w) /\ OwnsClaim(w)
  /\ target[w] \notin dead_lettered
  /\ dead_lettered' = dead_lettered \cup {target[w]}
  /\ Return(w)
  /\ UNCHANGED <<visible, delivered, claimed_by, claim_left, available_in, attempt_count, set_back,
                 row_lock, boundary>>

\* The caller gives up on the event it claimed, before or after a rejection.
DeadLetter(w) ==
  /\ pc[w] \in {"claimed", "rejected"}
  /\ RowFree(w)
  /\ OwnsClaim(w)
  /\ target[w] \notin dead_lettered
  /\ dead_lettered' = dead_lettered \cup {target[w]}
  /\ ClearClaim(target[w])
  /\ Return(w)
  /\ UNCHANGED <<visible, delivered, available_in, attempt_count, set_back, row_lock, boundary>>

\* A settling statement updates no row.
LoseLease(w) ==
  /\ pc[w] \in {"claimed", "accepted", "rejected"}
  /\ RowFree(w)
  /\ \/ pc[w] \in {"accepted", "rejected"} /\ ~OwnsClaim(w)
     \/ pc[w] \in {"claimed", "rejected"} /\ ~(OwnsClaim(w) /\ target[w] \notin dead_lettered)
  /\ Return(w)
  /\ UNCHANGED <<rows, row_lock, boundary>>

\* The call ends anywhere: the process dies, the future is dropped, or the
\* database reports an error.  A statement in progress rolls back.
Abandon(w) ==
  /\ pc[w] # "idle"
  /\ row_lock' = Unlocked(w)
  /\ Return(w)
  /\ UNCHANGED <<rows, boundary>>

-------------------------------------------------------------------------------
Claim(w) ==
  \/ ClaimScan(w) \/ ClaimSkip(w) \/ ClaimLock(w) \/ ClaimNothing(w)
  \/ ClaimCommit(w) \/ ClaimOverflow(w)
Settle(w) == Acknowledge(w) \/ ReleaseRejected(w) \/ LoseLease(w)
dispatch_one(w) == Claim(w) \/ DeliverAccept(w) \/ DeliverReject(w) \/ Settle(w)

Next ==
  \/ \E e \in Event : Enqueue(e)
  \/ \E w \in Worker : dispatch_one(w) \/ DeadLetter(w) \/ Abandon(w)
  \/ Tick
  \/ SetBack
  \/ RejectNext

Spec == Init /\ [][Next]_vars

\* The host calls dispatch_one again and again and runs what it began; claim
\* statements are not interrupted for ever; the clock advances.
Fairness ==
  /\ \A w \in Worker :
       /\ WF_vars(dispatch_one(w))
       /\ SF_vars(ClaimLock(w))
       /\ SF_vars(ClaimCommit(w))
  /\ WF_vars(Tick)

FairSpec == Spec /\ Fairness

-------------------------------------------------------------------------------
(* Properties *)

\* The variables hold values of the kind the columns and the calls allow.
TypeOK ==
  /\ visible \subseteq Event /\ delivered \subseteq Event /\ dead_lettered \subseteq Event
  /\ claimed_by \in [Event -> Token \cup {NULL}]
  /\ set_back \in 0 .. ClockBack
  /\ claim_left \in [Event -> (-ClockBack) .. (LeaseSeconds + set_back)]
  /\ available_in \in [Event -> (-ClockBack) .. set_back]
  /\ attempt_count \in [Event -> 0 .. AttemptMax]
  /\ row_lock \in [Event -> Worker \cup {NULL}]
  /\ pc \in [Worker -> PCs]
  /\ snapshot \in [Worker -> SUBSET Event]
  /\ target \in [Worker -> Event \cup {NULL}]
  /\ token \in [Worker -> Token \cup {NULL}]
  /\ accepted_ids \subseteq Event
  /\ attempts \in [Event -> Nat]
  /\ failures_remaining \in 0 .. MaxFailures

Holding(w) == pc[w] \in {"claimed", "accepted", "rejected"}

\* No event is scanned for, locked, claimed or attempted while an earlier event
\* of its aggregate is unpublished, although the barrier of claim_next is read
\* from a snapshot that may be old when the row is locked (NOT EXISTS, lines
\* 177-183).
NoOvertaking ==
  \A e \in Event :
    (attempt_count[e] > 0 \/ row_lock[e] # NULL \/ \E w \in Worker : e \in snapshot[w])
      => Earlier(e) \subseteq delivered

\* At most one worker can settle an event: of several that claimed it in turn,
\* also under one worker_id, only one passes the fence of the settling
\* statements (claimed_by = $2 AND claim_until > now).
ExclusiveOwnership ==
  \A v, w \in Worker :
    /\ Holding(v) /\ OwnsClaim(v)
    /\ Holding(w) /\ OwnsClaim(w)
    /\ target[v] = target[w]
    => v = w

\* Workers that may hand e over for the attempt they have counted.
Claimants(e) == {w \in Worker : pc[w] = "claimed" /\ target[w] = e}

\* The boundary never sees an event more often than attempt_count says, counting
\* the hand-over each current claim may still make.
AttemptsCovered ==
  \A e \in Event :
    attempts[e] + Cardinality(Claimants(e)) <= attempt_count[e]

\* The shape of a call: what a worker remembers at each point of it.
CallInv ==
  \A w \in Worker :
    /\ pc[w] # "scanned" => snapshot[w] = {}
    /\ snapshot[w] \subseteq visible
    /\ pc[w] = "locked" => target[w] \in Event /\ row_lock[target[w]] = w
    /\ Holding(w) =>
         /\ target[w] \in Event
         /\ token[w] \in Token
         /\ token[w][2] \in 1 .. attempt_count[target[w]]
    /\ pc[w] = "accepted" => target[w] \in accepted_ids

\* Two claims of one event never carry the same token.
TokenInv ==
  \A v, w \in Worker :
    Holding(v) /\ Holding(w) /\ target[v] = target[w] /\ v # w => token[v] # token[w]

\* The state of a row: what its lock, its claim and its settlement rule out.
RowInv ==
  \A e \in Event :
    /\ e \in visible => Earlier(e) \subseteq visible
    /\ row_lock[e] # NULL =>
         /\ pc[row_lock[e]] = "locked" /\ target[row_lock[e]] = e
         /\ e \in visible \ (delivered \cup dead_lettered)
         /\ set_back = 0 => RowClaimable(e)
    /\ claimed_by[e] # NULL =>
         /\ e \in visible \ (delivered \cup dead_lettered)
         /\ claimed_by[e][2] = attempt_count[e]
    /\ claim_left[e] > 0 => claimed_by[e] # NULL
    /\ e \in accepted_ids \cup delivered \cup dead_lettered => attempt_count[e] > 0
    /\ attempt_count[e] > 0 => e \in visible
    /\ e \in delivered => e \in accepted_ids /\ e \notin dead_lettered

\* The inductive invariant behind the theorems of OutboxProofs.
Inv == TypeOK /\ CallInv /\ TokenInv /\ RowInv /\ NoOvertaking

\* While a lease runs, nobody but the worker that holds it changes the claim of
\* the row, and that worker does so only by ending its call; the one exception is
\* a lease that runs again because the clock was set back, when the next claim had
\* locked the row before.
LeaseRespected ==
  [][\A e \in Event :
       claim_left[e] > 0 /\ claimed_by'[e] # claimed_by[e] =>
         \/ \E w \in Worker :
              /\ Holding(w) /\ target[w] = e /\ token[w] = claimed_by[e]
              /\ pc'[w] = "idle" /\ claimed_by'[e] = NULL
         \/ set_back > 0 /\ row_lock[e] # NULL]_vars

\* An event that reaches the boundary after a later event of its aggregate was
\* accepted, as the hand-over of a worker that lost its lease may, is one the
\* boundary has accepted before: leaving out known event_ids restores the order.
LateIsRepeat ==
  [][\A e \in Event :
       attempts'[e] > attempts[e] /\ (\E f \in accepted_ids : e \in Earlier(f))
         => e \in accepted_ids]_vars

\* The outbox delivers as the abstract specification says: published only after
\* acceptance, in sequence per aggregate, dead letters as barriers, none undone.
Ordered == INSTANCE OrderedDelivery WITH
  created <- visible, accepted <- accepted_ids,
  published <- delivered, quarantined <- dead_lettered

OrderedSpec == Ordered!Spec

Settled(e)   == e \in delivered \cup dead_lettered
Blocked(e)   == Earlier(e) \cap dead_lettered # {}
Exhausted(e) == attempt_count[e] = AttemptMax /\ ~Settled(e)

\* Every committed event is published or set aside, or waits behind a dead
\* letter of its aggregate, whatever workers die or lose their leases, as long as
\* no attempt_count is used up.
Progress ==
  \A e \in Event :
    e \in visible ~> Settled(e) \/ Blocked(e) \/ \E f \in Event : Exhausted(f)

\* Only its own aggregate suffers from a failed event: every committed event the
\* boundary would take is accepted in the end, unless an event of its aggregate
\* up to it fails for ever or is set aside (docs/adr/0003).
FailureStaysInAggregate ==
  \A e \in Event :
    e \in visible ~> \/ e \in accepted_ids
                     \/ (Earlier(e) \cup {e}) \cap (Poison \cup dead_lettered) # {}
===============================================================================
