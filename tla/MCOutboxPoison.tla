---------------------------- MODULE MCOutboxPoison ----------------------------
(***************************************************************************)
(* One worker and two events of different aggregates, the first of which   *)
(* the boundary never accepts.  AttemptMax stands here for "that many      *)
(* attempts or more", so that the run shows the cycle of retries and not   *)
(* the overflow of the column: the last claim action repeats at the bound. *)
(* A single worker never meets an older token of its own.                  *)
(***************************************************************************)
EXTENDS Outbox

MCEvent == {1, 2}
MCAggregateOf == [e \in MCEvent |-> IF e = 1 THEN "a" ELSE "b"]
MCSequenceOf == [e \in MCEvent |-> 1]
MCWorkerId == [w \in Worker |-> "dispatcher"]

ClaimAgain(w) == LET e == target[w] IN
  /\ pc[w] = "locked"
  /\ attempt_count[e] = AttemptMax
  /\ claimed_by' = [claimed_by EXCEPT ![e] = <<WorkerId[w], AttemptMax>>]
  /\ claim_left' = [claim_left EXCEPT ![e] = LeaseSeconds]
  /\ row_lock' = Unlocked(w)
  /\ token' = [token EXCEPT ![w] = claimed_by'[e]]
  /\ pc' = [pc EXCEPT ![w] = "claimed"]
  /\ UNCHANGED <<visible, delivered, dead_lettered, available_in, attempt_count, set_back,
                 snapshot, target, boundary>>

RejectAgain(w) ==
  /\ pc[w] = "claimed"
  /\ target[w] \in Poison
  /\ attempts[target[w]] = AttemptMax
  /\ pc' = [pc EXCEPT ![w] = "rejected"]
  /\ UNCHANGED <<rows, row_lock, snapshot, target, token, boundary>>

\* dispatch_one over and over: no crash and no dead letter, and
\* every call ends within its lease.
Dispatch(w) ==
  \/ ClaimScan(w) \/ ClaimSkip(w) \/ ClaimLock(w) \/ ClaimNothing(w) \/ ClaimCommit(w) \/ ClaimAgain(w)
  \/ DeliverAccept(w)
  \/ DeliverReject(w) /\ attempts[target[w]] < AttemptMax
  \/ RejectAgain(w)
  \/ Settle(w)

PoisonNext ==
  \/ \E e \in Event : Enqueue(e)
  \/ \E w \in Worker : Dispatch(w)

PoisonSpec == Init /\ [][PoisonNext]_vars /\ \A w \in Worker : WF_vars(Dispatch(w))
===============================================================================
