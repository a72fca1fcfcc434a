----------------------------- MODULE OutboxProofs -----------------------------
(***************************************************************************)
(* Inv is an inductive invariant of Outbox for every set of events and     *)
(* workers and every lease and bound, and what follows from it.  One lemma *)
(* per action shows that the action preserves Inv.                         *)
(***************************************************************************)
EXTENDS Outbox, FiniteSetTheorems, TLAPS

\* What the clock makes of a number of seconds between its bounds.
LEMMA Drift ==
  ASSUME NEW back \in Nat, NEW k \in 0 .. back, NEW l \in 0 .. back, NEW lease \in Nat,
         NEW by \in {-1, 1}, l = k \/ l = k + 1, by = -1 => l = k + 1,
         NEW t \in (-back) .. (lease + k)
  PROVE  /\ (IF t - by < -back THEN -back ELSE t - by) \in (-back) .. (lease + l)
         /\ 0 \in (-back) .. (lease + l)
         /\ l = 0 /\ t <= 0 => (IF t - by < -back THEN -back ELSE t - by) <= 0
OBVIOUS

LEMMA ZeroPlus == \A n \in Nat : 0 + n = n
OBVIOUS

USE EventAssumption, AggregateAssumption, SequenceAssumption, WorkerAssumption,
    LeaseAssumption, AttemptAssumption, ClockAssumption, PoisonAssumption, NullAssumption

-------------------------------------------------------------------------------
(* The counters of a row, and counting one more attempt. *)

LEMMA CountType ==
  ASSUME TypeOK, NEW e \in Event
  PROVE  attempt_count[e] \in Nat /\ attempt_count[e] <= AttemptMax
BY DEF TypeOK

LEMMA AttemptsType ==
  ASSUME TypeOK, NEW e \in Event
  PROVE  [attempts EXCEPT ![e] = @ + 1] \in [Event -> Nat]
BY DEF TypeOK

-------------------------------------------------------------------------------
(* Producers and time *)

LEMMA InitInv == Init => Inv
<1> SUFFICES ASSUME Init PROVE Inv
  OBVIOUS
<1>1. TypeOK
  BY DEF Init, TypeOK, PCs
<1>2. CallInv /\ TokenInv
  BY DEF Init, CallInv, TokenInv, Holding
<1>3. RowInv /\ NoOvertaking
  BY DEF Init, RowInv, NoOvertaking
<1> QED
  BY <1>1, <1>2, <1>3 DEF Inv

LEMMA EnqueueInv ==
  ASSUME Inv, NEW e \in Event, Enqueue(e)
  PROVE  Inv'
<1> USE DEF Inv, Enqueue, calls, boundary
<1>1. TypeOK'
  BY DEF TypeOK
<1>2. CallInv' /\ TokenInv'
  BY DEF CallInv, TokenInv, Holding
<1>3. RowInv'
  BY DEF RowInv, RowClaimable, Earlier, TypeOK
<1>4. NoOvertaking'
  BY DEF NoOvertaking, Earlier
<1> QED
  BY <1>1, <1>2, <1>3, <1>4

LEMMA ClockInv ==
  ASSUME Inv, NEW by \in {-1, 1}, ClockMoves(by),
         set_back' \in 0 .. ClockBack, set_back' = set_back \/ set_back' = set_back + 1,
         by = -1 => set_back' = set_back + 1
  PROVE  Inv'
<1> USE DEF Inv, calls, boundary
<1> DEFINE Left(t) == IF t - by < -ClockBack THEN -ClockBack ELSE t - by
<1>0. /\ UNCHANGED <<visible, delivered, dead_lettered, claimed_by, attempt_count,
                     row_lock, calls, boundary>>
      /\ claim_left' = [e \in Event |-> IF claimed_by[e] = NULL THEN 0 ELSE Left(claim_left[e])]
      /\ available_in' = [e \in Event |-> IF e \in visible THEN Left(available_in[e]) ELSE 0]
  BY DEF ClockMoves
<1>1. /\ set_back \in 0 .. ClockBack /\ set_back' \in Nat
      /\ LeaseSeconds \in Nat /\ 0 \in Nat
  BY DEF TypeOK
<1>2. ASSUME NEW e \in Event
      PROVE  /\ claim_left'[e] \in (-ClockBack) .. (LeaseSeconds + set_back')
             /\ available_in'[e] \in (-ClockBack) .. set_back'
             /\ set_back' = 0 => /\ claim_left[e] <= 0 => claim_left'[e] <= 0
                                 /\ available_in[e] <= 0 => available_in'[e] <= 0
  <2>1. /\ claim_left[e] \in (-ClockBack) .. (LeaseSeconds + set_back)
        /\ available_in[e] \in (-ClockBack) .. (0 + set_back)
    BY <1>1 DEF TypeOK
  <2>2. /\ Left(claim_left[e]) \in (-ClockBack) .. (LeaseSeconds + set_back')
        /\ 0 \in (-ClockBack) .. (LeaseSeconds + set_back')
        /\ set_back' = 0 /\ claim_left[e] <= 0 => Left(claim_left[e]) <= 0
    BY <1>1, <2>1, Drift
  <2>3. /\ Left(available_in[e]) \in (-ClockBack) .. (0 + set_back')
        /\ 0 \in (-ClockBack) .. (0 + set_back')
        /\ set_back' = 0 /\ available_in[e] <= 0 => Left(available_in[e]) <= 0
    BY <1>1, <2>1, Drift
  <2>4. 0 + set_back' = set_back'
    BY <1>1, ZeroPlus, Zenon
  <2> HIDE DEF Left
  <2>5. /\ claim_left'[e] \in {0, Left(claim_left[e])}
        /\ available_in'[e] \in {0, Left(available_in[e])}
    BY <1>0
  <2>6. available_in'[e] \in (-ClockBack) .. set_back'
    BY <2>3, <2>4, <2>5
  <2> QED
    BY <2>2, <2>3, <2>5, <2>6
<1> HIDE DEF Left
<1>3. TypeOK'
  BY <1>0, <1>2 DEF TypeOK
<1>4. CallInv' /\ TokenInv'
  BY <1>0 DEF CallInv, TokenInv, Holding
<1>5. RowInv'
  <2>1. \A e \in Event : claimed_by[e] = NULL => claim_left'[e] = 0
    BY <1>0
  <2>2. \A e \in Event : set_back' = 0 /\ RowClaimable(e) => RowClaimable(e)'
    BY <1>0, <1>2 DEF RowClaimable
  <2>3. set_back' = 0 => set_back = 0
    BY <1>1
  <2>4. \A e \in Event : row_lock[e] # NULL /\ set_back' = 0 => RowClaimable(e)'
    BY <2>2, <2>3 DEF RowInv
  <2>5. \A e \in Event : claim_left'[e] > 0 => claimed_by[e] # NULL
    BY <2>1
  <2> QED
    BY <1>0, <2>4, <2>5 DEF RowInv, Earlier
<1>6. NoOvertaking'
  BY <1>0 DEF NoOvertaking, Earlier
<1> QED
  BY <1>3, <1>4, <1>5, <1>6

LEMMA TickInv ==
  ASSUME Inv, Tick
  PROVE  Inv'
BY ClockInv DEF Tick, Inv, TypeOK

LEMMA SetBackInv ==
  ASSUME Inv, SetBack
  PROVE  Inv'
BY ClockInv DEF SetBack, Inv, TypeOK

LEMMA RejectNextInv ==
  ASSUME Inv, RejectNext
  PROVE  Inv'
<1> USE DEF Inv, RejectNext, rows, calls
<1>1. TypeOK'
  BY DEF TypeOK
<1>2. CallInv' /\ TokenInv'
  BY DEF CallInv, TokenInv, Holding
<1>3. RowInv' /\ NoOvertaking'
  BY DEF RowInv, RowClaimable, Earlier, NoOvertaking
<1> QED
  BY <1>1, <1>2, <1>3

LEMMA StutterInv ==
  ASSUME Inv, UNCHANGED vars
  PROVE  Inv'
<1> USE DEF Inv, vars, rows, calls, boundary
<1>1. TypeOK'
  BY DEF TypeOK
<1>2. CallInv' /\ TokenInv'
  BY DEF CallInv, TokenInv, Holding
<1>3. RowInv' /\ NoOvertaking'
  BY DEF RowInv, RowClaimable, Earlier, NoOvertaking
<1> QED
  BY <1>1, <1>2, <1>3

-------------------------------------------------------------------------------
(* claim_next *)

LEMMA ClaimScanInv ==
  ASSUME Inv, NEW w \in Worker, ClaimScan(w)
  PROVE  Inv'
<1> USE DEF Inv, ClaimScan, rows, boundary
<1>1. TypeOK'
  BY DEF TypeOK, PCs, Eligible
<1>2. CallInv'
  BY DEF CallInv, Holding, Eligible, RowClaimable, TypeOK
<1>3. TokenInv'
  BY DEF TokenInv, Holding, TypeOK
<1>4. RowInv'
  BY DEF RowInv, RowClaimable, Earlier, TypeOK
<1>5. NoOvertaking'
  <2>1. \A f \in Eligible : Earlier(f) \subseteq delivered
    BY DEF Eligible, RowClaimable, IsHead, RowInv
  <2> QED
    BY <2>1 DEF NoOvertaking, Earlier, TypeOK
<1> QED
  BY <1>1, <1>2, <1>3, <1>4, <1>5

LEMMA ClaimSkipInv ==
  ASSUME Inv, NEW w \in Worker, ClaimSkip(w)
  PROVE  Inv'
<1> USE DEF Inv, ClaimSkip, rows, boundary
<1>1. TypeOK'
  BY DEF TypeOK
<1>2. CallInv'
  BY DEF CallInv, Holding, TypeOK
<1>3. TokenInv'
  BY DEF TokenInv, Holding
<1>4. RowInv'
  BY DEF RowInv, RowClaimable, Earlier
<1>5. NoOvertaking'
  <2>1. \A v \in Worker : snapshot'[v] \subseteq snapshot[v]
    BY DEF TypeOK
  <2> QED
    BY <2>1 DEF NoOvertaking, Earlier
<1> QED
  BY <1>1, <1>2, <1>3, <1>4, <1>5

LEMMA ClaimLockInv ==
  ASSUME Inv, NEW w \in Worker, ClaimLock(w)
  PROVE  Inv'
<1> USE DEF Inv, rows, boundary
<1>0. PICK e \in Event : /\ Foremost(w, e) /\ Lockable(e)
                         /\ row_lock' = [row_lock EXCEPT ![e] = w]
                         /\ target' = [target EXCEPT ![w] = e]
  BY DEF ClaimLock
<1>a. /\ pc[w] = "scanned" /\ pc' = [pc EXCEPT ![w] = "locked"]
      /\ snapshot' = [snapshot EXCEPT ![w] = {}]
      /\ UNCHANGED <<rows, token, boundary>>
  BY DEF ClaimLock
<1>1. TypeOK'
  BY <1>0, <1>a DEF TypeOK, PCs
<1>2. CallInv'
  <2>1. \A v \in Worker : pc[v] = "locked" => target[v] # e
    BY <1>0 DEF CallInv, Lockable
  <2> QED
    BY <1>0, <1>a, <2>1 DEF CallInv, Holding, TypeOK
<1>3. TokenInv'
  BY <1>0, <1>a DEF TokenInv, Holding, TypeOK
<1>4. RowInv'
  BY <1>0, <1>a DEF RowInv, RowClaimable, Lockable, Earlier, TypeOK
<1>5. NoOvertaking'
  BY <1>0, <1>a DEF NoOvertaking, Foremost, Earlier, TypeOK
<1> QED
  BY <1>1, <1>2, <1>3, <1>4, <1>5

LEMMA ClaimCommitInv ==
  ASSUME Inv, NEW w \in Worker, ClaimCommit(w)
  PROVE  Inv'
<1> DEFINE e == target[w]
<1> USE DEF Inv, rows, boundary
<1>0. /\ e \in Event /\ row_lock[e] = w /\ e \in visible \ (delivered \cup dead_lettered)
      /\ pc[w] = "locked" /\ attempt_count[e] \in Nat /\ attempt_count[e] + 1 <= AttemptMax
  <2>1. pc[w] = "locked" /\ CountFits(e)
    BY DEF ClaimCommit
  <2>2. e \in Event /\ row_lock[e] = w
    BY <2>1 DEF CallInv
  <2>3. e \in visible \ (delivered \cup dead_lettered)
    BY <2>2 DEF RowInv
  <2>4. attempt_count[e] \in Nat /\ AttemptMax \in Nat
    BY <2>2, CountType
  <2> HIDE DEF e
  <2> QED
    BY <2>1, <2>2, <2>3, <2>4 DEF CountFits
<1>1. NewToken(w, e) \in Token /\ NewToken(w, e)[2] = attempt_count[e] + 1
  BY <1>0 DEF NewToken, Token
<1>2. /\ claimed_by' = [claimed_by EXCEPT ![e] = NewToken(w, e)]
      /\ claim_left' = [claim_left EXCEPT ![e] = LeaseSeconds]
      /\ attempt_count' = [attempt_count EXCEPT ![e] = attempt_count[e] + 1]
      /\ row_lock' = [row_lock EXCEPT ![e] = NULL]
      /\ token' = [token EXCEPT ![w] = NewToken(w, e)]
      /\ pc' = [pc EXCEPT ![w] = "claimed"]
      /\ UNCHANGED <<visible, delivered, dead_lettered, available_in, set_back, snapshot, target,
                     boundary>>
  BY DEF ClaimCommit
<1> HIDE DEF e
<1>3. TypeOK'
  BY <1>0, <1>1, <1>2 DEF TypeOK, PCs
<1>4. CallInv'
  <2>1. \A v \in Worker : v # w /\ pc[v] = "locked" => target[v] # e
    BY <1>0 DEF CallInv
  <2> QED
    BY <1>0, <1>1, <1>2, <2>1 DEF CallInv, Holding, TypeOK, e
<1>5. TokenInv'
  BY <1>0, <1>1, <1>2 DEF TokenInv, CallInv, Holding, TypeOK, e
<1>6. RowInv'
  <2> SUFFICES ASSUME NEW f \in Event
               PROVE  /\ f \in visible => Earlier(f) \subseteq visible
                      /\ row_lock'[f] # NULL =>
                           /\ pc'[row_lock'[f]] = "locked" /\ target[row_lock'[f]] = f
                           /\ f \in visible \ (delivered \cup dead_lettered)
                           /\ set_back = 0 => RowClaimable(f)'
                      /\ claimed_by'[f] # NULL =>
                           /\ f \in visible \ (delivered \cup dead_lettered)
                           /\ claimed_by'[f][2] = attempt_count'[f]
                      /\ claim_left'[f] > 0 => claimed_by'[f] # NULL
                      /\ f \in accepted_ids \cup delivered \cup dead_lettered => attempt_count'[f] > 0
                      /\ attempt_count'[f] > 0 => f \in visible
                      /\ f \in delivered => f \in accepted_ids /\ f \notin dead_lettered
    BY <1>2 DEF RowInv, Earlier
  <2>1. CASE f = e
    BY <1>0, <1>1, <1>2, <2>1 DEF RowInv, RowClaimable, Earlier, TypeOK, Token
  <2>2. CASE f # e
    <3>1. UNCHANGED <<claimed_by[f], claim_left[f], attempt_count[f], row_lock[f]>>
      BY <1>0, <1>2, <2>2 DEF TypeOK
    <3>2. row_lock[f] # NULL => row_lock[f] # w /\ row_lock[f] \in Worker
      BY <1>0, <2>2 DEF RowInv, TypeOK, e
    <3> QED
      BY <1>2, <3>1, <3>2 DEF RowInv, RowClaimable, Earlier, TypeOK
  <2> QED
    BY <2>1, <2>2
<1>7. NoOvertaking'
  BY <1>0, <1>2 DEF NoOvertaking, Earlier, TypeOK
<1> QED
  BY <1>3, <1>4, <1>5, <1>6, <1>7

\* What the end of a call leaves to the other workers, when it changes no row.
LEMMA ReturnInv ==
  ASSUME Inv, NEW w \in Worker, Return(w), row_lock' = Unlocked(w),
         UNCHANGED <<rows, boundary>>
  PROVE  Inv'
<1> USE DEF Inv, Return, Unlocked, rows, boundary
<1>1. TypeOK'
  BY DEF TypeOK, PCs
<1>2. CallInv'
  BY DEF CallInv, Holding, TypeOK
<1>3. TokenInv'
  BY DEF TokenInv, Holding, TypeOK
<1>4. RowInv'
  BY DEF RowInv, RowClaimable, Earlier, TypeOK
<1>5. NoOvertaking'
  BY DEF NoOvertaking, Earlier, TypeOK
<1> QED
  BY <1>1, <1>2, <1>3, <1>4, <1>5

\* A worker that has locked no row unlocks none.
LEMMA NothingToUnlock ==
  ASSUME Inv, NEW w \in Worker, pc[w] # "locked"
  PROVE  row_lock = Unlocked(w)
BY DEF Inv, RowInv, TypeOK, Unlocked

LEMMA ClaimNothingInv ==
  ASSUME Inv, NEW w \in Worker, ClaimNothing(w)
  PROVE  Inv'
BY ReturnInv, NothingToUnlock DEF ClaimNothing

LEMMA ClaimOverflowInv ==
  ASSUME Inv, NEW w \in Worker, ClaimOverflow(w)
  PROVE  Inv'
BY ReturnInv DEF ClaimOverflow

-------------------------------------------------------------------------------
(* deliver, and the statements that settle a claim *)

LEMMA DeliverAcceptInv ==
  ASSUME Inv, NEW w \in Worker, DeliverAccept(w)
  PROVE  Inv'
<1> USE DEF Inv, DeliverAccept, rows
<1>0. target[w] \in Event /\ attempt_count[target[w]] > 0
  <2>1. target[w] \in Event /\ token[w][2] \in 1 .. attempt_count[target[w]]
    BY DEF CallInv, Holding
  <2>2. attempt_count[target[w]] \in Nat
    BY <2>1, CountType
  <2> QED
    BY <2>1, <2>2
<1>1. TypeOK'
  <2>1. attempts' \in [Event -> Nat] /\ pc' \in [Worker -> PCs]
    BY <1>0, AttemptsType DEF TypeOK, PCs
  <2> QED
    BY <1>0, <2>1 DEF TypeOK
<1>2. CallInv'
  BY DEF CallInv, Holding, TypeOK
<1>3. TokenInv'
  BY DEF TokenInv, Holding, TypeOK
<1>4. RowInv'
  BY <1>0 DEF RowInv, RowClaimable, Earlier, TypeOK
<1>5. NoOvertaking'
  BY DEF NoOvertaking, Earlier
<1> QED
  BY <1>1, <1>2, <1>3, <1>4, <1>5

LEMMA DeliverRejectInv ==
  ASSUME Inv, NEW w \in Worker, DeliverReject(w)
  PROVE  Inv'
<1> USE DEF Inv, DeliverReject, rows
<1>0. target[w] \in Event
  BY DEF CallInv, Holding
<1>1. TypeOK'
  <2>1. attempts' \in [Event -> Nat] /\ pc' \in [Worker -> PCs]
    BY <1>0, AttemptsType DEF TypeOK, PCs
  <2>2. failures_remaining' \in 0 .. MaxFailures
    BY DEF TypeOK
  <2> QED
    BY <2>1, <2>2 DEF TypeOK
<1>2. CallInv'
  BY DEF CallInv, Holding, TypeOK
<1>3. TokenInv'
  BY DEF TokenInv, Holding, TypeOK
<1>4. RowInv'
  BY DEF RowInv, RowClaimable, Earlier, TypeOK
<1>5. NoOvertaking'
  BY DEF NoOvertaking, Earlier
<1> QED
  BY <1>1, <1>2, <1>3, <1>4, <1>5

\* What the three settling statements share: the owner of an unlocked row gives
\* up its claim, and the row is released, delivered or set aside.
LEMMA SettleInv ==
  ASSUME Inv, NEW w \in Worker,
         Holding(w), RowFree(w), OwnsClaim(w), ClearClaim(target[w]), Return(w),
         UNCHANGED <<visible, attempt_count, set_back, row_lock, boundary>>,
         available_in' = available_in \/ available_in' = [available_in EXCEPT ![target[w]] = 0],
         \/ UNCHANGED <<delivered, dead_lettered>>
         \/ /\ target[w] \in accepted_ids
            /\ delivered' = delivered \cup {target[w]}
            /\ UNCHANGED dead_lettered
         \/ dead_lettered' = dead_lettered \cup {target[w]} /\ UNCHANGED delivered
  PROVE  Inv'
<1> DEFINE e == target[w]
<1> USE DEF Inv, Return, ClearClaim, OwnsClaim, RowFree, boundary
<1>0. /\ e \in Event /\ row_lock[e] = NULL /\ pc[w] # "locked"
      /\ token[w] \in Token /\ claimed_by[e] # NULL
      /\ e \in visible \ (delivered \cup dead_lettered)
      /\ attempt_count[e] > 0
  <2>1. /\ e \in Event /\ row_lock[e] = NULL /\ pc[w] # "locked"
        /\ token[w] \in Token /\ token[w][2] \in 1 .. attempt_count[e]
    BY DEF CallInv, Holding
  <2>2. claimed_by[e] # NULL
    BY <2>1 DEF Token
  <2>3. attempt_count[e] \in Nat
    BY <2>1, CountType
  <2>4. attempt_count[e] > 0
    BY <2>1, <2>3
  <2> HIDE DEF e
  <2> QED
    BY <2>1, <2>2, <2>4 DEF RowInv
<1>1. TypeOK'
  <2>1. /\ claimed_by' \in [Event -> Token \cup {NULL}]
        /\ claim_left' \in [Event -> (-ClockBack) .. (LeaseSeconds + set_back)]
        /\ available_in' \in [Event -> (-ClockBack) .. set_back]
    BY <1>0 DEF TypeOK
  <2>2. /\ pc' \in [Worker -> PCs] /\ snapshot' \in [Worker -> SUBSET Event]
        /\ target' \in [Worker -> Event \cup {NULL}] /\ token' \in [Worker -> Token \cup {NULL}]
    BY DEF TypeOK, PCs
  <2> QED
    BY <1>0, <2>1, <2>2 DEF TypeOK
<1>2. CallInv'
  BY DEF CallInv, Holding, TypeOK
<1>3. TokenInv'
  BY DEF TokenInv, Holding, TypeOK
<1>4. RowInv'
  <2> SUFFICES ASSUME NEW f \in Event
               PROVE  /\ f \in visible => Earlier(f) \subseteq visible
                      /\ row_lock[f] # NULL =>
                           /\ pc'[row_lock[f]] = "locked" /\ target'[row_lock[f]] = f
                           /\ f \in visible \ (delivered' \cup dead_lettered')
                           /\ set_back = 0 => RowClaimable(f)'
                      /\ claimed_by'[f] # NULL =>
                           /\ f \in visible \ (delivered' \cup dead_lettered')
                           /\ claimed_by'[f][2] = attempt_count[f]
                      /\ claim_left'[f] > 0 => claimed_by'[f] # NULL
                      /\ f \in accepted_ids \cup delivered' \cup dead_lettered' => attempt_count[f] > 0
                      /\ attempt_count[f] > 0 => f \in visible
                      /\ f \in delivered' => f \in accepted_ids /\ f \notin dead_lettered'
    BY DEF RowInv, Earlier
  <2>1. CASE f = e
    BY <1>0, <2>1 DEF RowInv, Earlier, TypeOK
  <2>2. CASE f # e
    <3>1. /\ claimed_by'[f] = claimed_by[f] /\ claim_left'[f] = claim_left[f]
          /\ available_in'[f] = available_in[f]
          /\ f \in delivered' <=> f \in delivered
          /\ f \in dead_lettered' <=> f \in dead_lettered
      BY <2>2 DEF TypeOK
    <3>2. row_lock[f] # NULL => row_lock[f] # w /\ row_lock[f] \in Worker
      BY <1>0 DEF RowInv, TypeOK
    <3> QED
      BY <3>1, <3>2 DEF RowInv, RowClaimable, Earlier, TypeOK
  <2> QED
    BY <2>1, <2>2
<1>5. NoOvertaking'
  <2>1. \A v \in Worker : snapshot'[v] \subseteq snapshot[v]
    BY DEF TypeOK
  <2> QED
    BY <2>1 DEF NoOvertaking, Earlier
<1> QED
  BY <1>1, <1>2, <1>3, <1>4, <1>5

LEMMA AcknowledgeInv ==
  ASSUME Inv, NEW w \in Worker, Acknowledge(w)
  PROVE  Inv'
<1>1. Holding(w) /\ target[w] \in accepted_ids
  BY DEF Acknowledge, Holding, Inv, CallInv
<1> QED
  BY <1>1, SettleInv DEF Acknowledge

LEMMA ReleaseRejectedInv ==
  ASSUME Inv, NEW w \in Worker, ReleaseRejected(w)
  PROVE  Inv'
BY SettleInv DEF ReleaseRejected, Holding

LEMMA DeadLetterInv ==
  ASSUME Inv, NEW w \in Worker, DeadLetter(w)
  PROVE  Inv'
BY SettleInv DEF DeadLetter, Holding

LEMMA LoseLeaseInv ==
  ASSUME Inv, NEW w \in Worker, LoseLease(w)
  PROVE  Inv'
BY ReturnInv, NothingToUnlock DEF LoseLease

LEMMA AbandonInv ==
  ASSUME Inv, NEW w \in Worker, Abandon(w)
  PROVE  Inv'
BY ReturnInv DEF Abandon

-------------------------------------------------------------------------------
(* The theorems *)

LEMMA NextInv == Inv /\ [Next]_vars => Inv'
<1> SUFFICES ASSUME Inv, [Next]_vars PROVE Inv'
  OBVIOUS
<1>1. CASE \E e \in Event : Enqueue(e)
  BY <1>1, EnqueueInv
<1>2. ASSUME NEW w \in Worker, dispatch_one(w) PROVE Inv'
  <2>1. CASE Claim(w)
    BY <2>1, ClaimScanInv, ClaimSkipInv, ClaimLockInv, ClaimNothingInv, ClaimCommitInv,
       ClaimOverflowInv DEF Claim
  <2>2. CASE DeliverAccept(w) \/ DeliverReject(w)
    BY <2>2, DeliverAcceptInv, DeliverRejectInv
  <2>3. CASE Settle(w)
    BY <2>3, AcknowledgeInv, ReleaseRejectedInv, LoseLeaseInv DEF Settle
  <2> QED
    BY <1>2, <2>1, <2>2, <2>3 DEF dispatch_one
<1>3. ASSUME NEW w \in Worker, DeadLetter(w) \/ Abandon(w) PROVE Inv'
  BY <1>3, DeadLetterInv, AbandonInv
<1>4. CASE Tick
  BY <1>4, TickInv
<1>5. CASE RejectNext
  BY <1>5, RejectNextInv
<1>7. CASE SetBack
  BY <1>7, SetBackInv
<1>6. CASE UNCHANGED vars
  BY <1>6, StutterInv
<1> QED
  BY <1>1, <1>2, <1>3, <1>4, <1>5, <1>6, <1>7 DEF Next

\* Inv holds in every reachable state, whatever the workers, crashes and clock do.
THEOREM Invariance == Spec => []Inv
BY InitInv, NextInv, PTL DEF Spec

\* Every variable keeps a value of its kind; no attempt_count passes its maximum.
THEOREM TypeCorrect == Spec => []TypeOK
<1>1. Inv => TypeOK
  BY DEF Inv
<1> QED
  BY <1>1, Invariance, PTL

\* No event is scanned for, locked, claimed or attempted before all earlier events
\* of its aggregate are published.
THEOREM Sequenced == Spec => []NoOvertaking
<1>1. Inv => NoOvertaking
  BY DEF Inv
<1> QED
  BY <1>1, Invariance, PTL

\* At most one worker can settle an event, also when workers share a worker_id.
THEOREM OneOwner == Spec => []ExclusiveOwnership
<1>1. Inv => ExclusiveOwnership
  BY DEF Inv, TokenInv, ExclusiveOwnership, OwnsClaim
<1> QED
  BY <1>1, Invariance, PTL

-------------------------------------------------------------------------------
(* What a step may do *)

LEMMA LeaseStep == Inv /\ [Next]_vars =>
  [\A e \in Event :
     claim_left[e] > 0 /\ claimed_by'[e] # claimed_by[e] =>
       \/ \E w \in Worker :
            /\ Holding(w) /\ target[w] = e /\ token[w] = claimed_by[e]
            /\ pc'[w] = "idle" /\ claimed_by'[e] = NULL
       \/ set_back > 0 /\ row_lock[e] # NULL]_vars
<1> SUFFICES ASSUME Inv, Next, NEW e \in Event,
                    claim_left[e] > 0, claimed_by'[e] # claimed_by[e]
             PROVE  \/ \E w \in Worker :
                         /\ Holding(w) /\ target[w] = e /\ token[w] = claimed_by[e]
                         /\ pc'[w] = "idle" /\ claimed_by'[e] = NULL
                    \/ set_back > 0 /\ row_lock[e] # NULL
  BY DEF vars
<1> USE DEF Inv
<1>1. CASE (\E f \in Event : Enqueue(f)) \/ Tick \/ SetBack \/ RejectNext
  BY <1>1 DEF Enqueue, Tick, SetBack, ClockMoves, RejectNext, rows
<1>2. ASSUME NEW w \in Worker, Acknowledge(w) \/ ReleaseRejected(w) \/ DeadLetter(w)
      PROVE  /\ Holding(w) /\ target[w] = e /\ token[w] = claimed_by[e]
             /\ pc'[w] = "idle" /\ claimed_by'[e] = NULL
  <2>1. /\ Holding(w) /\ OwnsClaim(w) /\ ClearClaim(target[w]) /\ Return(w)
    BY <1>2 DEF Acknowledge, ReleaseRejected, DeadLetter, Holding
  <2> QED
    BY <2>1 DEF OwnsClaim, ClearClaim, Return, TypeOK
<1>3. ASSUME NEW w \in Worker, ClaimCommit(w) PROVE set_back > 0 /\ row_lock[e] # NULL
  <2>1. /\ target[w] \in Event /\ row_lock[target[w]] = w
        /\ set_back = 0 => RowClaimable(target[w]) /\ claim_left[target[w]] <= 0
    BY <1>3 DEF ClaimCommit, CallInv, RowInv, RowClaimable, TypeOK
  <2>2. target[w] = e
    BY <1>3, <2>1 DEF ClaimCommit, TypeOK
  <2>3. ~(claim_left[e] <= 0)
    BY DEF TypeOK
  <2>4. set_back > 0
    BY <2>1, <2>2, <2>3 DEF TypeOK
  <2> QED
    BY <2>1, <2>2, <2>4
<1>4. ASSUME NEW w \in Worker,
             \/ ClaimScan(w) \/ ClaimSkip(w) \/ ClaimLock(w) \/ ClaimNothing(w) \/ ClaimOverflow(w)
             \/ DeliverAccept(w) \/ DeliverReject(w) \/ LoseLease(w) \/ Abandon(w)
      PROVE  FALSE
  BY <1>4 DEF ClaimScan, ClaimSkip, ClaimLock, ClaimNothing, ClaimOverflow, DeliverAccept,
              DeliverReject, LoseLease, Abandon, rows
<1> QED
  BY <1>1, <1>2, <1>3, <1>4 DEF Next, dispatch_one, Claim, Settle

\* While a lease runs only its holder changes the claim, by ending its call.
THEOREM LeasesHold == Spec => LeaseRespected
BY Invariance, LeaseStep, PTL DEF Spec, LeaseRespected

LEMMA OrderedStep == Inv /\ [Next]_vars => [Ordered!Next]_(Ordered!vars)
<1> SUFFICES ASSUME Inv, [Next]_vars
             PROVE  Ordered!Next \/ UNCHANGED Ordered!vars
  OBVIOUS
<1> USE DEF Inv
<1>0. \A e \in Event : Ordered!Earlier(e) = Earlier(e)
  BY DEF Ordered!Earlier, Earlier
<1>1. ASSUME NEW e \in Event, Enqueue(e) PROVE Ordered!Create(e)
  BY <1>0, <1>1 DEF Enqueue, Ordered!Create, boundary
<1>2. ASSUME NEW w \in Worker, DeliverAccept(w)
      PROVE  (Ordered!Accept(target[w]) /\ target[w] \in Event) \/ UNCHANGED Ordered!vars
  <2>1. /\ target[w] \in Event /\ token[w][2] \in 1 .. attempt_count[target[w]]
    BY <1>2 DEF DeliverAccept, CallInv, Holding
  <2>2. attempt_count[target[w]] \in Nat
    BY <2>1, CountType
  <2>3. attempt_count[target[w]] > 0
    BY <2>1, <2>2
  <2>4. target[w] \in visible /\ Earlier(target[w]) \subseteq delivered
    BY <2>1, <2>3 DEF RowInv, NoOvertaking
  <2>5. CASE target[w] \in accepted_ids
    BY <1>2, <2>5 DEF DeliverAccept, Ordered!vars, rows
  <2>6. CASE target[w] \notin accepted_ids
    BY <1>0, <1>2, <2>1, <2>4, <2>6 DEF DeliverAccept, Ordered!Accept, rows
  <2> QED
    BY <2>5, <2>6
<1>3. ASSUME NEW w \in Worker, Acknowledge(w) \/ DeadLetter(w)
      PROVE  target[w] \in Event /\ (Ordered!Publish(target[w]) \/ Ordered!Quarantine(target[w]))
  <2>1. Holding(w) /\ OwnsClaim(w)
    BY <1>3 DEF Acknowledge, DeadLetter, Holding
  <2>2. /\ target[w] \in Event /\ token[w] \in Token
        /\ token[w][2] \in 1 .. attempt_count[target[w]]
    BY <2>1 DEF CallInv
  <2>3. claimed_by[target[w]] # NULL
    BY <2>1, <2>2 DEF OwnsClaim, Token
  <2>4. attempt_count[target[w]] \in Nat
    BY <2>2, CountType
  <2>5. attempt_count[target[w]] > 0
    BY <2>2, <2>4
  <2>6. /\ target[w] \in visible \ (delivered \cup dead_lettered)
        /\ Earlier(target[w]) \subseteq delivered
    BY <2>2, <2>3, <2>5 DEF RowInv, NoOvertaking
  <2>7. CASE Acknowledge(w)
    BY <2>2, <2>6, <2>7 DEF Acknowledge, CallInv, Ordered!Publish, boundary
  <2>8. CASE DeadLetter(w)
    BY <1>0, <2>2, <2>6, <2>8 DEF DeadLetter, Ordered!Quarantine, boundary
  <2> QED
    BY <1>3, <2>2, <2>7, <2>8
<1>4. ASSUME NEW w \in Worker,
             \/ Claim(w) \/ DeliverReject(w) \/ ReleaseRejected(w) \/ LoseLease(w) \/ Abandon(w)
      PROVE  UNCHANGED Ordered!vars
  BY <1>4 DEF Claim, ClaimScan, ClaimSkip, ClaimLock, ClaimNothing, ClaimCommit, ClaimOverflow,
              DeliverReject, ReleaseRejected, LoseLease, Abandon, rows, boundary, Ordered!vars
<1>5. Tick \/ SetBack \/ RejectNext \/ UNCHANGED vars => UNCHANGED Ordered!vars
  BY DEF Tick, SetBack, ClockMoves, RejectNext, vars, rows, boundary, Ordered!vars
<1> QED
  BY <1>1, <1>2, <1>3, <1>4, <1>5 DEF Next, dispatch_one, Settle, Ordered!Next

\* The outbox implements OrderedDelivery: acceptance before publication, events of
\* an aggregate in sequence, dead letters as barriers, nothing settled is undone.
THEOREM Refinement == Spec => OrderedSpec
<1>1. Init => Ordered!Init
  BY DEF Init, Ordered!Init
<1> QED
  BY <1>1, Invariance, OrderedStep, PTL DEF Spec, OrderedSpec, Ordered!Spec

\* A late hand-over repeats what the boundary has accepted: only then is a later
\* event of the aggregate accepted.
THEOREM LateOnesRepeat == Spec => LateIsRepeat
<1>1. Inv /\ [Next]_vars =>
        [\A e \in Event :
           attempts'[e] > attempts[e] /\ (\E f \in accepted_ids : e \in Earlier(f))
             => e \in accepted_ids]_vars
  <2> SUFFICES ASSUME Inv, NEW e \in Event, NEW f \in accepted_ids, e \in Earlier(f)
               PROVE  e \in accepted_ids
    OBVIOUS
  <2>1. f \in Event /\ attempt_count[f] > 0
    BY DEF Inv, TypeOK, RowInv
  <2>2. e \in delivered
    BY <2>1 DEF Inv, NoOvertaking
  <2> QED
    BY <2>2 DEF Inv, RowInv
<1> QED
  BY <1>1, Invariance, PTL DEF Spec, LateIsRepeat

-------------------------------------------------------------------------------
(* Counting the hand-overs *)

\* The workers that may hand an event over are finitely many, so they can be counted.
LEMMA ClaimantsFinite ==
  \A e \in Event : IsFiniteSet(Claimants(e)) /\ Cardinality(Claimants(e)) \in Nat
<1>1. ASSUME NEW e \in Event PROVE IsFiniteSet(Claimants(e))
  BY FS_Subset DEF Claimants
<1> QED
  BY <1>1, FS_CardinalityType

\* A step that hands nothing over and claims nothing.
LEMMA QuietStep ==
  ASSUME Inv, AttemptsCovered, UNCHANGED <<attempts, attempt_count>>,
         \A e \in Event : Claimants(e)' \subseteq Claimants(e)
  PROVE  AttemptsCovered'
<1> SUFFICES ASSUME NEW e \in Event
             PROVE  attempts[e] + Cardinality(Claimants(e)') <= attempt_count[e]
  BY DEF AttemptsCovered
<1>1. attempts[e] \in Nat /\ attempt_count[e] \in Nat
  BY CountType DEF Inv, TypeOK
<1>2. attempts[e] + Cardinality(Claimants(e)) <= attempt_count[e]
  BY DEF AttemptsCovered
<1>3. IsFiniteSet(Claimants(e)) /\ Cardinality(Claimants(e)) \in Nat
  BY ClaimantsFinite
<1>4. IsFiniteSet(Claimants(e)') /\ Cardinality(Claimants(e)') <= Cardinality(Claimants(e))
  BY <1>3, FS_Subset
<1>5. Cardinality(Claimants(e)') \in Nat
  BY <1>4, FS_CardinalityType
<1> QED
  BY <1>1, <1>2, <1>3, <1>4, <1>5

LEMMA ClaimCommitCovered ==
  ASSUME Inv, AttemptsCovered, NEW w \in Worker, ClaimCommit(w)
  PROVE  AttemptsCovered'
<1> SUFFICES ASSUME NEW e \in Event
             PROVE  attempts'[e] + Cardinality(Claimants(e)') <= attempt_count'[e]
  BY DEF AttemptsCovered
<1>1. attempts[e] \in Nat /\ attempt_count[e] \in Nat /\ attempts' = attempts
  BY CountType DEF Inv, TypeOK, ClaimCommit, boundary
<1>2. attempts[e] + Cardinality(Claimants(e)) <= attempt_count[e]
  BY DEF AttemptsCovered
<1>3. CASE e = target[w]
  <2>1. Claimants(e)' = Claimants(e) \cup {w} /\ attempt_count'[e] = attempt_count[e] + 1
    BY <1>3 DEF Claimants, ClaimCommit, Inv, TypeOK
  <2>2. IsFiniteSet(Claimants(e)) /\ Cardinality(Claimants(e)) \in Nat
    BY ClaimantsFinite
  <2>3. \/ Cardinality(Claimants(e)') = Cardinality(Claimants(e))
        \/ Cardinality(Claimants(e)') = Cardinality(Claimants(e)) + 1
    BY <2>1, <2>2, FS_AddElement
  <2> QED
    BY <1>1, <1>2, <2>1, <2>2, <2>3
<1>4. CASE e # target[w]
  <2>1. Claimants(e)' = Claimants(e) /\ attempt_count'[e] = attempt_count[e]
    BY <1>4 DEF Claimants, ClaimCommit, Inv, TypeOK
  <2> QED
    BY <1>1, <1>2, <2>1
<1> QED
  BY <1>3, <1>4

LEMMA DeliverCovered ==
  ASSUME Inv, AttemptsCovered, NEW w \in Worker, DeliverAccept(w) \/ DeliverReject(w)
  PROVE  AttemptsCovered'
<1> SUFFICES ASSUME NEW e \in Event
             PROVE  attempts'[e] + Cardinality(Claimants(e)') <= attempt_count'[e]
  BY DEF AttemptsCovered
<1>1. attempts[e] \in Nat /\ attempt_count[e] \in Nat /\ attempt_count' = attempt_count
  BY CountType DEF Inv, TypeOK, DeliverAccept, DeliverReject, rows
<1>2. attempts[e] + Cardinality(Claimants(e)) <= attempt_count[e]
  BY DEF AttemptsCovered
<1>3. CASE e = target[w]
  <2>1. w \in Claimants(e) /\ Claimants(e)' = Claimants(e) \ {w} /\ attempts'[e] = attempts[e] + 1
    BY <1>3 DEF Claimants, DeliverAccept, DeliverReject, Inv, TypeOK
  <2>2. IsFiniteSet(Claimants(e)) /\ Cardinality(Claimants(e)) \in Nat
    BY ClaimantsFinite
  <2>3. Cardinality(Claimants(e)') = Cardinality(Claimants(e)) - 1
    BY <2>1, <2>2, FS_RemoveElement
  <2> QED
    BY <1>1, <1>2, <2>1, <2>2, <2>3
<1>4. CASE e # target[w]
  <2>1. Claimants(e)' = Claimants(e) /\ attempts'[e] = attempts[e]
    BY <1>4 DEF Claimants, DeliverAccept, DeliverReject, Inv, TypeOK
  <2> QED
    BY <1>1, <1>2, <2>1
<1> QED
  BY <1>3, <1>4

LEMMA CoveredStep == Inv /\ AttemptsCovered /\ [Next]_vars => AttemptsCovered'
<1> SUFFICES ASSUME Inv, AttemptsCovered, [Next]_vars PROVE AttemptsCovered'
  OBVIOUS
<1>1. CASE (\E e \in Event : Enqueue(e)) \/ Tick \/ SetBack \/ RejectNext \/ UNCHANGED vars
  <2>1. UNCHANGED <<pc, target, attempts, attempt_count>>
    BY <1>1 DEF Enqueue, Tick, SetBack, ClockMoves, RejectNext, vars, rows, calls, boundary
  <2> QED
    BY <2>1, QuietStep DEF Claimants
<1>2. ASSUME NEW w \in Worker, ClaimCommit(w) PROVE AttemptsCovered'
  BY <1>2, ClaimCommitCovered
<1>3. ASSUME NEW w \in Worker, DeliverAccept(w) \/ DeliverReject(w) PROVE AttemptsCovered'
  BY <1>3, DeliverCovered
<1>4. ASSUME NEW w \in Worker,
             \/ ClaimScan(w) \/ ClaimSkip(w) \/ ClaimLock(w) \/ ClaimNothing(w) \/ ClaimOverflow(w)
             \/ Settle(w) \/ DeadLetter(w) \/ Abandon(w)
      PROVE  AttemptsCovered'
  <2>1. UNCHANGED <<attempts, attempt_count>>
    BY <1>4 DEF ClaimScan, ClaimSkip, ClaimLock, ClaimNothing, ClaimOverflow, Settle, Acknowledge,
                ReleaseRejected, LoseLease, DeadLetter, Abandon, rows, boundary
  <2>2. \A v \in Worker : pc'[v] = "claimed" => pc[v] = "claimed" /\ target'[v] = target[v]
    BY <1>4 DEF ClaimScan, ClaimSkip, ClaimLock, ClaimNothing, ClaimOverflow, Settle, Acknowledge,
                ReleaseRejected, LoseLease, DeadLetter, Abandon, Return, Inv, TypeOK
  <2> QED
    BY <2>1, <2>2, QuietStep DEF Claimants
<1> QED
  BY <1>1, <1>2, <1>3, <1>4 DEF Next, dispatch_one, Claim

\* The boundary never sees an event more often than attempt_count says.
THEOREM AttemptsCounted == Spec => []AttemptsCovered
<1>1. Init => AttemptsCovered
  <2> SUFFICES ASSUME Init, NEW e \in Event
               PROVE  attempts[e] + Cardinality(Claimants(e)) <= attempt_count[e]
    BY DEF AttemptsCovered
  <2>1. Claimants(e) = {}
    BY DEF Init, Claimants
  <2> QED
    BY <2>1, FS_EmptySet DEF Init
<1> QED
  BY <1>1, Invariance, CoveredStep, PTL DEF Spec
===============================================================================
