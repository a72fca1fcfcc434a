------------------------- MODULE RecordDeliveryProofs -------------------------
(***************************************************************************)
(* The producer and the workers together: SystemInv is inductive, the      *)
(* calls of create_record are a producer as Outbox assumes it, and no news *)
(* is false.                                                               *)
(***************************************************************************)
EXTENDS RecordDelivery, ProducerProofs

USE CallAssumption, PoolAssumption, NullAssumption

-------------------------------------------------------------------------------
(* The ids in use *)

Numbered == {c \in Call : event[c] # NULL}

LEMMA NumberedFinite ==
  /\ IsFiniteSet(Numbered) /\ IsFiniteSet(Call)
  /\ Cardinality(Numbered) \in Nat /\ Cardinality(Call) \in Nat
  /\ Cardinality(Numbered) <= Cardinality(Call)
BY FS_Subset, FS_CardinalityType DEF Numbered

\* Only WriteRecord takes an id, and only for a call that has none.
LEMMA SequenceStep ==
  ASSUME Inv, SequenceInv, [Next]_vars
  PROVE  SequenceInv'
<1> USE DEF Inv
<1>1. CASE UNCHANGED <<event, last_id>>
  BY <1>1 DEF SequenceInv
<1>2. ASSUME NEW c \in Call, WriteRecord(c)
      PROVE  SequenceInv'
  <2>1. event[c] = NULL
    BY <1>2 DEF WriteRecord, CallInv
  <2>2. <<last_id + 1, c>> # NULL
    BY <1>2 DEF TypeOK
  <2>3. Numbered' = Numbered \cup {c} /\ c \notin Numbered
    BY <1>2, <2>1, <2>2 DEF WriteRecord, Numbered, TypeOK
  <2>4. Cardinality(Numbered') = Cardinality(Numbered) + 1
    BY <2>3, NumberedFinite, FS_AddElement
  <2> QED
    BY <1>2, <2>4 DEF SequenceInv, Numbered, WriteRecord
<1>3. \/ UNCHANGED <<event, last_id>>
      \/ \E c \in Call : WriteRecord(c)
  BY DEF Next, create_record, vars, local, tables, Invoke, Begin, AcquireFails, WriteEvent,
         StatementFails, SendCommit, Reply, CommitFails, Recycle, Drop, ConnectionLost,
         Commit, Abort
<1> QED
  BY <1>1, <1>2, <1>3

\* Every committed row has the number of an event.
NumbersInv == visible \subseteq Event

LEMMA VisibleEvents == SystemInv => NumbersInv
<1> SUFFICES ASSUME Inv, SequenceInv
             PROVE  visible \subseteq Event
  BY DEF SystemInv, NumbersInv
<1>1. ASSUME NEW r \in outbox_events
      PROVE  r[1] \in Event
  <2>1. r \in example_records /\ r \in Rows
    BY DEF Inv, CommittedInv, TypeOK
  <2>2. r[1] \in Nat \ {0}
    BY <2>1 DEF Rows
  <2>3. r[1] <= last_id /\ last_id <= Cardinality(Call)
    BY <2>1, NumberedFinite DEF Inv, IdInv, SequenceInv, Numbered
  <2>4. last_id \in Nat /\ Cardinality(Call) \in Nat
    BY NumberedFinite DEF Inv, TypeOK
  <2> QED
    BY <2>2, <2>3, <2>4 DEF Event
<1> QED
  BY <1>1 DEF visible, EventOf

\* A step of the producer adds the row of one event, or none.
LEMMA VisibleStep ==
  ASSUME Inv, [Next]_vars
  PROVE  \/ visible' = visible
         \/ \E e \in visible' : e \notin visible /\ visible' = visible \cup {e}
<1> USE DEF Inv
<1>1. CASE UNCHANGED outbox_events
  BY <1>1 DEF visible
<1>2. ASSUME NEW c \in Call, Commit(c)
      PROVE  \E e \in visible' : e \notin visible /\ visible' = visible \cup {e}
  <2>1. session[c] = "commit sent" /\ event[c] \in pending_records \cap pending_events
    BY <1>2 DEF Commit, SessionInv
  <2>2. event[c][2] = c
    BY <2>1, RowType DEF CallInv
  <2>3. Written(pending_events, c) = {event[c]}
    BY <2>1, <2>2 DEF Written, PendingInv
  <2>4. outbox_events' = outbox_events \cup {event[c]}
    BY <1>2, <2>3 DEF Commit
  <2>5. \A r \in outbox_events : r[1] # event[c][1]
    BY <2>1, <2>2 DEF IdInv, CommittedInv
  <2> QED
    BY <2>4, <2>5 DEF visible, EventOf
<1>3. \/ UNCHANGED outbox_events
      \/ \E c \in Call : Commit(c)
  BY DEF Next, create_record, vars, local, tables, Invoke, Begin, AcquireFails, WriteRecord,
         WriteEvent, StatementFails, SendCommit, Reply, CommitFails, Recycle, Drop,
         ConnectionLost, Abort
<1> QED
  BY <1>1, <1>2, <1>3

-------------------------------------------------------------------------------
(* What the workers know *)

LEMMA ProduceKnown ==
  ASSUME SystemInv, Produce
  PROVE  KnownInv'
<1>1. visible \subseteq visible'
  BY VisibleStep DEF SystemInv, Produce
<1> QED
  BY <1>1 DEF SystemInv, KnownInv, Produce, dispatching

LEMMA ClaimKnown ==
  ASSUME SystemInv, NEW w \in Worker, UNCHANGED vars, Outbox!Claim(w)
  PROVE  KnownInv'
<1> USE DEF SystemInv, KnownInv, Outbox!PCs
<1>0. visible' = visible
  BY DEF visible, vars, tables
<1>1. CASE Outbox!ClaimScan(w)
  BY <1>0, <1>1 DEF Outbox!ClaimScan, Outbox!Eligible, Outbox!RowClaimable, Outbox!boundary
<1>2. CASE Outbox!ClaimSkip(w)
  BY <1>0, <1>2 DEF Outbox!ClaimSkip, Outbox!boundary
<1>3. CASE Outbox!ClaimLock(w)
  BY <1>0, <1>3 DEF Outbox!ClaimLock, Outbox!Foremost, Outbox!boundary
<1>4. CASE Outbox!ClaimNothing(w)
  BY <1>0, <1>4 DEF Outbox!ClaimNothing, Outbox!Return, Outbox!boundary
<1>5. CASE Outbox!ClaimCommit(w)
  BY <1>0, <1>5 DEF Outbox!ClaimCommit, Outbox!boundary
<1>6. CASE Outbox!ClaimOverflow(w)
  BY <1>0, <1>6 DEF Outbox!ClaimOverflow, Outbox!Return, Outbox!boundary
<1> QED
  BY <1>1, <1>2, <1>3, <1>4, <1>5, <1>6 DEF Outbox!Claim

LEMMA DeliverKnown ==
  ASSUME SystemInv, NEW w \in Worker, UNCHANGED vars,
         Outbox!DeliverAccept(w) \/ Outbox!DeliverReject(w)
  PROVE  KnownInv'
<1> USE DEF SystemInv, KnownInv, Outbox!PCs
<1>0. visible' = visible
  BY DEF visible, vars, tables
<1>1. /\ UNCHANGED <<snapshot, target>>
      /\ at[w] = "claimed"
      /\ \E new \in {"accepted", "rejected"} : at' = [at EXCEPT ![w] = new]
      /\ attempts' = [attempts EXCEPT ![target[w]] = @ + 1]
  BY DEF Outbox!DeliverAccept, Outbox!DeliverReject
<1>2. target[w] \in visible
  BY <1>1
<1>3. attempts' \in [Event -> Nat] /\ \A e \in Event : attempts'[e] > 0 => e \in visible
  <2> DEFINE t == target[w]
  <2>1. attempts' = [attempts EXCEPT ![t] = attempts[t] + 1]
    BY <1>1
  <2>2. attempts \in [Event -> Nat] /\ \A e \in Event : attempts[e] > 0 => e \in visible
    OBVIOUS
  <2>3. t \in visible
    BY <1>2
  <2> HIDE DEF t, SystemInv, KnownInv
  <2>4. attempts' = [e \in Event |-> IF e = t THEN attempts[e] + 1 ELSE attempts[e]]
    BY <2>1, <2>2
  <2>5. attempts' \in [Event -> Nat]
    BY <2>2, <2>4
  <2> QED
    BY <2>2, <2>3, <2>4, <2>5
<1>4. at' \in [Worker -> Outbox!PCs]
  BY <1>1
<1>5. \A v \in Worker : at'[v] \notin {"idle", "scanned"} => target[v] \in visible
  BY <1>1, <1>2
<1>6. /\ snapshot' \in [Worker -> SUBSET visible']
      /\ target' \in [Worker -> visible' \cup {NULL}]
  BY <1>0, <1>1
<1>7. UNCHANGED target
  BY <1>1
<1> HIDE DEF SystemInv, Outbox!PCs
<1> QED
  BY <1>0, <1>3, <1>4, <1>5, <1>6, <1>7

\* Every other step of a worker ends its call.
LEMMA ReturnKnown ==
  ASSUME SystemInv, NEW w \in Worker, UNCHANGED vars,
         Outbox!Return(w), UNCHANGED Outbox!boundary
  PROVE  KnownInv'
<1>1. visible' = visible
  BY DEF visible, vars, tables
<1> QED
  BY <1>1 DEF SystemInv, KnownInv, Outbox!PCs, Outbox!Return, Outbox!boundary

LEMMA KnownStep ==
  ASSUME SystemInv, SystemNext
  PROVE  KnownInv'
<1>1. CASE Produce
  BY <1>1, ProduceKnown
<1>2. ASSUME NEW w \in Worker, Dispatch(w)
      PROVE  KnownInv'
  <2>1. Outbox!Settle(w) => Outbox!Return(w) /\ UNCHANGED Outbox!boundary
    BY DEF Outbox!Settle, Outbox!Acknowledge, Outbox!ReleaseRejected, Outbox!LoseLease
  <2> QED
    BY <1>2, <2>1, ClaimKnown, DeliverKnown, ReturnKnown DEF Dispatch, Outbox!dispatch_one
<1>3. ASSUME NEW w \in Worker, GiveUp(w)
      PROVE  KnownInv'
  <2>1. Outbox!Return(w) /\ UNCHANGED Outbox!boundary
    BY <1>3 DEF GiveUp, Outbox!DeadLetter, Outbox!Abandon
  <2> QED
    BY <1>3, <2>1, ReturnKnown DEF GiveUp
<1>4. CASE Tick \/ RejectNext
  <2>1. UNCHANGED <<outbox_events, at, snapshot, target, attempts>>
    BY <1>4 DEF Tick, RejectNext, Outbox!Tick, Outbox!ClockMoves, Outbox!RejectNext,
                Outbox!calls, Outbox!boundary, vars, tables
  <2> QED
    BY <2>1 DEF SystemInv, KnownInv, visible
<1> QED
  BY <1>1, <1>2, <1>3, <1>4 DEF SystemNext

-------------------------------------------------------------------------------
(* The theorems *)

LEMMA SystemInitInv == SystemInit => SystemInv
<1> SUFFICES ASSUME SystemInit PROVE SystemInv
  OBVIOUS
<1>1. Inv
  BY InitInv DEF SystemInit
<1>2. SequenceInv
  <2>1. {c \in Call : event[c] # NULL} = {} /\ last_id = 0
    BY DEF SystemInit, Init
  <2> QED
    BY <2>1, FS_EmptySet DEF SequenceInv
<1>3. KnownInv
  BY DEF SystemInit, Outbox!Init, KnownInv, Outbox!PCs
<1> QED
  BY <1>1, <1>2, <1>3 DEF SystemInv

LEMMA SystemNextInv == SystemInv /\ [SystemNext]_system => SystemInv'
<1> SUFFICES ASSUME SystemInv, [SystemNext]_system
             PROVE  SystemInv'
  OBVIOUS
<1>1. [Next]_vars
  BY DEF SystemNext, Produce, Dispatch, GiveUp, Tick, RejectNext, system
<1>2. Inv' /\ SequenceInv'
  BY <1>1, NextInv, SequenceStep DEF SystemInv
<1>3. CASE UNCHANGED system
  <2>1. KnownInv'
    BY <1>3 DEF SystemInv, KnownInv, system, dispatching, vars, tables, visible
  <2> QED
    BY <1>2, <2>1 DEF SystemInv
<1> QED
  BY <1>2, <1>3, KnownStep DEF SystemInv

\* The invariant of the two ends together holds in every reachable state.
THEOREM SystemInvariance == SystemSpec => []SystemInv
BY SystemInitInv, SystemNextInv, PTL DEF SystemSpec

LEMMA TrueNews == SystemInv => NewsIsTrue
<1> SUFFICES ASSUME SystemInv, NEW e \in Event, attempts[e] > 0
             PROVE  \E c \in Call : <<e, c>> \in example_records /\ pc[c] # "failed"
  BY DEF NewsIsTrue
<1> USE DEF SystemInv, Inv
<1>1. PICK r \in outbox_events : e = r[1]
  BY DEF KnownInv, visible, EventOf
<1>2. r \in example_records /\ r \in Rows /\ session[r[2]] = "committed"
  BY <1>1 DEF CommittedInv, TypeOK
<1>3. r[2] \in Call /\ r = <<e, r[2]>>
  BY <1>1, <1>2 DEF Rows
<1>4. pc[r[2]] # "failed"
  BY <1>2, <1>3 DEF CallInv
<1> QED
  BY <1>2, <1>3, <1>4

\* No worker hands over an event without its record, or one whose caller was told
\* that the transaction failed.
THEOREM NoFalseNews == SystemSpec => []NewsIsTrue
BY SystemInvariance, TrueNews, PTL

LEMMA OutboxStep ==
  SystemInv /\ NumbersInv' /\ [SystemNext]_system => [Outbox!Next]_(Outbox!vars)
<1> SUFFICES ASSUME SystemInv, NumbersInv', [SystemNext]_system
             PROVE  Outbox!Next \/ UNCHANGED Outbox!vars
  OBVIOUS
<1>1. CASE Produce
  <2>1. UNCHANGED dispatching /\ [Next]_vars
    BY <1>1 DEF Produce
  <2>2. CASE visible' = visible
    BY <2>1, <2>2 DEF dispatching, Outbox!vars, Outbox!rows, Outbox!calls, Outbox!boundary
  <2>3. CASE \E e \in visible' : e \notin visible /\ visible' = visible \cup {e}
    <3>1. PICK e \in visible' : e \notin visible /\ visible' = visible \cup {e}
      BY <2>3
    <3>2. e \in Event
      BY <3>1 DEF NumbersInv, Event
    <3>3. Outbox!Earlier(e) = {}
      BY <3>2 DEF Outbox!Earlier, SequenceOf
    <3>4. Outbox!Enqueue(e)
      BY <2>1, <3>1, <3>3 DEF Outbox!Enqueue, dispatching, Outbox!calls, Outbox!boundary
    <3> QED
      BY <3>2, <3>4 DEF Outbox!Next
  <2> QED
    BY <2>1, <2>2, <2>3, VisibleStep DEF SystemInv
<1>2. CASE UNCHANGED system
  BY <1>2 DEF system, dispatching, vars, tables, visible, Outbox!vars, Outbox!rows,
              Outbox!calls, Outbox!boundary
<1>3. CASE \E w \in Worker : Dispatch(w) \/ GiveUp(w)
  BY <1>3 DEF Dispatch, GiveUp, Outbox!Next
<1>4. CASE Tick \/ RejectNext
  BY <1>4 DEF Tick, RejectNext, Outbox!Next
<1> QED
  BY <1>1, <1>2, <1>3, <1>4 DEF SystemNext

\* The workers meet the producer that Outbox assumes, for every number of calls:
\* what is proved of Outbox holds of the events of create_record.
THEOREM MeetsOutbox == SystemSpec => OutboxSpec
<1>1. SystemInit => Outbox!Init
  BY DEF SystemInit
<1> QED
  BY <1>1, SystemInvariance, VisibleEvents, OutboxStep, PTL DEF SystemSpec, OutboxSpec, Outbox!Spec

-------------------------------------------------------------------------------
(* What is proved of Outbox, for the events of create_record *)

Proved == INSTANCE OutboxProofs WITH Aggregate <- Event, ClockBack <- 0, pc <- at

LEMMA SameNext == Proved!Next <=> Outbox!Next
BY DEF Outbox!rows, Proved!rows, Outbox!calls, Proved!calls, Outbox!boundary,
       Proved!boundary, Outbox!NewToken, Proved!NewToken, Outbox!Earlier,
       Proved!Earlier, Outbox!Enqueue, Proved!Enqueue, Outbox!ClockMoves,
       Proved!ClockMoves, Outbox!Tick, Proved!Tick, Outbox!SetBack, Proved!SetBack,
       Outbox!RowClaimable, Proved!RowClaimable, Outbox!IsHead, Proved!IsHead,
       Outbox!Eligible, Proved!Eligible, Outbox!ClaimScan, Proved!ClaimScan,
       Outbox!Return, Proved!Return, Outbox!Foremost, Proved!Foremost,
       Outbox!Lockable, Proved!Lockable, Outbox!ClaimSkip, Proved!ClaimSkip,
       Outbox!ClaimLock, Proved!ClaimLock, Outbox!ClaimNothing, Proved!ClaimNothing,
       Outbox!CountFits, Proved!CountFits, Outbox!ClaimCommit, Proved!ClaimCommit,
       Outbox!Unlocked, Proved!Unlocked, Outbox!ClaimOverflow, Proved!ClaimOverflow,
       Outbox!DeliverAccept, Proved!DeliverAccept, Outbox!DeliverReject,
       Proved!DeliverReject, Outbox!RejectNext, Proved!RejectNext, Outbox!OwnsClaim,
       Proved!OwnsClaim, Outbox!ClearClaim, Proved!ClearClaim, Outbox!RowFree,
       Proved!RowFree, Outbox!Acknowledge, Proved!Acknowledge,
       Outbox!ReleaseRejected, Proved!ReleaseRejected, Outbox!DeadLetter,
       Proved!DeadLetter, Outbox!LoseLease, Proved!LoseLease, Outbox!Abandon,
       Proved!Abandon, Outbox!Claim, Proved!Claim, Outbox!Settle, Proved!Settle,
       Outbox!dispatch_one, Proved!dispatch_one, Outbox!Next, Proved!Next

LEMMA SameSpec == Proved!Spec <=> Outbox!Spec
<1>1. Proved!Init <=> Outbox!Init
  BY DEF Proved!Init, Outbox!Init
<1>2. UNCHANGED Proved!vars <=> UNCHANGED Outbox!vars
  BY DEF Proved!vars, Outbox!vars, Proved!rows, Outbox!rows, Proved!calls, Outbox!calls,
         Proved!boundary, Outbox!boundary
<1>3. [Proved!Next]_(Proved!vars) <=> [Outbox!Next]_(Outbox!vars)
  BY <1>2, SameNext
<1> QED
  BY <1>1, <1>3, PTL DEF Proved!Spec, Outbox!Spec

\* The events of the calls and the workers are as OutboxProofs assumes them.
LEMMA OutboxAssumptions ==
  /\ Event \subseteq Nat
  /\ AggregateOf \in [Event -> Event]
  /\ SequenceOf \in [Event -> Nat \ {0}]
  /\ \A e, f \in Event :
       AggregateOf[e] = AggregateOf[f] /\ SequenceOf[e] = SequenceOf[f] => e = f
  /\ Proved!IsFiniteSet(Worker)
  /\ 0 \in Nat
<1>1. Event \subseteq Nat
  BY FS_CardinalityType DEF Event
<1>2. Proved!IsFiniteSet(Worker)
  BY DispatchAssumption DEF Proved!IsFiniteSet, IsFiniteSet
<1>3. AggregateOf \in [Event -> Event] /\ \A e \in Event : AggregateOf[e] = e
  BY DEF AggregateOf
<1>4. SequenceOf \in [Event -> Nat \ {0}]
  BY DEF SequenceOf
<1> QED
  BY <1>1, <1>2, <1>3, <1>4

\* The events of create_record are dispatched as OrderedDelivery says.
THEOREM RecordsOrdered == SystemSpec => Outbox!OrderedSpec
<1>1. Proved!Spec => Proved!OrderedSpec
  BY OutboxAssumptions, DispatchAssumption, Proved!Refinement
<1>2. Proved!OrderedSpec <=> Outbox!OrderedSpec
  <2>1. Proved!Ordered!Init <=> Outbox!Ordered!Init
    BY DEF Proved!Ordered!Init, Outbox!Ordered!Init
  <2>2. UNCHANGED Proved!Ordered!vars <=> UNCHANGED Outbox!Ordered!vars
    BY DEF Proved!Ordered!vars, Outbox!Ordered!vars
  <2>3. Proved!Ordered!Next <=> Outbox!Ordered!Next
    BY DEF Proved!Ordered!Next, Outbox!Ordered!Next, Proved!Ordered!Create, Outbox!Ordered!Create,
           Proved!Ordered!Accept, Outbox!Ordered!Accept, Proved!Ordered!Publish,
           Outbox!Ordered!Publish, Proved!Ordered!Quarantine, Outbox!Ordered!Quarantine,
           Proved!Ordered!Earlier, Outbox!Ordered!Earlier
  <2>4. [Proved!Ordered!Next]_(Proved!Ordered!vars) <=> [Outbox!Ordered!Next]_(Outbox!Ordered!vars)
    BY <2>2, <2>3
  <2> QED
    BY <2>1, <2>4, PTL DEF Proved!OrderedSpec, Outbox!OrderedSpec, Proved!Ordered!Spec,
                           Outbox!Ordered!Spec
<1> QED
  BY <1>1, <1>2, SameSpec, MeetsOutbox, PTL DEF OutboxSpec

\* From the call to the boundary, for every number of calls, connections and
\* workers: a record and its event appear together, and the boundary and the
\* dispatcher treat the event as OrderedDelivery says.
THEOREM EndToEndHolds == SystemSpec => EndToEnd
<1>1. SystemSpec => Spec
  <2>1. [SystemNext]_system => [Next]_vars
    BY DEF SystemNext, system, Produce, Dispatch, GiveUp, Tick, RejectNext
  <2>2. SystemInit => Init
    BY DEF SystemInit
  <2> QED
    BY <2>1, <2>2, PTL DEF SystemSpec, Spec
<1> QED
  BY <1>1, Refinement, RecordsOrdered, PTL DEF EndToEnd
===============================================================================
