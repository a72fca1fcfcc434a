---------------------------- MODULE ProducerProofs ----------------------------
(***************************************************************************)
(* Inv is an inductive invariant of Producer for every finite set of calls *)
(* and every size of the pool, and what follows from it.                   *)
(***************************************************************************)
EXTENDS Producer, FiniteSetTheorems, TLAPS

USE CallAssumption, PoolAssumption, NullAssumption

-------------------------------------------------------------------------------
(* The pool: taking a connection and giving it back. *)

LEMMA PoolTake ==
  ASSUME TypeOK, NEW c \in Call, Cardinality(holds) < PoolSize
  PROVE  Cardinality(holds \cup {c}) <= PoolSize
<1>1. IsFiniteSet(holds)
  BY FS_Subset DEF TypeOK
<1>2. Cardinality(holds) \in Nat
  BY <1>1, FS_CardinalityType
<1>3. Cardinality(holds \cup {c}) \in {Cardinality(holds), Cardinality(holds) + 1}
  BY <1>1, FS_AddElement
<1> QED
  BY <1>2, <1>3

LEMMA PoolGive ==
  ASSUME TypeOK, NEW c \in Call
  PROVE  Cardinality(holds \ {c}) <= PoolSize
<1>1. IsFiniteSet(holds) /\ Cardinality(holds) <= PoolSize
  BY FS_Subset DEF TypeOK
<1>2. Cardinality(holds) \in Nat
  BY <1>1, FS_CardinalityType
<1>3. Cardinality(holds \ {c}) \in {Cardinality(holds), Cardinality(holds) - 1}
  BY <1>1, FS_RemoveElement
<1> QED
  BY <1>1, <1>2, <1>3

\* A row is an id and the call that wrote it.
LEMMA RowType ==
  ASSUME TypeOK
  PROVE  \A r \in pending_records \cup pending_events \cup example_records :
           r \in Rows /\ r[1] \in Nat /\ r[2] \in Call /\ r # NULL
<1>1. Rows \subseteq Nat \X Call
  BY DEF Rows
<1>2. \A r \in Nat \X Call : r[1] \in Nat /\ r[2] \in Call
  OBVIOUS
<1> QED
  BY <1>1, <1>2 DEF TypeOK

LEMMA InitInv == Init => Inv
<1> SUFFICES ASSUME Init PROVE Inv
  OBVIOUS
<1>1. Cardinality(holds) <= PoolSize
  BY FS_EmptySet DEF Init
<1>2. TypeOK
  BY <1>1 DEF Init, TypeOK, PCs, Sessions
<1>3. CallInv /\ SessionInv
  BY DEF Init, CallInv, SessionInv, Running
<1>4. PendingInv /\ CommittedInv /\ IdInv
  BY DEF Init, PendingInv, CommittedInv, IdInv
<1> QED
  BY <1>2, <1>3, <1>4 DEF Inv

-------------------------------------------------------------------------------
(* Steps that write no row *)

\* A step of c that leaves the rows alone, and changes the session, if at all,
\* only from open to a rollback.
LEMMA CallStepInv ==
  ASSUME Inv, NEW c \in Call, UNCHANGED <<event, tables>>,
         NEW new \in PCs, pc' = [pc EXCEPT ![c] = new],
         session' = session \/ (RollBack(c) /\ new \in Ended),
         holds' \subseteq holds, Cardinality(holds') <= PoolSize,
         new \in Ended \cup {"waiting"},
         new = "waiting" => pc[c] = "new",
         new = "ok" => session[c] = "committed",
         new = "failed" => pc[c] \in Running \cup {"waiting", "failed"}
  PROVE  Inv'
<1> USE DEF Inv, tables
<1>0. /\ pc \in [Call -> PCs] /\ session \in [Call -> Sessions]
      /\ pc'[c] = new
      /\ \A d \in Call \ {c} : pc'[d] = pc[d]
  BY DEF TypeOK
<1>1. /\ session' \in [Call -> Sessions]
      /\ \A d \in Call \ {c} : session'[d] = session[d]
      /\ session'[c] # session[c] =>
           session[c] = "open" /\ session'[c] = "rollback sent" /\ new \in Ended
  BY <1>0 DEF RollBack, Sessions
<1>2. TypeOK'
  BY <1>0, <1>1 DEF TypeOK
<1>3. CallInv'
  BY <1>0, <1>1 DEF CallInv, Running, Ended
<1>4. PendingInv'
  BY <1>1, RowType DEF PendingInv
<1>5. CommittedInv'
  BY <1>1, RowType DEF CommittedInv
<1>6. SessionInv'
  BY <1>0, <1>1 DEF SessionInv, Running, Ended
<1>7. IdInv'
  BY DEF IdInv
<1> QED
  BY <1>2, <1>3, <1>4, <1>5, <1>6, <1>7

LEMMA LocalInv ==
  ASSUME Inv, NEW c \in Call,
         \/ Invoke(c) \/ AcquireFails(c) \/ StatementFails(c) \/ Reply(c) \/ CommitFails(c)
         \/ Drop(c) \/ ConnectionLost(c) \/ Recycle(c)
  PROVE  Inv'
<1> USE DEF PCs, Running, Ended
<1>0. TypeOK /\ CallInv /\ pc[c] \in PCs
  BY DEF Inv, TypeOK
<1>1. Cardinality(holds \ {c}) <= PoolSize /\ Cardinality(holds) <= PoolSize
  BY <1>0, PoolGive DEF TypeOK
<1>2. CASE Invoke(c)
  BY <1>0, <1>1, <1>2, CallStepInv DEF Invoke
<1>3. CASE AcquireFails(c)
  BY <1>0, <1>1, <1>3, CallStepInv DEF AcquireFails
<1>4. CASE CommitFails(c)
  BY <1>0, <1>1, <1>4, CallStepInv DEF CommitFails
<1>5. CASE StatementFails(c)
  BY <1>0, <1>1, <1>5, CallStepInv DEF StatementFails
<1>6. CASE Drop(c)
  <2>1. CASE pc[c] = "committing"
    BY <1>0, <1>1, <1>6, <2>1, CallStepInv DEF Drop, CutOff, RollBack
  <2>2. CASE pc[c] # "committing"
    BY <1>0, <1>1, <1>6, <2>2, CallStepInv DEF Drop, CutOff
  <2> QED
    BY <2>1, <2>2
<1>7. CASE Reply(c)
  BY <1>0, <1>1, <1>7, CallStepInv DEF Reply
<1>8. CASE ConnectionLost(c)
  <2>1. CASE pc[c] \in Ended
    <3>1. pc' = [pc EXCEPT ![c] = pc[c]] /\ UNCHANGED <<session, event, tables>>
      BY <1>0, <1>8, <2>1 DEF ConnectionLost, TypeOK
    <3>2. pc[c] = "ok" => session[c] = "committed"
      BY <1>0 DEF CallInv
    <3> QED
      BY <1>0, <1>1, <1>8, <2>1, <3>1, <3>2, CallStepInv DEF ConnectionLost
  <2>2. CASE pc[c] \notin Ended
    BY <1>0, <1>1, <1>8, <2>2, CallStepInv DEF ConnectionLost, CutOff, CallInv
  <2> QED
    BY <2>1, <2>2
<1>9. CASE Recycle(c)
  <2>1. pc' = [pc EXCEPT ![c] = pc[c]]
    BY <1>0, <1>9 DEF Recycle, TypeOK
  <2>2. pc[c] = "ok" => session[c] = "committed"
    BY <1>0 DEF CallInv
  <2> QED
    BY <1>0, <1>1, <1>9, <2>1, <2>2, CallStepInv DEF Recycle
<1> QED
  BY <1>2, <1>3, <1>4, <1>5, <1>6, <1>7, <1>8, <1>9

-------------------------------------------------------------------------------
(* Steps of the transaction *)

LEMMA BeginInv ==
  ASSUME Inv, NEW c \in Call, Begin(c)
  PROVE  Inv'
<1> USE DEF Inv, Begin, tables
<1>1. TypeOK'
  BY PoolTake DEF TypeOK, PCs, Sessions, Running
<1>2. session[c] = "none" /\ event[c] = NULL
  BY DEF CallInv
<1>3. CallInv'
  BY <1>2 DEF TypeOK, CallInv, Running
<1>4. PendingInv' /\ CommittedInv'
  BY <1>2, RowType DEF TypeOK, PendingInv, CommittedInv
<1>5. SessionInv' /\ IdInv'
  BY DEF TypeOK, SessionInv, IdInv
<1> QED
  BY <1>1, <1>3, <1>4, <1>5

LEMMA WriteRecordInv ==
  ASSUME Inv, NEW c \in Call, WriteRecord(c)
  PROVE  Inv'
<1> USE DEF Inv, WriteRecord
<1>1. event[c] = NULL /\ last_id \in Nat
  BY DEF CallInv, TypeOK
<1>2. <<last_id + 1, c>> \in Rows
  BY <1>1 DEF Rows
<1>3. TypeOK'
  BY <1>2 DEF TypeOK, PCs, Running
<1>4. CallInv'
  BY DEF TypeOK, CallInv, Running
<1>5. \A r \in pending_records \cup pending_events \cup example_records : r[2] # c
  BY <1>1, RowType DEF PendingInv, CommittedInv
<1>6. PendingInv' /\ CommittedInv'
  <2>1. event'[c] = <<last_id + 1, c>> /\ \A d \in Call \ {c} : event'[d] = event[d]
    BY DEF TypeOK
  <2>2. CommittedInv'
    BY <1>5, <2>1, RowType DEF CommittedInv
  <2>3. ASSUME NEW r \in pending_records \cup pending_events
        PROVE  r = event'[r[2]] /\ session[r[2]] \in {"open", "commit sent", "rollback sent"}
    BY <1>5, <2>1, RowType DEF PendingInv
  <2>4. <<last_id + 1, c>>[2] = c
    OBVIOUS
  <2> QED
    BY <2>1, <2>2, <2>3, <2>4 DEF PendingInv
<1>7. SessionInv'
  BY DEF TypeOK, SessionInv
<1>8. IdInv'
  <2>1. \A r \in pending_records \cup example_records : r[1] \in Nat /\ r[1] <= last_id
    BY RowType DEF IdInv
  <2> QED
    BY <1>1, <2>1 DEF IdInv
<1> QED
  BY <1>3, <1>4, <1>6, <1>7, <1>8

LEMMA WriteEventInv ==
  ASSUME Inv, NEW c \in Call, WriteEvent(c)
  PROVE  Inv'
<1> USE DEF Inv, WriteEvent
<1>1. event[c] \in pending_records
  BY DEF SessionInv
<1>2. TypeOK'
  BY <1>1, RowType DEF TypeOK, PCs, Running
<1>3. CallInv'
  BY DEF TypeOK, CallInv, Running
<1>4. PendingInv' /\ CommittedInv'
  BY <1>1 DEF PendingInv, CommittedInv
<1>5. SessionInv' /\ IdInv'
  BY <1>1 DEF TypeOK, SessionInv, IdInv
<1> QED
  BY <1>2, <1>3, <1>4, <1>5

LEMMA SendCommitInv ==
  ASSUME Inv, NEW c \in Call, SendCommit(c)
  PROVE  Inv'
<1> USE DEF Inv, SendCommit, tables
<1>1. TypeOK' /\ CallInv'
  BY DEF TypeOK, CallInv, PCs, Sessions, Running
<1>2. PendingInv' /\ CommittedInv'
  BY RowType DEF TypeOK, PendingInv, CommittedInv
<1>3. SessionInv' /\ IdInv'
  BY DEF TypeOK, SessionInv, IdInv
<1> QED
  BY <1>1, <1>2, <1>3

LEMMA CommitInv ==
  ASSUME Inv, NEW c \in Call, Commit(c)
  PROVE  Inv'
<1> USE DEF Inv, Commit, Written, local
<1>1. event[c] \in pending_records \cap pending_events
  BY DEF SessionInv
<1>2. event[c][2] = c
  BY <1>1, RowType DEF CallInv
<1>3. \A r \in pending_records \cup pending_events : r[2] = c <=> r = event[c]
  BY <1>2 DEF PendingInv
<1>4. /\ example_records' = example_records \cup {event[c]}
      /\ outbox_events' = outbox_events \cup {event[c]}
      /\ pending_records' = pending_records \ {event[c]}
      /\ pending_events' = pending_events \ {event[c]}
  BY <1>1, <1>3
<1> HIDE DEF Written
<1>5. TypeOK'
  BY <1>1, <1>4 DEF TypeOK, Sessions
<1>6. CallInv'
  BY DEF TypeOK, CallInv, Running
<1>7. PendingInv'
  BY <1>3, <1>4, RowType DEF TypeOK, PendingInv
<1>8. CommittedInv'
  <2>1. event' = event /\ session'[c] = "committed" /\ \A d \in Call \ {c} : session'[d] = session[d]
    BY DEF TypeOK
  <2> QED
    BY <1>2, <1>4, <2>1, RowType DEF CommittedInv
<1>9. SessionInv'
  <2>1. \A d \in Call \ {c} : event[d] = event[c] => event[d] \notin pending_records \cup pending_events
    BY <1>2, <1>1, RowType DEF CallInv, PendingInv
  <2> QED
    BY <1>4, <2>1 DEF TypeOK, SessionInv
<1>10. IdInv'
  BY <1>1, <1>4 DEF IdInv
<1> QED
  BY <1>5, <1>6, <1>7, <1>8, <1>9, <1>10

LEMMA AbortInv ==
  ASSUME Inv, NEW c \in Call, Abort(c)
  PROVE  Inv'
<1> USE DEF Inv, Abort, Written, local
<1>1. TypeOK' /\ CallInv'
  BY DEF TypeOK, CallInv, Sessions, Running
<1>2. PendingInv' /\ CommittedInv'
  BY RowType DEF TypeOK, PendingInv, CommittedInv
<1>3. SessionInv'
  <2>1. \A d \in Call \ {c} : event[d] # NULL => event[d][2] # c
    BY DEF CallInv
  <2>2. NULL \notin pending_records \cup pending_events
    BY RowType
  <2> QED
    BY <2>1, <2>2 DEF TypeOK, SessionInv
<1>4. IdInv'
  BY DEF IdInv
<1> QED
  BY <1>1, <1>2, <1>3, <1>4

-------------------------------------------------------------------------------
(* The theorems *)

LEMMA NextInv == Inv /\ [Next]_vars => Inv'
<1> SUFFICES ASSUME Inv, [Next]_vars PROVE Inv'
  OBVIOUS
<1>1. ASSUME NEW c \in Call,
             \/ Invoke(c) \/ create_record(c) \/ Drop(c) \/ ConnectionLost(c)
             \/ Commit(c) \/ Abort(c)
      PROVE  Inv'
  BY <1>1, LocalInv, BeginInv, WriteRecordInv, WriteEventInv, SendCommitInv, CommitInv, AbortInv
     DEF create_record
<1>2. CASE UNCHANGED vars
  BY <1>2 DEF vars, local, tables, Inv, TypeOK, CallInv, PendingInv, CommittedInv, SessionInv, IdInv
<1> QED
  BY <1>1, <1>2 DEF Next

\* Inv holds in every reachable state, whatever calls are dropped, connections
\* break and sessions end.
THEOREM Invariance == Spec => []Inv
BY InitInv, NextInv, PTL DEF Spec

\* Every variable keeps a value of its kind, and the pool never lends more
\* connections than max_connections.
THEOREM TypeCorrect == Spec => []TypeOK
<1>1. Inv => TypeOK
  BY DEF Inv
<1> QED
  BY <1>1, Invariance, PTL

\* Ok means that the record and its event are there; an error before COMMIT means
\* that neither ever will be.
THEOREM OutcomesTrue == Spec => []OutcomeTrue
<1>1. Inv => OutcomeTrue
  <2> SUFFICES ASSUME Inv, NEW c \in Call
               PROVE  /\ pc[c] = "ok" => event[c] \in example_records \cap outbox_events
                      /\ pc[c] = "failed" => Written(example_records \cup outbox_events, c) = {}
    BY DEF OutcomeTrue
  <2>1. pc[c] = "ok" => event[c] \in example_records \cap outbox_events
    BY DEF Inv, CallInv, SessionInv, CommittedInv
  <2>2. pc[c] = "failed" => \A r \in example_records \cup outbox_events : r[2] # c
    BY DEF Inv, CallInv, CommittedInv
  <2> QED
    BY <2>1, <2>2 DEF Written
<1> QED
  BY <1>1, Invariance, PTL

LEMMA StoreStep == Inv /\ [Next]_vars => [Store!Next]_(Store!vars)
<1> SUFFICES ASSUME Inv, [Next]_vars PROVE Store!Next \/ UNCHANGED Store!vars
  OBVIOUS
<1>1. ASSUME NEW c \in Call, Commit(c) PROVE Store!Next
  <2>1. event[c] \in pending_records \cap pending_events
    BY <1>1 DEF Commit, Inv, SessionInv
  <2>2. event[c] \in Rows /\ event[c][2] = c
    BY <2>1, RowType DEF Inv, CallInv
  <2>3. \A r \in pending_records \cup pending_events : r[2] = c <=> r = event[c]
    BY <2>2 DEF Inv, PendingInv
  <2>4. example_records' = example_records \cup {event[c]} /\ outbox_events' = outbox_events \cup {event[c]}
    BY <1>1, <2>1, <2>3 DEF Commit, Written
  <2>5. event[c] \notin example_records
    BY <1>1, <2>2 DEF Commit, Inv, CommittedInv
  <2>6. \A r \in example_records : r[1] # event[c][1]
    BY <2>1, <2>5 DEF Inv, IdInv
  <2>7. Store!Create(event[c])
    BY <2>2, <2>4, <2>6 DEF Store!Create, Rows
  <2> QED
    BY <2>4, <2>7 DEF Store!Next
<1>2. ASSUME NEW c \in Call,
             Invoke(c) \/ create_record(c) \/ Drop(c) \/ ConnectionLost(c) \/ Abort(c)
      PROVE  UNCHANGED Store!vars
  BY <1>2 DEF Invoke, create_record, Begin, AcquireFails, WriteRecord, WriteEvent, StatementFails,
              SendCommit, Reply, CommitFails, Recycle, Drop, ConnectionLost, Abort, tables, Store!vars
<1>3. CASE UNCHANGED vars
  BY <1>3 DEF vars, tables, Store!vars
<1> QED
  BY <1>1, <1>2, <1>3 DEF Next

\* Producer implements RecordStore: a record and its event appear in one step under
\* an id that was never used.
THEOREM Refinement == Spec => StoreSpec
<1>1. Init => Store!Init
  BY DEF Init, Store!Init
<1> QED
  BY <1>1, Invariance, StoreStep, PTL DEF Spec, StoreSpec, Store!Spec
===============================================================================
