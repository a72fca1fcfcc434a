------------------------------- MODULE Producer -------------------------------
(***************************************************************************)
(* ExampleDatabase::create_record (modules/example/src/database.rs): one   *)
(* transaction over a small connection pool that writes a record and the   *)
(* outbox event of it.                                                     *)
(*                                                                         *)
(* The call and the session that serves it in PostgreSQL are two actors: a *)
(* call may be dropped, or lose its connection, while its COMMIT is under  *)
(* way, and the session then ends without it.                              *)
(***************************************************************************)
EXTENDS Naturals, FiniteSets

CONSTANTS
  Call,       \* calls of create_record; each writes a label of its own
  PoolSize,   \* max_connections
  NULL

ASSUME CallAssumption == IsFiniteSet(Call)
ASSUME PoolAssumption == PoolSize \in Nat \ {0}
ASSUME NullAssumption == NULL \notin Nat \X Call

VARIABLES
  pc,               \* [Call -> where it stands, or how it ended]
  holds,            \* calls whose connection is not back in the pool
  session,          \* [Call -> state of its transaction in PostgreSQL]
  event,            \* [Call -> the ExampleRecordCreated it holds]
  pending_records,  \* rows of transactions, visible to nobody else
  pending_events,
  last_id,          \* the identity sequence of example_records
  example_records,  \* committed rows: an id and a label
  outbox_events     \* committed rows: an aggregate_id and the label in the payload

local  == <<pc, holds, event>>
tables == <<pending_records, pending_events, last_id, example_records, outbox_events>>
vars   == <<local, session, tables>>

Init ==
  /\ pc = [c \in Call |-> "new"]
  /\ holds = {}
  /\ session = [c \in Call |-> "none"]
  /\ event = [c \in Call |-> NULL]
  /\ pending_records = {} /\ pending_events = {}
  /\ last_id = 0
  /\ example_records = {} /\ outbox_events = {}

Running == {"begun", "recorded", "evented"}   \* COMMIT is not sent yet
Ended   == {"ok", "failed", "in doubt"}
PCs     == Running \cup Ended \cup {"new", "waiting", "committing"}

\* A transaction in PostgreSQL: none yet, running, told to end, or ended.
Sessions == {"none", "open", "commit sent", "rollback sent", "committed", "aborted"}

-------------------------------------------------------------------------------
(* The call *)

Invoke(c) ==
  /\ pc[c] = "new"
  /\ pc' = [pc EXCEPT ![c] = "waiting"]
  /\ UNCHANGED <<holds, session, event, tables>>

BeginUnbounded(c) ==   \* mutant: every call opens a connection
  /\ pc[c] = "waiting"
  /\ pc' = [pc EXCEPT ![c] = "begun"]
  /\ holds' = holds \cup {c}
  /\ session' = [session EXCEPT ![c] = "open"]
  /\ UNCHANGED <<event, tables>>

\* pool.begin(): a free connection, and BEGIN.
Begin(c) ==
  /\ pc[c] = "waiting"
  /\ Cardinality(holds) < PoolSize
  /\ pc' = [pc EXCEPT ![c] = "begun"]
  /\ holds' = holds \cup {c}
  /\ session' = [session EXCEPT ![c] = "open"]
  /\ UNCHANGED <<event, tables>>

\* No connection becomes free in time, none can be opened, or no database is attached.
AcquireFails(c) ==
  /\ pc[c] = "waiting"
  /\ pc' = [pc EXCEPT ![c] = "failed"]
  /\ UNCHANGED <<holds, session, event, tables>>

\* write_business_state: the sequence advances whether or not this commits.
WriteRecord(c) ==
  /\ pc[c] = "begun" /\ session[c] = "open"
  /\ last_id' = last_id + 1
  /\ pending_records' = pending_records \cup {<<last_id + 1, c>>}
  /\ event' = [event EXCEPT ![c] = <<last_id + 1, c>>]
  /\ pc' = [pc EXCEPT ![c] = "recorded"]
  /\ UNCHANGED <<holds, session, pending_events, example_records, outbox_events>>

WriteEventOnPool(c) ==   \* mutant: the event is not written in the transaction
  /\ pc[c] = "recorded" /\ session[c] = "open"
  /\ outbox_events' = outbox_events \cup {event[c]}
  /\ pc' = [pc EXCEPT ![c] = "evented"]
  /\ UNCHANGED <<holds, session, event, pending_records, pending_events, last_id, example_records>>

\* write_outbox_event
WriteEvent(c) ==
  /\ pc[c] = "recorded" /\ session[c] = "open"
  /\ pending_events' = pending_events \cup {event[c]}
  /\ pc' = [pc EXCEPT ![c] = "evented"]
  /\ UNCHANGED <<holds, session, event, pending_records, last_id, example_records, outbox_events>>

\* Mutant: BEGIN was sent as a plain statement, so the drop rolls nothing back, and
\* the COMMIT of whoever is given the connection next ends this transaction too.
CommittedByTheNext(c) ==
  session' = [session EXCEPT ![c] = IF @ = "open" THEN "commit sent" ELSE @]

\* Dropping a transaction that is open sends ROLLBACK.
RollBack(c) ==
  session' = [session EXCEPT ![c] = IF @ = "open" THEN "rollback sent" ELSE @]

\* A statement before COMMIT answers with an error, and ? drops the transaction.
StatementFails(c) ==
  /\ pc[c] \in Running
  /\ pc[c] = "evented" => session[c] # "open"
  /\ pc' = [pc EXCEPT ![c] = "failed"]
  /\ RollBack(c)
  /\ UNCHANGED <<holds, event, tables>>

SendCommit(c) ==
  /\ pc[c] = "evented" /\ session[c] = "open"
  /\ pc' = [pc EXCEPT ![c] = "committing"]
  /\ session' = [session EXCEPT ![c] = "commit sent"]
  /\ UNCHANGED <<holds, event, tables>>

ReplyUnread(c) ==   \* mutant: the answer to COMMIT is not awaited
  /\ pc[c] = "committing"
  /\ pc' = [pc EXCEPT ![c] = "ok"]
  /\ UNCHANGED <<holds, session, event, tables>>

\* Ok(event), and the connection goes back.
Reply(c) ==
  /\ pc[c] = "committing" /\ session[c] = "committed" /\ c \in holds
  /\ pc' = [pc EXCEPT ![c] = "ok"]
  /\ holds' = holds \ {c}
  /\ UNCHANGED <<session, event, tables>>

\* COMMIT answers with an error.
CommitFails(c) ==
  /\ pc[c] = "committing" /\ session[c] = "aborted"
  /\ pc' = [pc EXCEPT ![c] = "in doubt"]
  /\ UNCHANGED <<holds, session, event, tables>>

\* How a call ends that is cut off: once COMMIT is sent nobody knows.
CutOff(c) == pc' = [pc EXCEPT ![c] = IF @ = "committing" THEN "in doubt" ELSE "failed"]

DropLeavesOpen(c) ==   \* mutant: nothing rolls the transaction back
  /\ pc[c] \in Running \cup {"waiting", "committing"}
  /\ CutOff(c)
  /\ UNCHANGED <<holds, session, event, tables>>

\* The future is dropped at one of its awaits.
Drop(c) ==
  /\ pc[c] \in Running \cup {"waiting", "committing"}
  /\ CutOff(c)
  /\ RollBack(c)
  /\ UNCHANGED <<holds, event, tables>>

\* The connection breaks.  The pool forgets it; its session may live on for a while.
ConnectionLost(c) ==
  /\ c \in holds
  /\ holds' = holds \ {c}
  /\ IF pc[c] \in Ended THEN UNCHANGED pc ELSE CutOff(c)
  /\ UNCHANGED <<session, event, tables>>

\* A connection whose call is over goes back once its session has answered.
Recycle(c) ==
  /\ c \in holds /\ pc[c] \in Ended
  /\ session[c] \in {"committed", "aborted"}
  /\ holds' = holds \ {c}
  /\ UNCHANGED <<pc, session, event, tables>>

-------------------------------------------------------------------------------
(* PostgreSQL *)

Written(rows, c) == {r \in rows : r[2] = c}

CommitsAll(c) ==   \* mutant: the connections share one transaction
  /\ session[c] = "commit sent"
  /\ session' = [session EXCEPT ![c] = "committed"]
  /\ example_records' = example_records \cup pending_records
  /\ outbox_events' = outbox_events \cup pending_events
  /\ pending_records' = {} /\ pending_events' = {}
  /\ UNCHANGED <<local, last_id>>

Commit(c) ==
  /\ session[c] = "commit sent"
  /\ session' = [session EXCEPT ![c] = "committed"]
  /\ example_records' = example_records \cup Written(pending_records, c)
  /\ outbox_events' = outbox_events \cup Written(pending_events, c)
  /\ pending_records' = pending_records \ Written(pending_records, c)
  /\ pending_events' = pending_events \ Written(pending_events, c)
  /\ UNCHANGED <<local, last_id>>

\* ROLLBACK, a session that finds its connection gone, or a server that crashes.
Abort(c) ==
  /\ session[c] \in {"open", "commit sent", "rollback sent"}
  /\ session' = [session EXCEPT ![c] = "aborted"]
  /\ pending_records' = pending_records \ Written(pending_records, c)
  /\ pending_events' = pending_events \ Written(pending_events, c)
  /\ UNCHANGED <<local, last_id, example_records, outbox_events>>

-------------------------------------------------------------------------------
create_record(c) ==
  \/ Begin(c) \/ AcquireFails(c) \/ WriteRecord(c) \/ WriteEvent(c) \/ StatementFails(c)
  \/ SendCommit(c) \/ Reply(c) \/ CommitFails(c) \/ Recycle(c)

Answer(c) == Commit(c) \/ (session[c] = "rollback sent" /\ Abort(c))

Next ==
  \E c \in Call :
    \/ Invoke(c) \/ create_record(c) \/ Drop(c) \/ ConnectionLost(c)
    \/ Commit(c) \/ Abort(c)

Spec == Init /\ [][Next]_vars

\* A call that began runs on, and PostgreSQL answers COMMIT and ROLLBACK.
FairSpec == Spec /\ \A c \in Call : WF_vars(create_record(c)) /\ WF_vars(Answer(c))

-------------------------------------------------------------------------------
(* Properties *)

Rows == (Nat \ {0}) \X Call

\* The variables hold values of their kind, and the pool keeps its size.
TypeOK ==
  /\ pc \in [Call -> PCs]
  /\ holds \subseteq Call /\ Cardinality(holds) <= PoolSize
  /\ session \in [Call -> Sessions]
  /\ event \in [Call -> Rows \cup {NULL}]
  /\ pending_records \subseteq Rows /\ pending_events \subseteq Rows
  /\ last_id \in Nat
  /\ example_records \subseteq Rows /\ outbox_events \subseteq Rows

\* What a caller is told is true: Ok means that its record and its event are
\* there, and an error before COMMIT was sent means that neither is, nor will be:
\* the session may outlive the call, but is rolled back before its connection
\* serves another one.
OutcomeTrue ==
  \A c \in Call :
    /\ pc[c] = "ok" => event[c] \in example_records \cap outbox_events
    /\ pc[c] = "failed" => Written(example_records \cup outbox_events, c) = {}

\* How far a call and its session may be apart.
CallInv ==
  \A c \in Call :
    /\ pc[c] \in {"new", "waiting"} => session[c] = "none"
    /\ pc[c] \in {"new", "waiting", "begun"} => event[c] = NULL
    /\ event[c] # NULL => event[c][2] = c
    /\ c \in holds => pc[c] \notin {"new", "waiting"}
    /\ pc[c] \in Running => session[c] \in {"open", "aborted"}
    /\ pc[c] = "committing" => session[c] \in {"commit sent", "committed", "aborted"}
    /\ pc[c] = "ok" => session[c] = "committed"
    /\ pc[c] = "failed" => session[c] \notin {"commit sent", "committed"}

\* A row that waits is the event its call holds, and its session has not ended.
PendingInv ==
  \A r \in pending_records \cup pending_events :
    r = event[r[2]] /\ session[r[2]] \in {"open", "commit sent", "rollback sent"}

\* A committed row is the event its call holds, and its session has committed.
CommittedInv ==
  /\ example_records = outbox_events
  /\ \A r \in example_records : r = event[r[2]] /\ session[r[2]] = "committed"

\* What a session has written.
SessionInv ==
  \A c \in Call :
    /\ session[c] = "open" /\ pc[c] \in {"recorded", "evented"} => event[c] \in pending_records
    /\ session[c] = "open" /\ pc[c] = "evented" => event[c] \in pending_events
    /\ session[c] = "commit sent" => event[c] \in pending_records \cap pending_events
    /\ session[c] = "committed" => event[c] \in example_records

\* The sequence has passed every id in use, and no id is used twice.
IdInv ==
  /\ \A r \in pending_records \cup example_records : r[1] <= last_id
  /\ \A r, s \in pending_records \cup example_records : r[1] = s[1] => r = s

\* The inductive invariant behind the theorems of ProducerProofs.
Inv == TypeOK /\ CallInv /\ PendingInv /\ CommittedInv /\ SessionInv /\ IdInv

\* A record and its event appear in one step, with the same id and label, and no
\* id comes twice although rolled back transactions have used some.
Store == INSTANCE RecordStore WITH
  Label <- Call, records <- example_records, events <- outbox_events

StoreSpec == Store!Spec

\* Every call ends and gives its connection back, also when it was dropped.
CallsEnd == \A c \in Call : pc[c] = "waiting" ~> pc[c] \in Ended /\ c \notin holds
===============================================================================
