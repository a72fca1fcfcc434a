# Verification of better-commerce

TLA+ models of the foundation (M0) of better-commerce, the TLC runs that check them on small
instances, and TLAPS proofs of every component for every instance. All paths are relative to
the root of the repository. `tlc -config X.cfg M` runs a model, `tlapm XProofs.tla` checks the
proofs about `X`.

## The system

| Part | Code | State | Operations |
|---|---|---|---|
| Outbox dispatcher | `core/src/dispatcher.rs`, `modules/example/migrations/*outbox*` | the rows of `bc_example.outbox_events`; the claim each caller holds; what the delivery boundary accepted | `claim_next`, `deliver`, `acknowledge`, `release_rejected`, `dead_letter`, `dispatch_one` |
| Record producer | `modules/example/src/database.rs` | `example_records` and one new outbox row | `create_record` |
| Installation migrations | `core/src/database.rs`, `core/src/bin/migrate.rs` | roles and passwords, grants, schemas and their migration histories | `migrate_installation`, `module_is_initialized`, `provision_role`, `ensure_role_is_scoped` |
| Reconciler | `core/src/reconcile.rs`, `core/src/bin/bc.rs` | the phase of a run, the secrets it resolved | `reconcile`, `verify_ready` |
| API server | `core/src/main.rs`, `core/src/composition.rs`, `core/src/http/` | the modules it composed, its database pools | start-up, `/readyz`, `/healthz` |
| Manifest validation | `core/src/manifest.rs` | none (a pure function with a depth-first search) | `validate_manifest` |
| Contracts, consumer and transport crates, request context, scripts | `modules/example-consumer`, `modules/example-transport`, `contracts/`, `core/src/context.rs`, `scripts/` | none | - |

How they interact: `bc reconcile` reads the manifest, starts PostgreSQL, runs the migrate
container and recreates the API container, each of which reads the bind-mounted manifest
again; then it polls `/readyz`. The API writes records and outbox rows in one transaction.
Dispatchers in any number of processes share the outbox rows and nothing else: PostgreSQL's
row locks, statement snapshots and `clock_timestamp()` are all the coordination they have.

What is hard here:

- claims, expiring leases and late answers of several dispatchers over the same rows, with a
  process that may die between any two statements;
- an ordering barrier that one statement reads from its snapshot while it locks another row;
- a migration of some twenty statements that commit one by one, and may stop after any;
- one manifest file that three processes read at three different times;
- a call of `create_record` that is dropped, or cut off, while its session in PostgreSQL goes on;
- a poll with a timeout inside a loop with a deadline, against a server that may never answer.

What makes each part correct: *outbox* - sequence per aggregate, one owner per event,
publication only after acceptance, dead letters as barriers, progress. *Producer* - a record
and its event appear together, a caller is told the truth, no connection is lost to the pool, and
every event is delivered although its caller may have given up. *Migrations and
reconciler* - a successful run leaves exactly the desired grants, passwords and histories;
a refused one changes nothing; every partial state can be repaired. *Verification* - it
ends in time and overlooks no API that was ready in time. *API* - ready means usable. *Manifest* - a graph is accepted if and only if it is closed and has no cycle.
`PROJECT.json` lists the hazards line by line with the properties aimed at them.

## Modules

| Module | What it is |
|---|---|
| `OrderedDelivery` | the abstract specification of the outbox: created, accepted, published, quarantined events |
| `Outbox` | rows, claims, leases, workers and the delivery boundary, with the refinement to `OrderedDelivery` |
| `OutboxProofs` | the theorems about `Outbox` |
| `MCOutbox`, `MCOutboxPoison` | instances of `Outbox` for TLC |
| `RecordStore` | the abstract specification of the producer: a record and its event, in one step |
| `Producer` | calls of `create_record`, the pool and the sessions in PostgreSQL, with the refinement to `RecordStore` |
| `ProducerProofs` | the theorems about `Producer` |
| `MCProducer` | the instance of `Producer` for TLC |
| `RecordDelivery` | `Producer` and `Outbox` over one table: the composition, with the refinement to `Outbox` |
| `RecordDeliveryProofs` | the theorems about `RecordDelivery` |
| `MCRecordDelivery` | the instance of `RecordDelivery` for TLC |
| `Verification` | the polling loop of `verify_ready`, second by second |
| `VerificationProofs` | the theorems about `Verification` |
| `MCVerification` | the instance of `Verification` for TLC |
| `Installation` | reconciliation runs, the migrate program, the API container and the shared database |
| `DesiredState` | the abstract specification of reconciliation by any number of operators: facts that come in order and stay |
| `InstallationProofs` | the theorems about `Installation`, most of them with one operator |
| `OperatorsProofs` | the theorems about `Installation` with any number of operators: what lasts, and the refinement of `DesiredState` |
| `MCInstallation` | instances of `Installation` for TLC |
| `ManifestValidation` | the checks of `validate_manifest` and its depth-first search |
| `ManifestValidationProofs` | the theorems about `ManifestValidation` |
| `MCManifestValidation` | the instance of `ManifestValidation` for TLC |

### Outbox

An event is a row; events are numbers in the order of `(occurred_at, event_id)`, the order
of the claim. A worker is a caller of `dispatch_one`; `WorkerId` gives its `worker_id`
argument, and workers may share one. Columns become sets and functions over events:
`delivered_at` is `delivered`, `dead_lettered_at` is `dead_lettered`, `claim_until` is
`claim_left` and `available_at` is `available_in`, the seconds from now until then (not above 0
once it is past), `attempt_count` is kept with the end of its range (`AttemptMax` for int4).
`claimed_by` is the worker id with a number that stands for the uuid. Payload and reason are data
no decision depends on.

`Tick` is a second of the database clock. `SetBack` sets it back by a second, `ClockBack` times at
most: leases that had run out run again, and an event that was released a moment ago is not yet
available. What is further past than the clock can still go back stays past, so values below
`-ClockBack` are not kept apart. A claim decides about time when it scans and when it
locks; a clock that is set back between the two counts as set back after the lock.

`claim_next` is one SQL statement, but not one step: under READ COMMITTED it scans with a
snapshot (`ClaimScan`, where the barrier `NOT EXISTS` is decided), goes through the rows in
order and skips those that are locked or no longer satisfy the conditions on the row
(`ClaimSkip`), locks the first that does (`ClaimLock`, which checks these conditions again on
the newest version, but not the barrier), and updates and commits (`ClaimCommit`), or fails
on the range of `attempt_count` (`ClaimOverflow`). `acknowledge`, `release_rejected` and
`dead_letter` touch one row, wait for its lock and check their whole `WHERE` clause on its
newest version: one step each (`Acknowledge`, `ReleaseRejected`, `DeadLetter`, or `LoseLease` when
no row is updated). `deliver` follows `InProcessEventDelivery`, with `failures_remaining`, and
adds events the boundary never accepts (`Poison`). `Abandon` is a crash, a dropped future or a
database error at any point of a call. What a call returns changes no state and is left out.

`Enqueue` is the commit of a producer. Its guard assumes that the sequences of one aggregate
become visible in order. `create_record`, the only producer there is, cannot break that: it
writes sequence 1 of a new aggregate each time. What `RecordDelivery` shows of it is the rest of
the assumption, that committed rows appear one by one and stay; a producer of longer
sequences would owe their order.

### Producer and RecordDelivery

A call and the session that serves it in PostgreSQL are two actors. The call takes a connection
(`Begin`, or `AcquireFails`), inserts the record (`WriteRecord`, with the next value of the identity
sequence, which no rollback gives back) and the event (`WriteEvent`), sends COMMIT (`SendCommit`) and
reads the reply (`Reply`, `CommitFails`). Before COMMIT any error drops the transaction
(`StatementFails`), and the caller of the future may drop it at any await (`Drop`): sqlx then sends
ROLLBACK. The connection may break at any point (`ConnectionLost`); its session may live on and
`Commit` what it was told to. `session` is where the transaction stands, `holds` the calls
whose connection is out of the pool, `Recycle` gives back the connection of a call that ended
without reading its reply, and not before the session has answered. Sessions belong to calls and not to
connections, which is enough as long as no connection goes back with an open transaction; what
would happen otherwise - the next COMMIT on the connection takes the rows of the dropped call along - is
the mutant `CommittedByTheNext` of `RollBack`, under which `OutcomeTrue` is violated. `pc` is `in doubt` after COMMIT was sent and no good reply read; to
the caller that is the same error as `failed`, and it is kept apart only to say what is
true of each.

`RecordDelivery` runs both modules over one table: `visible` of `Outbox` is what `Producer` has
committed, an event is the id of its record, an aggregate of its own with sequence 1. `pc` of
`Outbox` is `at` there. Ids also stand for the order of `occurred_at`; the two may
differ in the code, but with one event in each aggregate the order of claims decides nothing the
properties speak of. `ClockBack` is 0.

### Verification

`pc` is where the loop is, `timer` what is left of the poll's two seconds or the second of sleep,
`now` the seconds since the start. `steady_since` says since when every request that reaches the API
is answered with 200 in time; before that it may answer 200, anything else, or nothing. A poll
that was sent while the API was steady gets 200 (`AskedSteady`); any other poll may (`Status200`), may
get another answer or an error (`OtherAnswer`), or time out (`PollTimesOut`). The runtime is taken
to be prompt: a timer that has fired is acted on before the clock moves on. `Installation` has the
same loop without time, with the state of the API that `Verification` leaves open.

### Installation

`Program` is `migrate_installation`: a sequence of statements (guard, provision, grant,
revoke, migrate, check) in the order of the code. Each commits for itself, so a run advances by
one statement per step and may stop between any two (`Fail`). Statements for the example and
dispatcher roles are skipped when the manifest does not enable the module. Grants are pairs of
a role and a kind of right; several SQL grants that always come together and that no property
tells apart are one kind ("read history" includes USAGE of the schema). `granted` starts
with what PostgreSQL gives to PUBLIC. `applied` counts the successful rows of a history.
`ALTER DEFAULT PRIVILEGES` concerns only later tables and is left out.

A run reads the manifest in `Begin` and `StartMigrate`, the API in `Boot`; `Edit` changes the
file between them. `secrets` is the one value that stands for the three runtime passwords of a
run; changing the manifest's references or the environment gives the next run another.
`api.open` are the pools with an open connection, which survive a change of the password.
`/readyz` takes two steps, as it reads the shared history and then those of the modules:
`AskShared`, and `VerifyReady`, which is its 200. Between them anything may happen, and the
answer may be another (`AskAgain`) or be lost with the container (`Unanswered`).
`VerifyTimeout` is the end of the 90 seconds. A migrate
container that outlives its killed `bc` is the second runner of the race run, which
may do anything a run does.

`DesiredState` is what any number of operators can rely on. It knows facts: a role exists, a
privilege is granted, a privilege of the public is closed, a migration is applied. A run wants a
set of facts, brings them about one after the other, each after those it needs (a
privilege after its role, one on tables after all migrations of the schema, a migration after the one
before), and takes none back; it succeeds when all it wanted is there. The mapping is at the end of
`Installation`: `Outcome` joins the phases a run works in, `WantedBy` is what the manifest its
migrate container read asks for, `Facts` is read off the database. Three things are no facts
because every run sets them anew and one run may do so between two statements of
another: the passwords, the dispatcher's rights on the outbox and the write right on the
example module's history.

### ManifestValidation

`validate_manifest` is three loops over the enabled modules, and a recursive search. A step is one
iteration of a loop; `todo` is what the loop has yet to take, in the order of a `BTreeMap`
(`First`). The calls of `visit` that have not returned are `path`, and `left` is what each of their
loops has yet to follow; `Enter` is a call, with its two early answers, and `Leave` its end.
`visiting` and `visited` are the sets of the code. A module of the release either fits the
manifest (version and contracts) or does not; the two loops that decide it for one module have no
effect but their error. `Circular` is the reference definition of a cycle, with no search in it: a
set of modules in which each requires another of the set.

## Runs

| Run | What it asks | Result |
|---|---|---|
| `outbox_safety` | order, ownership, counts, leases, late hand-overs and the refinement of `OrderedDelivery` | holds, 342,714 states up to symmetry |
| `outbox_liveness` | every event is published, set aside or blocked by a dead letter | holds, 47,812 states |
| `outbox_clock` | ownership, leases and progress when the clock is set back | holds, 67,706 states |
| `outbox_poison` | a failing event harms only its own aggregate | **violated** (finding) |
| `producer` | record and event together, truthful outcomes, every call ends | holds, 73,476 states |
| `record_delivery` | the producer is one that `Outbox` assumes; `RecordStore` and `OrderedDelivery` hold together from call to boundary; every record's event is settled | holds, 163,344 states |
| `verification` | the verification ends in time, in a bounded number of steps, and overlooks no steady API | holds, 3,696 states |
| `installation` | what a successful, a refused and a verified run guarantee; no partial state makes a later run fail, and reconciliation repairs every one | holds, 82,368 states |
| `installation_operators` | what overlapping runs leave each other, and the refinement of `DesiredState` | holds, 257,301 states |
| `installation_restart` | the API keeps the modules the database holds | **violated** (finding) |
| `installation_race` | a refused removal changes nothing, with two runs at once | **violated** (finding) |
| `manifest_validation` | accepted if and only if closed and acyclic; every step makes progress and every validation ends | holds, 252,385 states |

Bounds. *outbox_safety*: three events, two of one aggregate with a third between them in claim
order; two workers under one name; a lease of two seconds, so that it can be running, nearly
over and over; two attempts per event, so that each event can be claimed, lost and claimed
again and then overflow; one deliberate rejection and one poisoned event. The hazards involve two workers
and one aggregate with its successor; the third event lets the order of the claim differ from
the order of the aggregate. *outbox_liveness* drops the other aggregate and allows three
attempts. *outbox_clock* has the same two events, a lease of one second and a clock that goes back by
one, which is enough to bring a lease that has just run out, and its owner, to life again.
Two attempts per event demand one re-claim
before the count is used up; *outbox_liveness*, with three, demands two, and in the runs with the
clock or the producer a third attempt costs minutes of checking for the same case once more.
*producer*: three calls over two connections, the size of the code's pool, so that a call has to wait
for what another one leaves behind. *record_delivery*: two calls, one connection and one worker;
what several workers do to each other is the business of the runs of `Outbox`, which this
composition is shown to refine. *verification* has the constants of the code, and nothing else
in it is bounded. *outbox_poison* has one worker; there `AttemptMax` stands for "that often
or more" (`ClaimAgain`, `RejectAgain` repeat at the bound), because the cycle and not the overflow
is the question. *installation*: one shared and two example migrations (the release has one and
three), so that a history is empty, partial or complete; two secrets, the old and the new;
manifests with the module, without it, and invalid; one runner, or two for the race and for
*installation_operators*, where one secret is enough: which password a role has is no fact there. No
counter is bounded in `Installation`: its state space is finite. *manifest_validation*: three
modules with every choice of enabled, known and fitting ones and every dependency graph: cycles of
length one, two and three, cycles reached through a tail, and shared dependencies, for which
three modules are enough (1 requires 2 and 3, and 2 requires 3).

Deadlock is checked in every run but `manifest_validation`, `producer`, `record_delivery` and
`verification`, where validations, calls and verifications end.

### Fairness

*Outbox*: weak fairness of `dispatch_one(w)` says that the host calls it again and again and that
a call that has begun goes on. The repository starts no dispatcher loop yet (only tests call
`dispatch_one`), so this is what `Progress` assumes of its future host. Strong fairness of
`ClaimLock` and `ClaimCommit` excludes a worker that dies in each of its claims; crashes
remain possible infinitely often elsewhere. `Tick` is weakly fair: the clock goes on. No fairness
is given to producers, to `DeadLetter` or to `Abandon`. `Progress` excludes exhausted counts:
at the end of int4 the claim of that row fails for ever.

*Producer*: a call that began goes on (weak fairness of `create_record(c)`: tokio polls it) and
PostgreSQL answers COMMIT and ROLLBACK. Nobody is obliged to call, drop or break anything.
*RecordDelivery* has the fairness of `Outbox` and none for the producer: `RecordsSettle` is about
records whose calls may have stopped anywhere.

*Verification*: the task runs when it can, time passes, and a steady API answers. No other answer is
promised, so `VerificationEnds` rests on the timeout of a poll alone.

*Installation*: the operator runs `bc reconcile` again and again, a created container starts, and
the 90 seconds pass. Strong fairness of `VerifyReady` says that an API that is asked again and again
while it is ready gives its 200 in time at some point: a restart or a lost connection can come
between the two reads of one request, but not of all. `Heals` speaks of behaviours in which faults, restarts and edits cease and the
manifest does not remove an initialized module.

*ManifestValidation*: weak fairness of its next step, which is that a function that was called
goes on running.

## What the runs found

1. *A rejected event starves other aggregates* (`outbox_poison`). `release_rejected` makes the row
   claimable at once, and it is still the oldest: the next claim takes it again. With a
   dispatcher whose oldest head is never accepted, no other aggregate advances until someone
   calls `dead_letter`, which nothing in the repository does. ADR 0003 promises at-least-once
   delivery and that a failure blocks later events of *its* aggregate.
2. *The API follows the file, not the database* (`installation_restart`). After an edit of the
   manifest, a start of the API container takes an initialized module out of service without the
   lifecycle check that `migrate_installation` makes; ADR 0001 says removal is rejected. No
   data is lost.
3. *The lifecycle check can be overtaken* (`installation_race`). It is a query of its own, and a
   concurrent run may apply the module's first migration right after it. With one run at a time
   (`installation`) the property holds.

## Proofs

Seven modules hold proofs; together they state every invariant, action property and refinement that a
passing run checks. Where there is an `Inv`, `TypeOK` is its first conjunct. `OutboxProofs` proves, for all values of the constants that satisfy the named assumptions of
`Outbox` (finite or not, any number of workers, any lease, any bound of the count):

| Theorem | Statement |
|---|---|
| `Invariance` | `Spec => []Inv` |
| `TypeCorrect` | `Spec => []TypeOK` |
| `Sequenced` | `Spec => []NoOvertaking` |
| `OneOwner` | `Spec => []ExclusiveOwnership` |
| `AttemptsCounted` | `Spec => []AttemptsCovered` |
| `LateOnesRepeat` | `Spec => LateIsRepeat` |
| `LeasesHold` | `Spec => LeaseRespected` |
| `Refinement` | `Spec => OrderedSpec` |

`Inv` is the inductive invariant; TLC checks it first, in `outbox_safety`. `NoOvertaking` alone
is not inductive. That a row which is scanned, locked or attempted has only published
predecessors survives because published is for ever and no earlier row can appear later
(`RowInv`: visible rows have visible predecessors); this is why the stale snapshot of the barrier
does no harm. That a claim gives exclusive ownership needs `TokenInv` (two current claims of one
event differ in their token), which rests on `CallInv` and `RowInv`: the number in a token is at
most the row's `attempt_count`, and equal to it for the claim the row carries, so that a
new claim is unlike all former ones. The mutual exclusion of row locks is in `RowInv` too:
the lock names a worker whose call is at `locked` with that target. `LeasesHold` and
`Refinement` are step properties that use `Inv` in the state before the step: publication refines
`Publish` because a worker at `accepted` has its event in `accepted_ids`, and `Accept` because
a claimed event has published predecessors.

`LateOnesRepeat` is about the worker that lost its lease and hands its event over all the same: the
boundary may see it after a later event of the aggregate, but only as a repetition. A successor is
published only after its predecessors were, and these only after the boundary had accepted them.

`ManifestValidationProofs` proves, for any set of module numbers and every dependency graph over
it, from the one assumption that the ids are ordered like natural numbers:

| Theorem | Statement |
|---|---|
| `Invariance` | `Spec => []Inv` |
| `TypeCorrect` | `Spec => []TypeOK` |
| `Sound` | `Spec => []VerdictRight` |
| `AlwaysAdvances` | `Spec => Advances` |

A right verdict needs to know why the search may forget what it has seen. `VisitedInv`: the
visited modules are closed under dependencies and hold no circular set. When `Leave` adds a module
whose dependencies are all visited, a circular set with the new module would have to
return to it from a visited one, which closure excludes (`NoNewCycle`); so an accepted manifest has
no cycle. `PathInv`: the path is a chain of requirements without repetition and its members are
exactly `visiting`; entering a member again makes the rest of the path a circular set
(`PathCloses`), so a rejection for a cycle is right, and a shared dependency, which is in
`visited`, is none. `LoopInv` carries what the first loops established to the search, which
indexes the metadata without a check. `AlwaysAdvances` is the part of termination that is no
liveness: every step of the search takes something that is finite and is never given back - a module
to start from, a dependency to follow, a module not done with - and a mark is never lost, so shared
dependencies are not followed again. That `First` of a non-empty set is a member of it is the
well-foundedness of `<` on the natural numbers.

`ProducerProofs` proves, for any finite set of calls and any size of the pool:

| Theorem | Statement |
|---|---|
| `Invariance` | `Spec => []Inv` |
| `TypeCorrect` | `Spec => []TypeOK` |
| `OutcomesTrue` | `Spec => []OutcomeTrue` |
| `Refinement` | `Spec => StoreSpec` |

`OutcomeTrue` alone is not inductive: that a failed call has no rows rests on its session never
having been told to commit (`CallInv`), that Ok finds both rows on what a session must have
written before COMMIT could be sent (`SessionInv`). `CommittedInv` keeps the tables equal and `IdInv` the ids
below the sequence, so that a commit is a `Create` of a fresh row. That the pool keeps its size
takes the cardinality lemmas of FiniteSetTheorems.

`RecordDeliveryProofs` proves, for any number of calls and workers, from that invariant:

| Theorem | Statement |
|---|---|
| `SystemInvariance` | `SystemSpec => []SystemInv` |
| `NoFalseNews` | `SystemSpec => []NewsIsTrue` |
| `MeetsOutbox` | `SystemSpec => OutboxSpec` |
| `RecordsOrdered` | `SystemSpec => Outbox!OrderedSpec` |
| `EndToEndHolds` | `SystemSpec => EndToEnd` |

Ids stay in `Event` because the sequence counts the calls that have taken an id (`SequenceInv`).
What a worker knows of is visible (`KnownInv`), so what the boundary is told of was committed.
`MeetsOutbox` maps a commit to `Enqueue`, which one visible row at a time and aggregates of
their own allow, and the worker's steps to themselves. Through it the theorems of `OutboxProofs` hold
of the composition: `RecordsOrdered` takes its refinement from an instance of that module
(`Proved`), after `OutboxAssumptions` has shown that the events of the calls are as `Outbox` assumes
its events and `DispatchAssumption` has said the same of the workers. `EndToEndHolds` adds the
refinement of `ProducerProofs`; together they reach from the call to the boundary.

`VerificationProofs` proves, for any timeouts and any interval:

| Theorem | Statement |
|---|---|
| `Invariance` | `Spec => []Inv` |
| `TypeCorrect` | `Spec => []TypeOK` |
| `InTime` | `Spec => []EndsInTime` |
| `Noticed` | `Spec => []SteadyIsNoticed` |
| `Advances` | `Spec => LoopAdvances` |

`Inv` says when the current poll was sent and when the loop looks at the deadline next. A round that
fails to see a steady API began before it was steady, so the deadline is less than one round
away from that moment when the loop gives up. `Rank` counts what is left: four for each second until
the latest end that `Inv` allows, and the steps the loop can take before the next second must
pass. It is a natural number that each step of the loop and each second lowers, so an API that
answers at once cannot make the loop spin.

`InstallationProofs` proves, for any passwords and any number of migrations, the first
theorem for any number of operators and the others for one:

| Theorem | Statement |
|---|---|
| `TypeCorrect` | `Spec => []TypeOK` |
| `Invariance` | `Single` implies `Spec => []Inv` |
| `Converges` | `Single` implies `Spec => []Converged` |
| `RemovalSafe` | `Single` implies `Spec => RemovalChangesNothing` |
| `ReadyTrue` | `Single` implies `Spec => ReadyIsTrue` |
| `AlwaysRepairs` | `Single` implies `Spec => []Repairs` |

`EffectsInv` is
the heart: statement by statement, what a run has done is in force, except for what it has
granted or revoked since (`Since`). A new statement can only add to `Since`, so one lemma
(`Completes`) covers nearly all of them, whatever the program is; only a migration is different,
because it may take several steps. The concrete program is needed at its end
(`Complete`), to see which statement has the last word on each privilege, and for the one thing
`EffectsInv` does not carry: after a run *without* the module nothing says that the module's history
is read-only, unless no earlier run can have left it writable. Hence the conjunct of `Inv` that a
writable history is never empty, which the guard turns into a refusal. `ReadyTrue` needs no
snapshot of `/readyz`: when the API is asked, the run has done all of its statements, so what the
first read saw is still true at the second. `AlwaysRepairs` is the safety half of `Heals`: whatever
stopped runs have left, the checks of a run pass and the API it has started is ready once its statements
are done, so what can still end it is the guard, an edited manifest or a fault of its own time.

With two operators most of these theorems fail, as `installation_race` shows for one of them.
`OperatorsProofs` proves what is left, for any number of operators and migrations:

| Theorem | Statement |
|---|---|
| `LastingInvariance` | `Spec => []LastingInv` |
| `Implements` | `Spec => DesiredSpec` |
| `SuccessStays` | `Spec => []SuccessLasts` |

`LastingInv` is `EffectsInv` without what may be taken back: after statement i of any run the role it
provisioned exists, the history it migrated is full, and those of its privileges that are
`Lasting` are granted and those that are `Closed` are not. It is inductive because no statement of
`Program` revokes a lasting privilege or grants a closed one (`RevokesNoneLasting`), roles
are never dropped, and histories only grow. `Implements` shows of every step that the facts it
brings about are wanted and rest on facts that are there - a grant on tables comes after the run's own
`Migrate` found nothing missing - and that a run only succeeds with all of its statements behind it.

Only model-checked: `Progress`, `RecordsSettle`, `CallsEnd`, `VerificationEnds`, `Heals` and
`Terminates` (liveness under fairness is out of the prover's reach).

## Not modelled

Manifest parsing (in `Installation` a manifest is valid or not; `ManifestValidation` says what makes
it valid once it is parsed), text of errors and redaction of
secrets, role names and URLs, the HTTP routes other than `/readyz`, the Protobuf contract, the
build and the scripts. `attach_database`, `close_databases` and `parse_configuration` run once, before the
first request or after the last. PostgreSQL's own failures beyond a statement that
fails, and a volume that was initialized with another operations password, are named in
the hazards and not modelled: the former is a `Fail` of the run, the latter is decided by the entrypoint
of the PostgreSQL image. The documents on M1, M2 and the plugin platform describe
code that does not exist yet.

## Plan

In order of importance:

1. `Outbox`, `OrderedDelivery`, `ManifestValidation`, `Producer`, `RecordDelivery`, `Verification` and
   `Installation`, each with its proofs - done.
2. `DesiredState`, what operators can rely on when their runs overlap - done.
3. What the API does while operators overlap: which of them may be told that it is ready.
4. Two schemas with an outbox each, once a second module exists, and the dispatcher loop of a host,
   once there is one: its fairness is assumed here and could then be shown.
