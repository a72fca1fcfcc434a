----------------------------- MODULE Installation -----------------------------
(***************************************************************************)
(* One Docker Compose installation: runs of bc reconcile                   *)
(* (core/src/reconcile.rs), the migrate container they start               *)
(* (core/src/bin/migrate.rs, core/src/database.rs), the API container      *)
(* (core/src/main.rs) and the database they share.                         *)
(*                                                                         *)
(* migrate_installation is no transaction: each of its statements commits  *)
(* on its own, so the module runs it as a program of statements that may   *)
(* stop between any two.  The manifest is one file that the reconciler,    *)
(* the migrate container and the API container each read for themselves.   *)
(***************************************************************************)
EXTENDS Integers, Sequences

CONSTANTS
  Runner,         \* operators that may run bc reconcile at the same time
  Secret,         \* resolved values of the runtime passwords
  Migrations,     \* [schema -> number of migrations in this release]
  NULL

Role    == {"ready", "example", "dispatcher"}
Schema  == {"bc_shared", "bc_example"}
Manifest == {"with example", "without modules", "invalid"}

ASSUME SecretAssumption == NULL \notin Secret
ASSUME MigrationsAssumption == Migrations \in [Schema -> Nat \ {0}]

VARIABLES
  file,       \* content of the manifest file
  phase,      \* [Runner -> phase of its reconcile]
  step,       \* [Runner -> statement of Program its migrate container is at]
  enabled,    \* [Runner -> example_enabled as its migrate container read it]
  secrets,    \* [Runner -> passwords it resolved]
  password,   \* [Role -> password of the login role, NULL when it does not exist]
  granted,    \* pairs of a role (or "public") and what it may do
  applied,    \* [Schema -> successful rows of its _sqlx_migrations]
  api         \* the API container

database == <<password, granted, applied>>
run      == <<phase, step, enabled, secrets>>
vars     == <<file, run, database, api>>

NoApi == [state |-> "absent", secrets |-> NULL, example |-> FALSE, open |-> {}]

Init ==
  /\ file \in Manifest
  /\ phase = [r \in Runner |-> "idle"]
  /\ step = [r \in Runner |-> 0]
  /\ enabled = [r \in Runner |-> FALSE]
  /\ secrets = [r \in Runner |-> NULL]
  /\ password = [x \in Role |-> NULL]
  /\ granted = {<<"public", "connect">>, <<"public", "use schema public">>}
  /\ applied = [s \in Schema |-> 0]
  /\ api = NoApi

-------------------------------------------------------------------------------
(* migrate_installation *)

Guarding         == [do |-> "guard", role |-> "public"]
Provisioning(x)  == [do |-> "provision", role |-> x]
Migrating(s, x)  == [do |-> "migrate", role |-> x, schema |-> s]
Granting(x, ps)  == [do |-> "grant", role |-> x, what |-> {<<x, p>> : p \in ps}]
Revoking(x, ps)  == [do |-> "revoke", role |-> x, what |-> {<<x, p>> : p \in ps}]
Checking(x)      == [do |-> "check", role |-> x]

HistoryWritable == Granting("example", {"read history"})   \* mutant: the history stays writable

HistoryTaken ==   \* mutant: ALL of the history is revoked, its SELECT too
  Revoking("example", {"read history", "write history"})

\* Takes the module's history out of the grant on ALL TABLES before it.
HistoryReadOnly == Revoking("example", {"write history"})

\* The statements in their order.  Those for the example module and the
\* dispatcher are left out when the manifest does not enable the module.
Program == <<
  Guarding,
  Provisioning("ready"), Provisioning("example"), Provisioning("dispatcher"),
  Revoking("public", {"connect"}), Revoking("public", {"use schema public"}),
  Granting("ready", {"connect"}), Granting("example", {"connect"}),
  Granting("dispatcher", {"connect"}),
  Migrating("bc_shared", "ready"), Granting("ready", {"read history"}),
  Migrating("bc_example", "example"),
  Granting("example", {"read history", "write history", "use tables"}), HistoryReadOnly,
  Revoking("dispatcher", {"use outbox"}), Granting("dispatcher", {"use outbox"}),
  Checking("ready"), Checking("example"), Checking("dispatcher") >>

InProgram(i, withExample) == withExample \/ Program[i].role \in {"public", "ready"}

\* The statement after i, or one past the end.
Following(i, withExample) ==
  CHOOSE j \in i + 1 .. Len(Program) + 1 :
    /\ j <= Len(Program) => InProgram(j, withExample)
    /\ \A k \in i + 1 .. j - 1 : ~InProgram(k, withExample)

At(r, what) == phase[r] = "migrate" /\ step[r] <= Len(Program) /\ Program[step[r]].do = what
Advance(r)  == step' = [step EXCEPT ![r] = Following(@, enabled[r])]

EmptyHistoryCounts == password["example"] # NULL   \* mutant: a leftover role counts as initialized

FullHistoryCounts == applied["bc_example"] = Migrations["bc_example"]   \* mutant: all of its rows

\* module_is_initialized: the history table holds a successful row.
Initialized == applied["bc_example"] > 0

GuardPasses(r) ==
  /\ At(r, "guard")
  /\ enabled[r] \/ ~Initialized
  /\ Advance(r)
  /\ UNCHANGED <<file, phase, enabled, secrets, database, api>>

\* The run of r is over without success.
End(r) ==
  /\ phase' = [phase EXCEPT ![r] = "error"]
  /\ step' = [step EXCEPT ![r] = 0]
  /\ enabled' = [enabled EXCEPT ![r] = FALSE]
  /\ secrets' = [secrets EXCEPT ![r] = NULL]

\* "initialized module 'example' cannot be removed in M0"
GuardRejects(r) ==
  /\ At(r, "guard")
  /\ ~enabled[r] /\ Initialized
  /\ End(r)
  /\ UNCHANGED <<file, database, api>>

\* CREATE ROLE ... PASSWORD, or ALTER ROLE ... PASSWORD when the role exists.
Provision(r) ==
  /\ At(r, "provision")
  /\ password' = [password EXCEPT ![Program[step[r]].role] = secrets[r]]
  /\ Advance(r)
  /\ UNCHANGED <<file, phase, enabled, secrets, granted, applied, api>>

Grant(r) ==
  /\ At(r, "grant")
  /\ granted' = granted \cup Program[step[r]].what
  /\ Advance(r)
  /\ UNCHANGED <<file, phase, enabled, secrets, password, applied, api>>

Revoke(r) ==
  /\ At(r, "revoke")
  /\ granted' = granted \ Program[step[r]].what
  /\ Advance(r)
  /\ UNCHANGED <<file, phase, enabled, secrets, password, applied, api>>

Missing(s) == applied[s] < Migrations[s]

MigratesAgain(r) ==   \* mutant: migrations run without a look at the history
  /\ At(r, "migrate")
  /\ applied' = [applied EXCEPT ![Program[step[r]].schema] = @ + 1]
  /\ Advance(r)
  /\ UNCHANGED <<file, phase, enabled, secrets, password, granted, api>>

MigratesOnce(r) ==   \* mutant: a run applies the next migration only
  /\ At(r, "migrate")
  /\ LET s == Program[step[r]].schema IN
       applied' = [applied EXCEPT ![s] = IF Missing(s) THEN @ + 1 ELSE @]
  /\ Advance(r)
  /\ UNCHANGED <<file, phase, enabled, secrets, password, granted, api>>

\* MIGRATOR.run applies what is missing under an advisory lock, each migration
\* with its history row in a transaction of its own.
Migrate(r) ==
  /\ At(r, "migrate")
  /\ LET s == Program[step[r]].schema IN
       \/ /\ Missing(s)
          /\ applied' = [applied EXCEPT ![s] = @ + 1]
          /\ UNCHANGED step
       \/ /\ ~Missing(s)
          /\ Advance(r)
          /\ UNCHANGED applied
  /\ UNCHANGED <<file, phase, enabled, secrets, password, granted, api>>

\* ensure_role_is_scoped: the role can use no schema but its own, not even public.
\* Otherwise the run ends in an error (Fail).
Check(r) ==
  /\ At(r, "check")
  /\ <<"public", "use schema public">> \notin granted
  /\ Advance(r)
  /\ UNCHANGED <<file, phase, enabled, secrets, database, api>>

-------------------------------------------------------------------------------
(* reconcile *)

\* The manifest is valid, composes and has its secrets; PostgreSQL comes up.
Begin(r) ==
  /\ phase[r] \in {"idle", "ok", "error"}
  /\ file # "invalid"
  /\ \E p \in Secret : secrets' = [secrets EXCEPT ![r] = p]
  /\ phase' = [phase EXCEPT ![r] = "planned"]
  /\ step' = [step EXCEPT ![r] = 0]
  /\ enabled' = [enabled EXCEPT ![r] = FALSE]
  /\ UNCHANGED <<file, database, api>>

\* The migrate container starts and reads the manifest for itself.
StartMigrate(r) ==
  /\ phase[r] = "planned"
  /\ file # "invalid"
  /\ phase' = [phase EXCEPT ![r] = "migrate"]
  /\ step' = [step EXCEPT ![r] = 1]
  /\ enabled' = [enabled EXCEPT ![r] = (file = "with example")]
  /\ UNCHANGED <<file, secrets, database, api>>

\* up --force-recreate: the old container goes, the new one gets the secrets of this run.
StartApi(r) ==
  /\ phase[r] = "migrate" /\ step[r] = Len(Program) + 1
  /\ phase' = [q \in Runner |-> IF q = r \/ phase[q] = "asked" THEN "verify" ELSE phase[q]]
  /\ api' = [NoApi EXCEPT !.state = "starting", !.secrets = secrets[r]]
  /\ UNCHANGED <<file, step, enabled, secrets, database>>

\* What the API needs to answer 200: for each of its pools an open connection or
\* a login that works, and the full history behind it.
RoleSchema(x) == IF x = "ready" THEN "bc_shared" ELSE "bc_example"
Pools == {"ready"} \cup (IF api.example THEN {"example"} ELSE {})
CanLogin(x) ==
  /\ password[x] = api.secrets
  /\ {<<x, "connect">>, <<"public", "connect">>} \cap granted # {}
Reachable(x) == x \in api.open \/ CanLogin(x)

ReachableIsReady(x) == Reachable(x)   \* mutant: readiness without the history

PoolReady(x) ==
  /\ Reachable(x)
  /\ <<x, "read history">> \in granted
  /\ applied[RoleSchema(x)] = Migrations[RoleSchema(x)]

Ready == api.state = "running" /\ \A x \in Pools : PoolReady(x)

\* verify_ready asks whatever API listens on the port, which reads the shared
\* history first.
AskShared(r) ==
  /\ phase[r] = "verify"
  /\ api.state = "running" /\ PoolReady("ready")
  /\ phase' = [phase EXCEPT ![r] = "asked"]
  /\ api' = [api EXCEPT !.open = @ \cup {"ready"}]
  /\ UNCHANGED <<file, step, enabled, secrets, database>>

\* The API reads the histories of its modules, and answers 200.
VerifyReady(r) ==
  /\ phase[r] = "asked"
  /\ \A x \in Pools \ {"ready"} : PoolReady(x)
  /\ phase' = [phase EXCEPT ![r] = "ok"]
  /\ api' = [api EXCEPT !.open = @ \cup (Pools \ {"ready"})]
  /\ UNCHANGED <<file, step, enabled, secrets, database>>

\* The answer is another one, or comes too late, and verify_ready asks again.
AskAgain(r) ==
  /\ phase[r] = "asked"
  /\ phase' = [phase EXCEPT ![r] = "verify"]
  /\ UNCHANGED <<file, step, enabled, secrets, database, api>>

\* The connections to the API break.
Unanswered == phase' = [r \in Runner |-> IF phase[r] = "asked" THEN "verify" ELSE phase[r]]

\* 90 seconds pass and the API that came up is not ready.
VerifyTimeout(r) ==
  /\ phase[r] \in {"verify", "asked"}
  /\ api.state \in {"running", "exited"}
  /\ ~Ready
  /\ End(r)
  /\ UNCHANGED <<file, database, api>>

\* The run ends in an error at any point: a manifest that is no longer valid, a
\* statement or container that fails, an API too slow to come up, a killed process.
Fail(r) ==
  /\ phase[r] \in {"planned", "migrate", "verify", "asked"}
  /\ End(r)
  /\ UNCHANGED <<file, database, api>>

-------------------------------------------------------------------------------
(* The API container, and the operator's editor *)

\* main reads the manifest, composes its modules and opens its pools lazily.
Boot ==
  /\ api.state = "starting"
  /\ api' = IF file = "invalid"
            THEN [api EXCEPT !.state = "exited"]
            ELSE [api EXCEPT !.state = "running", !.example = (file = "with example"), !.open = {}]
  /\ UNCHANGED <<file, run, database>>

\* The container is restarted with the environment it was created with.
Restart ==
  /\ api.state \in {"running", "exited"}
  /\ api' = [api EXCEPT !.state = "starting", !.open = {}]
  /\ Unanswered
  /\ UNCHANGED <<file, step, enabled, secrets, database>>

\* The pools open connections on demand, and lose them again.
Connect(x) ==
  /\ api.state = "running" /\ x \in Pools /\ CanLogin(x)
  /\ api' = [api EXCEPT !.open = @ \cup {x}]
  /\ UNCHANGED <<file, run, database>>

Disconnect ==
  /\ api.open # {}
  /\ api' = [api EXCEPT !.open = {}]
  /\ UNCHANGED <<file, run, database>>

Edit(m) ==
  /\ file # m
  /\ file' = m
  /\ UNCHANGED <<run, database, api>>

-------------------------------------------------------------------------------
Statement(r) ==
  \/ GuardPasses(r) \/ GuardRejects(r) \/ Provision(r)
  \/ Grant(r) \/ Revoke(r) \/ Migrate(r) \/ Check(r)

reconcile(r) == Begin(r) \/ StartMigrate(r) \/ Statement(r) \/ StartApi(r)
                \/ AskShared(r) \/ VerifyReady(r) \/ VerifyTimeout(r)

Next ==
  \/ \E r \in Runner : reconcile(r) \/ AskAgain(r) \/ Fail(r)
  \/ Boot \/ Restart \/ Disconnect
  \/ \E x \in Role : Connect(x)
  \/ \E m \in Manifest : Edit(m)

Spec == Init /\ [][Next]_vars

\* The operator runs bc reconcile again and again, a container that was created
\* starts, an API that is ready is not too late every time it is asked, and the
\* 90 seconds pass.
FairSpec ==
  /\ Spec /\ WF_vars(Boot)
  /\ \A r \in Runner :
       WF_vars(reconcile(r)) /\ SF_vars(VerifyReady(r)) /\ WF_vars(VerifyTimeout(r))

-------------------------------------------------------------------------------
(* Properties *)

\* The variables hold values of their kind; no schema has more migrations than
\* the release.
TypeOK ==
  /\ file \in Manifest
  /\ phase \in [Runner -> {"idle", "planned", "migrate", "verify", "asked", "ok", "error"}]
  /\ step \in [Runner -> 0 .. Len(Program) + 1]
  /\ enabled \in [Runner -> BOOLEAN]
  /\ secrets \in [Runner -> Secret \cup {NULL}]
  /\ password \in [Role -> Secret \cup {NULL}]
  /\ granted \subseteq (Role \cup {"public"}) \X
       {"connect", "use schema public", "read history", "write history", "use tables", "use outbox"}
  /\ applied \in [Schema -> Nat] /\ \A s \in Schema : applied[s] <= Migrations[s]
  /\ api \in [state : {"absent", "starting", "running", "exited"},
              secrets : Secret \cup {NULL}, example : BOOLEAN, open : SUBSET Role]

RolesOf(r) == {"ready"} \cup (IF enabled[r] THEN {"example", "dispatcher"} ELSE {})

\* A successful run leaves the database as it wants it, whatever runs that
\* stopped between two statements left behind: its passwords, its grants and
\* nothing wider, and the full histories.
Converged ==
  \A r \in Runner : phase[r] = "ok" =>
    /\ \A x \in RolesOf(r) : password[x] = secrets[r] /\ <<x, "connect">> \in granted
    /\ <<"ready", "read history">> \in granted
    /\ applied["bc_shared"] = Migrations["bc_shared"]
    /\ enabled[r] =>
         /\ {<<"example", "read history">>, <<"example", "use tables">>,
             <<"dispatcher", "use outbox">>} \subseteq granted
         /\ applied["bc_example"] = Migrations["bc_example"]
    /\ {<<"example", "write history">>, <<"public", "connect">>} \cap granted = {}

\* Whatever stopped runs have left behind, a run does not fail for it: the checks it
\* makes of its roles find nothing wider, and once its statements are done, the API
\* it has started is ready, unless that has read a manifest with more modules.
Repairs ==
  \A r \in Runner :
    /\ At(r, "check") => <<"public", "use schema public">> \notin granted
    /\ phase[r] \in {"verify", "asked"} /\ api.state = "running" /\ (api.example => enabled[r])
         => Ready

\* A run that would remove the initialized module changes neither the database nor
\* the API (database.rs lines 63-65).
RemovalChangesNothing ==
  [][\A r \in Runner :
       phase[r] = "migrate" /\ ~enabled[r] /\ applied["bc_example"] > 0
       /\ <<phase[r], step[r]>>' # <<phase[r], step[r]>>
         => UNCHANGED <<database, api>>]_vars

\* A run reports success only when the API that answered is the one it started
\* and works: with the secrets of the run it can log in as every role it needs
\* and finds their full histories, although the manifest it has composed may not
\* be the one the migrations ran for (verify_ready, readyz).
ReadyIsTrue ==
  [][\A r \in Runner :
       phase[r] # "ok" /\ phase'[r] = "ok" =>
         /\ api.secrets = secrets[r]
         /\ \A x \in Pools : CanLogin(x) /\ applied[RoleSchema(x)] = Migrations[RoleSchema(x)]]_vars

\* What statements of one kind that r has run since statement i grant or revoke.
Since(r, i, kind) ==
  UNION {Program[j].what : j \in {k \in i + 1 .. step[r] - 1 :
                                    InProgram(k, enabled[r]) /\ Program[k].do = kind}}

\* What statement i of r did still holds, but for what r has changed since.
InForce(r, i) == LET s == Program[i] IN
  /\ s.do = "provision" => password[s.role] = secrets[r]
  /\ s.do = "migrate" => applied[s.schema] = Migrations[s.schema]
  /\ s.do = "grant" => s.what \ Since(r, i, "revoke") \subseteq granted
  /\ s.do = "revoke" => s.what \cap granted \subseteq Since(r, i, "grant")

\* Where a run stands, and the API it has started.
RunInv(r) ==
  /\ phase[r] \in {"idle", "planned", "error"} <=> step[r] = 0
  /\ phase[r] \in {"verify", "asked", "ok"} => step[r] = Len(Program) + 1
  /\ step[r] \in 1 .. Len(Program) => InProgram(step[r], enabled[r])
  /\ step[r] > 1 /\ ~enabled[r] => applied["bc_example"] = 0
  /\ phase[r] \in {"verify", "asked", "ok"} =>
       api.secrets = secrets[r] /\ \A x \in api.open : CanLogin(x)

EffectsInv(r) == \A i \in 1 .. step[r] - 1 : InProgram(i, enabled[r]) => InForce(r, i)

\* The inductive invariant of an installation with one operator, behind the
\* theorems of InstallationProofs.  The example module can write to its history
\* only when that counts it as initialized: no run without the module gets past
\* the guard and leaves it so.
Inv ==
  /\ TypeOK
  /\ <<"example", "write history">> \in granted => applied["bc_example"] > 0
  /\ \A r \in Runner : RunInv(r) /\ EffectsInv(r)

-------------------------------------------------------------------------------
(* Any number of operators.  The passwords, the outbox rights of the        *)
(* dispatcher and the write right taken back are not among the facts that   *)
(* last: each run sets them anew, between two statements of another one.    *)

\* The privileges no statement takes back, and those that none gives back.
Lasting ==
  {<<x, "connect">> : x \in Role}
  \cup {<<"ready", "read history">>, <<"example", "read history">>, <<"example", "use tables">>}
Closed == {<<"public", "connect">>, <<"public", "use schema public">>}

Applied(s, n) == {<<"applied", <<s, k>>>> : k \in 1 .. n}

Fact ==
  ({"role"} \X Role) \cup ({"granted"} \X Lasting) \cup ({"closed"} \X Closed)
  \cup UNION {Applied(s, Migrations[s]) : s \in Schema}

Facts ==
  ({"role"} \X {x \in Role : password[x] # NULL})
  \cup ({"granted"} \X (Lasting \cap granted)) \cup ({"closed"} \X (Closed \ granted))
  \cup UNION {Applied(s, applied[s]) : s \in Schema}

\* What a run with or without the example module is for.
Wanted(withExample) ==
  IF withExample THEN Fact
  ELSE {<<"role", "ready">>, <<"granted", <<"ready", "connect">>>>,
        <<"granted", <<"ready", "read history">>>>}
       \cup ({"closed"} \X Closed) \cup Applied("bc_shared", Migrations["bc_shared"])

\* A privilege is for a role, and one on tables for tables whose migrations are
\* complete; a migration comes after those before it.
Needs == [f \in Fact |->
  CASE f[1] = "granted" ->
         {<<"role", f[2][1]>>}
         \cup (IF f[2][2] = "connect" THEN {}
               ELSE Applied(RoleSchema(f[2][1]), Migrations[RoleSchema(f[2][1])]))
    [] f[1] = "applied" -> Applied(f[2][1], f[2][2] - 1)
    [] OTHER -> {}]

\* A run at the migrate container or after knows what it wants.
Knows    == {"migrate", "verify", "asked", "ok"}
Outcome  == [r \in Runner |-> IF phase[r] \in Knows \ {"ok"} THEN "working" ELSE phase[r]]
WantedBy == [r \in Runner |-> IF phase[r] \in Knows THEN Wanted(enabled[r]) ELSE {}]

\* Reconciliation is what the abstract specification says, also when runs overlap:
\* what any run has brought about stays, no role gets at the tables of a history
\* that is not full, and a run that succeeds finds all it wanted.
Desired == INSTANCE DesiredState WITH
  Wish <- {Wanted(b) : b \in BOOLEAN}, outcome <- Outcome, wanted <- WantedBy, facts <- Facts

DesiredSpec == Desired!Spec

\* The facts a successful run wanted hold until its operator runs again: no run
\* that overlaps it or comes later undoes them (database.rs, migrate_installation).
SuccessLasts == Desired!SuccessLasts

\* What lasts of statement i.
Lasts(i) == LET s == Program[i] IN
  /\ s.do = "provision" => password[s.role] # NULL
  /\ s.do = "migrate" => applied[s.schema] = Migrations[s.schema]
  /\ s.do = "grant" => s.what \cap Lasting \subseteq granted
  /\ s.do = "revoke" => s.what \cap Closed \cap granted = {}

\* The inductive invariant for any number of operators, behind the theorems of
\* OperatorsProofs: whatever the others have done since, what a run has passed
\* still lasts.
LastingInv ==
  /\ TypeOK
  /\ \A r \in Runner :
       /\ phase[r] \in {"idle", "planned", "error"} <=> step[r] = 0
       /\ phase[r] \in {"verify", "asked", "ok"} => step[r] = Len(Program) + 1
       /\ step[r] \in 1 .. Len(Program) => InProgram(step[r], enabled[r])
       /\ phase[r] \in {"planned", "migrate"} => secrets[r] # NULL
       /\ \A i \in 1 .. step[r] - 1 : InProgram(i, enabled[r]) => Lasts(i)

\* The API starts with every module the database holds (docs/adr/0001).
ApiKeepsModules ==
  [][api.state = "starting" /\ api'.state = "running" /\ applied["bc_example"] > 0
       => api'.example]_vars

\* Steps that are neither a fault nor the operator's doing.
Undisturbed ==
  \/ \E r \in Runner : reconcile(r) \/ AskAgain(r)
  \/ Boot \/ Disconnect \/ \E x \in Role : Connect(x)

\* Once faults and edits cease, with a manifest that removes no initialized
\* module, reconciliation succeeds again and again: no partial state is beyond
\* repair, and a first install that was interrupted may be given up.
Heals ==
  /\ <>[][Undisturbed]_vars
  /\ <>[](\/ file = "with example"
          \/ file = "without modules" /\ applied["bc_example"] = 0)
  => \A r \in Runner : []<>(phase[r] = "ok")
===============================================================================
