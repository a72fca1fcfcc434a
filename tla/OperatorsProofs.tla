---------------------------- MODULE OperatorsProofs ----------------------------
(***************************************************************************)
(* Theorems about an installation with any number of operators whose runs  *)
(* of bc reconcile overlap: what any of them has brought about lasts, and  *)
(* Installation implements DesiredState.                                   *)
(***************************************************************************)
EXTENDS InstallationProofs

USE SecretAssumption, MigrationsAssumption

-------------------------------------------------------------------------------
(* What the statements give and take for good *)

LEMMA InLasting ==
  \A x, p : <<x, p>> \in Lasting <=>
    \/ p = "connect" /\ x \in Role
    \/ p = "read history" /\ x \in {"ready", "example"}
    \/ p = "use tables" /\ x = "example"
BY DEF Lasting

LEMMA InClosed ==
  \A x, p : <<x, p>> \in Closed <=> x = "public" /\ p \in {"connect", "use schema public"}
BY DEF Closed

\* The privileges each statement names.
LEMMA Named ==
  /\ Program[5].what = {<<"public", "connect">>}
  /\ Program[6].what = {<<"public", "use schema public">>}
  /\ Program[7].what = {<<"ready", "connect">>}
  /\ Program[8].what = {<<"example", "connect">>}
  /\ Program[9].what = {<<"dispatcher", "connect">>}
  /\ Program[11].what = {<<"ready", "read history">>}
  /\ Program[13].what = {<<"example", "read history">>, <<"example", "write history">>,
                         <<"example", "use tables">>}
  /\ Program[14].what = {<<"example", "write history">>}
  /\ Program[15].what = {<<"dispatcher", "use outbox">>}
  /\ Program[16].what = {<<"dispatcher", "use outbox">>}
<1>1. /\ Revoking("public", {"connect"}).what = {<<"public", "connect">>}
      /\ Revoking("public", {"use schema public"}).what = {<<"public", "use schema public">>}
      /\ Revoking("example", {"write history"}).what = {<<"example", "write history">>}
      /\ Revoking("dispatcher", {"use outbox"}).what = {<<"dispatcher", "use outbox">>}
  BY DEF Revoking
<1>2. /\ Granting("ready", {"connect"}).what = {<<"ready", "connect">>}
      /\ Granting("example", {"connect"}).what = {<<"example", "connect">>}
      /\ Granting("dispatcher", {"connect"}).what = {<<"dispatcher", "connect">>}
      /\ Granting("ready", {"read history"}).what = {<<"ready", "read history">>}
      /\ Granting("dispatcher", {"use outbox"}).what = {<<"dispatcher", "use outbox">>}
  BY DEF Granting
<1>3. Granting("example", {"read history", "write history", "use tables"}).what
        = {<<"example", "read history">>, <<"example", "write history">>,
           <<"example", "use tables">>}
  BY DEF Granting
<1> QED
  BY <1>1, <1>2, <1>3, WhatIs, Zenon

\* No statement takes a lasting privilege back.
LEMMA RevokesNoneLasting ==
  \A i \in {5, 6, 14, 15} : Program[i].what \cap Lasting = {}
<1>1. <<"public", "connect">> \notin Lasting
  BY DEF Lasting, Role
<1>2. <<"public", "use schema public">> \notin Lasting
  BY DEF Lasting, Role
<1>3. <<"example", "write history">> \notin Lasting
  BY DEF Lasting, Role
<1>4. <<"dispatcher", "use outbox">> \notin Lasting
  BY DEF Lasting, Role
<1>5. /\ Program[5].what \cap Lasting = {} /\ Program[6].what \cap Lasting = {}
      /\ Program[14].what \cap Lasting = {} /\ Program[15].what \cap Lasting = {}
  BY <1>1, <1>2, <1>3, <1>4, Named
<1> QED
  BY <1>5

\* No statement gives the public a privilege.
LEMMA GrantsNoneClosed ==
  \A i \in {7, 8, 9, 11, 13, 16} : Program[i].what \cap Closed = {}
<1>1. \A x \in Role, p \in Rights : <<x, p>> \notin Closed
  BY InClosed DEF Role
<1>2. /\ <<"ready", "connect">> \notin Closed /\ <<"example", "connect">> \notin Closed
      /\ <<"dispatcher", "connect">> \notin Closed /\ <<"ready", "read history">> \notin Closed
      /\ <<"dispatcher", "use outbox">> \notin Closed
  BY <1>1 DEF Role, Rights
<1>3. /\ <<"example", "read history">> \notin Closed
      /\ <<"example", "write history">> \notin Closed
      /\ <<"example", "use tables">> \notin Closed
  BY <1>1 DEF Role, Rights
<1>4. /\ Program[7].what \cap Closed = {} /\ Program[8].what \cap Closed = {}
      /\ Program[9].what \cap Closed = {} /\ Program[11].what \cap Closed = {}
  BY <1>2, Named
<1>5. Program[13].what \cap Closed = {} /\ Program[16].what \cap Closed = {}
  BY <1>2, <1>3, Named
<1> QED
  BY <1>4, <1>5

\* What each grant gives for good.
LEMMA GrantIs ==
  /\ Program[7].what \cap Lasting = {<<"ready", "connect">>}
  /\ Program[8].what \cap Lasting = {<<"example", "connect">>}
  /\ Program[9].what \cap Lasting = {<<"dispatcher", "connect">>}
  /\ Program[11].what \cap Lasting = {<<"ready", "read history">>}
  /\ Program[13].what \cap Lasting = {<<"example", "read history">>, <<"example", "use tables">>}
  /\ Program[16].what \cap Lasting = {}
<1>1. <<"ready", "connect">> \in Lasting
  BY DEF Lasting, Role
<1>2. <<"example", "connect">> \in Lasting
  BY DEF Lasting, Role
<1>3. <<"dispatcher", "connect">> \in Lasting
  BY DEF Lasting, Role
<1>4. <<"ready", "read history">> \in Lasting
  BY DEF Lasting
<1>5. <<"example", "read history">> \in Lasting /\ <<"example", "use tables">> \in Lasting
  BY DEF Lasting
<1>6. <<"example", "write history">> \notin Lasting
  BY DEF Lasting, Role
<1>7. <<"dispatcher", "use outbox">> \notin Lasting
  BY DEF Lasting, Role
<1>8. /\ Program[7].what \cap Lasting = {<<"ready", "connect">>}
      /\ Program[8].what \cap Lasting = {<<"example", "connect">>}
      /\ Program[9].what \cap Lasting = {<<"dispatcher", "connect">>}
  BY <1>1, <1>2, <1>3, Named
<1>9. /\ Program[11].what \cap Lasting = {<<"ready", "read history">>}
      /\ Program[16].what \cap Lasting = {}
  BY <1>4, <1>7, Named
<1>10. Program[13].what \cap Lasting
         = {<<"example", "read history">>, <<"example", "use tables">>}
  BY <1>5, <1>6, Named
<1> QED
  BY <1>8, <1>9, <1>10

-------------------------------------------------------------------------------
(* What is true of the database stays so *)

\* The parts of LastingInv about one run.
Sound(r) ==
  /\ phase[r] \in {"idle", "planned", "error"} <=> step[r] = 0
  /\ phase[r] \in {"verify", "asked", "ok"} => step[r] = 20
  /\ step[r] \in 1 .. 19 => InProgram(step[r], enabled[r])
  /\ phase[r] \in {"planned", "migrate"} => secrets[r] # NULL
  /\ \A i \in 1 .. step[r] - 1 : InProgram(i, enabled[r]) => Lasts(i)

LEMMA LastingParts ==
  /\ LastingInv <=> TypeOK /\ \A r \in Runner : Sound(r)
  /\ LastingInv' <=> TypeOK' /\ \A r \in Runner : Sound(r)'
<1>0. Len(Program) = 19 /\ Len(Program) + 1 = 20
  BY ProgramLength
<1>1. LastingInv <=> TypeOK /\ \A r \in Runner : Sound(r)
  BY <1>0, Zenon DEF LastingInv, Sound
<1>2. LastingInv' <=> TypeOK' /\ \A r \in Runner : Sound(r)'
  BY <1>0, Zenon DEF LastingInv, Sound
<1> QED
  BY <1>1, <1>2

\* Roles, migrations and lasting privileges are never undone.
Stays ==
  /\ \A x \in Role : password[x] # NULL => password'[x] # NULL
  /\ \A s \in Schema : applied[s] <= applied'[s]
  /\ Lasting \cap granted \subseteq granted'
  /\ Closed \cap granted' \subseteq granted

\* The run that takes a statement: where it is.
LEMMA AtSound ==
  ASSUME LastingInv, NEW r \in Runner, NEW what, At(r, what)
  PROVE  /\ phase[r] = "migrate" /\ step[r] \in 1 .. 19 /\ Program[step[r]].do = what
         /\ InProgram(step[r], enabled[r]) /\ enabled[r] \in BOOLEAN
         /\ secrets[r] \in Secret /\ secrets[r] # NULL
         /\ \A i \in 1 .. step[r] - 1 : InProgram(i, enabled[r]) => Lasts(i)
<1>1. RunsOK /\ Sound(r)
  BY LastingParts, Parts
<1>2. phase[r] = "migrate"
  BY DEF At
<1>3. step[r] # 0
  BY <1>1, <1>2 DEF Sound
<1>4. step[r] \in 1 .. 19 /\ Program[step[r]].do = what
  BY <1>1, <1>3, AtOK
<1> QED
  BY <1>1, <1>2, <1>4 DEF Sound, RunsOK

LEMMA UnchangedStays ==
  ASSUME TypeOK, UNCHANGED database
  PROVE  Stays
<1>1. AppliedOK
  BY Parts
<1> QED
  BY <1>1 DEF Stays, database, AppliedOK

\* However many runs overlap, no statement of any of them undoes a lasting fact.
LEMMA StatementStays ==
  ASSUME LastingInv, NEW r \in Runner, Statement(r)
  PROVE  Stays
<1>0. PasswordOK /\ AppliedOK
  BY LastingParts, Parts
<1>1. CASE GuardPasses(r) \/ GuardRejects(r) \/ Check(r)
  <2>1. UNCHANGED database
    BY <1>1 DEF GuardPasses, GuardRejects, Check
  <2> QED
    BY <2>1, UnchangedStays, LastingParts
<1>2. CASE Provision(r)
  <2>1. /\ At(r, "provision") /\ UNCHANGED <<granted, applied>>
        /\ password' = [password EXCEPT ![Program[step[r]].role] = secrets[r]]
    BY <1>2 DEF Provision
  <2>2. secrets[r] # NULL
    BY <2>1, AtSound
  <2> QED
    BY <1>0, <2>1, <2>2 DEF Stays, PasswordOK, AppliedOK
<1>3. CASE Grant(r)
  <2>1. /\ At(r, "grant") /\ UNCHANGED <<password, applied>>
        /\ granted' = granted \cup Program[step[r]].what
    BY <1>3 DEF Grant
  <2>2. step[r] \in 1 .. 19 /\ Program[step[r]].do = "grant"
    BY <2>1, AtSound
  <2>3. step[r] \in {7, 8, 9, 11, 13, 16}
    BY <2>2, Positions, KindOf
  <2>4. Program[step[r]].what \cap Closed = {}
    BY <2>3, GrantsNoneClosed
  <2> QED
    BY <1>0, <2>1, <2>4 DEF Stays, AppliedOK
<1>4. CASE Revoke(r)
  <2>1. /\ At(r, "revoke") /\ UNCHANGED <<password, applied>>
        /\ granted' = granted \ Program[step[r]].what
    BY <1>4 DEF Revoke
  <2>2. step[r] \in 1 .. 19 /\ Program[step[r]].do = "revoke"
    BY <2>1, AtSound
  <2>3. step[r] \in {5, 6, 14, 15}
    BY <2>2, Positions, KindOf
  <2>4. Program[step[r]].what \cap Lasting = {}
    BY <2>3, RevokesNoneLasting
  <2> QED
    BY <1>0, <2>1, <2>4 DEF Stays, AppliedOK
<1>5. CASE Migrate(r)
  <2> DEFINE s == Program[step[r]].schema
  <2>1. /\ At(r, "migrate") /\ UNCHANGED <<password, granted>>
        /\ applied' = [applied EXCEPT ![s] = @ + 1] \/ UNCHANGED applied
    BY <1>5 DEF Migrate
  <2>2. \A x \in Schema : applied[x] <= applied'[x]
    BY <1>0, <2>1 DEF AppliedOK
  <2> QED
    BY <2>1, <2>2 DEF Stays
<1> QED
  BY <1>1, <1>2, <1>3, <1>4, <1>5 DEF Statement

LEMMA NextStays ==
  ASSUME LastingInv, Next
  PROVE  Stays
<1>1. ASSUME NEW r \in Runner, Statement(r) PROVE Stays
  BY <1>1, StatementStays
<1>2. ASSUME NEW r \in Runner,
             \/ Begin(r) \/ StartMigrate(r) \/ StartApi(r) \/ AskShared(r) \/ VerifyReady(r)
             \/ AskAgain(r) \/ VerifyTimeout(r) \/ Fail(r)
      PROVE  Stays
  <2>1. UNCHANGED database
    BY <1>2
    DEF Begin, StartMigrate, StartApi, AskShared, VerifyReady, AskAgain, VerifyTimeout, Fail
  <2> QED
    BY <2>1, UnchangedStays, LastingParts
<1>3. ASSUME \/ Boot \/ Restart \/ Disconnect \/ \E x \in Role : Connect(x)
             \/ \E m \in Manifest : Edit(m)
      PROVE  Stays
  <2>1. UNCHANGED database
    BY <1>3 DEF Boot, Restart, Disconnect, Connect, Edit
  <2> QED
    BY <2>1, UnchangedStays, LastingParts
<1> QED
  BY <1>1, <1>2, <1>3 DEF Next, reconcile

\* What lasts of a statement lasts.
LEMMA LastsOn ==
  ASSUME TypeOK, TypeOK', Stays, NEW i \in 1 .. 19, Lasts(i)
  PROVE  Lasts(i)'
<1>0. AppliedOK /\ AppliedOK'
  BY Parts
<1>1. Program[i].do = "provision" => password'[Program[i].role] # NULL
  BY Statements, ProgramLength DEF Lasts, Stays
<1>2. Program[i].do = "migrate" => applied'[Program[i].schema] = Migrations[Program[i].schema]
  <2> SUFFICES ASSUME NEW s \in Schema, applied[s] = Migrations[s]
               PROVE  applied'[s] = Migrations[s]
    BY Statements, ProgramLength DEF Lasts
  <2>1. /\ applied[s] \in Nat /\ applied'[s] \in Nat
        /\ applied'[s] <= Migrations[s] /\ applied[s] <= applied'[s]
    BY <1>0 DEF AppliedOK, Stays
  <2> QED
    BY <2>1
<1>3. Program[i].do = "grant" => Program[i].what \cap Lasting \subseteq granted'
  BY DEF Lasts, Stays
<1>4. Program[i].do = "revoke" => Program[i].what \cap Closed \cap granted' = {}
  BY DEF Lasts, Stays
<1> QED
  BY <1>1, <1>2, <1>3, <1>4 DEF Lasts

\* A step that leaves a run where it was, but for the questions it puts to the API,
\* leaves it sound.
LEMMA SoundStays ==
  ASSUME TypeOK, TypeOK', Stays, NEW q \in Runner, Sound(q),
         step'[q] = step[q], enabled'[q] = enabled[q], secrets'[q] = secrets[q],
         \/ phase'[q] = phase[q]
         \/ phase[q] \in {"verify", "asked"} /\ phase'[q] \in {"verify", "asked", "ok"}
  PROVE  Sound(q)'
<1>1. step[q] \in 0 .. 20
  BY Parts DEF RunsOK
<1>2. ASSUME NEW i \in 1 .. step'[q] - 1, InProgram(i, enabled'[q]) PROVE Lasts(i)'
  <2>1. i \in 1 .. 19 /\ i \in 1 .. step[q] - 1 /\ InProgram(i, enabled[q])
    BY <1>1, <1>2
  <2>2. Lasts(i)
    BY <2>1 DEF Sound
  <2> QED
    BY <2>1, <2>2, LastsOn
<1>3. /\ phase'[q] \in {"idle", "planned", "error"} <=> step'[q] = 0
      /\ phase'[q] \in {"verify", "asked", "ok"} => step'[q] = 20
      /\ phase'[q] \in {"planned", "migrate"} => secrets'[q] # NULL
  BY DEF Sound
<1>4. step'[q] \in 1 .. 19 => InProgram(step'[q], enabled'[q])
  BY DEF Sound
<1>5. \A i \in 1 .. step'[q] - 1 : InProgram(i, enabled'[q]) => Lasts(i)'
  BY <1>2
<1>6. Sound(q)' <=>
        /\ phase'[q] \in {"idle", "planned", "error"} <=> step'[q] = 0
        /\ phase'[q] \in {"verify", "asked", "ok"} => step'[q] = 20
        /\ step'[q] \in 1 .. 19 => InProgram(step'[q], enabled'[q])
        /\ phase'[q] \in {"planned", "migrate"} => secrets'[q] # NULL
        /\ \A i \in 1 .. step'[q] - 1 : InProgram(i, enabled'[q]) => Lasts(i)'
  BY Zenon DEF Sound, InProgram
<1> QED
  BY <1>3, <1>4, <1>5, <1>6

LEMMA FullHistory ==
  ASSUME AppliedOK, NEW s \in Schema, ~Missing(s)
  PROVE  applied[s] = Migrations[s]
<1>1. applied[s] \in Nat /\ Migrations[s] \in Nat /\ applied[s] <= Migrations[s]
  BY DEF AppliedOK
<1> QED
  BY <1>1 DEF Missing

\* A statement that has done what lasts of it takes its run on.
LEMMA SoundAdvances ==
  ASSUME LastingInv, TypeOK', Stays, NEW r \in Runner, NEW what, At(r, what), Advance(r),
         NEW st \in 1 .. 19, step[r] = st,
         phase' = phase, enabled' = enabled, secrets' = secrets, Lasts(st)'
  PROVE  \A q \in Runner : Sound(q)'
<1>0. TypeOK /\ RunsOK /\ \A q \in Runner : Sound(q)
  BY LastingParts, Parts
<1>1. /\ phase[r] = "migrate" /\ enabled[r] \in BOOLEAN /\ secrets[r] # NULL
      /\ \A i \in 1 .. st - 1 : InProgram(i, enabled[r]) => Lasts(i)
  BY AtSound
<1>2. /\ step'[r] = Following(st, enabled[r]) /\ step'[r] \in st + 1 .. 20
      /\ \A q \in Runner \ {r} : step'[q] = step[q]
  BY <1>0, AdvanceOK
<1>3. /\ step'[r] <= 19 => InProgram(step'[r], enabled[r])
      /\ \A k \in st + 1 .. step'[r] - 1 : ~InProgram(k, enabled[r])
  <2>1. st \in 0 .. 19
    OBVIOUS
  <2> QED
    BY <1>1, <1>2, <2>1, FollowingIs
<1>4. \A q \in Runner \ {r} : Sound(q)'
  BY <1>0, <1>2, SoundStays
<1>5. \A i \in 1 .. step'[r] - 1 : InProgram(i, enabled[r]) => Lasts(i)'
  <2> SUFFICES ASSUME NEW i \in 1 .. step'[r] - 1, InProgram(i, enabled[r])
               PROVE  Lasts(i)'
    OBVIOUS
  <2>1. CASE i < st
    <3>1. i \in 1 .. 19 /\ Lasts(i)
      BY <1>1, <2>1
    <3> QED
      BY <1>0, <3>1, LastsOn
  <2>2. CASE i = st
    BY <2>2
  <2>3. CASE i > st
    BY <1>2, <1>3, <2>3
  <2> QED
    BY <1>2, <2>1, <2>2, <2>3
<1>6. step'[r] # 0 /\ phase'[r] = "migrate" /\ enabled'[r] = enabled[r] /\ secrets'[r] # NULL
  BY <1>1, <1>2
<1>7. Sound(r)'
  BY <1>3, <1>5, <1>6 DEF Sound
<1> QED
  BY <1>4, <1>7

LEMMA StatementSound ==
  ASSUME LastingInv, NEW r \in Runner, Statement(r)
  PROVE  LastingInv'
<1>0. TypeOK /\ RunsOK /\ PasswordOK /\ AppliedOK /\ PhaseOK /\ \A q \in Runner : Sound(q)
  BY LastingParts, Parts
<1>1. TypeOK'
  BY <1>0, StatementTypes DEF Placed, Sound
<1>2. Stays
  BY StatementStays
<1>3. SUFFICES \A q \in Runner : Sound(q)'
  BY <1>1, LastingParts
<1>4. CASE GuardPasses(r)
  <2>1. At(r, "guard") /\ Advance(r) /\ UNCHANGED <<phase, enabled, secrets>>
    BY <1>4 DEF GuardPasses
  <2>2. PICK st \in 1 .. 19 : st = step[r] /\ Program[st].do = "guard"
    BY <2>1, AtSound
  <2>3. Lasts(st)'
    BY <2>2 DEF Lasts
  <2> QED
    BY <1>1, <1>2, <2>1, <2>2, <2>3, SoundAdvances
<1>5. CASE GuardRejects(r)
  <2>1. End(r)
    BY <1>5 DEF GuardRejects
  <2>2. phase'[r] = "error" /\ step'[r] = 0
    BY <1>0, <2>1, EndOK
  <2>3. Sound(r)'
    BY <2>2 DEF Sound
  <2>4. \A q \in Runner \ {r} :
          /\ phase'[q] = phase[q] /\ step'[q] = step[q]
          /\ enabled'[q] = enabled[q] /\ secrets'[q] = secrets[q]
    BY <1>0, <2>1 DEF End, PhaseOK, RunsOK
  <2> QED
    BY <1>0, <1>1, <1>2, <2>3, <2>4, SoundStays
<1>6. CASE Provision(r)
  <2>1. /\ At(r, "provision") /\ Advance(r) /\ UNCHANGED <<phase, enabled, secrets>>
        /\ password' = [password EXCEPT ![Program[step[r]].role] = secrets[r]]
    BY <1>6 DEF Provision
  <2>2. PICK st \in 1 .. 19 : st = step[r] /\ Program[st].do = "provision"
    BY <2>1, AtSound
  <2>3. Program[st].role \in Role /\ secrets[r] # NULL
    BY <2>1, <2>2, AtSound, Statements, ProgramLength
  <2>4. password'[Program[st].role] # NULL
    BY <1>0, <2>1, <2>2, <2>3 DEF PasswordOK
  <2>5. Lasts(st)'
    BY <2>2, <2>4 DEF Lasts
  <2> QED
    BY <1>1, <1>2, <2>1, <2>2, <2>5, SoundAdvances
<1>7. CASE Grant(r)
  <2>1. /\ At(r, "grant") /\ Advance(r) /\ UNCHANGED <<phase, enabled, secrets>>
        /\ granted' = granted \cup Program[step[r]].what
    BY <1>7 DEF Grant
  <2>2. PICK st \in 1 .. 19 : st = step[r] /\ Program[st].do = "grant"
    BY <2>1, AtSound
  <2>3. Lasts(st)'
    BY <2>1, <2>2 DEF Lasts
  <2> QED
    BY <1>1, <1>2, <2>1, <2>2, <2>3, SoundAdvances
<1>8. CASE Revoke(r)
  <2>1. /\ At(r, "revoke") /\ Advance(r) /\ UNCHANGED <<phase, enabled, secrets>>
        /\ granted' = granted \ Program[step[r]].what
    BY <1>8 DEF Revoke
  <2>2. PICK st \in 1 .. 19 : st = step[r] /\ Program[st].do = "revoke"
    BY <2>1, AtSound
  <2>3. Lasts(st)'
    BY <2>1, <2>2 DEF Lasts
  <2> QED
    BY <1>1, <1>2, <2>1, <2>2, <2>3, SoundAdvances
<1>9. CASE Migrate(r)
  <2> DEFINE s == Program[step[r]].schema
  <2>1. /\ At(r, "migrate") /\ UNCHANGED <<phase, enabled, secrets>>
        /\ \/ UNCHANGED step
           \/ ~Missing(s) /\ Advance(r) /\ UNCHANGED applied
    BY <1>9 DEF Migrate
  <2>2. CASE UNCHANGED step
    BY <1>0, <1>1, <1>2, <2>1, <2>2, SoundStays
  <2>3. CASE ~Missing(s) /\ Advance(r) /\ UNCHANGED applied
    <3>1. PICK st \in 1 .. 19 : st = step[r] /\ Program[st].do = "migrate"
      BY <2>1, AtSound
    <3>2. Program[st].schema \in Schema
      BY <3>1, Statements, ProgramLength
    <3>3. \A x \in Schema : ~Missing(x) => applied[x] = Migrations[x]
      BY <1>0, FullHistory
    <3>4. applied'[Program[st].schema] = Migrations[Program[st].schema]
      BY <2>3, <3>1, <3>2, <3>3
    <3>5. Lasts(st)'
      BY <3>1, <3>4 DEF Lasts
    <3> QED
      BY <1>1, <1>2, <2>1, <2>3, <3>1, <3>5, SoundAdvances
  <2> QED
    BY <2>1, <2>2, <2>3
<1>10. CASE Check(r)
  <2>1. At(r, "check") /\ Advance(r) /\ UNCHANGED <<phase, enabled, secrets>>
    BY <1>10 DEF Check
  <2>2. PICK st \in 1 .. 19 : st = step[r] /\ Program[st].do = "check"
    BY <2>1, AtSound
  <2>3. Lasts(st)'
    BY <2>2 DEF Lasts
  <2> QED
    BY <1>1, <1>2, <2>1, <2>2, <2>3, SoundAdvances
<1> QED
  BY <1>4, <1>5, <1>6, <1>7, <1>8, <1>9, <1>10 DEF Statement

LEMMA RunSound ==
  ASSUME LastingInv, NEW r \in Runner,
         \/ Begin(r) \/ StartMigrate(r) \/ StartApi(r) \/ AskShared(r) \/ VerifyReady(r)
         \/ AskAgain(r) \/ VerifyTimeout(r) \/ Fail(r)
  PROVE  LastingInv'
<1>0. TypeOK /\ RunsOK /\ PhaseOK /\ \A q \in Runner : Sound(q)
  BY LastingParts, Parts
<1>1. TypeOK'
  BY <1>0, RunTypes DEF Placed, Sound
<1>2. Stays
  <2>1. UNCHANGED database
    BY DEF Begin, StartMigrate, StartApi, AskShared, VerifyReady, AskAgain, VerifyTimeout, Fail
  <2> QED
    BY <1>0, <2>1, UnchangedStays
<1>3. SUFFICES \A q \in Runner : Sound(q)'
  BY <1>1, LastingParts
<1>4. CASE Begin(r)
  <2>0. PICK p \in Secret : secrets' = [secrets EXCEPT ![r] = p]
    BY <1>4 DEF Begin
  <2>1. /\ phase'[r] = "planned" /\ step'[r] = 0 /\ secrets'[r] # NULL
        /\ \A q \in Runner \ {r} :
             /\ phase'[q] = phase[q] /\ step'[q] = step[q]
             /\ enabled'[q] = enabled[q] /\ secrets'[q] = secrets[q]
    BY <1>0, <1>4, <2>0 DEF Begin, PhaseOK, RunsOK
  <2>2. Sound(r)'
    BY <2>1 DEF Sound
  <2> QED
    BY <1>0, <1>1, <1>2, <2>1, <2>2, SoundStays
<1>5. CASE StartMigrate(r)
  <2>1. /\ phase'[r] = "migrate" /\ step'[r] = 1 /\ secrets'[r] = secrets[r]
        /\ phase[r] = "planned"
        /\ \A q \in Runner \ {r} :
             /\ phase'[q] = phase[q] /\ step'[q] = step[q]
             /\ enabled'[q] = enabled[q] /\ secrets'[q] = secrets[q]
    BY <1>0, <1>5 DEF StartMigrate, PhaseOK, RunsOK
  <2>2. InProgram(1, enabled'[r])
    BY RoleIs DEF InProgram
  <2>3. Sound(r)'
    BY <1>0, <2>1, <2>2 DEF Sound
  <2> QED
    BY <1>0, <1>1, <1>2, <2>1, <2>3, SoundStays
<1>6. CASE StartApi(r)
  <2>0. /\ phase[r] = "migrate" /\ step[r] = 20 /\ UNCHANGED <<step, enabled, secrets>>
        /\ phase' = [q \in Runner |-> IF q = r \/ phase[q] = "asked" THEN "verify" ELSE phase[q]]
    BY <1>6, ProgramLength DEF StartApi
  <2>1. /\ phase[r] = "migrate" /\ step[r] = 20 /\ phase'[r] = "verify"
        /\ UNCHANGED <<step, enabled, secrets>>
        /\ \A q \in Runner \ {r} :
             \/ phase'[q] = phase[q]
             \/ phase[q] = "asked" /\ phase'[q] = "verify"
    BY <2>0
  <2>2. Sound(r)'
    <3>1. \A i \in 1 .. 19 : InProgram(i, enabled[r]) => Lasts(i)
      BY <1>0, <2>1 DEF Sound
    <3>2. \A i \in 1 .. 19 : InProgram(i, enabled[r]) => Lasts(i)'
      BY <1>0, <1>1, <1>2, <3>1, LastsOn
    <3> QED
      BY <2>1, <3>2 DEF Sound
  <2> QED
    BY <1>0, <1>1, <1>2, <2>1, <2>2, SoundStays
<1>7. CASE AskShared(r) \/ VerifyReady(r) \/ AskAgain(r)
  <2>1. /\ phase[r] \in {"verify", "asked"} /\ phase'[r] \in {"verify", "asked", "ok"}
        /\ UNCHANGED <<step, enabled, secrets>>
        /\ \A q \in Runner \ {r} : phase'[q] = phase[q]
    BY <1>0, <1>7 DEF AskShared, VerifyReady, AskAgain, PhaseOK
  <2> QED
    BY <1>0, <1>1, <1>2, <2>1, SoundStays
<1>8. CASE VerifyTimeout(r) \/ Fail(r)
  <2>1. End(r)
    BY <1>8 DEF VerifyTimeout, Fail
  <2>2. phase'[r] = "error" /\ step'[r] = 0
    BY <1>0, <2>1, EndOK
  <2>3. Sound(r)'
    BY <2>2 DEF Sound
  <2>4. \A q \in Runner \ {r} :
          /\ phase'[q] = phase[q] /\ step'[q] = step[q]
          /\ enabled'[q] = enabled[q] /\ secrets'[q] = secrets[q]
    BY <1>0, <2>1 DEF End, PhaseOK, RunsOK
  <2> QED
    BY <1>0, <1>1, <1>2, <2>3, <2>4, SoundStays
<1> QED
  BY <1>4, <1>5, <1>6, <1>7, <1>8

LEMMA ApiSound ==
  ASSUME LastingInv, \/ Boot \/ Restart \/ Disconnect \/ \E x \in Role : Connect(x)
                     \/ \E m \in Manifest : Edit(m)
  PROVE  LastingInv'
<1>0. TypeOK /\ PhaseOK /\ \A q \in Runner : Sound(q)
  BY LastingParts, Parts
<1>1. TypeOK'
  BY <1>0, ApiTypes DEF Placed, Sound
<1>2. UNCHANGED <<step, enabled, secrets, database>>
  BY DEF Boot, Restart, Disconnect, Connect, Edit, run
<1>3. Stays
  BY <1>0, <1>2, UnchangedStays
<1>4. \A q \in Runner :
        \/ phase'[q] = phase[q]
        \/ phase[q] = "asked" /\ phase'[q] = "verify"
  <2>1. CASE Restart
    BY <2>1 DEF Restart, Unanswered
  <2>2. CASE Boot \/ Disconnect \/ (\E x \in Role : Connect(x)) \/ \E m \in Manifest : Edit(m)
    BY <2>2 DEF Boot, Disconnect, Connect, Edit, run
  <2> QED
    BY <2>1, <2>2
<1>5. \A q \in Runner : Sound(q)'
  BY <1>0, <1>1, <1>2, <1>3, <1>4, SoundStays
<1> QED
  BY <1>1, <1>5, LastingParts

LEMMA LastingInit == Init => LastingInv
<1> SUFFICES ASSUME Init PROVE LastingInv
  OBVIOUS
<1>0. phase = [r \in Runner |-> "idle"] /\ step = [r \in Runner |-> 0]
  BY Zenon DEF Init
<1>1. \A r \in Runner : phase[r] = "idle" /\ step[r] = 0
  BY <1>0
<1>2. ASSUME NEW r \in Runner PROVE Sound(r)
  <2>1. phase[r] = "idle" /\ step[r] = 0
    BY <1>1
  <2>2. step[r] \notin 1 .. 19 /\ \A i : i \notin 1 .. step[r] - 1
    BY <2>1
  <2> QED
    BY <2>1, <2>2 DEF Sound
<1> QED
  BY <1>2, TypeInit, LastingParts

LEMMA LastingStep ==
  ASSUME LastingInv, [Next]_vars
  PROVE  LastingInv'
<1>1. CASE Next
  BY <1>1, StatementSound, RunSound, ApiSound DEF Next, reconcile
<1>2. CASE UNCHANGED vars
  <2>1. TypeOK /\ \A q \in Runner : Sound(q)
    BY LastingParts
  <2>2. TypeOK' /\ UNCHANGED <<phase, step, enabled, secrets, database>>
    BY <1>2, <2>1 DEF vars, run, database, TypeOK
  <2>3. Stays
    BY <2>1, <2>2, UnchangedStays
  <2>4. \A q \in Runner : Sound(q)'
    BY <2>1, <2>2, <2>3, SoundStays
  <2> QED
    BY <2>2, <2>4, LastingParts
<1> QED
  BY <1>1, <1>2

\* Whatever other operators do at the same time, the roles, privileges and
\* migrations behind a run are still there, statement by statement.
THEOREM LastingInvariance == Spec => []LastingInv
BY LastingInit, LastingStep, PTL DEF Spec

-------------------------------------------------------------------------------
(* The facts *)

LEMMA InFacts ==
  ASSUME NEW f
  PROVE  /\ f \in Facts <=>
              \/ \E x \in Role : password[x] # NULL /\ f = <<"role", x>>
              \/ \E e \in Lasting : e \in granted /\ f = <<"granted", e>>
              \/ \E e \in Closed : e \notin granted /\ f = <<"closed", e>>
              \/ \E s \in Schema : \E k \in 1 .. applied[s] : f = <<"applied", <<s, k>>>>
         /\ f \in Facts' <=>
              \/ \E x \in Role : password'[x] # NULL /\ f = <<"role", x>>
              \/ \E e \in Lasting : e \in granted' /\ f = <<"granted", e>>
              \/ \E e \in Closed : e \notin granted' /\ f = <<"closed", e>>
              \/ \E s \in Schema : \E k \in 1 .. applied'[s] : f = <<"applied", <<s, k>>>>
<1>1. f \in Facts <=>
        \/ \E x \in Role : password[x] # NULL /\ f = <<"role", x>>
        \/ \E e \in Lasting : e \in granted /\ f = <<"granted", e>>
        \/ \E e \in Closed : e \notin granted /\ f = <<"closed", e>>
        \/ \E s \in Schema : \E k \in 1 .. applied[s] : f = <<"applied", <<s, k>>>>
  BY DEF Facts, Applied
<1>2. f \in Facts' <=>
        \/ \E x \in Role : password'[x] # NULL /\ f = <<"role", x>>
        \/ \E e \in Lasting : e \in granted' /\ f = <<"granted", e>>
        \/ \E e \in Closed : e \notin granted' /\ f = <<"closed", e>>
        \/ \E s \in Schema : \E k \in 1 .. applied'[s] : f = <<"applied", <<s, k>>>>
  BY DEF Facts, Applied
<1> QED
  BY <1>1, <1>2

LEMMA InFact ==
  ASSUME NEW f
  PROVE  f \in Fact <=>
           \/ \E x \in Role : f = <<"role", x>>
           \/ \E e \in Lasting : f = <<"granted", e>>
           \/ \E e \in Closed : f = <<"closed", e>>
           \/ \E s \in Schema : \E k \in 1 .. Migrations[s] : f = <<"applied", <<s, k>>>>
BY DEF Fact, Applied

\* Everything that is true is a fact.
LEMMA FactsTyped ==
  /\ TypeOK => Facts \subseteq Fact
  /\ TypeOK' => Facts' \subseteq Fact
<1>1. ASSUME AppliedOK, NEW f \in Facts PROVE f \in Fact
  <2>1. \A s \in Schema : 1 .. applied[s] \subseteq 1 .. Migrations[s]
    BY <1>1 DEF AppliedOK
  <2> QED
    BY <1>1, <2>1, InFacts, InFact
<1>2. ASSUME AppliedOK', NEW f \in Facts' PROVE f \in Fact
  <2>1. \A s \in Schema : 1 .. applied'[s] \subseteq 1 .. Migrations[s]
    BY <1>2 DEF AppliedOK
  <2> QED
    BY <1>2, <2>1, InFacts, InFact
<1> QED
  BY <1>1, <1>2, Parts

LEMMA FactsGrow ==
  ASSUME TypeOK, TypeOK', Stays
  PROVE  Facts \subseteq Facts'
<1>1. AppliedOK /\ AppliedOK'
  BY Parts
<1>2. \A s \in Schema : 1 .. applied[s] \subseteq 1 .. applied'[s]
  BY <1>1 DEF AppliedOK, Stays
<1>3. \A e \in Lasting : e \in granted => e \in granted'
  BY DEF Stays
<1>4. \A e \in Closed : e \notin granted => e \notin granted'
  BY DEF Stays
<1> QED
  BY <1>2, <1>3, <1>4, InFacts DEF Stays

\* What each kind of fact rests on.
LEMMA NeedsIs ==
  /\ \A x \in Role : <<"role", x>> \in Fact /\ Needs[<<"role", x>>] = {}
  /\ \A e \in Closed : <<"closed", e>> \in Fact /\ Needs[<<"closed", e>>] = {}
  /\ \A e \in Lasting :
       /\ <<"granted", e>> \in Fact
       /\ Needs[<<"granted", e>>] =
            {<<"role", e[1]>>}
            \cup (IF e[2] = "connect" THEN {}
                  ELSE Applied(RoleSchema(e[1]), Migrations[RoleSchema(e[1])]))
  /\ \A s \in Schema : \A k \in 1 .. Migrations[s] :
       /\ <<"applied", <<s, k>>>> \in Fact
       /\ Needs[<<"applied", <<s, k>>>>] = Applied(s, k - 1)
<1>1. ASSUME NEW x \in Role PROVE <<"role", x>> \in Fact /\ Needs[<<"role", x>>] = {}
  <2>1. <<"role", x>> \in Fact
    BY InFact
  <2> QED
    BY <2>1 DEF Needs
<1>2. ASSUME NEW e \in Closed PROVE <<"closed", e>> \in Fact /\ Needs[<<"closed", e>>] = {}
  <2>1. <<"closed", e>> \in Fact
    BY InFact
  <2> QED
    BY <2>1 DEF Needs
<1>3. ASSUME NEW e \in Lasting
      PROVE  /\ <<"granted", e>> \in Fact
             /\ Needs[<<"granted", e>>] =
                  {<<"role", e[1]>>}
                  \cup (IF e[2] = "connect" THEN {}
                        ELSE Applied(RoleSchema(e[1]), Migrations[RoleSchema(e[1])]))
  <2>1. <<"granted", e>> \in Fact
    BY InFact
  <2> QED
    BY <2>1 DEF Needs
<1>4. ASSUME NEW s \in Schema, NEW k \in 1 .. Migrations[s]
      PROVE  /\ <<"applied", <<s, k>>>> \in Fact
             /\ Needs[<<"applied", <<s, k>>>>] = Applied(s, k - 1)
  <2>1. <<"applied", <<s, k>>>> \in Fact
    BY InFact
  <2> QED
    BY <2>1 DEF Needs
<1> QED
  BY <1>1, <1>2, <1>3, <1>4

-------------------------------------------------------------------------------
(* What a run wants *)

\* The statements a run takes are for what it wants.
LEMMA WantedIs ==
  ASSUME NEW st \in 1 .. 19, NEW b \in BOOLEAN, InProgram(st, b)
  PROVE  /\ Program[st].do = "provision" => <<"role", Program[st].role>> \in Wanted(b)
         /\ Program[st].do = "grant" =>
              \A e \in Program[st].what \cap Lasting : <<"granted", e>> \in Wanted(b)
         /\ Program[st].do = "revoke" =>
              \A e \in Program[st].what \cap Closed : <<"closed", e>> \in Wanted(b)
         /\ Program[st].do = "migrate" =>
              \A k \in 1 .. Migrations[Program[st].schema] :
                <<"applied", <<Program[st].schema, k>>>> \in Wanted(b)
<1>1. CASE b
  <2>1. Wanted(b) = Fact
    BY <1>1 DEF Wanted
  <2>2. Program[st].do = "provision" => Program[st].role \in Role
    BY Statements, ProgramLength
  <2>3. Program[st].do = "migrate" => Program[st].schema \in Schema
    BY Statements, ProgramLength
  <2> QED
    BY <2>1, <2>2, <2>3, NeedsIs
<1>2. CASE ~b
  <2>1. st \in {1, 2, 5, 6, 7, 10, 11, 17}
    BY <1>2, WithoutExample
  <2>2. /\ <<"role", "ready">> \in Wanted(b)
        /\ <<"granted", <<"ready", "connect">>>> \in Wanted(b)
        /\ <<"granted", <<"ready", "read history">>>> \in Wanted(b)
        /\ \A e \in Closed : <<"closed", e>> \in Wanted(b)
        /\ Applied("bc_shared", Migrations["bc_shared"]) \subseteq Wanted(b)
    BY <1>2 DEF Wanted
  <2>3. Program[st].do = "provision" => Program[st].role = "ready"
    <3>1. Program[st].do = "provision" => st = 2
      BY <2>1, DoOf
    <3> QED
      BY <3>1, RoleIs
  <2>4. Program[st].do = "grant" =>
          Program[st].what \cap Lasting
            \subseteq {<<"ready", "connect">>, <<"ready", "read history">>}
    <3>1. Program[st].do = "grant" => st \in {7, 11}
      BY <2>1, DoOf
    <3> QED
      BY <3>1, GrantIs
  <2>5. Program[st].do = "migrate" => Program[st].schema = "bc_shared"
    <3>1. Program[st].do = "migrate" => st = 10
      BY <2>1, DoOf
    <3> QED
      BY <3>1, SchemaIs
  <2> QED
    BY <2>2, <2>3, <2>4, <2>5 DEF Applied
<1> QED
  BY <1>1, <1>2

\* A run that has taken all its statements has all it wants.
LEMMA WantedHolds ==
  ASSUME TypeOK, NEW b \in BOOLEAN, \A i \in 1 .. 19 : InProgram(i, b) => Lasts(i)
  PROVE  Wanted(b) \subseteq Facts
<1>1. InProgram(2, b) /\ InProgram(5, b) /\ InProgram(6, b) /\ InProgram(7, b)
      /\ InProgram(10, b) /\ InProgram(11, b)
  BY RoleIs DEF InProgram
<1>2. password["ready"] # NULL /\ applied["bc_shared"] = Migrations["bc_shared"]
  <2>1. Lasts(2) /\ Lasts(10)
    BY <1>1
  <2> QED
    BY <2>1, DoOf, RoleIs, SchemaIs DEF Lasts
<1>3. Closed \cap granted = {}
  <2>1. Lasts(5) /\ Lasts(6)
    BY <1>1
  <2>2. <<"public", "connect">> \notin granted /\ <<"public", "use schema public">> \notin granted
    BY <2>1, DoOf, Named DEF Lasts, Closed
  <2> QED
    BY <2>2 DEF Closed
<1>4. <<"ready", "connect">> \in granted /\ <<"ready", "read history">> \in granted
  <2>1. Lasts(7) /\ Lasts(11)
    BY <1>1
  <2> QED
    BY <2>1, DoOf, GrantIs DEF Lasts
<1>5. <<"ready", "connect">> \in Lasting /\ <<"ready", "read history">> \in Lasting
  BY GrantIs
<1>6. CASE b
  <2>1. \A i \in {3, 4, 8, 9, 12, 13} : Lasts(i)
    BY <1>6 DEF InProgram
  <2>2. \A x \in Role : password[x] # NULL
    <3>1. Lasts(3) /\ Lasts(4)
      BY <2>1
    <3>2. password["example"] # NULL /\ password["dispatcher"] # NULL
      BY <3>1, DoOf, RoleIs DEF Lasts
    <3> QED
      BY <1>2, <3>2 DEF Role
  <2>3. \A s \in Schema : applied[s] = Migrations[s]
    <3>1. applied["bc_example"] = Migrations["bc_example"]
      BY <2>1, DoOf, SchemaIs DEF Lasts
    <3> QED
      BY <1>2, <3>1 DEF Schema
  <2>4. Lasting \subseteq granted
    <3>1. Lasts(8) /\ Lasts(9) /\ Lasts(13)
      BY <2>1
    <3>2. /\ <<"example", "connect">> \in granted /\ <<"dispatcher", "connect">> \in granted
          /\ <<"example", "read history">> \in granted /\ <<"example", "use tables">> \in granted
      BY <3>1, DoOf, GrantIs DEF Lasts
    <3> QED
      BY <1>4, <3>2 DEF Lasting, Role
  <2>5. Fact \subseteq Facts
    BY <1>3, <2>2, <2>3, <2>4, InFact, InFacts
  <2> QED
    BY <1>6, <2>5 DEF Wanted
<1>7. CASE ~b
  <2>1. <<"role", "ready">> \in Facts
    BY <1>2, InFacts DEF Role
  <2>2. <<"granted", <<"ready", "connect">>>> \in Facts
        /\ <<"granted", <<"ready", "read history">>>> \in Facts
    BY <1>4, <1>5, InFacts
  <2>3. \A e \in Closed : <<"closed", e>> \in Facts
    BY <1>3, InFacts
  <2>4. Applied("bc_shared", Migrations["bc_shared"]) \subseteq Facts
    BY <1>2, InFacts DEF Applied, Schema
  <2>5. ASSUME NEW f \in Wanted(b)
        PROVE  \/ f = <<"role", "ready">>
               \/ f = <<"granted", <<"ready", "connect">>>>
               \/ f = <<"granted", <<"ready", "read history">>>>
               \/ \E e \in Closed : f = <<"closed", e>>
               \/ f \in Applied("bc_shared", Migrations["bc_shared"])
    <3>1. Wanted(b) = {<<"role", "ready">>, <<"granted", <<"ready", "connect">>>>,
                       <<"granted", <<"ready", "read history">>>>}
                      \cup ({"closed"} \X Closed) \cup Applied("bc_shared", Migrations["bc_shared"])
      BY <1>7, Zenon DEF Wanted
    <3>2. f \in {"closed"} \X Closed => \E e \in Closed : f = <<"closed", e>>
      OBVIOUS
    <3> QED
      BY <3>1, <3>2, Zenon
  <2> QED
    BY <2>1, <2>2, <2>3, <2>4, <2>5
<1> QED
  BY <1>6, <1>7

-------------------------------------------------------------------------------
(* The refinement of DesiredState *)

LEMMA SameFacts == UNCHANGED database => Facts' = Facts
BY DEF database, Facts

\* A run that only moves between the phases of its work, and those that do not
\* move, look the same.
LEMMA SameRuns ==
  ASSUME enabled' = enabled,
         \A q \in Runner :
           \/ phase'[q] = phase[q]
           \/ phase[q] \in Knows \ {"ok"} /\ phase'[q] \in Knows \ {"ok"}
  PROVE  Outcome' = Outcome /\ WantedBy' = WantedBy
<1>1. \A q \in Runner :
        /\ phase'[q] \in Knows <=> phase[q] \in Knows
        /\ phase'[q] \in Knows \ {"ok"} <=> phase[q] \in Knows \ {"ok"}
        /\ phase'[q] \notin Knows \ {"ok"} => phase'[q] = phase[q]
  OBVIOUS
<1>2. Outcome' = Outcome
  BY <1>1 DEF Outcome
<1>3. WantedBy' = WantedBy
  BY <1>1 DEF WantedBy
<1> QED
  BY <1>2, <1>3

\* Where one run moves, and what it looks like then.
LEMMA OneRun ==
  ASSUME NEW r \in Runner,
         \A q \in Runner \ {r} : phase'[q] = phase[q] /\ enabled'[q] = enabled[q]
  PROVE  /\ Outcome' = [Outcome EXCEPT ![r] =
              IF phase'[r] \in Knows \ {"ok"} THEN "working" ELSE phase'[r]]
         /\ WantedBy' = [WantedBy EXCEPT ![r] =
              IF phase'[r] \in Knows THEN Wanted(enabled'[r]) ELSE {}]
<1>1. Outcome' = [q \in Runner |->
                   IF phase'[q] \in Knows \ {"ok"} THEN "working" ELSE phase'[q]]
  BY DEF Outcome
<1>2. WantedBy' = [q \in Runner |->
                    IF phase'[q] \in Knows THEN Wanted(enabled'[q]) ELSE {}]
  BY DEF WantedBy, Wanted
<1>3. Outcome' = [Outcome EXCEPT ![r] =
              IF phase'[r] \in Knows \ {"ok"} THEN "working" ELSE phase'[r]]
  BY <1>1 DEF Outcome
<1>4. WantedBy' = [WantedBy EXCEPT ![r] =
              IF phase'[r] \in Knows THEN Wanted(enabled'[r]) ELSE {}]
  BY <1>2 DEF WantedBy
<1> QED
  BY <1>3, <1>4

LEMMA OutcomeIs ==
  ASSUME NEW r \in Runner
  PROVE  /\ Outcome[r] = IF phase[r] \in Knows \ {"ok"} THEN "working" ELSE phase[r]
         /\ WantedBy[r] = IF phase[r] \in Knows THEN Wanted(enabled[r]) ELSE {}
BY DEF Outcome, WantedBy

\* A grant finds the role it is for, and the tables it is about complete.
LEMMA GroundOfGrant ==
  ASSUME LastingInv, NEW st \in 1 .. 19, NEW b \in BOOLEAN, InProgram(st, b),
         Program[st].do = "grant", \A i \in 1 .. st - 1 : InProgram(i, b) => Lasts(i),
         NEW e \in Program[st].what \cap Lasting
  PROVE  Needs[<<"granted", e>>] \subseteq Facts
<1>1. st \in {7, 8, 9, 11, 13, 16}
  BY Positions, KindOf
<1>2. Needs[<<"granted", e>>] =
        {<<"role", e[1]>>}
        \cup (IF e[2] = "connect" THEN {}
              ELSE Applied(RoleSchema(e[1]), Migrations[RoleSchema(e[1])]))
  BY NeedsIs
<1>3. \A s \in Schema : applied[s] = Migrations[s] => Applied(s, Migrations[s]) \subseteq Facts
  BY InFacts DEF Applied
<1>4. CASE st \in {7, 11}
  <2>1. e \in {<<"ready", "connect">>, <<"ready", "read history">>}
    BY <1>4, GrantIs
  <2>2. Lasts(2) /\ (st = 11 => Lasts(10))
    BY <1>4, RoleIs DEF InProgram
  <2>3. <<"role", "ready">> \in Facts
    BY <2>2, DoOf, RoleIs, InFacts DEF Lasts, Role
  <2>4. CASE e = <<"ready", "connect">>
    BY <1>2, <2>3, <2>4
  <2>5. CASE e = <<"ready", "read history">>
    <3>1. st = 11
      <4>1. e[2] # "connect"
        BY <2>5
      <4>2. st = 7 => e = <<"ready", "connect">>
        BY GrantIs
      <4> QED
        BY <1>4, <4>1, <4>2
    <3>2. applied["bc_shared"] = Migrations["bc_shared"]
      BY <2>2, <3>1, DoOf, SchemaIs DEF Lasts
    <3>3. Applied("bc_shared", Migrations["bc_shared"]) \subseteq Facts
      BY <1>3, <3>2 DEF Schema
    <3> QED
      BY <1>2, <2>3, <2>5, <3>3 DEF RoleSchema
  <2> QED
    BY <2>1, <2>4, <2>5
<1>5. CASE st \in {8, 9, 13, 16}
  <2>1. e \in {<<"example", "connect">>, <<"dispatcher", "connect">>,
               <<"example", "read history">>, <<"example", "use tables">>}
    BY <1>5, GrantIs
  <2>2. Program[st].role \notin {"public", "ready"}
    BY <1>5, RoleIs
  <2>3. b
    BY <2>2 DEF InProgram
  <2>4. Lasts(3) /\ Lasts(4) /\ (st = 13 => Lasts(12))
    BY <1>5, <2>3 DEF InProgram
  <2>5. <<"role", "example">> \in Facts /\ <<"role", "dispatcher">> \in Facts
    BY <2>4, DoOf, RoleIs, InFacts DEF Lasts, Role
  <2>6. CASE e \in {<<"example", "connect">>, <<"dispatcher", "connect">>}
    BY <1>2, <2>5, <2>6
  <2>7. CASE e \in {<<"example", "read history">>, <<"example", "use tables">>}
    <3>0. e[1] = "example" /\ e[2] # "connect"
      <4>1. CASE e = <<"example", "read history">>
        BY <4>1
      <4>2. CASE e = <<"example", "use tables">>
        BY <4>2
      <4> QED
        BY <2>7, <4>1, <4>2
    <3>1. st = 13
      <4>1. e[2] # "connect"
        BY <3>0
      <4>2. st = 8 => e = <<"example", "connect">>
        BY GrantIs
      <4>3. st = 9 => e = <<"dispatcher", "connect">>
        BY GrantIs
      <4>4. st # 8
        BY <4>1, <4>2
      <4>5. st # 9
        BY <4>1, <4>3
      <4>6. st # 16
        BY GrantIs
      <4> QED
        BY <1>5, <4>4, <4>5, <4>6
    <3>2. applied["bc_example"] = Migrations["bc_example"]
      BY <2>4, <3>1, DoOf, SchemaIs DEF Lasts
    <3>3. Applied("bc_example", Migrations["bc_example"]) \subseteq Facts
      BY <1>3, <3>2 DEF Schema
    <3>4. e[1] = "example" /\ RoleSchema(e[1]) = "bc_example" /\ e[2] # "connect"
      BY <3>0 DEF RoleSchema
    <3>5. Needs[<<"granted", e>>] =
            {<<"role", "example">>} \cup Applied("bc_example", Migrations["bc_example"])
      BY <1>2, <3>4, Zenon
    <3> QED
      BY <2>5, <3>3, <3>5
  <2> QED
    BY <2>1, <2>6, <2>7
<1> QED
  BY <1>1, <1>4, <1>5

\* What a statement brings about is what its run wants, and its ground is there.
LEMMA NewFacts ==
  ASSUME LastingInv, LastingInv', NEW r \in Runner, Statement(r), ~GuardRejects(r),
         NEW f \in Facts' \ Facts
  PROVE  f \in Wanted(enabled[r]) /\ Needs[f] \subseteq Facts
<1>0. TypeOK /\ PasswordOK /\ AppliedOK /\ AppliedOK' /\ GrantedOK
  BY LastingParts, Parts
<1>1. CASE GuardPasses(r) \/ Check(r)
  <2>1. UNCHANGED database
    BY <1>1 DEF GuardPasses, Check
  <2> QED
    BY <2>1, SameFacts
<1>2. CASE Provision(r)
  <2>1. /\ At(r, "provision") /\ UNCHANGED <<granted, applied>>
        /\ password' = [password EXCEPT ![Program[step[r]].role] = secrets[r]]
    BY <1>2 DEF Provision
  <2>2. PICK st \in 1 .. 19 : /\ st = step[r] /\ Program[st].do = "provision"
                              /\ InProgram(st, enabled[r]) /\ enabled[r] \in BOOLEAN
    BY <2>1, AtSound
  <2>3. PICK x \in Role : password'[x] # NULL /\ f = <<"role", x>>
    BY <2>1, InFacts
  <2>4. password[x] = NULL
    BY <2>3, InFacts
  <2>5. x = Program[st].role
    BY <1>0, <2>1, <2>2, <2>3, <2>4 DEF PasswordOK
  <2>6. f \in Wanted(enabled[r])
    BY <2>2, <2>3, <2>5, WantedIs
  <2> QED
    BY <2>3, <2>6, NeedsIs
<1>3. CASE Grant(r)
  <2>1. /\ At(r, "grant") /\ UNCHANGED <<password, applied>>
        /\ granted' = granted \cup Program[step[r]].what
    BY <1>3 DEF Grant
  <2>2. PICK st \in 1 .. 19 : /\ st = step[r] /\ Program[st].do = "grant"
                              /\ InProgram(st, enabled[r]) /\ enabled[r] \in BOOLEAN
                              /\ \A i \in 1 .. st - 1 : InProgram(i, enabled[r]) => Lasts(i)
    BY <2>1, AtSound
  <2>3. PICK e \in Program[st].what \cap Lasting : f = <<"granted", e>>
    <3>1. \A e \in Closed : e \notin granted' => e \notin granted
      BY <2>1
    <3>2. PICK e \in Lasting : e \in granted' /\ f = <<"granted", e>>
      BY <2>1, <3>1, InFacts
    <3>3. e \notin granted
      BY <3>2, InFacts
    <3> QED
      BY <2>1, <2>2, <3>2, <3>3
  <2>4. f \in Wanted(enabled[r])
    BY <2>2, <2>3, WantedIs
  <2>5. Needs[f] \subseteq Facts
    BY <2>2, <2>3, GroundOfGrant
  <2> QED
    BY <2>4, <2>5
<1>4. CASE Revoke(r)
  <2>1. /\ At(r, "revoke") /\ UNCHANGED <<password, applied>>
        /\ granted' = granted \ Program[step[r]].what
    BY <1>4 DEF Revoke
  <2>2. PICK st \in 1 .. 19 : /\ st = step[r] /\ Program[st].do = "revoke"
                              /\ InProgram(st, enabled[r]) /\ enabled[r] \in BOOLEAN
    BY <2>1, AtSound
  <2>3. PICK e \in Closed : e \notin granted' /\ f = <<"closed", e>>
    <3>1. \A e \in Lasting : e \in granted' => e \in granted
      BY <2>1
    <3> QED
      BY <2>1, <3>1, InFacts
  <2>4. e \in granted
    BY <2>3, InFacts
  <2>5. e \in Program[st].what \cap Closed
    BY <2>1, <2>2, <2>3, <2>4
  <2>6. f \in Wanted(enabled[r])
    BY <2>2, <2>3, <2>5, WantedIs
  <2> QED
    BY <2>3, <2>6, NeedsIs
<1>5. CASE Migrate(r)
  <2>1. At(r, "migrate") /\ UNCHANGED <<password, granted>>
    BY <1>5 DEF Migrate
  <2>2. PICK st \in 1 .. 19 : /\ st = step[r] /\ Program[st].do = "migrate"
                              /\ InProgram(st, enabled[r]) /\ enabled[r] \in BOOLEAN
    BY <2>1, AtSound
  <2>3. PICK s \in Schema : s = Program[st].schema
    BY <2>2, Statements, ProgramLength
  <2>4. \/ Missing(s) /\ applied' = [applied EXCEPT ![s] = @ + 1]
        \/ UNCHANGED applied
    BY <1>5, <2>2, <2>3 DEF Migrate
  <2>5. PICK t \in Schema : \E k \in 1 .. applied'[t] : f = <<"applied", <<t, k>>>>
    BY <2>1, InFacts
  <2> PICK k \in 1 .. applied'[t] : f = <<"applied", <<t, k>>>>
    BY <2>5
  <2>6. k \notin 1 .. applied[t]
    BY <2>5, InFacts
  <2>7. t = s /\ k = applied[s] + 1 /\ k \in 1 .. Migrations[s]
    <3>1. /\ applied \in [Schema -> Nat] /\ applied'[t] \in Nat /\ applied[t] \in Nat
          /\ applied'[t] <= Migrations[t] /\ Migrations[t] \in Nat
      BY <1>0 DEF AppliedOK
    <3>2. t = s /\ applied'[t] = applied[t] + 1
      BY <2>4, <2>6, <3>1
    <3> QED
      BY <2>6, <3>1, <3>2
  <2>8. f \in Wanted(enabled[r])
    BY <2>2, <2>3, <2>5, <2>7, WantedIs
  <2>9. Needs[f] = Applied(s, k - 1)
    BY <2>5, <2>7, NeedsIs
  <2>10. k - 1 = applied[s]
    BY <1>0, <2>7 DEF AppliedOK
  <2>11. Applied(s, applied[s]) \subseteq Facts
    BY InFacts DEF Applied
  <2> QED
    BY <2>8, <2>9, <2>10, <2>11
<1> QED
  BY <1>1, <1>2, <1>3, <1>4, <1>5 DEF Statement

LEMMA StatementDesired ==
  ASSUME LastingInv, LastingInv', NEW r \in Runner, Statement(r)
  PROVE  Desired!Work(r) \/ Desired!Fail(r)
<1>0. TypeOK /\ TypeOK' /\ PhaseOK /\ PhaseOK' /\ RunsOK /\ Sound(r)
  BY LastingParts, Parts
<1>1. CASE GuardRejects(r)
  <2>1. At(r, "guard") /\ End(r) /\ UNCHANGED database
    BY <1>1 DEF GuardRejects
  <2>2. /\ phase[r] = "migrate" /\ phase'[r] = "error"
        /\ \A q \in Runner \ {r} : phase'[q] = phase[q] /\ enabled'[q] = enabled[q]
    BY <1>0, <2>1 DEF At, End, PhaseOK, RunsOK
  <2>3. /\ Outcome' = [Outcome EXCEPT ![r] = "error"]
        /\ WantedBy' = [WantedBy EXCEPT ![r] = {}]
    BY <2>2, OneRun DEF Knows
  <2>4. Outcome[r] = "working" /\ Facts' = Facts
    BY <2>1, <2>2, OutcomeIs, SameFacts DEF Knows
  <2> QED
    BY <2>3, <2>4 DEF Desired!Fail
<1>2. CASE ~GuardRejects(r)
  <2>1. PICK what : At(r, what) /\ UNCHANGED <<phase, enabled>>
    BY <1>2 DEF Statement, GuardPasses, Provision, Grant, Revoke, Migrate, Check
  <2>2. Outcome' = Outcome /\ WantedBy' = WantedBy
    BY <2>1, SameRuns
  <2>3. Outcome[r] = "working" /\ WantedBy[r] = Wanted(enabled[r])
    BY <2>1, OutcomeIs DEF At, Knows
  <2>4. Facts \subseteq Facts' /\ Facts' \subseteq Fact
    BY <1>0, StatementStays, FactsGrow, FactsTyped
  <2>5. \A f \in Facts' \ Facts : f \in WantedBy[r] /\ Needs[f] \subseteq Facts
    BY <1>2, <2>3, NewFacts
  <2> QED
    BY <2>2, <2>3, <2>4, <2>5 DEF Desired!Work
<1> QED
  BY <1>1, <1>2

LEMMA RunDesired ==
  ASSUME LastingInv, LastingInv', NEW r \in Runner,
         \/ Begin(r) \/ StartMigrate(r) \/ StartApi(r) \/ AskShared(r) \/ VerifyReady(r)
         \/ AskAgain(r) \/ VerifyTimeout(r) \/ Fail(r)
  PROVE  \/ Desired!Plan(r) \/ Desired!Start(r) \/ Desired!Succeed(r) \/ Desired!Fail(r)
         \/ UNCHANGED Desired!vars
<1>0. TypeOK /\ PhaseOK /\ PhaseOK' /\ RunsOK /\ Sound(r)
  BY LastingParts, Parts
<1>1. Facts' = Facts
  <2>1. UNCHANGED database
    BY DEF Begin, StartMigrate, StartApi, AskShared, VerifyReady, AskAgain, VerifyTimeout, Fail
  <2> QED
    BY <2>1, SameFacts
<1>2. CASE Begin(r)
  <2>1. /\ phase[r] \in {"idle", "ok", "error"} /\ phase'[r] = "planned"
        /\ \A q \in Runner \ {r} : phase'[q] = phase[q] /\ enabled'[q] = enabled[q]
    BY <1>0, <1>2 DEF Begin, PhaseOK, RunsOK
  <2>2. /\ Outcome' = [Outcome EXCEPT ![r] = "planned"]
        /\ WantedBy' = [WantedBy EXCEPT ![r] = {}]
    BY <2>1, OneRun DEF Knows
  <2>3. Outcome[r] \in {"idle", "ok", "error"}
    BY <2>1, OutcomeIs DEF Knows
  <2> QED
    BY <1>1, <2>2, <2>3 DEF Desired!Plan
<1>3. CASE StartMigrate(r)
  <2>1. /\ phase[r] = "planned" /\ phase'[r] = "migrate" /\ enabled'[r] \in BOOLEAN
        /\ \A q \in Runner \ {r} : phase'[q] = phase[q] /\ enabled'[q] = enabled[q]
    BY <1>0, <1>3 DEF StartMigrate, PhaseOK, RunsOK
  <2>2. /\ Outcome' = [Outcome EXCEPT ![r] = "working"]
        /\ WantedBy' = [WantedBy EXCEPT ![r] = Wanted(enabled'[r])]
    BY <2>1, OneRun DEF Knows
  <2>3. Outcome[r] = "planned"
    BY <2>1, OutcomeIs DEF Knows
  <2> QED
    BY <1>1, <2>1, <2>2, <2>3 DEF Desired!Start
<1>4. CASE StartApi(r) \/ AskShared(r) \/ AskAgain(r)
  <2>1. enabled' = enabled
    BY <1>4 DEF StartApi, AskShared, AskAgain
  <2>2. \A q \in Runner :
          \/ phase'[q] = phase[q]
          \/ phase[q] \in Knows \ {"ok"} /\ phase'[q] \in Knows \ {"ok"}
    <3>1. CASE StartApi(r)
      <4>1. /\ phase[r] = "migrate"
            /\ phase' = [q \in Runner |-> IF q = r \/ phase[q] = "asked" THEN "verify" ELSE phase[q]]
        BY <3>1 DEF StartApi
      <4> QED
        BY <4>1 DEF Knows
    <3>2. CASE AskShared(r) \/ AskAgain(r)
      BY <1>0, <3>2 DEF AskShared, AskAgain, PhaseOK, Knows
    <3> QED
      BY <1>4, <3>1, <3>2
  <2> QED
    BY <1>1, <2>1, <2>2, SameRuns DEF Desired!vars
<1>5. CASE VerifyReady(r)
  <2>1. /\ phase[r] = "asked" /\ phase'[r] = "ok" /\ enabled' = enabled
        /\ \A q \in Runner \ {r} : phase'[q] = phase[q]
    BY <1>0, <1>5 DEF VerifyReady, PhaseOK
  <2>2. /\ Outcome' = [Outcome EXCEPT ![r] = "ok"]
        /\ WantedBy' = [WantedBy EXCEPT ![r] = Wanted(enabled[r])]
    BY <2>1, OneRun DEF Knows
  <2>3. Outcome[r] = "working" /\ WantedBy[r] = Wanted(enabled[r])
    BY <2>1, OutcomeIs DEF Knows
  <2>4. WantedBy' = WantedBy
    BY <2>2, <2>3 DEF WantedBy
  <2>5. \A i \in 1 .. 19 : InProgram(i, enabled[r]) => Lasts(i)
    BY <1>0, <2>1 DEF Sound
  <2>6. Wanted(enabled[r]) \subseteq Facts
    BY <1>0, <2>5, WantedHolds DEF RunsOK
  <2> QED
    BY <1>1, <2>2, <2>3, <2>4, <2>6 DEF Desired!Succeed
<1>6. CASE VerifyTimeout(r) \/ Fail(r)
  <2>1. End(r) /\ phase[r] \in {"planned", "migrate", "verify", "asked"}
    BY <1>6 DEF VerifyTimeout, Fail
  <2>2. /\ phase'[r] = "error"
        /\ \A q \in Runner \ {r} : phase'[q] = phase[q] /\ enabled'[q] = enabled[q]
    BY <1>0, <2>1 DEF End, PhaseOK, RunsOK
  <2>3. /\ Outcome' = [Outcome EXCEPT ![r] = "error"]
        /\ WantedBy' = [WantedBy EXCEPT ![r] = {}]
    BY <2>2, OneRun DEF Knows
  <2>4. Outcome[r] \in {"planned", "working"}
    BY <2>1, OutcomeIs DEF Knows
  <2> QED
    BY <1>1, <2>3, <2>4 DEF Desired!Fail
<1> QED
  BY <1>2, <1>3, <1>4, <1>5, <1>6

LEMMA ApiDesired ==
  ASSUME LastingInv, \/ Boot \/ Restart \/ Disconnect \/ \E x \in Role : Connect(x)
                     \/ \E m \in Manifest : Edit(m)
  PROVE  UNCHANGED Desired!vars
<1>1. UNCHANGED <<enabled, database>>
  BY DEF Boot, Restart, Disconnect, Connect, Edit, run
<1>2. \A q \in Runner :
        \/ phase'[q] = phase[q]
        \/ phase[q] \in Knows \ {"ok"} /\ phase'[q] \in Knows \ {"ok"}
  <2>1. CASE Restart
    BY <2>1 DEF Restart, Unanswered, Knows
  <2>2. CASE Boot \/ Disconnect \/ (\E x \in Role : Connect(x)) \/ \E m \in Manifest : Edit(m)
    BY <2>2 DEF Boot, Disconnect, Connect, Edit, run
  <2> QED
    BY <2>1, <2>2
<1> QED
  BY <1>1, <1>2, SameRuns, SameFacts DEF Desired!vars

LEMMA DesiredInit == Init => Desired!Init
<1> SUFFICES ASSUME Init PROVE Desired!Init
  OBVIOUS
<1>1. phase = [r \in Runner |-> "idle"]
  BY Zenon DEF Init
<1>2. Outcome = [r \in Runner |-> "idle"] /\ WantedBy = [r \in Runner |-> {}]
  BY <1>1 DEF Outcome, WantedBy, Knows
<1>3. /\ \A x \in Role : password[x] = NULL
      /\ granted = {<<"public", "connect">>, <<"public", "use schema public">>}
      /\ \A s \in Schema : applied[s] = 0
  BY DEF Init
<1>4. \A e \in Lasting : e \notin granted
  BY <1>3, RevokesNoneLasting, Named
<1>5. \A e \in Closed : e \in granted
  BY <1>3 DEF Closed
<1>6. ASSUME NEW f, f \in Facts PROVE FALSE
  <2>1. ASSUME NEW s \in Schema PROVE 1 .. applied[s] = {}
    <3>1. applied[s] = 0
      BY <1>3
    <3> QED
      BY <3>1
  <2>2. CASE \E x \in Role : password[x] # NULL /\ f = <<"role", x>>
    BY <2>2, <1>3
  <2>3. CASE \E e \in Lasting : e \in granted /\ f = <<"granted", e>>
    BY <2>3, <1>4
  <2>4. CASE \E e \in Closed : e \notin granted /\ f = <<"closed", e>>
    BY <2>4, <1>5
  <2>5. CASE \E s \in Schema : \E k \in 1 .. applied[s] : f = <<"applied", <<s, k>>>>
    BY <2>5, <2>1
  <2> QED
    BY <1>6, <2>2, <2>3, <2>4, <2>5, InFacts
<1>7. Facts = {}
  BY <1>6
<1> QED
  BY <1>2, <1>7 DEF Desired!Init

LEMMA DesiredStep ==
  ASSUME LastingInv, LastingInv', [Next]_vars
  PROVE  Desired!Next \/ UNCHANGED Desired!vars
<1>1. ASSUME NEW r \in Runner, Statement(r) PROVE Desired!Next
  BY <1>1, StatementDesired DEF Desired!Next
<1>2. ASSUME NEW r \in Runner,
             \/ Begin(r) \/ StartMigrate(r) \/ StartApi(r) \/ AskShared(r) \/ VerifyReady(r)
             \/ AskAgain(r) \/ VerifyTimeout(r) \/ Fail(r)
      PROVE  Desired!Next \/ UNCHANGED Desired!vars
  BY <1>2, RunDesired DEF Desired!Next
<1>3. CASE \/ Boot \/ Restart \/ Disconnect \/ \E x \in Role : Connect(x)
           \/ \E m \in Manifest : Edit(m)
  BY <1>3, ApiDesired
<1>4. CASE UNCHANGED vars
  <2>1. UNCHANGED <<phase, enabled, database>>
    BY <1>4 DEF vars, run
  <2> QED
    BY <2>1, SameRuns, SameFacts DEF Desired!vars
<1> QED
  BY <1>1, <1>2, <1>3, <1>4 DEF Next, reconcile

\* Installation implements DesiredState for any number of operators: what any run
\* has brought about stays, no role gets at tables whose migrations are not
\* complete, and a run that succeeds finds all it wanted.
THEOREM Implements == Spec => DesiredSpec
<1>1. LastingInv /\ LastingInv' /\ [Next]_vars => [Desired!Next]_(Desired!vars)
  BY DesiredStep
<1> QED
  BY <1>1, DesiredInit, LastingInvariance, PTL DEF Spec, DesiredSpec, Desired!Spec

\* Whatever other operators do, the database keeps what a successful run wanted.
THEOREM SuccessStays == Spec => []SuccessLasts
<1>1. ASSUME LastingInv, NEW r \in Runner, Outcome[r] = "ok"
      PROVE  WantedBy[r] \subseteq Facts
  <2>1. TypeOK /\ RunsOK /\ Sound(r)
    BY <1>1, LastingParts, Parts
  <2>2. phase[r] = "ok"
    BY <1>1, OutcomeIs
  <2>3. WantedBy[r] = Wanted(enabled[r])
    BY <2>2, OutcomeIs DEF Knows
  <2>4. \A i \in 1 .. 19 : InProgram(i, enabled[r]) => Lasts(i)
    BY <2>1, <2>2 DEF Sound
  <2> QED
    BY <2>1, <2>3, <2>4, WantedHolds DEF RunsOK
<1>2. LastingInv => SuccessLasts
  BY <1>1 DEF SuccessLasts, Desired!SuccessLasts
<1> QED
  BY <1>2, LastingInvariance, PTL
===============================================================================
