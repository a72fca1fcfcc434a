-------------------------- MODULE InstallationProofs --------------------------
(***************************************************************************)
(* Theorems about an installation: its types for any number of operators,  *)
(* and what a run promises when there is one, wherever runs have stopped   *)
(* before.                                                                 *)
(***************************************************************************)
EXTENDS Installation, TLAPS

USE SecretAssumption, MigrationsAssumption

-------------------------------------------------------------------------------
(* The program *)

Kinds == {"guard", "provision", "migrate", "grant", "revoke", "check"}
Rights == {"connect", "use schema public", "read history", "write history", "use tables",
           "use outbox"}

\* What each statement of Program does.
LEMMA DoOf ==
  /\ Program[1].do = "guard"
  /\ Program[2].do = "provision"
  /\ Program[3].do = "provision"
  /\ Program[4].do = "provision"
  /\ Program[5].do = "revoke"
  /\ Program[6].do = "revoke"
  /\ Program[7].do = "grant"
  /\ Program[8].do = "grant"
  /\ Program[9].do = "grant"
  /\ Program[10].do = "migrate"
  /\ Program[11].do = "grant"
  /\ Program[12].do = "migrate"
  /\ Program[13].do = "grant"
  /\ Program[14].do = "revoke"
  /\ Program[15].do = "revoke"
  /\ Program[16].do = "grant"
  /\ Program[17].do = "check"
  /\ Program[18].do = "check"
  /\ Program[19].do = "check"
<1>1. Program[1].do = "guard"
  BY DEF Program, Guarding
<1>2. Program[2].do = "provision"
  BY DEF Program, Provisioning
<1>3. Program[3].do = "provision"
  BY DEF Program, Provisioning
<1>4. Program[4].do = "provision"
  BY DEF Program, Provisioning
<1>5. Program[5].do = "revoke"
  BY DEF Program, Revoking
<1>6. Program[6].do = "revoke"
  BY DEF Program, Revoking
<1>7. Program[7].do = "grant"
  BY DEF Program, Granting
<1>8. Program[8].do = "grant"
  BY DEF Program, Granting
<1>9. Program[9].do = "grant"
  BY DEF Program, Granting
<1>10. Program[10].do = "migrate"
  BY DEF Program, Migrating
<1>11. Program[11].do = "grant"
  BY DEF Program, Granting
<1>12. Program[12].do = "migrate"
  BY DEF Program, Migrating
<1>13. Program[13].do = "grant"
  BY DEF Program, Granting
<1>14. Program[14].do = "revoke"
  BY DEF Program, Revoking, HistoryReadOnly
<1>15. Program[15].do = "revoke"
  BY DEF Program, Revoking
<1>16. Program[16].do = "grant"
  BY DEF Program, Granting
<1>17. Program[17].do = "check"
  BY DEF Program, Checking
<1>18. Program[18].do = "check"
  BY DEF Program, Checking
<1>19. Program[19].do = "check"
  BY DEF Program, Checking
<1> QED
  BY <1>1, <1>2, <1>3, <1>4, <1>5, <1>6, <1>7, <1>8, <1>9, <1>10, <1>11,
     <1>12, <1>13, <1>14, <1>15, <1>16, <1>17, <1>18, <1>19

\* The role each statement is about.
LEMMA RoleIs ==
  /\ Program[1].role = "public"
  /\ Program[2].role = "ready"
  /\ Program[3].role = "example"
  /\ Program[4].role = "dispatcher"
  /\ Program[5].role = "public"
  /\ Program[6].role = "public"
  /\ Program[7].role = "ready"
  /\ Program[8].role = "example"
  /\ Program[9].role = "dispatcher"
  /\ Program[10].role = "ready"
  /\ Program[11].role = "ready"
  /\ Program[12].role = "example"
  /\ Program[13].role = "example"
  /\ Program[14].role = "example"
  /\ Program[15].role = "dispatcher"
  /\ Program[16].role = "dispatcher"
  /\ Program[17].role = "ready"
  /\ Program[18].role = "example"
  /\ Program[19].role = "dispatcher"
<1>1. Program[1].role = "public"
  BY DEF Program, Guarding
<1>2. Program[2].role = "ready"
  BY DEF Program, Provisioning
<1>3. Program[3].role = "example"
  BY DEF Program, Provisioning
<1>4. Program[4].role = "dispatcher"
  BY DEF Program, Provisioning
<1>5. Program[5].role = "public"
  BY DEF Program, Revoking
<1>6. Program[6].role = "public"
  BY DEF Program, Revoking
<1>7. Program[7].role = "ready"
  BY DEF Program, Granting
<1>8. Program[8].role = "example"
  BY DEF Program, Granting
<1>9. Program[9].role = "dispatcher"
  BY DEF Program, Granting
<1>10. Program[10].role = "ready"
  BY DEF Program, Migrating
<1>11. Program[11].role = "ready"
  BY DEF Program, Granting
<1>12. Program[12].role = "example"
  BY DEF Program, Migrating
<1>13. Program[13].role = "example"
  BY DEF Program, Granting
<1>14. Program[14].role = "example"
  BY DEF Program, Revoking, HistoryReadOnly
<1>15. Program[15].role = "dispatcher"
  BY DEF Program, Revoking
<1>16. Program[16].role = "dispatcher"
  BY DEF Program, Granting
<1>17. Program[17].role = "ready"
  BY DEF Program, Checking
<1>18. Program[18].role = "example"
  BY DEF Program, Checking
<1>19. Program[19].role = "dispatcher"
  BY DEF Program, Checking
<1> QED
  BY <1>1, <1>2, <1>3, <1>4, <1>5, <1>6, <1>7, <1>8, <1>9, <1>10, <1>11,
     <1>12, <1>13, <1>14, <1>15, <1>16, <1>17, <1>18, <1>19

\* The schemas that are migrated.
LEMMA SchemaIs ==
  /\ Program[10].schema = "bc_shared"
  /\ Program[12].schema = "bc_example"
<1>10. Program[10].schema = "bc_shared"
  BY DEF Program, Migrating
<1>12. Program[12].schema = "bc_example"
  BY DEF Program, Migrating
<1> QED
  BY <1>10, <1>12

\* The statements that grant and revoke.
LEMMA WhatIs ==
  /\ Program[5] = Revoking("public", {"connect"})
  /\ Program[6] = Revoking("public", {"use schema public"})
  /\ Program[7] = Granting("ready", {"connect"})
  /\ Program[8] = Granting("example", {"connect"})
  /\ Program[9] = Granting("dispatcher", {"connect"})
  /\ Program[11] = Granting("ready", {"read history"})
  /\ Program[13] = Granting("example", {"read history", "write history", "use tables"})
  /\ Program[14] = Revoking("example", {"write history"})
  /\ Program[15] = Revoking("dispatcher", {"use outbox"})
  /\ Program[16] = Granting("dispatcher", {"use outbox"})
<1>5. Program[5] = Revoking("public", {"connect"})
  BY DEF Program
<1>6. Program[6] = Revoking("public", {"use schema public"})
  BY DEF Program
<1>7. Program[7] = Granting("ready", {"connect"})
  BY DEF Program
<1>8. Program[8] = Granting("example", {"connect"})
  BY DEF Program
<1>9. Program[9] = Granting("dispatcher", {"connect"})
  BY DEF Program
<1>11. Program[11] = Granting("ready", {"read history"})
  BY DEF Program
<1>13. Program[13] = Granting("example", {"read history", "write history", "use tables"})
  BY DEF Program
<1>14. Program[14] = Revoking("example", {"write history"})
  BY DEF Program, HistoryReadOnly
<1>15. Program[15] = Revoking("dispatcher", {"use outbox"})
  BY DEF Program
<1>16. Program[16] = Granting("dispatcher", {"use outbox"})
  BY DEF Program
<1> QED
  BY <1>5, <1>6, <1>7, <1>8, <1>9, <1>11, <1>13, <1>14, <1>15, <1>16

LEMMA ProgramLength == Len(Program) = 19
BY DEF Program

\* The positions of each kind of statement.
LEMMA Positions ==
  ASSUME NEW i \in 1 .. 19
  PROVE  \/ i \in {1} \/ i \in {2, 3, 4} \/ i \in {10, 12} \/ i \in {7, 8, 9, 11, 13, 16}
         \/ i \in {5, 6, 14, 15} \/ i \in {17, 18, 19}
OBVIOUS

LEMMA KindOf ==
  /\ \A i \in {1} : Program[i].do = "guard"
  /\ \A i \in {2, 3, 4} : Program[i].do = "provision"
  /\ \A i \in {5, 6, 14, 15} : Program[i].do = "revoke"
  /\ \A i \in {7, 8, 9, 11, 13, 16} : Program[i].do = "grant"
  /\ \A i \in {10, 12} : Program[i].do = "migrate"
  /\ \A i \in {17, 18, 19} : Program[i].do = "check"
<1>1. \A i \in {1} : Program[i].do = "guard"
  BY DoOf
<1>2. \A i \in {2, 3, 4} : Program[i].do = "provision"
  BY DoOf
<1>3. \A i \in {5, 6, 14, 15} : Program[i].do = "revoke"
  BY DoOf
<1>4. \A i \in {7, 8, 9, 11, 13, 16} : Program[i].do = "grant"
  BY DoOf
<1>5. \A i \in {10, 12} : Program[i].do = "migrate"
  BY DoOf
<1>6. \A i \in {17, 18, 19} : Program[i].do = "check"
  BY DoOf
<1> QED
  BY <1>1, <1>2, <1>3, <1>4, <1>5, <1>6

LEMMA RoleOf ==
  /\ \A i \in {1, 5, 6} : Program[i].role = "public"
  /\ \A i \in {2, 7, 10, 11, 17} : Program[i].role = "ready"
  /\ \A i \in {3, 8, 12, 13, 14, 18} : Program[i].role = "example"
  /\ \A i \in {4, 9, 15, 16, 19} : Program[i].role = "dispatcher"
<1>1. \A i \in {1, 5, 6} : Program[i].role = "public"
  BY RoleIs
<1>2. \A i \in {2, 7, 10, 11, 17} : Program[i].role = "ready"
  BY RoleIs
<1>3. \A i \in {3, 8, 12, 13, 14, 18} : Program[i].role = "example"
  BY RoleIs
<1>4. \A i \in {4, 9, 15, 16, 19} : Program[i].role = "dispatcher"
  BY RoleIs
<1> QED
  BY <1>1, <1>2, <1>3, <1>4

LEMMA Pairs ==
  ASSUME NEW x, NEW ps, NEW R, NEW Q, x \in R, ps \subseteq Q
  PROVE  Granting(x, ps).what \subseteq R \X Q /\ Revoking(x, ps).what \subseteq R \X Q
BY DEF Granting, Revoking

\* Every privilege that is granted or revoked is one of TypeOK's.
LEMMA Privileges ==
  \A i \in {5, 6, 7, 8, 9, 11, 13, 14, 15, 16} :
    Program[i].what \subseteq (Role \cup {"public"}) \X Rights
<1>5. Program[5].what \subseteq (Role \cup {"public"}) \X Rights
  <2>1. "public" \in Role \cup {"public"} /\ {"connect"} \subseteq Rights
    BY DEF Role, Rights
  <2> QED
    BY <2>1, WhatIs, Pairs, Zenon
<1>6. Program[6].what \subseteq (Role \cup {"public"}) \X Rights
  <2>1. "public" \in Role \cup {"public"} /\ {"use schema public"} \subseteq Rights
    BY DEF Role, Rights
  <2> QED
    BY <2>1, WhatIs, Pairs, Zenon
<1>7. Program[7].what \subseteq (Role \cup {"public"}) \X Rights
  <2>1. "ready" \in Role \cup {"public"} /\ {"connect"} \subseteq Rights
    BY DEF Role, Rights
  <2> QED
    BY <2>1, WhatIs, Pairs, Zenon
<1>8. Program[8].what \subseteq (Role \cup {"public"}) \X Rights
  <2>1. "example" \in Role \cup {"public"} /\ {"connect"} \subseteq Rights
    BY DEF Role, Rights
  <2> QED
    BY <2>1, WhatIs, Pairs, Zenon
<1>9. Program[9].what \subseteq (Role \cup {"public"}) \X Rights
  <2>1. "dispatcher" \in Role \cup {"public"} /\ {"connect"} \subseteq Rights
    BY DEF Role, Rights
  <2> QED
    BY <2>1, WhatIs, Pairs, Zenon
<1>11. Program[11].what \subseteq (Role \cup {"public"}) \X Rights
  <2>1. "ready" \in Role \cup {"public"} /\ {"read history"} \subseteq Rights
    BY DEF Role, Rights
  <2> QED
    BY <2>1, WhatIs, Pairs, Zenon
<1>13. Program[13].what \subseteq (Role \cup {"public"}) \X Rights
  <2>1. "example" \in Role \cup {"public"} /\ {"read history", "write history", "use tables"} \subseteq Rights
    BY DEF Role, Rights
  <2> QED
    BY <2>1, WhatIs, Pairs, Zenon
<1>14. Program[14].what \subseteq (Role \cup {"public"}) \X Rights
  <2>1. "example" \in Role \cup {"public"} /\ {"write history"} \subseteq Rights
    BY DEF Role, Rights
  <2> QED
    BY <2>1, WhatIs, Pairs, Zenon
<1>15. Program[15].what \subseteq (Role \cup {"public"}) \X Rights
  <2>1. "dispatcher" \in Role \cup {"public"} /\ {"use outbox"} \subseteq Rights
    BY DEF Role, Rights
  <2> QED
    BY <2>1, WhatIs, Pairs, Zenon
<1>16. Program[16].what \subseteq (Role \cup {"public"}) \X Rights
  <2>1. "dispatcher" \in Role \cup {"public"} /\ {"use outbox"} \subseteq Rights
    BY DEF Role, Rights
  <2> QED
    BY <2>1, WhatIs, Pairs, Zenon
<1> QED
  BY <1>5, <1>6, <1>7, <1>8, <1>9, <1>11, <1>13, <1>14, <1>15, <1>16

\* What a statement may name.
LEMMA Statements ==
  ASSUME NEW i \in 1 .. Len(Program)
  PROVE  /\ Program[i].do \in Kinds
         /\ Program[i].do = "provision" => Program[i].role \in Role
         /\ Program[i].do = "migrate" => Program[i].schema \in Schema
         /\ Program[i].do \in {"grant", "revoke"} =>
              Program[i].what \subseteq (Role \cup {"public"}) \X Rights
<1>1. \/ i \in {1} \/ i \in {2, 3, 4} \/ i \in {10, 12} \/ i \in {7, 8, 9, 11, 13, 16}
      \/ i \in {5, 6, 14, 15} \/ i \in {17, 18, 19}
  BY ProgramLength, Positions
<1>2. Program[i].do \in Kinds
  BY <1>1, KindOf, Zenon DEF Kinds
<1>3. Program[i].do = "provision" => i \in {2, 3, 4}
  BY <1>1, KindOf
<1>4. Program[i].do = "migrate" => i \in {10, 12}
  BY <1>1, KindOf
<1>5. Program[i].do \in {"grant", "revoke"} => i \in {5, 6, 7, 8, 9, 11, 13, 14, 15, 16}
  BY <1>1, KindOf
<1>6. i \in {2, 3, 4} => Program[i].role \in Role
  BY RoleOf DEF Role
<1>7. i \in {10, 12} => Program[i].schema \in Schema
  BY SchemaIs DEF Schema
<1>8. i \in {5, 6, 7, 8, 9, 11, 13, 14, 15, 16} =>
        Program[i].what \subseteq (Role \cup {"public"}) \X Rights
  BY Privileges
<1> QED
  BY <1>2, <1>3, <1>4, <1>5, <1>6, <1>7, <1>8

\* Without the example module, these statements are left.
LEMMA WithoutExample ==
  \A i \in 1 .. 19 : InProgram(i, FALSE) <=> i \in {1, 2, 5, 6, 7, 10, 11, 17}
<1> SUFFICES ASSUME NEW i \in 1 .. 19
             PROVE  Program[i].role \in {"public", "ready"} <=> i \in {1, 2, 5, 6, 7, 10, 11, 17}
  BY DEF InProgram
<1>1. \/ i \in {1, 5, 6} \/ i \in {2, 7, 10, 11, 17}
      \/ i \in {3, 8, 12, 13, 14, 18} \/ i \in {4, 9, 15, 16, 19}
  OBVIOUS
<1>2. CASE i \in {1, 5, 6} \/ i \in {2, 7, 10, 11, 17}
  <2>1. Program[i].role \in {"public", "ready"}
    BY <1>2, RoleOf
  <2>2. i \in {1, 2, 5, 6, 7, 10, 11, 17}
    BY <1>2
  <2> QED
    BY <2>1, <2>2
<1>3. CASE i \in {3, 8, 12, 13, 14, 18} \/ i \in {4, 9, 15, 16, 19}
  <2>1. Program[i].role \in {"example", "dispatcher"}
    BY <1>3, RoleOf
  <2>2. i \notin {1, 2, 5, 6, 7, 10, 11, 17}
    BY <1>3
  <2> QED
    BY <2>1, <2>2
<1> QED
  BY <1>1, <1>2, <1>3

LEMMA FollowingIs ==
  ASSUME NEW i \in 0 .. 19, NEW en \in BOOLEAN
  PROVE  /\ Following(i, en) \in i + 1 .. 20
         /\ Following(i, en) <= 19 => InProgram(Following(i, en), en)
         /\ \A k \in i + 1 .. Following(i, en) - 1 : ~InProgram(k, en)
<1> DEFINE P(j) == /\ j <= Len(Program) => InProgram(j, en)
                   /\ \A k \in i + 1 .. j - 1 : ~InProgram(k, en)
           S == i + 1 .. Len(Program) + 1
<1>1. \E j \in S : P(j)
  <2>1. CASE en
    <3>1. i + 1 \in S /\ P(i + 1)
      BY <2>1, ProgramLength DEF InProgram
    <3> QED
      BY <3>1
  <2>2. CASE ~en
    <3> DEFINE n == IF i < 1 THEN 1 ELSE IF i < 2 THEN 2 ELSE IF i < 5 THEN 5
                    ELSE IF i < 6 THEN 6 ELSE IF i < 7 THEN 7 ELSE IF i < 10 THEN 10
                    ELSE IF i < 11 THEN 11 ELSE IF i < 17 THEN 17 ELSE 20
    <3>1. n \in i + 1 .. 20
      OBVIOUS
    <3>2. n <= 19 => n \in {1, 2, 5, 6, 7, 10, 11, 17}
      OBVIOUS
    <3>3. \A k \in i + 1 .. n - 1 : k \notin {1, 2, 5, 6, 7, 10, 11, 17}
      OBVIOUS
    <3> HIDE DEF n
    <3>4. n <= Len(Program) => InProgram(n, en)
      <4> SUFFICES ASSUME n <= 19
                   PROVE  InProgram(n, FALSE)
        BY <2>2, ProgramLength, Zenon
      <4>1. n \in 1 .. 19
        BY <3>1
      <4> QED
        BY <3>2, <4>1, WithoutExample
    <3>5. \A k \in i + 1 .. n - 1 : ~InProgram(k, en)
      <4> SUFFICES ASSUME NEW k \in i + 1 .. n - 1
                   PROVE  ~InProgram(k, en)
        OBVIOUS
      <4>1. k \in 1 .. 19
        BY <3>1
      <4> QED
        BY <2>2, <3>3, <4>1, WithoutExample
    <3> QED
      BY <3>1, <3>4, <3>5, ProgramLength
  <2> QED
    BY <2>1, <2>2
<1>2. Following(i, en) = CHOOSE j \in S : P(j)
  BY DEF Following
<1> HIDE DEF P, S
<1>3. Following(i, en) \in S /\ P(Following(i, en))
  BY <1>1, <1>2
<1> QED
  BY <1>3, ProgramLength DEF P, S

-------------------------------------------------------------------------------
(* Types *)

Phases == {"idle", "planned", "migrate", "verify", "asked", "ok", "error"}
ApiStates == {"absent", "starting", "running", "exited"}

\* The parts of TypeOK.
FileOK == file \in Manifest
PhaseOK == phase \in [Runner -> Phases]
RunsOK ==
  /\ step \in [Runner -> 0 .. 20]
  /\ enabled \in [Runner -> BOOLEAN]
  /\ secrets \in [Runner -> Secret \cup {NULL}]
PasswordOK == password \in [Role -> Secret \cup {NULL}]
GrantedOK == granted \subseteq (Role \cup {"public"}) \X Rights
AppliedOK == applied \in [Schema -> Nat] /\ \A s \in Schema : applied[s] <= Migrations[s]
ApiOK == api \in [state : ApiStates, secrets : Secret \cup {NULL}, example : BOOLEAN,
                  open : SUBSET Role]

LEMMA Parts ==
  /\ TypeOK <=> FileOK /\ PhaseOK /\ RunsOK /\ PasswordOK /\ GrantedOK /\ AppliedOK /\ ApiOK
  /\ TypeOK' <=> (FileOK /\ PhaseOK /\ RunsOK /\ PasswordOK /\ GrantedOK /\ AppliedOK /\ ApiOK)'
<1>0. Len(Program) + 1 = 20
  BY ProgramLength
<1> USE <1>0
    DEF TypeOK, FileOK, PhaseOK, RunsOK, PasswordOK, GrantedOK, AppliedOK, ApiOK, Phases,
        ApiStates, Rights
<1>1. TypeOK <=> FileOK /\ PhaseOK /\ RunsOK /\ PasswordOK /\ GrantedOK /\ AppliedOK /\ ApiOK
  BY Zenon
<1>2. TypeOK' <=> (FileOK /\ PhaseOK /\ RunsOK /\ PasswordOK /\ GrantedOK /\ AppliedOK /\ ApiOK)'
  BY Zenon
<1> QED
  BY <1>1, <1>2, Zenon

\* The fields of the API and what its pools name.
LEMMA ApiFields ==
  ASSUME ApiOK
  PROVE  /\ api.open \subseteq Role /\ api.secrets \in Secret \cup {NULL}
         /\ api.example \in BOOLEAN /\ api.state \in ApiStates
         /\ Pools \subseteq Role
BY DEF ApiOK, Pools, Role

LEMMA TypeInit == Init => TypeOK
<1> SUFFICES ASSUME Init PROVE TypeOK
  OBVIOUS
<1>1. FileOK /\ PhaseOK /\ RunsOK /\ PasswordOK
  <2>1. FileOK /\ PhaseOK /\ PasswordOK
    BY DEF Init, FileOK, PhaseOK, Phases, PasswordOK
  <2>2. step \in [Runner -> 0 .. 20]
    <3>1. step = [r \in Runner |-> 0]
      BY DEF Init
    <3> QED
      BY <3>1
  <2>4. secrets \in [Runner -> Secret \cup {NULL}]
    BY Zenon DEF Init
  <2>3. enabled \in [Runner -> BOOLEAN]
    BY Zenon DEF Init
  <2> QED
    BY <2>1, <2>2, <2>3, <2>4 DEF RunsOK
<1>2. GrantedOK
  <2>1. "public" \in Role \cup {"public"} /\ "connect" \in Rights /\ "use schema public" \in Rights
    BY DEF Rights
  <2>2. /\ <<"public", "connect">> \in (Role \cup {"public"}) \X Rights
        /\ <<"public", "use schema public">> \in (Role \cup {"public"}) \X Rights
    BY <2>1
  <2>3. granted = {<<"public", "connect">>, <<"public", "use schema public">>}
    BY DEF Init
  <2> QED
    BY <2>2, <2>3, Zenon DEF GrantedOK
<1>3. AppliedOK
  <2>1. applied = [s \in Schema |-> 0]
    BY DEF Init
  <2>2. applied \in [Schema -> Nat]
    BY <2>1
  <2>3. \A s \in Schema : Migrations[s] \in Nat
    OBVIOUS
  <2>4. \A s \in Schema : applied[s] <= Migrations[s]
    BY <2>1, <2>3
  <2> QED
    BY <2>2, <2>4 DEF AppliedOK
<1>4. ApiOK
  BY DEF Init, ApiOK, ApiStates, NoApi
<1> QED
  BY <1>1, <1>2, <1>3, <1>4, Parts

\* A statement that completes leaves its run at the next one.
LEMMA AdvanceOK ==
  ASSUME RunsOK, NEW r \in Runner, step[r] <= 19, Advance(r), enabled' = enabled,
         secrets' = secrets
  PROVE  /\ RunsOK'
         /\ step'[r] = Following(step[r], enabled[r])
         /\ step'[r] \in step[r] + 1 .. 20
         /\ \A q \in Runner \ {r} : step'[q] = step[q]
<1>1. step[r] \in 0 .. 19 /\ enabled[r] \in BOOLEAN
  BY DEF RunsOK
<1>2. Following(step[r], enabled[r]) \in step[r] + 1 .. 20
  BY <1>1, FollowingIs
<1>3. step' = [step EXCEPT ![r] = Following(step[r], enabled[r])]
  BY DEF Advance
<1> QED
  BY <1>1, <1>2, <1>3 DEF RunsOK

LEMMA EndOK ==
  ASSUME PhaseOK, RunsOK, NEW r \in Runner, End(r)
  PROVE  /\ PhaseOK' /\ RunsOK'
         /\ phase'[r] = "error" /\ step'[r] = 0
BY DEF PhaseOK, RunsOK, End, Phases

\* Where a statement of one kind is, and where it leaves its run.
LEMMA AtOK ==
  ASSUME RunsOK, NEW r \in Runner, NEW what, At(r, what), step[r] # 0
  PROVE  /\ phase[r] = "migrate"
         /\ step[r] \in 1 .. 19
         /\ Program[step[r]].do = what
BY ProgramLength DEF RunsOK, At

\* A run whose container is at work is at a statement or past the last.
Placed == \A r \in Runner : phase[r] = "migrate" => step[r] # 0

\* The statements leave values of the right kind behind.
LEMMA StatementTypes ==
  ASSUME TypeOK, Placed, NEW r \in Runner, Statement(r)
  PROVE  TypeOK' /\ Placed'
<1> USE DEF Placed
<1>0. FileOK /\ PhaseOK /\ RunsOK /\ PasswordOK /\ GrantedOK /\ AppliedOK /\ ApiOK
  BY Parts
<1>1. CASE GuardPasses(r)
  <2>1. At(r, "guard") /\ Advance(r) /\ UNCHANGED <<file, phase, enabled, secrets, database, api>>
    BY <1>1 DEF GuardPasses
  <2>2. step[r] \in 1 .. 19
    BY <1>0, <2>1, AtOK DEF At
  <2>3. RunsOK' /\ Placed'
    BY <1>0, <2>1, <2>2, AdvanceOK
  <2>4. FileOK' /\ PhaseOK' /\ PasswordOK' /\ GrantedOK' /\ AppliedOK' /\ ApiOK'
    BY <1>0, <2>1 DEF database, FileOK, PhaseOK, PasswordOK, GrantedOK, AppliedOK, ApiOK
  <2> QED
    BY <2>3, <2>4, Parts
<1>2. CASE GuardRejects(r)
  <2>1. End(r) /\ UNCHANGED <<file, database, api>>
    BY <1>2 DEF GuardRejects
  <2>2. PhaseOK' /\ RunsOK' /\ Placed'
    BY <1>0, <2>1 DEF PhaseOK, RunsOK, End, Phases
  <2>3. FileOK' /\ PasswordOK' /\ GrantedOK' /\ AppliedOK' /\ ApiOK'
    BY <1>0, <2>1 DEF database, FileOK, PasswordOK, GrantedOK, AppliedOK, ApiOK
  <2> QED
    BY <2>2, <2>3, Parts
<1>3. CASE Provision(r)
  <2>1. /\ At(r, "provision") /\ Advance(r)
        /\ UNCHANGED <<file, phase, enabled, secrets, granted, applied, api>>
    BY <1>3 DEF Provision
  <2>2. step[r] \in 1 .. 19 /\ Program[step[r]].do = "provision"
    BY <1>0, <2>1, AtOK DEF At
  <2>3. RunsOK' /\ Placed'
    BY <1>0, <2>1, <2>2, AdvanceOK
  <2>4. PasswordOK'
    BY <1>0, <1>3 DEF PasswordOK, RunsOK, Provision
  <2>5. FileOK' /\ PhaseOK' /\ GrantedOK' /\ AppliedOK' /\ ApiOK'
    BY <1>0, <2>1 DEF FileOK, PhaseOK, GrantedOK, AppliedOK, ApiOK
  <2> QED
    BY <2>3, <2>4, <2>5, Parts
<1>4. CASE Grant(r) \/ Revoke(r)
  <2>1. /\ At(r, "grant") \/ At(r, "revoke")
        /\ Advance(r)
        /\ UNCHANGED <<file, phase, enabled, secrets, password, applied, api>>
        /\ granted' \subseteq granted \cup Program[step[r]].what
    BY <1>4 DEF Grant, Revoke
  <2>2. step[r] \in 1 .. 19 /\ Program[step[r]].do \in {"grant", "revoke"}
    BY <1>0, <2>1, AtOK DEF At
  <2>3. RunsOK' /\ Placed'
    BY <1>0, <2>1, <2>2, AdvanceOK
  <2>4. GrantedOK'
    <3>1. Program[step[r]].what \subseteq (Role \cup {"public"}) \X Rights
      BY <2>2, Statements, ProgramLength
    <3> QED
      BY <1>0, <2>1, <3>1 DEF GrantedOK
  <2>5. FileOK' /\ PhaseOK' /\ PasswordOK' /\ AppliedOK' /\ ApiOK'
    BY <1>0, <2>1 DEF FileOK, PhaseOK, PasswordOK, AppliedOK, ApiOK
  <2> QED
    BY <2>3, <2>4, <2>5, Parts
<1>5. CASE Migrate(r)
  <2> DEFINE s == Program[step[r]].schema
  <2>1. /\ At(r, "migrate")
        /\ \/ Missing(s) /\ applied' = [applied EXCEPT ![s] = @ + 1] /\ UNCHANGED step
           \/ ~Missing(s) /\ Advance(r) /\ UNCHANGED applied
        /\ UNCHANGED <<file, phase, enabled, secrets, password, granted, api>>
    BY <1>5 DEF Migrate
  <2>2. step[r] \in 1 .. 19 /\ Program[step[r]].do = "migrate"
    BY <1>0, <2>1, AtOK DEF At
  <2>3. RunsOK' /\ Placed'
    <3>1. CASE UNCHANGED step
      BY <1>0, <2>1, <3>1 DEF RunsOK
    <3>2. CASE Advance(r)
      BY <1>0, <2>1, <2>2, <3>2, AdvanceOK
    <3> QED
      BY <2>1, <3>1, <3>2
  <2>4. AppliedOK'
    <3>1. s \in Schema
      BY <2>2, Statements, ProgramLength
    <3> HIDE DEF s
    <3>2. CASE Missing(s) /\ applied' = [applied EXCEPT ![s] = @ + 1]
      BY <1>0, <3>1, <3>2 DEF AppliedOK, Missing
    <3>3. CASE UNCHANGED applied
      BY <1>0, <3>3 DEF AppliedOK
    <3> QED
      BY <2>1, <3>2, <3>3
  <2>5. FileOK' /\ PhaseOK' /\ PasswordOK' /\ GrantedOK' /\ ApiOK'
    BY <1>0, <2>1 DEF FileOK, PhaseOK, PasswordOK, GrantedOK, ApiOK
  <2> QED
    BY <2>3, <2>4, <2>5, Parts
<1>6. CASE Check(r)
  <2>1. At(r, "check") /\ Advance(r) /\ UNCHANGED <<file, phase, enabled, secrets, database, api>>
    BY <1>6 DEF Check
  <2>2. step[r] \in 1 .. 19
    BY <1>0, <2>1, AtOK DEF At
  <2>3. RunsOK' /\ Placed'
    BY <1>0, <2>1, <2>2, AdvanceOK
  <2>4. FileOK' /\ PhaseOK' /\ PasswordOK' /\ GrantedOK' /\ AppliedOK' /\ ApiOK'
    BY <1>0, <2>1 DEF database, FileOK, PhaseOK, PasswordOK, GrantedOK, AppliedOK, ApiOK
  <2> QED
    BY <2>3, <2>4, Parts
<1> QED
  BY <1>1, <1>2, <1>3, <1>4, <1>5, <1>6 DEF Statement

\* So do the steps of a run outside the database.
LEMMA RunTypes ==
  ASSUME TypeOK, Placed, NEW r \in Runner,
         \/ Begin(r) \/ StartMigrate(r) \/ StartApi(r) \/ AskShared(r) \/ VerifyReady(r)
         \/ AskAgain(r) \/ VerifyTimeout(r) \/ Fail(r)
  PROVE  TypeOK' /\ Placed'
<1> USE DEF Placed
<1>0. FileOK /\ PhaseOK /\ RunsOK /\ PasswordOK /\ GrantedOK /\ AppliedOK /\ ApiOK
  BY Parts
<1>1. UNCHANGED <<file, database>>
  BY DEF Begin, StartMigrate, StartApi, AskShared, VerifyReady, AskAgain, VerifyTimeout, Fail
<1>2. FileOK' /\ PasswordOK' /\ GrantedOK' /\ AppliedOK'
  BY <1>0, <1>1 DEF database, FileOK, PasswordOK, GrantedOK, AppliedOK
<1>3. CASE Begin(r)
  <2>1. PhaseOK' /\ RunsOK' /\ Placed'
    BY <1>0, <1>3 DEF PhaseOK, RunsOK, Phases, Begin
  <2>2. ApiOK'
    BY <1>0, <1>3 DEF Begin, ApiOK
  <2> QED
    BY <1>2, <2>1, <2>2, Parts
<1>4. CASE StartMigrate(r)
  <2>0. PICK b \in BOOLEAN : enabled' = [enabled EXCEPT ![r] = b]
    BY <1>4, Zenon DEF StartMigrate
  <2>3. /\ phase' = [phase EXCEPT ![r] = "migrate"]
        /\ step' = [step EXCEPT ![r] = 1]
        /\ UNCHANGED secrets
    BY <1>4 DEF StartMigrate
  <2>1. PhaseOK' /\ RunsOK' /\ Placed'
    BY <1>0, <2>0, <2>3 DEF PhaseOK, RunsOK, Phases
  <2>2. ApiOK'
    BY <1>0, <1>4 DEF StartMigrate, ApiOK
  <2> QED
    BY <1>2, <2>1, <2>2, Parts
<1>5. CASE StartApi(r)
  <2>1. PhaseOK' /\ RunsOK' /\ Placed'
    BY <1>0, <1>5 DEF PhaseOK, RunsOK, Phases, StartApi
  <2>2. ApiOK'
    <3>1. secrets[r] \in Secret \cup {NULL}
      BY <1>0 DEF RunsOK
    <3>2. api' = [state |-> "starting", secrets |-> secrets[r], example |-> FALSE, open |-> {}]
      BY <1>5 DEF StartApi, NoApi
    <3> QED
      BY <3>1, <3>2 DEF ApiOK, ApiStates
  <2> QED
    BY <1>2, <2>1, <2>2, Parts
<1>6. CASE AskShared(r) \/ VerifyReady(r)
  <2>1. /\ \/ phase' = [phase EXCEPT ![r] = "asked"] \/ phase' = [phase EXCEPT ![r] = "ok"]
        /\ UNCHANGED <<step, enabled, secrets>>
        /\ phase[r] # "migrate"
    BY <1>6 DEF AskShared, VerifyReady
  <2>2. PhaseOK' /\ RunsOK' /\ Placed'
    BY <1>0, <2>1 DEF PhaseOK, RunsOK, Phases
  <2>3. ApiOK'
    <3>1. PICK X \in SUBSET Role : api' = [api EXCEPT !.open = api.open \cup X]
      <4>1. CASE AskShared(r)
        BY <4>1 DEF AskShared, Role
      <4>2. CASE VerifyReady(r)
        BY <4>2 DEF VerifyReady, Pools, Role
      <4> QED
        BY <1>6, <4>1, <4>2
    <3> QED
      BY <1>0, <3>1 DEF ApiOK
  <2> QED
    BY <1>2, <2>2, <2>3, Parts
<1>7. CASE AskAgain(r)
  <2>1. PhaseOK' /\ RunsOK' /\ Placed'
    BY <1>0, <1>7 DEF PhaseOK, RunsOK, Phases, AskAgain
  <2>2. ApiOK'
    BY <1>0, <1>7 DEF AskAgain, ApiOK
  <2> QED
    BY <1>2, <2>1, <2>2, Parts
<1>8. CASE VerifyTimeout(r) \/ Fail(r)
  <2>1. End(r) /\ UNCHANGED api
    BY <1>8 DEF VerifyTimeout, Fail
  <2>2. PhaseOK' /\ RunsOK' /\ Placed'
    BY <1>0, <2>1 DEF PhaseOK, RunsOK, End, Phases
  <2>3. ApiOK'
    BY <1>0, <2>1 DEF ApiOK
  <2> QED
    BY <1>2, <2>2, <2>3, Parts
<1> QED
  BY <1>3, <1>4, <1>5, <1>6, <1>7, <1>8

\* And so do the API and the operator.
LEMMA ApiTypes ==
  ASSUME TypeOK, Placed,
         \/ Boot \/ Restart \/ Disconnect \/ \E x \in Role : Connect(x)
         \/ \E m \in Manifest : Edit(m)
  PROVE  TypeOK' /\ Placed'
<1> USE DEF Placed
<1>0. FileOK /\ PhaseOK /\ RunsOK /\ PasswordOK /\ GrantedOK /\ AppliedOK /\ ApiOK
  BY Parts
<1>1. UNCHANGED <<step, enabled, secrets, database>>
  BY DEF Boot, Restart, Disconnect, Connect, Edit, run
<1>2. RunsOK' /\ PasswordOK' /\ GrantedOK' /\ AppliedOK'
  BY <1>0, <1>1 DEF database, RunsOK, PasswordOK, GrantedOK, AppliedOK
<1>3. CASE Boot
  <2>1. UNCHANGED <<file, phase>>
    BY <1>3 DEF Boot, run
  <2>2. ApiOK'
    BY <1>0, <1>3 DEF Boot, ApiOK, ApiStates
  <2> QED
    BY <1>0, <1>1, <1>2, <2>1, <2>2, Parts DEF FileOK, PhaseOK
<1>4. CASE Restart
  <2>1. FileOK' /\ PhaseOK' /\ Placed'
    BY <1>0, <1>1, <1>4 DEF Restart, Unanswered, FileOK, PhaseOK, Phases
  <2>2. ApiOK'
    BY <1>0, <1>4 DEF Restart, ApiOK, ApiStates
  <2> QED
    BY <1>2, <2>1, <2>2, Parts
<1>5. CASE Disconnect \/ \E x \in Role : Connect(x)
  <2>1. UNCHANGED <<file, phase>>
    BY <1>5 DEF Disconnect, Connect, run
  <2>2. PICK X \in SUBSET Role : api' = [api EXCEPT !.open = X]
    BY <1>0, <1>5, ApiFields DEF Disconnect, Connect
  <2>3. ApiOK'
    BY <1>0, <2>2 DEF ApiOK
  <2> QED
    BY <1>0, <1>1, <1>2, <2>1, <2>3, Parts DEF FileOK, PhaseOK
<1>6. CASE \E m \in Manifest : Edit(m)
  <2>1. FileOK' /\ UNCHANGED <<phase, api>>
    BY <1>6 DEF Edit, FileOK, run
  <2> QED
    BY <1>0, <1>1, <1>2, <2>1, Parts DEF PhaseOK, ApiOK
<1> QED
  BY <1>3, <1>4, <1>5, <1>6

LEMMA TypeStep ==
  ASSUME TypeOK, Placed, [Next]_vars
  PROVE  TypeOK' /\ Placed'
<1>1. CASE Next
  BY <1>1, StatementTypes, RunTypes, ApiTypes DEF Next, reconcile
<1>2. CASE UNCHANGED vars
  BY <1>2 DEF vars, run, database, TypeOK, Placed
<1> QED
  BY <1>1, <1>2

\* The variables hold values of their kind, however many operators run bc
\* reconcile at the same time.
THEOREM TypeCorrect == Spec => []TypeOK
<1>1. Init => TypeOK /\ Placed
  BY TypeInit DEF Init, Placed
<1>2. TypeOK /\ Placed /\ [Next]_vars => (TypeOK /\ Placed)'
  BY TypeStep
<1> QED
  BY <1>1, <1>2, PTL DEF Spec

-------------------------------------------------------------------------------
(* What a run leaves in force *)

Single == \A q, r \in Runner : q = r

\* The example module writes to its history only when that holds a row.
HistoryOK == <<"example", "write history">> \in granted => applied["bc_example"] > 0

LEMMA InvParts ==
  /\ Inv <=> TypeOK /\ HistoryOK /\ \A r \in Runner : RunInv(r) /\ EffectsInv(r)
  /\ Inv' <=> TypeOK' /\ HistoryOK' /\ \A r \in Runner : RunInv(r)' /\ EffectsInv(r)'
BY Zenon DEF Inv, HistoryOK

\* A privilege is in Since when one of the statements in between names it.
LEMMA InSince ==
  ASSUME NEW r, NEW i, NEW kind, NEW e
  PROVE  /\ e \in Since(r, i, kind) <=>
              \E k \in i + 1 .. step[r] - 1 :
                InProgram(k, enabled[r]) /\ Program[k].do = kind /\ e \in Program[k].what
         /\ e \in Since(r, i, kind)' <=>
              \E k \in i + 1 .. step'[r] - 1 :
                InProgram(k, enabled'[r]) /\ Program[k].do = kind /\ e \in Program[k].what
BY Zenon DEF Since, InProgram

\* A statement that completes adds what it names to Since, and nothing is taken out.
LEMMA SinceGrows ==
  ASSUME NEW r \in Runner, step[r] \in 1 .. 19, InProgram(step[r], enabled[r]),
         step'[r] \in step[r] + 1 .. 20, enabled' = enabled,
         NEW i \in 1 .. step[r] - 1, NEW kind
  PROVE  /\ Since(r, i, kind) \subseteq Since(r, i, kind)'
         /\ Program[step[r]].do = kind => Program[step[r]].what \subseteq Since(r, i, kind)'
<1>1. ASSUME NEW e \in Since(r, i, kind) PROVE e \in Since(r, i, kind)'
  <2>1. PICK k \in i + 1 .. step[r] - 1 :
          InProgram(k, enabled[r]) /\ Program[k].do = kind /\ e \in Program[k].what
    BY <1>1, InSince
  <2>2. k \in i + 1 .. step'[r] - 1
    OBVIOUS
  <2>3. InProgram(k, enabled'[r])
    BY <2>1
  <2> QED
    BY <2>1, <2>2, <2>3, InSince
<1>2. ASSUME NEW e \in Program[step[r]].what, Program[step[r]].do = kind
      PROVE  e \in Since(r, i, kind)'
  <2>1. step[r] \in i + 1 .. step'[r] - 1
    OBVIOUS
  <2>2. InProgram(step[r], enabled'[r])
    OBVIOUS
  <2> QED
    BY <1>2, <2>1, <2>2, InSince
<1> QED
  BY <1>1, <1>2

\* A statement that completes leaves the invariant to hold when it is in force
\* and what was before it still is.
LEMMA AdvanceInv ==
  ASSUME Inv, Single, NEW r \in Runner, phase[r] = "migrate",
         NEW st \in 1 .. 19, step[r] = st, Advance(r), phase' = phase, enabled' = enabled, secrets' = secrets,
         ~enabled[r] => applied'["bc_example"] = 0,
         InForce(r, st)',
         \A i \in 1 .. step[r] - 1 : InProgram(i, enabled[r]) => InForce(r, i)'
  PROVE  \A q \in Runner : RunInv(q)' /\ EffectsInv(q)'
<1>1. \A q \in Runner : q = r
  BY DEF Single
<1>2. RunsOK /\ PhaseOK
  BY InvParts, Parts
<1>3. /\ step'[r] = Following(step[r], enabled[r])
      /\ step'[r] \in step[r] + 1 .. 20
      /\ enabled[r] \in BOOLEAN
  BY <1>2, AdvanceOK DEF RunsOK
<1>4. /\ step'[r] <= 19 => InProgram(step'[r], enabled[r])
      /\ \A k \in step[r] + 1 .. step'[r] - 1 : ~InProgram(k, enabled[r])
  <2>1. step[r] \in 0 .. 19
    OBVIOUS
  <2> QED
    BY <1>3, <2>1, FollowingIs
<1>5. RunInv(r)'
  <2>1. step'[r] # 0 /\ phase'[r] = "migrate" /\ enabled'[r] = enabled[r]
    BY <1>3
  <2>2. step'[r] \in 1 .. Len(Program) => InProgram(step'[r], enabled'[r])
    BY <1>3, <1>4, <2>1, ProgramLength
  <2> QED
    BY <2>1, <2>2 DEF RunInv
<1>6. EffectsInv(r)'
  <2> SUFFICES ASSUME NEW i \in 1 .. step'[r] - 1, InProgram(i, enabled[r])
               PROVE  InForce(r, i)'
    BY <1>3 DEF EffectsInv
  <2>1. CASE i < step[r]
    BY <2>1
  <2>2. CASE i = step[r]
    BY <2>2
  <2>3. CASE i > step[r]
    <3>1. i \in step[r] + 1 .. step'[r] - 1
      BY <1>3, <2>3
    <3> QED
      BY <1>4, <3>1
  <2> QED
    BY <1>3, <2>1, <2>2, <2>3
<1> QED
  BY <1>1, <1>5, <1>6

\* What is in force stays so when no password or history it is about changes, and
\* no privilege but those that are named again.
LEMMA StillInForce ==
  ASSUME NEW r \in Runner, NEW i, InForce(r, i), secrets' = secrets,
         \A kind \in {"grant", "revoke"} : Since(r, i, kind) \subseteq Since(r, i, kind)',
         Program[i].do = "provision" =>
           password'[Program[i].role] \in {password[Program[i].role], secrets[r]},
         Program[i].do = "migrate" => applied'[Program[i].schema] = applied[Program[i].schema],
         granted \ granted' \subseteq Since(r, i, "revoke")',
         granted' \ granted \subseteq Since(r, i, "grant")'
  PROVE  InForce(r, i)'
<1>1. Program[i].do = "provision" => password'[Program[i].role] = secrets'[r]
  BY DEF InForce
<1>2. Program[i].do = "migrate" => applied'[Program[i].schema] = Migrations[Program[i].schema]
  BY DEF InForce
<1>3. Program[i].do = "grant" =>
        Program[i].what \ Since(r, i, "revoke")' \subseteq granted'
  BY DEF InForce
<1>4. Program[i].do = "revoke" =>
        Program[i].what \cap granted' \subseteq Since(r, i, "grant")'
  BY DEF InForce
<1> QED
  BY <1>1, <1>2, <1>3, <1>4 DEF InForce

\* What is in force just after a statement.
LEMMA JustDone ==
  ASSUME NEW r \in Runner, NEW i,
         Program[i].do = "provision" => password'[Program[i].role] = secrets'[r],
         Program[i].do = "migrate" =>
           applied'[Program[i].schema] = Migrations[Program[i].schema],
         Program[i].do = "grant" => Program[i].what \subseteq granted',
         Program[i].do = "revoke" => Program[i].what \cap granted' = {}
  PROVE  InForce(r, i)'
BY DEF InForce

\* A statement starts from the invariant of its own run.
LEMMA AtInv ==
  ASSUME Inv, NEW r \in Runner, NEW what, At(r, what)
  PROVE  /\ phase[r] = "migrate" /\ step[r] \in 1 .. 19 /\ Program[step[r]].do = what
         /\ InProgram(step[r], enabled[r]) /\ enabled[r] \in BOOLEAN
         /\ step[r] > 1 /\ ~enabled[r] => applied["bc_example"] = 0
         /\ \A i \in 1 .. step[r] - 1 : InProgram(i, enabled[r]) => InForce(r, i)
<1>1. TypeOK /\ RunInv(r) /\ EffectsInv(r)
  BY InvParts
<1>2. RunsOK
  BY <1>1, Parts
<1>3. phase[r] = "migrate"
  BY DEF At
<1>4. step[r] # 0
  BY <1>1, <1>3 DEF RunInv
<1>5. step[r] \in 1 .. 19 /\ Program[step[r]].do = what
  BY <1>2, <1>4, AtOK
<1>6. InProgram(step[r], enabled[r]) /\ (step[r] > 1 /\ ~enabled[r] => applied["bc_example"] = 0)
  BY <1>1, <1>5, ProgramLength DEF RunInv
<1> QED
  BY <1>1, <1>2, <1>3, <1>5, <1>6 DEF EffectsInv, RunsOK

\* Every statement but the guard and a migration takes the run on: what it leaves in
\* force, and what it leaves alone.
LEMMA Completes ==
  ASSUME Inv, Single, NEW r \in Runner, NEW what, At(r, what), Advance(r),
         phase' = phase, enabled' = enabled, secrets' = secrets,
         ~enabled[r] => applied'["bc_example"] = 0,
         applied' = applied,
         what = "provision" =>
           password' = [password EXCEPT ![Program[step[r]].role] = secrets[r]],
         what # "provision" => password' = password,
         what = "migrate" =>
           applied'[Program[step[r]].schema] = Migrations[Program[step[r]].schema],
         granted' = IF what = "grant" THEN granted \cup Program[step[r]].what
                    ELSE IF what = "revoke" THEN granted \ Program[step[r]].what ELSE granted
  PROVE  \A q \in Runner : RunInv(q)' /\ EffectsInv(q)'
<1>1. PICK st \in 1 .. 19 : st = step[r]
  BY AtInv
<1>2. /\ phase[r] = "migrate" /\ Program[st].do = what
      /\ InProgram(st, enabled[r]) /\ enabled[r] \in BOOLEAN
      /\ \A i \in 1 .. st - 1 : InProgram(i, enabled[r]) => InForce(r, i)
  BY <1>1, AtInv
<1>3. TypeOK /\ RunsOK /\ PasswordOK
  BY InvParts, Parts
<1>4. step'[r] \in step[r] + 1 .. 20
  BY <1>1, <1>3, AdvanceOK
<1>5. InForce(r, st)'
  <2>1. Program[st].do = "provision" => password'[Program[st].role] = secrets'[r]
    <3> SUFFICES ASSUME Program[st].do = "provision"
                 PROVE  password'[Program[st].role] = secrets[r]
      OBVIOUS
    <3>1. Program[st].role \in Role
      BY Statements, ProgramLength
    <3> QED
      BY <1>1, <1>2, <1>3, <3>1 DEF PasswordOK
  <2>2. Program[st].do = "migrate" => applied'[Program[st].schema] = Migrations[Program[st].schema]
    BY <1>1, <1>2
  <2>3. Program[st].do = "grant" => Program[st].what \subseteq granted'
    BY <1>1, <1>2
  <2>4. Program[st].do = "revoke" => Program[st].what \cap granted' = {}
    BY <1>1, <1>2
  <2> QED
    BY <2>1, <2>2, <2>3, <2>4, JustDone
<1>6. ASSUME NEW i \in 1 .. st - 1, InProgram(i, enabled[r])
      PROVE  InForce(r, i)'
  <2>1. InForce(r, i)
    BY <1>2, <1>6
  <2>2. \A kind \in {"grant", "revoke"} :
          /\ Since(r, i, kind) \subseteq Since(r, i, kind)'
          /\ what = kind => Program[st].what \subseteq Since(r, i, kind)'
    BY <1>1, <1>2, <1>4, SinceGrows
  <2>3. Program[i].do = "provision" =>
          password'[Program[i].role] \in {password[Program[i].role], secrets[r]}
    <3> SUFFICES ASSUME Program[i].do = "provision"
                 PROVE  password'[Program[i].role] \in {password[Program[i].role], secrets[r]}
      OBVIOUS
    <3>1. Program[i].role \in Role
      BY Statements, ProgramLength
    <3> QED
      BY <1>3, <3>1 DEF PasswordOK
  <2>4. granted \ granted' \subseteq Since(r, i, "revoke")'
    BY <1>1, <2>2
  <2>5. granted' \ granted \subseteq Since(r, i, "grant")'
    BY <1>1, <2>2
  <2> QED
    BY <2>1, <2>2, <2>3, <2>4, <2>5, StillInForce
<1> QED
  BY <1>1, <1>2, <1>5, <1>6, AdvanceInv

\* The statement that lets the example module write to its history.
LEMMA HistoryGranted ==
  ASSUME NEW i \in 1 .. 19, Program[i].do = "grant",
         <<"example", "write history">> \in Program[i].what
  PROVE  i = 13
<1>1. i \in {7, 8, 9, 11, 13, 16}
  BY Positions, KindOf
<1>2. /\ <<"example", "write history">> \notin Granting("ready", {"connect"}).what
      /\ <<"example", "write history">> \notin Granting("example", {"connect"}).what
      /\ <<"example", "write history">> \notin Granting("dispatcher", {"connect"}).what
      /\ <<"example", "write history">> \notin Granting("ready", {"read history"}).what
      /\ <<"example", "write history">> \notin Granting("dispatcher", {"use outbox"}).what
  BY DEF Granting
<1>3. \A k \in {7, 8, 9, 11, 16} : <<"example", "write history">> \notin Program[k].what
  BY <1>2, WhatIs, Zenon
<1> QED
  BY <1>1, <1>3

\* It comes after the migrations of the module.
LEMMA HistoryBehind ==
  ASSUME Inv, NEW r \in Runner, At(r, "grant"), step[r] = 13
  PROVE  applied["bc_example"] > 0
<1>1. InProgram(13, enabled[r]) /\ \A i \in 1 .. 12 : InProgram(i, enabled[r]) => InForce(r, i)
  <2>1. /\ InProgram(step[r], enabled[r])
        /\ \A i \in 1 .. step[r] - 1 : InProgram(i, enabled[r]) => InForce(r, i)
    BY AtInv, Zenon
  <2> QED
    BY <2>1
<1>2. InForce(r, 12)
  BY <1>1, RoleIs DEF InProgram
<1>3. applied["bc_example"] = Migrations["bc_example"]
  BY <1>2, DoOf, SchemaIs DEF InForce
<1>4. Migrations["bc_example"] \in Nat \ {0}
  BY Zenon DEF Schema
<1> QED
  BY <1>3, <1>4

LEMMA StatementInv ==
  ASSUME Inv, Single, NEW r \in Runner, Statement(r)
  PROVE  Inv'
<1>0. TypeOK /\ HistoryOK /\ RunInv(r) /\ EffectsInv(r)
  BY InvParts
<1>1. TypeOK'
  BY <1>0, StatementTypes, InvParts DEF Placed, RunInv
<1>2. \A q \in Runner : q = r
  BY DEF Single
<1>3. AppliedOK /\ RunsOK
  BY <1>0, Parts
<1>4. ASSUME NEW what, At(r, what), what # "guard"
      PROVE  ~enabled[r] => applied["bc_example"] = 0
  <2>1. step[r] \in 1 .. 19 /\ Program[step[r]].do = what
    BY <1>4, AtInv
  <2>2. step[r] > 1
    BY <1>4, <2>1, DoOf
  <2> QED
    BY <1>4, <2>2, AtInv
<1>5. CASE GuardPasses(r)
  <2>1. /\ At(r, "guard") /\ Advance(r)
        /\ UNCHANGED <<phase, enabled, secrets, password, granted, applied>>
        /\ enabled[r] \/ ~Initialized
    BY <1>5 DEF GuardPasses, database
  <2>2. ~enabled[r] => applied["bc_example"] = 0
    BY <1>3, <2>1 DEF Initialized, AppliedOK, Schema
  <2>3. \A q \in Runner : RunInv(q)' /\ EffectsInv(q)'
    BY <2>1, <2>2, Completes
  <2>4. HistoryOK'
    BY <1>0, <2>1 DEF HistoryOK
  <2> QED
    BY <1>1, <2>3, <2>4, InvParts
<1>6. CASE GuardRejects(r)
  <2>1. End(r) /\ UNCHANGED database
    BY <1>6 DEF GuardRejects
  <2>2. phase'[r] = "error" /\ step'[r] = 0
    BY <1>0, <1>3, <2>1, EndOK, Parts
  <2>3. RunInv(r)' /\ EffectsInv(r)'
    BY <2>2 DEF RunInv, EffectsInv
  <2>4. HistoryOK'
    BY <1>0, <2>1 DEF HistoryOK, database
  <2> QED
    BY <1>1, <1>2, <2>3, <2>4, InvParts
<1>7. CASE Provision(r)
  <2>1. /\ At(r, "provision") /\ Advance(r)
        /\ UNCHANGED <<phase, enabled, secrets, granted, applied>>
        /\ password' = [password EXCEPT ![Program[step[r]].role] = secrets[r]]
    BY <1>7 DEF Provision
  <2>2. \A q \in Runner : RunInv(q)' /\ EffectsInv(q)'
    BY <1>4, <2>1, Completes
  <2>3. HistoryOK'
    BY <1>0, <2>1 DEF HistoryOK
  <2> QED
    BY <1>1, <2>2, <2>3, InvParts
<1>8. CASE Grant(r)
  <2>1. /\ At(r, "grant") /\ Advance(r)
        /\ UNCHANGED <<phase, enabled, secrets, password, applied>>
        /\ granted' = granted \cup Program[step[r]].what
    BY <1>8 DEF Grant
  <2>2. \A q \in Runner : RunInv(q)' /\ EffectsInv(q)'
    BY <1>4, <2>1, Completes
  <2>3. HistoryOK'
    <3>1. step[r] \in 1 .. 19 /\ Program[step[r]].do = "grant"
      BY <2>1, AtInv, Zenon
    <3>2. CASE step[r] = 13
      BY <2>1, <3>2, HistoryBehind DEF HistoryOK
    <3>3. CASE step[r] # 13
      <4>1. <<"example", "write history">> \notin Program[step[r]].what
        BY <3>1, <3>3, HistoryGranted, Zenon
      <4> QED
        BY <1>0, <2>1, <4>1 DEF HistoryOK
    <3> QED
      BY <3>2, <3>3
  <2> QED
    BY <1>1, <2>2, <2>3, InvParts
<1>9. CASE Revoke(r)
  <2>1. /\ At(r, "revoke") /\ Advance(r)
        /\ UNCHANGED <<phase, enabled, secrets, password, applied>>
        /\ granted' = granted \ Program[step[r]].what
    BY <1>9 DEF Revoke
  <2>2. \A q \in Runner : RunInv(q)' /\ EffectsInv(q)'
    BY <1>4, <2>1, Completes
  <2>3. HistoryOK'
    BY <1>0, <2>1 DEF HistoryOK
  <2> QED
    BY <1>1, <2>2, <2>3, InvParts
<1>10. CASE Migrate(r)
  <2> DEFINE s == Program[step[r]].schema
  <2>1. /\ At(r, "migrate")
        /\ UNCHANGED <<phase, enabled, secrets, password, granted, api>>
        /\ \/ Missing(s) /\ applied' = [applied EXCEPT ![s] = @ + 1] /\ UNCHANGED step
           \/ ~Missing(s) /\ Advance(r) /\ UNCHANGED applied
    BY <1>10 DEF Migrate
  <2>2. PICK st \in 1 .. 19 : st = step[r]
    BY <2>1, AtInv
  <2>3. /\ Program[st].do = "migrate" /\ InProgram(st, enabled[r]) /\ s \in Schema
        /\ phase[r] = "migrate"
        /\ \A i \in 1 .. st - 1 : InProgram(i, enabled[r]) => InForce(r, i)
    BY <2>1, <2>2, AtInv, Statements, ProgramLength
  <2>4. CASE ~Missing(s) /\ Advance(r) /\ UNCHANGED applied
    <3>1. applied[s] = Migrations[s]
      BY <1>3, <2>3, <2>4 DEF AppliedOK, Missing
    <3>2. \A q \in Runner : RunInv(q)' /\ EffectsInv(q)'
      BY <1>4, <2>1, <2>4, <3>1, Completes
    <3>3. HistoryOK'
      BY <1>0, <2>1, <2>4 DEF HistoryOK
    <3> QED
      BY <1>1, <3>2, <3>3, InvParts
  <2>5. CASE Missing(s) /\ applied' = [applied EXCEPT ![s] = @ + 1] /\ UNCHANGED step
    <3>1. ~enabled[r] => s = "bc_shared"
      <4>1. st \in {10, 12}
        BY <2>3, Positions, KindOf
      <4>2. ~enabled[r] => st # 12
        BY <2>3, RoleIs DEF InProgram
      <4> QED
        BY <2>2, <4>1, <4>2, SchemaIs
    <3>2. ~enabled[r] => applied'["bc_example"] = 0
      BY <1>3, <1>4, <2>1, <2>5, <3>1 DEF AppliedOK, Schema
    <3>3. RunInv(r)'
      BY <1>0, <2>1, <2>3, <2>5, <3>2 DEF RunInv
    <3>4. EffectsInv(r)'
      <4> SUFFICES ASSUME NEW i \in 1 .. st - 1, InProgram(i, enabled[r])
                   PROVE  InForce(r, i)'
        BY <2>1, <2>2, <2>5 DEF EffectsInv
      <4>1. InForce(r, i)
        BY <2>3
      <4>2. \A kind : Since(r, i, kind)' = Since(r, i, kind)
        BY <2>1, <2>5 DEF Since
      <4>3. Program[i].do = "migrate" =>
              applied'[Program[i].schema] = applied[Program[i].schema]
        <5> SUFFICES ASSUME Program[i].do = "migrate"
                     PROVE  applied'[Program[i].schema] = applied[Program[i].schema]
          OBVIOUS
        <5>1. Program[i].schema \in Schema
          BY Statements, ProgramLength
        <5>2. applied[Program[i].schema] = Migrations[Program[i].schema]
          BY <4>1 DEF InForce
        <5>3. Program[i].schema # s
          BY <1>3, <2>3, <2>5, <5>1, <5>2 DEF Missing, AppliedOK
        <5> QED
          BY <1>3, <2>5, <5>1, <5>3 DEF AppliedOK
      <4> QED
        BY <2>1, <4>1, <4>2, <4>3, StillInForce
    <3>5. HistoryOK'
      <4>1. applied["bc_example"] > 0 => applied'["bc_example"] > 0
        BY <1>3, <2>3, <2>5 DEF AppliedOK, Schema
      <4> QED
        BY <1>0, <2>1, <4>1 DEF HistoryOK
    <3> QED
      BY <1>1, <1>2, <3>3, <3>4, <3>5, InvParts
  <2> QED
    BY <2>1, <2>4, <2>5
<1>11. CASE Check(r)
  <2>1. /\ At(r, "check") /\ Advance(r)
        /\ UNCHANGED <<phase, enabled, secrets, password, granted, applied>>
    BY <1>11 DEF Check, database
  <2>2. \A q \in Runner : RunInv(q)' /\ EffectsInv(q)'
    BY <1>4, <2>1, Completes
  <2>3. HistoryOK'
    BY <1>0, <2>1 DEF HistoryOK
  <2> QED
    BY <1>1, <2>2, <2>3, InvParts
<1> QED
  BY <1>5, <1>6, <1>7, <1>8, <1>9, <1>10, <1>11 DEF Statement

\* Steps outside the database leave in force what was.
LEMMA EffectsStay ==
  ASSUME NEW r \in Runner, EffectsInv(r), UNCHANGED <<step, enabled, secrets, database>>
  PROVE  EffectsInv(r)'
BY DEF EffectsInv, InForce, Since, InProgram, database

LEMMA LoginStays ==
  ASSUME UNCHANGED database, api'.secrets = api.secrets, NEW x
  PROVE  CanLogin(x)' <=> CanLogin(x)
BY DEF CanLogin, database

LEMMA RunInvStep ==
  ASSUME Inv, Single, NEW r \in Runner,
         \/ Begin(r) \/ StartMigrate(r) \/ StartApi(r) \/ AskShared(r) \/ VerifyReady(r)
         \/ AskAgain(r) \/ VerifyTimeout(r) \/ Fail(r)
  PROVE  Inv'
<1>0. TypeOK /\ HistoryOK /\ RunInv(r) /\ EffectsInv(r)
  BY InvParts
<1>1. TypeOK'
  BY <1>0, RunTypes, InvParts DEF Placed, RunInv
<1>2. UNCHANGED database
  BY DEF Begin, StartMigrate, StartApi, AskShared, VerifyReady, AskAgain, VerifyTimeout, Fail
<1>3. HistoryOK'
  BY <1>0, <1>2 DEF HistoryOK, database
<1>4. SUFFICES RunInv(r)' /\ EffectsInv(r)'
  BY <1>1, <1>3, InvParts DEF Single
<1>5. PhaseOK /\ RunsOK /\ ApiOK
  BY <1>0, Parts
<1>6. CASE Begin(r)
  <2>1. phase'[r] = "planned" /\ step'[r] = 0
    BY <1>5, <1>6 DEF Begin, PhaseOK, RunsOK
  <2> QED
    BY <2>1 DEF RunInv, EffectsInv
<1>7. CASE StartMigrate(r)
  <2>1. phase'[r] = "migrate" /\ step'[r] = 1
    BY <1>5, <1>7 DEF StartMigrate, PhaseOK, RunsOK
  <2>2. InProgram(1, enabled'[r])
    BY RoleIs DEF InProgram
  <2> QED
    BY <2>1, <2>2 DEF RunInv, EffectsInv
<1>8. CASE StartApi(r)
  <2>1. phase'[r] = "verify" /\ step'[r] = step[r] /\ step[r] = Len(Program) + 1
    BY <1>8 DEF StartApi
  <2>2. UNCHANGED <<step, enabled, secrets>> /\ api'.secrets = secrets'[r] /\ api'.open = {}
    BY <1>8 DEF StartApi, NoApi
  <2>3. RunInv(r)'
    BY <1>0, <1>2, <2>1, <2>2, ProgramLength DEF RunInv, database
  <2> QED
    BY <1>0, <1>2, <2>2, <2>3, EffectsStay
<1>9. CASE AskShared(r) \/ VerifyReady(r)
  <2>1. /\ UNCHANGED <<step, enabled, secrets>> /\ api'.secrets = api.secrets
        /\ phase[r] \in {"verify", "asked"} /\ phase'[r] \in {"asked", "ok"}
        /\ \A x \in api'.open : x \in api.open \/ Reachable(x)
    <3>1. CASE AskShared(r)
      BY <1>5, <3>1 DEF AskShared, PoolReady, PhaseOK, ApiOK
    <3>2. CASE VerifyReady(r)
      BY <1>5, <3>2 DEF VerifyReady, PoolReady, PhaseOK, ApiOK
    <3> QED
      BY <1>9, <3>1, <3>2
  <2>2. \A x \in api'.open : CanLogin(x)'
    BY <1>0, <1>2, <2>1, LoginStays DEF RunInv, Reachable
  <2>3. RunInv(r)'
    BY <1>0, <1>2, <2>1, <2>2, ProgramLength DEF RunInv, database
  <2> QED
    BY <1>0, <1>2, <2>1, <2>3, EffectsStay
<1>10. CASE AskAgain(r)
  <2>1. /\ UNCHANGED <<step, enabled, secrets, api>>
        /\ phase[r] = "asked" /\ phase'[r] = "verify"
    BY <1>5, <1>10 DEF AskAgain, PhaseOK
  <2>2. \A x \in api'.open : CanLogin(x)'
    BY <1>0, <1>2, <2>1, LoginStays DEF RunInv
  <2>3. RunInv(r)'
    BY <1>0, <1>2, <2>1, <2>2, ProgramLength DEF RunInv, database
  <2> QED
    BY <1>0, <1>2, <2>1, <2>3, EffectsStay
<1>11. CASE VerifyTimeout(r) \/ Fail(r)
  <2>1. phase'[r] = "error" /\ step'[r] = 0
    BY <1>5, <1>11, EndOK DEF VerifyTimeout, Fail
  <2> QED
    BY <2>1 DEF RunInv, EffectsInv
<1> QED
  BY <1>6, <1>7, <1>8, <1>9, <1>10, <1>11

LEMMA ApiInvStep ==
  ASSUME Inv, \/ Boot \/ Restart \/ Disconnect \/ \E x \in Role : Connect(x)
              \/ \E m \in Manifest : Edit(m)
  PROVE  Inv'
<1>0. TypeOK /\ HistoryOK
  BY InvParts
<1>1. TypeOK'
  BY <1>0, ApiTypes, InvParts DEF Placed, RunInv
<1>2. UNCHANGED <<step, enabled, secrets, database>>
  BY DEF Boot, Restart, Disconnect, Connect, Edit, run
<1>3. HistoryOK'
  BY <1>0, <1>2 DEF HistoryOK, database
<1>4. PhaseOK /\ ApiOK
  BY <1>0, Parts
<1>5. /\ api'.secrets = api.secrets
      /\ \A x \in api'.open : x \in api.open \/ CanLogin(x)
  BY <1>4 DEF Boot, Restart, Disconnect, Connect, Edit, ApiOK
<1>6. \A r \in Runner : \/ phase'[r] = phase[r]
                        \/ phase[r] = "asked" /\ phase'[r] = "verify"
  BY <1>4 DEF Boot, Restart, Unanswered, Disconnect, Connect, Edit, run, PhaseOK
<1>7. ASSUME NEW r \in Runner PROVE RunInv(r)' /\ EffectsInv(r)'
  <2>1. RunInv(r) /\ EffectsInv(r)
    BY InvParts
  <2>2. phase[r] \in {"verify", "asked", "ok"} => \A x \in api'.open : CanLogin(x)'
    BY <1>2, <1>5, <2>1, LoginStays DEF RunInv
  <2>3. RunInv(r)'
    BY <1>2, <1>5, <1>6, <2>1, <2>2, ProgramLength DEF RunInv, database
  <2> QED
    BY <1>2, <2>1, <2>3, EffectsStay
<1> QED
  BY <1>1, <1>3, <1>7, InvParts

LEMMA InvInit == Init => Inv
<1> SUFFICES ASSUME Init PROVE Inv
  OBVIOUS
<1>1. TypeOK
  BY TypeInit
<1>2. HistoryOK
  BY DEF Init, HistoryOK
<1>3. ASSUME NEW r \in Runner PROVE RunInv(r) /\ EffectsInv(r)
  <2>1. phase[r] = "idle" /\ step[r] = 0
    BY DEF Init
  <2> QED
    BY <2>1 DEF RunInv, EffectsInv
<1> QED
  BY <1>1, <1>2, <1>3, InvParts

LEMMA InvStep ==
  ASSUME Inv, Single, [Next]_vars
  PROVE  Inv'
<1>1. CASE Next
  BY <1>1, StatementInv, RunInvStep, ApiInvStep DEF Next, reconcile
<1>2. CASE UNCHANGED vars
  <2>1. TypeOK /\ HistoryOK
    BY InvParts
  <2>2. TypeOK' /\ HistoryOK'
    BY <1>2, <2>1 DEF vars, run, database, TypeOK, HistoryOK
  <2>3. ASSUME NEW r \in Runner PROVE RunInv(r)' /\ EffectsInv(r)'
    <3>1. RunInv(r) /\ EffectsInv(r)
      BY InvParts
    <3>2. UNCHANGED <<phase, step, enabled, secrets, database, api>>
      BY <1>2 DEF vars, run
    <3>3. RunInv(r)'
      BY <3>1, <3>2, ProgramLength DEF RunInv, CanLogin, InProgram, database
    <3> QED
      BY <3>1, <3>2, <3>3, EffectsStay
  <2> QED
    BY <2>2, <2>3, InvParts
<1> QED
  BY <1>1, <1>2

\* With one operator, each statement a run has completed is in force but for what
\* the run has changed since, whatever runs stopped before; and an API that a run
\* is verifying is its own (migrate_installation, start_api).
THEOREM Invariance == ASSUME Single PROVE Spec => []Inv
<1>1. Init => Inv
  BY InvInit
<1>2. Inv /\ [Next]_vars => Inv'
  BY InvStep
<1> QED
  BY <1>1, <1>2, PTL DEF Spec

-------------------------------------------------------------------------------
(* What the statements of a whole run leave behind *)

\* The last statement about each privilege of the example module and of the public.
LEMMA LastWord ==
  ASSUME NEW i \in 1 .. 19
  PROVE  /\ Program[i].do = "revoke" /\ i > 6 => i \in {14, 15}
         /\ Program[i].do = "grant" /\ i > 14 => i = 16
         /\ Program[i].do = "grant" => <<"public", "connect">> \notin Program[i].what
<1>1. Program[i].do = "grant" => i \in {7, 8, 9, 11, 13, 16}
  BY Positions, KindOf
<1>2. Program[i].do = "revoke" => i \in {5, 6, 14, 15}
  BY Positions, KindOf
<1>3. /\ \A p : <<"public", "connect">> \notin Granting("ready", {p}).what
      /\ \A p : <<"public", "connect">> \notin Granting("example", {p}).what
      /\ \A p : <<"public", "connect">> \notin Granting("dispatcher", {p}).what
      /\ <<"public", "connect">> \notin
           Granting("example", {"read history", "write history", "use tables"}).what
  BY DEF Granting
<1>4. \A k \in {7, 8, 9, 11, 13, 16} : <<"public", "connect">> \notin Program[k].what
  BY <1>3, WhatIs, Zenon
<1> QED
  BY <1>1, <1>2, <1>4

\* What no later statement of the kind names is not in Since.
LEMMA NotSince ==
  ASSUME NEW r \in Runner, step[r] \in 1 .. 20, NEW i \in 1 .. 19, NEW kind, NEW e,
         \A k \in 1 .. 19 : k > i /\ Program[k].do = kind => e \notin Program[k].what
  PROVE  e \notin Since(r, i, kind)
<1> SUFFICES ASSUME e \in Since(r, i, kind) PROVE FALSE
  OBVIOUS
<1>1. PICK k \in i + 1 .. step[r] - 1 : Program[k].do = kind /\ e \in Program[k].what
  BY InSince
<1>2. k \in 1 .. 19 /\ k > i
  OBVIOUS
<1> QED
  BY <1>1, <1>2

\* A privilege that statement i grants and no later one revokes is there at the end.
LEMMA Granted ==
  ASSUME NEW r \in Runner, step[r] = 20, EffectsInv(r),
         NEW i \in 7 .. 19, InProgram(i, enabled[r]), Program[i].do = "grant",
         NEW e \in Program[i].what, \A k \in {14, 15} : k > i => e \notin Program[k].what
  PROVE  e \in granted
<1>1. Program[i].what \ Since(r, i, "revoke") \subseteq granted
  BY DEF EffectsInv, InForce
<1>2. \A k \in 1 .. 19 : k > i /\ Program[k].do = "revoke" => k \in {14, 15}
  BY LastWord
<1>3. e \notin Since(r, i, "revoke")
  BY <1>2, NotSince
<1> QED
  BY <1>1, <1>3

\* What each statement that grants or revokes names, element by element.
LEMMA Names ==
  /\ <<"ready", "connect">> \in Program[7].what
  /\ <<"example", "connect">> \in Program[8].what
  /\ <<"dispatcher", "connect">> \in Program[9].what
  /\ <<"ready", "read history">> \in Program[11].what
  /\ <<"example", "read history">> \in Program[13].what
  /\ <<"example", "use tables">> \in Program[13].what
  /\ <<"dispatcher", "use outbox">> \in Program[16].what
  /\ <<"public", "connect">> \in Program[5].what
  /\ <<"example", "write history">> \in Program[14].what
  /\ Program[14].what \cup Program[15].what =
       {<<"example", "write history">>, <<"dispatcher", "use outbox">>}
  /\ <<"example", "write history">> \notin Program[16].what
<1>1. <<"ready", "connect">> \in Granting("ready", {"connect"}).what
  BY DEF Granting
<1>2. <<"example", "connect">> \in Granting("example", {"connect"}).what
  BY DEF Granting
<1>3. <<"dispatcher", "connect">> \in Granting("dispatcher", {"connect"}).what
  BY DEF Granting
<1>4. <<"ready", "read history">> \in Granting("ready", {"read history"}).what
  BY DEF Granting
<1>5. /\ <<"example", "read history">> \in
           Granting("example", {"read history", "write history", "use tables"}).what
      /\ <<"example", "use tables">> \in
           Granting("example", {"read history", "write history", "use tables"}).what
  BY DEF Granting
<1>6. /\ <<"dispatcher", "use outbox">> \in Granting("dispatcher", {"use outbox"}).what
      /\ <<"example", "write history">> \notin Granting("dispatcher", {"use outbox"}).what
  BY DEF Granting
<1>7. <<"public", "connect">> \in Revoking("public", {"connect"}).what
  BY DEF Revoking
<1>8. /\ Revoking("example", {"write history"}).what = {<<"example", "write history">>}
      /\ Revoking("dispatcher", {"use outbox"}).what = {<<"dispatcher", "use outbox">>}
  BY DEF Revoking
<1>9. <<"example", "write history">> \in Program[14].what
  BY <1>8, WhatIs
<1>10. Program[14].what \cup Program[15].what =
         {<<"example", "write history">>, <<"dispatcher", "use outbox">>}
  BY <1>8, WhatIs
<1> QED
  BY <1>1, <1>2, <1>3, <1>4, <1>5, <1>6, <1>7, <1>9, <1>10, WhatIs, Zenon

\* The end of a run: Converged, for a run that has started the API.
LEMMA Complete ==
  ASSUME Inv, NEW r \in Runner, step[r] = 20
  PROVE  /\ \A x \in RolesOf(r) : password[x] = secrets[r] /\ <<x, "connect">> \in granted
         /\ <<"ready", "read history">> \in granted
         /\ applied["bc_shared"] = Migrations["bc_shared"]
         /\ enabled[r] =>
              /\ {<<"example", "read history">>, <<"example", "use tables">>,
                  <<"dispatcher", "use outbox">>} \subseteq granted
              /\ applied["bc_example"] = Migrations["bc_example"]
         /\ {<<"example", "write history">>, <<"public", "connect">>} \cap granted = {}
<1>1. EffectsInv(r) /\ RunInv(r) /\ HistoryOK
  BY InvParts
<1>2. \A i \in {1, 2, 5, 6, 7, 10, 11, 17} : InProgram(i, enabled[r])
  BY RoleIs DEF InProgram
<1>3. ASSUME enabled[r], NEW i \in 1 .. 19 PROVE InProgram(i, enabled[r])
  BY <1>3 DEF InProgram
<1>4. \A i \in 1 .. 19 : InProgram(i, enabled[r]) => InForce(r, i)
  BY <1>1 DEF EffectsInv
<1>5. \A i \in 7 .. 13 : \A e \in Program[i].what :
        InProgram(i, enabled[r]) /\ Program[i].do = "grant"
        /\ e \notin {<<"example", "write history">>, <<"dispatcher", "use outbox">>}
          => e \in granted
  <2> SUFFICES ASSUME NEW i \in 7 .. 13, NEW e \in Program[i].what,
                      InProgram(i, enabled[r]), Program[i].do = "grant",
                      e \notin Program[14].what \cup Program[15].what
               PROVE  e \in granted
    BY Names, Zenon
  <2> QED
    BY <1>1, Granted
<1>6. /\ password["ready"] = secrets[r]
      /\ applied["bc_shared"] = Migrations["bc_shared"]
  BY <1>2, <1>4, DoOf, RoleIs, SchemaIs DEF InForce
<1>7. <<"ready", "connect">> \in granted /\ <<"ready", "read history">> \in granted
  <2>1. /\ <<"ready", "connect">> \notin {<<"example", "write history">>, <<"dispatcher", "use outbox">>}
        /\ <<"ready", "read history">> \notin {<<"example", "write history">>, <<"dispatcher", "use outbox">>}
    OBVIOUS
  <2>2. 7 \in 7 .. 13 /\ 11 \in 7 .. 13
    OBVIOUS
  <2>3. InProgram(7, enabled[r]) /\ InProgram(11, enabled[r])
    BY <1>2
  <2> QED
    BY <1>5, <2>1, <2>2, <2>3, DoOf, Names, Zenon
<1>8. ASSUME enabled[r]
      PROVE  /\ password["example"] = secrets[r] /\ password["dispatcher"] = secrets[r]
             /\ applied["bc_example"] = Migrations["bc_example"]
             /\ <<"example", "connect">> \in granted /\ <<"dispatcher", "connect">> \in granted
             /\ <<"example", "read history">> \in granted
             /\ <<"example", "use tables">> \in granted
             /\ <<"dispatcher", "use outbox">> \in granted
  <2>1. \A i \in {3, 4, 8, 9, 12, 13, 14, 16} : InProgram(i, enabled[r])
    BY <1>8 DEF InProgram
  <2>2. /\ password["example"] = secrets[r] /\ password["dispatcher"] = secrets[r]
        /\ applied["bc_example"] = Migrations["bc_example"]
    BY <1>4, <2>1, DoOf, RoleIs, SchemaIs DEF InForce
  <2>3. /\ <<"example", "connect">> \notin {<<"example", "write history">>, <<"dispatcher", "use outbox">>}
        /\ <<"dispatcher", "connect">> \notin {<<"example", "write history">>, <<"dispatcher", "use outbox">>}
        /\ <<"example", "read history">> \notin {<<"example", "write history">>, <<"dispatcher", "use outbox">>}
        /\ <<"example", "use tables">> \notin {<<"example", "write history">>, <<"dispatcher", "use outbox">>}
    OBVIOUS
  <2>4. 8 \in 7 .. 13 /\ 9 \in 7 .. 13 /\ 13 \in 7 .. 13
    OBVIOUS
  <2>5. InProgram(8, enabled[r]) /\ InProgram(9, enabled[r]) /\ InProgram(13, enabled[r])
    BY <2>1
  <2>6. /\ <<"example", "connect">> \in granted /\ <<"dispatcher", "connect">> \in granted
        /\ <<"example", "read history">> \in granted
        /\ <<"example", "use tables">> \in granted
    BY <1>5, <2>3, <2>4, <2>5, DoOf, Names, Zenon
  <2>7. <<"dispatcher", "use outbox">> \in granted
    <3>1. \A k \in {14, 15} : ~(k > 16)
      OBVIOUS
    <3>2. 16 \in 7 .. 19 /\ InProgram(16, enabled[r]) /\ Program[16].do = "grant"
      BY <2>1, DoOf
    <3>3. <<"dispatcher", "use outbox">> \in Program[16].what
      BY Names
    <3> QED
      BY <1>1, <3>1, <3>2, <3>3, Granted, Zenon
  <2> QED
    BY <2>2, <2>6, <2>7
<1>9. <<"public", "connect">> \notin granted
  <2>1. Program[5].what \cap granted \subseteq Since(r, 5, "grant")
    BY <1>2, <1>4, DoOf DEF InForce
  <2>2. <<"public", "connect">> \notin Since(r, 5, "grant")
    <3>1. \A k \in 1 .. 19 :
            k > 5 /\ Program[k].do = "grant" => <<"public", "connect">> \notin Program[k].what
      BY LastWord, Zenon
    <3>2. 5 \in 1 .. 19 /\ step[r] \in 1 .. 20
      OBVIOUS
    <3> QED
      BY <3>1, <3>2, NotSince, Zenon
  <2> QED
    BY <2>1, <2>2, Names, Zenon
<1>10. <<"example", "write history">> \notin granted
  <2>1. CASE enabled[r]
    <3>1. Program[14].what \cap granted \subseteq Since(r, 14, "grant")
      BY <1>3, <1>4, <2>1, DoOf DEF InForce
    <3>2. <<"example", "write history">> \notin Since(r, 14, "grant")
      <4>1. \A k \in 1 .. 19 : k > 14 /\ Program[k].do = "grant" => k = 16
        BY LastWord
      <4>2. \A k \in 1 .. 19 :
              k > 14 /\ Program[k].do = "grant" => <<"example", "write history">> \notin Program[k].what
        BY <4>1, Names, Zenon
      <4>3. 14 \in 1 .. 19 /\ step[r] \in 1 .. 20
        OBVIOUS
      <4> QED
        BY <4>2, <4>3, NotSince, Zenon
    <3> QED
      BY <3>1, <3>2, Names, Zenon
  <2>2. CASE ~enabled[r]
    <3>1. applied["bc_example"] = 0
      BY <1>1, <2>2 DEF RunInv
    <3>2. ~(applied["bc_example"] > 0)
      BY <3>1
    <3> QED
      BY <1>1, <3>2, Zenon DEF HistoryOK
  <2> QED
    BY <2>1, <2>2
<1>11. \A x \in RolesOf(r) : password[x] = secrets[r] /\ <<x, "connect">> \in granted
  BY <1>6, <1>7, <1>8 DEF RolesOf
<1> QED
  BY <1>6, <1>7, <1>8, <1>9, <1>10, <1>11, Zenon

\* A run that succeeds has brought the database to what it wants, and to nothing
\* wider, whatever stopped runs left behind.
THEOREM Converges == ASSUME Single PROVE Spec => []Converged
<1>1. Inv => Converged
  <2> SUFFICES ASSUME Inv, NEW r \in Runner, phase[r] = "ok"
               PROVE  step[r] = 20
    BY Complete, Zenon DEF Converged
  <2> QED
    BY InvParts, ProgramLength DEF RunInv
<1> QED
  BY <1>1, Invariance, PTL

\* A run that would remove the initialized module changes neither the database nor
\* the API.
THEOREM RemovalSafe == ASSUME Single PROVE Spec => RemovalChangesNothing
<1>1. Inv /\ [Next]_vars =>
        [\A r \in Runner :
           phase[r] = "migrate" /\ ~enabled[r] /\ applied["bc_example"] > 0
           /\ <<phase[r], step[r]>>' # <<phase[r], step[r]>>
             => UNCHANGED <<database, api>>]_vars
  <2> SUFFICES ASSUME Inv, Next, NEW r \in Runner, phase[r] = "migrate", ~enabled[r],
                      applied["bc_example"] > 0,
                      <<phase[r], step[r]>>' # <<phase[r], step[r]>>
               PROVE  UNCHANGED <<database, api>>
    BY Zenon
  <2>1. step[r] = 1 /\ \A q \in Runner : q = r
    <3>1. RunInv(r) /\ RunsOK
      BY InvParts, Parts
    <3>2. step[r] # 0 /\ ~(step[r] > 1)
      BY <3>1 DEF RunInv
    <3> QED
      BY <3>1, <3>2 DEF RunsOK, Single
  <2>2. \A what : At(r, what) => what = "guard"
    BY <2>1, DoOf DEF At
  <2>3. CASE reconcile(r) \/ AskAgain(r) \/ Fail(r)
    <3>1. CASE Statement(r)
      BY <2>2, <3>1
         DEF Statement, GuardPasses, GuardRejects, Provision, Grant, Revoke, Migrate, Check
    <3>2. CASE Begin(r) \/ StartMigrate(r) \/ AskShared(r) \/ VerifyReady(r)
      BY <3>2 DEF Begin, StartMigrate, AskShared, VerifyReady
    <3>3. CASE StartApi(r)
      BY <2>1, <3>3, ProgramLength DEF StartApi
    <3>4. CASE VerifyTimeout(r) \/ AskAgain(r) \/ Fail(r)
      BY <3>4 DEF VerifyTimeout, AskAgain, Fail
    <3> QED
      BY <2>3, <3>1, <3>2, <3>3, <3>4 DEF reconcile
  <2>4. CASE Boot \/ Restart \/ Disconnect \/ (\E x \in Role : Connect(x))
             \/ \E m \in Manifest : Edit(m)
    <3>1. step' = step /\ phase'[r] = phase[r]
      <4>1. PhaseOK
        BY InvParts, Parts
      <4> QED
        BY <2>4, <4>1 DEF Boot, Restart, Unanswered, Disconnect, Connect, Edit, run, PhaseOK
    <3> QED
      BY <3>1
  <2> QED
    BY <2>1, <2>3, <2>4 DEF Next
<1> QED
  BY <1>1, Invariance, PTL DEF Spec, RemovalChangesNothing

\* A run succeeds only with an API of its own that can log in as each role it needs
\* and finds the full histories.
THEOREM ReadyTrue == ASSUME Single PROVE Spec => ReadyIsTrue
<1>1. Inv /\ [Next]_vars =>
        [\A r \in Runner :
           phase[r] # "ok" /\ phase'[r] = "ok" =>
             /\ api.secrets = secrets[r]
             /\ \A x \in Pools : CanLogin(x) /\ applied[RoleSchema(x)] = Migrations[RoleSchema(x)]]_vars
  <2> SUFFICES ASSUME Inv, Next, NEW r \in Runner, phase[r] # "ok", phase'[r] = "ok"
               PROVE  /\ api.secrets = secrets[r]
                      /\ \A x \in Pools :
                           CanLogin(x) /\ applied[RoleSchema(x)] = Migrations[RoleSchema(x)]
    BY Zenon
  <2>1. RunInv(r) /\ PhaseOK /\ RunsOK /\ \A q \in Runner : q = r
    BY InvParts, Parts DEF Single
  <2>2. VerifyReady(r)
    <3>1. CASE Statement(r)
      <4>1. phase' = phase \/ End(r)
        BY <3>1
           DEF Statement, GuardPasses, GuardRejects, Provision, Grant, Revoke, Migrate, Check
      <4> QED
        BY <2>1, <4>1, EndOK
    <3>2. CASE Begin(r) \/ StartMigrate(r) \/ StartApi(r) \/ AskShared(r) \/ AskAgain(r)
      BY <2>1, <3>2 DEF Begin, StartMigrate, StartApi, AskShared, AskAgain, PhaseOK
    <3>3. CASE VerifyTimeout(r) \/ Fail(r)
      BY <2>1, <3>3, EndOK DEF VerifyTimeout, Fail
    <3>4. CASE Boot \/ Restart \/ Disconnect \/ (\E x \in Role : Connect(x))
               \/ \E m \in Manifest : Edit(m)
      BY <2>1, <3>4 DEF Boot, Restart, Unanswered, Disconnect, Connect, Edit, run, PhaseOK
    <3> QED
      BY <2>1, <3>1, <3>2, <3>3, <3>4 DEF Next, reconcile
  <2>3. phase[r] = "asked" /\ step[r] = 20
    BY <2>1, <2>2, ProgramLength DEF VerifyReady, RunInv
  <2>4. api.secrets = secrets[r] /\ \A x \in api.open : CanLogin(x)
    BY <2>1, <2>3 DEF RunInv
  <2>5. CanLogin("ready") /\ applied["bc_shared"] = Migrations["bc_shared"]
    <3>1. /\ password["ready"] = secrets[r] /\ <<"ready", "connect">> \in granted
          /\ applied["bc_shared"] = Migrations["bc_shared"]
      BY <2>3, Complete DEF RolesOf
    <3> QED
      BY <2>4, <3>1 DEF CanLogin
  <2>6. \A x \in Pools \ {"ready"} :
          CanLogin(x) /\ applied[RoleSchema(x)] = Migrations[RoleSchema(x)]
    BY <2>2, <2>4 DEF VerifyReady, PoolReady, Reachable
  <2> QED
    BY <2>4, <2>5, <2>6 DEF RoleSchema
<1> QED
  BY <1>1, Invariance, PTL DEF Spec, ReadyIsTrue

\* Nothing gives the public its use of the schema back.
LEMMA StaysClosed ==
  ASSUME NEW i \in 1 .. 19, Program[i].do = "grant"
  PROVE  <<"public", "use schema public">> \notin Program[i].what
<1>1. /\ \A p : <<"public", "use schema public">> \notin Granting("ready", {p}).what
      /\ \A p : <<"public", "use schema public">> \notin Granting("example", {p}).what
      /\ \A p : <<"public", "use schema public">> \notin Granting("dispatcher", {p}).what
      /\ <<"public", "use schema public">> \notin
           Granting("example", {"read history", "write history", "use tables"}).what
  BY DEF Granting
<1>2. \A k \in {7, 8, 9, 11, 13, 16} : <<"public", "use schema public">> \notin Program[k].what
  BY <1>1, WhatIs, Zenon
<1>3. i \in {7, 8, 9, 11, 13, 16}
  BY Positions, KindOf
<1> QED
  BY <1>2, <1>3

LEMMA ChecksPass ==
  ASSUME Inv, NEW r \in Runner, At(r, "check")
  PROVE  <<"public", "use schema public">> \notin granted
<1>1. EffectsInv(r) /\ RunInv(r) /\ RunsOK
  BY InvParts, Parts
<1>2. step[r] \in 17 .. 19
  <2>1. step[r] \in 1 .. 19
    BY <1>1, ProgramLength DEF At, RunInv, RunsOK
  <2>2. \A k \in 1 .. 19 : Program[k].do = "check" => k \in {17, 18, 19}
    <3>1. TAKE k \in 1 .. 19
    <3> QED
      BY Positions, KindOf
  <2>3. Program[step[r]].do = "check"
    BY DEF At
  <2>4. step[r] \in {17, 18, 19}
    BY <2>1, <2>2, <2>3
  <2> QED
    BY <2>4
<1>3. Program[6].what \cap granted \subseteq Since(r, 6, "grant")
  <2>1. 6 \in 1 .. step[r] - 1 /\ InProgram(6, enabled[r])
    BY <1>2, RoleIs DEF InProgram
  <2> QED
    BY <1>1, <2>1, DoOf DEF EffectsInv, InForce
<1>4. <<"public", "use schema public">> \notin Since(r, 6, "grant")
  <2>1. step[r] \in 1 .. 20 /\ 6 \in 1 .. 19
    BY <1>2
  <2> QED
    BY <2>1, StaysClosed, NotSince, Zenon
<1>5. <<"public", "use schema public">> \in Program[6].what
  <2>1. <<"public", "use schema public">> \in Revoking("public", {"use schema public"}).what
    BY DEF Revoking
  <2> QED
    BY <2>1, WhatIs, Zenon
<1> QED
  BY <1>3, <1>4, <1>5

\* No partial state is beyond repair: a run that gets through its statements makes
\* ready the API it has started, whatever runs stopped before.
THEOREM AlwaysRepairs == ASSUME Single PROVE Spec => []Repairs
<1>1. ASSUME Inv, NEW r \in Runner, phase[r] \in {"verify", "asked"}, api.state = "running",
             api.example => enabled[r]
      PROVE  Ready
  <2>1. RunInv(r) /\ step[r] = 20
    BY <1>1, InvParts, ProgramLength DEF RunInv
  <2>2. Pools \subseteq RolesOf(r) /\ \A x \in Pools : x \in {"ready", "example"}
    BY <1>1 DEF Pools, RolesOf
  <2>3. ASSUME NEW x \in Pools PROVE CanLogin(x)
    <3>1. api.secrets = secrets[r]
      BY <1>1, <2>1 DEF RunInv
    <3>2. password[x] = secrets[r] /\ <<x, "connect">> \in granted
      BY <1>1, <2>1, <2>2, Complete
    <3> QED
      BY <3>1, <3>2 DEF CanLogin
  <2>4. ASSUME NEW x \in Pools
        PROVE  <<x, "read history">> \in granted /\ applied[RoleSchema(x)] = Migrations[RoleSchema(x)]
    <3>1. CASE x = "ready"
      BY <1>1, <2>1, <3>1, Complete DEF RoleSchema
    <3>2. CASE x = "example"
      <4>1. enabled[r]
        BY <1>1, <3>2 DEF Pools
      <4> QED
        BY <1>1, <2>1, <3>2, <4>1, Complete DEF RoleSchema
    <3> QED
      BY <2>2, <3>1, <3>2
  <2> QED
    BY <1>1, <2>3, <2>4 DEF Ready, PoolReady, Reachable
<1>2. Inv => Repairs
  BY <1>1, ChecksPass DEF Repairs
<1> QED
  BY <1>2, Invariance, PTL
===============================================================================
