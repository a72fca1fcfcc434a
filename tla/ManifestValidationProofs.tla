----------------------- MODULE ManifestValidationProofs -----------------------
(***************************************************************************)
(* For every set of modules and every metadata, validate_manifest accepts  *)
(* exactly the valid manifests.  Inv is inductive: one lemma per action.   *)
(***************************************************************************)
EXTENDS ManifestValidation, WellFoundedInduction, TLAPS

USE ModuleAssumption

-------------------------------------------------------------------------------
(* The order of modules, and circular sets *)

LEMMA FirstIsMember ==
  ASSUME NEW S \in SUBSET Module, S # {}
  PROVE  First(S) \in S
<1> DEFINE R == OpToRel(<, Nat)
<1>1. PICK m \in S : \A n \in S : <<n, m>> \notin R
  <2>1. IsWellFoundedOn(R, Nat)
    BY NatLessThanWellFounded
  <2> HIDE DEF R
  <2> QED
    BY <2>1, WFMin, Zenon
<1>2. \A n \in S : m <= n
  <2>1. TAKE n \in S
  <2>2. <<n, m>> \in Nat \X Nat /\ ~(n < m)
    BY <1>1, <2>1, SMT DEF OpToRel
  <2> QED
    BY <2>2
<1> QED
  BY <1>1, <1>2 DEF First

\* A module whose dependencies are all visited closes no cycle.
LEMMA NoNewCycle ==
  ASSUME NEW V, NEW m, m \notin V,
         \A x \in V : Requires(x) \subseteq V,
         Requires(m) \subseteq V,
         ~\E S \in SUBSET V : Circular(S)
  PROVE  ~\E S \in SUBSET (V \cup {m}) : Circular(S)
<1> SUFFICES ASSUME NEW S \in SUBSET (V \cup {m}), Circular(S) PROVE FALSE
  OBVIOUS
<1>1. \A x \in S : Requires(x) \cap (S \ {m}) # {}
  BY DEF Circular
<1>2. PICK x : x \in S
  BY DEF Circular
<1>3. S \ {m} # {} /\ S \ {m} \in SUBSET V
  BY <1>1, <1>2
<1>4. Circular(S \ {m})
  BY <1>1, <1>3 DEF Circular
<1> QED
  BY <1>3, <1>4

-------------------------------------------------------------------------------
(* The path *)

LEMMA AppendPath ==
  ASSUME NEW S, NEW p \in Seq(S), NEW m \in S
  PROVE  /\ Append(p, m) \in Seq(S)
         /\ Len(Append(p, m)) = Len(p) + 1
         /\ Append(p, m)[Len(p) + 1] = m
         /\ \A i \in 1 .. Len(p) : Append(p, m)[i] = p[i]
OBVIOUS

LEMMA FrontPath ==
  ASSUME NEW S, NEW p \in Seq(S), p # <<>>
  PROVE  /\ SubSeq(p, 1, Len(p) - 1) \in Seq(S)
         /\ Len(SubSeq(p, 1, Len(p) - 1)) = Len(p) - 1
         /\ \A i \in 1 .. Len(p) - 1 : SubSeq(p, 1, Len(p) - 1)[i] = p[i]
         /\ Len(p) \in Nat \ {0} /\ p[Len(p)] \in S
OBVIOUS

-------------------------------------------------------------------------------
(* The loops before the search *)

LEMMA InitInv == Init => Inv
<1> SUFFICES ASSUME Init PROVE Inv
  OBVIOUS
<1>1. TypeOK
  BY DEF Init, TypeOK, Phases, Verdicts
<1>2. LoopInv /\ PathInv /\ VisitedInv /\ VerdictRight
  BY DEF Init, LoopInv, PathInv, VisitedInv, VerdictRight, Circular
<1> QED
  BY <1>1, <1>2 DEF Inv

\* An error of a loop is right when the manifest is not valid.
LEMMA RejectInv ==
  ASSUME Inv, NEW reason \in Verdicts \ {"none", "accepted"}, Reject(reason), ~Valid
  PROVE  Inv'
<1> USE DEF Inv, Reject, input, search
<1>1. TypeOK'
  BY DEF TypeOK, Phases
<1>2. LoopInv' /\ PathInv'
  BY DEF LoopInv, PathInv, Requires
<1>3. VisitedInv'
  BY DEF VisitedInv, Requires, Circular
<1>4. Valid' = Valid
  BY DEF Valid, Requires, Circular
<1>5. VerdictRight'
  BY <1>4 DEF VerdictRight
<1> QED
  BY <1>1, <1>2, <1>3, <1>5

LEMMA CheckReleaseInv == Inv /\ CheckRelease => Inv'
<1> SUFFICES ASSUME Inv, CheckRelease PROVE Inv'
  OBVIOUS
<1>1. CASE manifest.supported
  <2> USE <1>1 DEF Inv, CheckRelease, input, search, Reject
  <2>1. TypeOK'
    BY DEF TypeOK, Phases
  <2>2. LoopInv' /\ PathInv'
    BY DEF LoopInv, PathInv, Requires
  <2>3. VisitedInv'
    BY DEF VisitedInv, Requires, Circular
  <2>4. VerdictRight'
    BY DEF VerdictRight, TypeOK
  <2> QED
    BY <2>1, <2>2, <2>3, <2>4
<1>2. CASE ~manifest.supported
  <2>1. Reject("unsupported") /\ ~Valid
    BY <1>2 DEF CheckRelease, Valid
  <2> QED
    BY <2>1, RejectInv DEF Verdicts
<1> QED
  BY <1>1, <1>2

\* One more module has passed the check of its loop.
LEMMA TakeModuleInv ==
  ASSUME Inv, NEW m \in todo, todo' = todo \ {m},
         UNCHANGED <<input, phase, search, verdict>>,
         \/ phase = "installations" /\ m \in metadata.fitting
         \/ phase = "dependencies" /\ Requires(m) \subseteq manifest.modules
  PROVE  Inv'
<1> USE DEF Inv, input, search
<1>1. TypeOK'
  BY DEF TypeOK
<1>2. LoopInv'
  BY DEF LoopInv, Requires
<1>3. PathInv'
  BY DEF PathInv, Requires
<1>4. VisitedInv'
  BY DEF VisitedInv, Requires, Circular
<1>5. VerdictRight'
  BY DEF VerdictRight, TypeOK
<1> QED
  BY <1>1, <1>2, <1>3, <1>4, <1>5

LEMMA CheckInstallationInv == Inv /\ CheckInstallation => Inv'
<1> SUFFICES ASSUME Inv, CheckInstallation PROVE Inv'
  OBVIOUS
<1> DEFINE m == First(todo)
<1>1. m \in todo /\ m \in manifest.modules
  BY FirstIsMember DEF CheckInstallation, Inv, TypeOK
<1> HIDE DEF m
<1>2. CASE m \in metadata.fitting
  <2>1. \/ todo' = todo \ {m} /\ UNCHANGED <<input, phase, search, verdict>>
    BY <1>2 DEF CheckInstallation, m, Inv, TypeOK
  <2> QED
    BY <1>1, <1>2, <2>1, TakeModuleInv DEF CheckInstallation
<1>3. CASE m \notin metadata.fitting
  <2>1. ~Valid
    BY <1>1, <1>3 DEF Valid
  <2>2. Reject("unknown module") \/ Reject("incompatible")
    BY <1>3 DEF CheckInstallation, m
  <2> QED
    BY <2>1, <2>2, RejectInv DEF Verdicts
<1> QED
  BY <1>2, <1>3

LEMMA CheckDependenciesInv == Inv /\ CheckDependencies => Inv'
<1> SUFFICES ASSUME Inv, CheckDependencies PROVE Inv'
  OBVIOUS
<1> DEFINE m == First(todo)
<1>1. m \in todo /\ m \in manifest.modules
  BY FirstIsMember DEF CheckDependencies, Inv, TypeOK
<1> HIDE DEF m
<1>2. CASE Requires(m) \subseteq manifest.modules
  <2>1. todo' = todo \ {m} /\ UNCHANGED <<input, phase, search, verdict>>
    BY <1>2 DEF CheckDependencies, m
  <2> QED
    BY <1>1, <1>2, <2>1, TakeModuleInv DEF CheckDependencies
<1>3. CASE ~(Requires(m) \subseteq manifest.modules)
  <2>1. ~Valid
    BY <1>1, <1>3 DEF Valid
  <2>2. Reject("dependency not enabled")
    BY <1>3 DEF CheckDependencies, m
  <2> QED
    BY <2>1, <2>2, RejectInv DEF Verdicts
<1> QED
  BY <1>2, <1>3

LEMMA NextLoopInv == Inv /\ NextLoop => Inv'
<1> SUFFICES ASSUME Inv, NextLoop PROVE Inv'
  OBVIOUS
<1> USE DEF Inv, NextLoop, input, search
<1>1. TypeOK'
  BY DEF TypeOK, Phases
<1>2. LoopInv'
  BY DEF LoopInv, Requires
<1>3. PathInv'
  BY DEF PathInv, Requires
<1>4. VisitedInv'
  BY DEF VisitedInv, LoopInv, Requires, Circular
<1>5. VerdictRight'
  BY DEF VerdictRight, TypeOK
<1> QED
  BY <1>1, <1>2, <1>3, <1>4, <1>5

-------------------------------------------------------------------------------
(* The search *)

\* A module of the path that is required again closes a cycle.
LEMMA PathCloses ==
  ASSUME Inv, NEW m \in visiting, path # <<>>, m \in Requires(Top)
  PROVE  \E S \in SUBSET manifest.modules : Circular(S)
<1>1. path \in Seq(manifest.modules) /\ Len(path) \in Nat
  BY DEF Inv, TypeOK
<1>2. PICK j \in 1 .. Len(path) : path[j] = m
  BY DEF Inv, PathInv
<1> DEFINE S == {path[k] : k \in j .. Len(path)}
<1>3. m \in S /\ S \in SUBSET manifest.modules
  BY <1>1, <1>2
<1>4. ASSUME NEW x \in S PROVE Requires(x) \cap S # {}
  <2>1. PICK k \in j .. Len(path) : x = path[k]
    OBVIOUS
  <2>2. CASE k = Len(path)
    BY <1>3, <2>1, <2>2 DEF Top
  <2>3. CASE k < Len(path)
    <3>1. k + 1 \in j .. Len(path) /\ k \in 1 .. Len(path) - 1
      BY <1>1, <1>2, <2>3
    <3>2. path[k + 1] \in Requires(x) /\ path[k + 1] \in S
      BY <2>1, <3>1 DEF Inv, PathInv
    <3> QED
      BY <3>2
  <2> QED
    BY <1>1, <1>2, <2>2, <2>3
<1> QED
  BY <1>3, <1>4 DEF Circular

\* The visit of a module begins: the path grows by it.
LEMMA BeginVisit ==
  ASSUME Inv, phase = "search",
         NEW m \in manifest.modules, m \notin visiting \cup visited,
         NEW l \in [Module -> SUBSET manifest.modules],
         path # <<>> => m \in Requires(Top),
         visiting' = visiting \cup {m}, path' = Append(path, m),
         left' = [l EXCEPT ![m] = Requires(m) \cap manifest.modules],
         \A i \in 1 .. Len(path) :
           /\ l[path[i]] \subseteq Requires(path[i])
           /\ i < Len(path) => Requires(path[i]) \ l[path[i]] \subseteq visited \cup {path[i + 1]}
           /\ i = Len(path) => Requires(path[i]) \ l[path[i]] \subseteq visited \cup {m},
         todo' \subseteq manifest.modules,
         manifest.modules \ todo' \subseteq visited \cup visiting \cup {m},
         UNCHANGED <<input, visited, phase, verdict>>
  PROVE  Inv'
<1> USE DEF Inv, input
<1>1. /\ path \in Seq(manifest.modules) /\ Len(path) \in Nat /\ m \in Module
      /\ \A i \in 1 .. Len(path) : path[i] \in manifest.modules /\ path[i] \in Module
  BY DEF TypeOK
<1>2. /\ path' \in Seq(manifest.modules)
      /\ Len(path') = Len(path) + 1
      /\ path'[Len(path) + 1] = m
      /\ \A i \in 1 .. Len(path) : path'[i] = path[i]
  BY <1>1, AppendPath
<1>3. \A i \in 1 .. Len(path) : path[i] # m
  BY DEF PathInv
<1>4. /\ left' \in [Module -> SUBSET manifest.modules]
      /\ left'[m] = Requires(m) \cap manifest.modules
      /\ \A x \in Module : x # m => left'[x] = l[x]
  BY <1>1
<1>5. TypeOK'
  BY <1>2, <1>4 DEF TypeOK
<1>6. LoopInv'
  BY DEF LoopInv, Requires
<1>7. PathInv'
  <2>1. visiting' = {path'[i] : i \in 1 .. Len(path')}
    <3>1. \A i \in 1 .. Len(path') : path'[i] \in visiting'
      BY <1>1, <1>2 DEF PathInv
    <3>2. \A x \in visiting' : \E i \in 1 .. Len(path') : path'[i] = x
      BY <1>1, <1>2 DEF PathInv
    <3> QED
      BY <3>1, <3>2
  <2>2. \A i, j \in 1 .. Len(path') : path'[i] = path'[j] => i = j
    BY <1>1, <1>2, <1>3 DEF PathInv
  <2>3. \A i \in 1 .. Len(path') - 1 : path'[i + 1] \in Requires(path'[i])
    <3> TAKE i \in 1 .. Len(path') - 1
    <3>1. CASE i = Len(path)
      BY <1>1, <1>2, <3>1 DEF Requires, Top
    <3>2. CASE i < Len(path)
      BY <1>1, <1>2, <3>2 DEF Requires, PathInv
    <3> QED
      BY <1>1, <1>2, <3>1, <3>2
  <2>4. (visiting \cap visited = {})'
    BY DEF PathInv
  <2>5. \A i \in 1 .. Len(path') - 1 :
          path'[i + 1] \in metadata'.required_dependencies[path'[i]]
    BY <2>3 DEF Requires
  <2> QED
    BY <2>1, <2>2, <2>4, <2>5 DEF PathInv, Requires
<1>8. VisitedInv'
  <2>1. (\A x \in visited : Requires(x) \subseteq visited)'
        /\ (~\E S \in SUBSET visited : Circular(S))'
    BY DEF VisitedInv, Requires, Circular
  <2>2. (manifest.modules \ todo \subseteq visited \cup visiting)'
    OBVIOUS
  <2>3. ASSUME NEW i \in 1 .. Len(path')
        PROVE  /\ left'[path'[i]] \subseteq Requires(path'[i])
               /\ i < Len(path') => Requires(path'[i]) \ left'[path'[i]] \subseteq visited' \cup {path'[i + 1]}
               /\ i = Len(path') => Requires(path'[i]) \ left'[path'[i]] \subseteq visited'
    <3>1. CASE i = Len(path')
      <4>1. path'[i] = m /\ Requires(m) \subseteq manifest.modules
        BY <1>2, <3>1 DEF LoopInv
      <4> QED
        BY <1>1, <1>2, <1>4, <3>1, <4>1 DEF Requires
    <3>2. CASE i < Len(path')
      <4>1. i \in 1 .. Len(path) /\ path'[i] = path[i] /\ left'[path'[i]] = l[path[i]]
        BY <1>1, <1>2, <1>3, <1>4, <3>2
      <4>2. i < Len(path) => i + 1 \in 1 .. Len(path) /\ path'[i + 1] = path[i + 1]
        BY <1>1, <1>2, <4>1
      <4>3. i = Len(path) => path'[i + 1] = m
        BY <1>2
      <4> QED
        BY <1>1, <1>2, <3>2, <4>1, <4>2, <4>3
    <3> QED
      BY <1>1, <1>2, <3>1, <3>2
  <2> QED
    BY <2>1, <2>2, <2>3 DEF VisitedInv, Requires
<1>9. VerdictRight'
  BY DEF VerdictRight, TypeOK
<1> QED
  BY <1>5, <1>6, <1>7, <1>8, <1>9

LEMMA VisitModuleInv == Inv /\ VisitModule => Inv'
<1> SUFFICES ASSUME Inv, VisitModule PROVE Inv'
  OBVIOUS
<1> DEFINE m == First(todo)
<1>1. m \in todo /\ m \in manifest.modules
  <2>1. todo \in SUBSET Module /\ todo \subseteq manifest.modules /\ todo # {}
    BY DEF VisitModule, Inv, TypeOK
  <2> QED
    BY <2>1, FirstIsMember
<1>2. /\ phase = "search" /\ path = <<>> /\ visiting = {} /\ Len(path) = 0
      /\ todo' = todo \ {m} /\ UNCHANGED <<input, visited>>
      /\ Enter(m, left)
  BY DEF VisitModule, Inv, PathInv
<1> HIDE DEF m
<1>3. CASE m \in visited
  <2>1. UNCHANGED <<path, left, visiting, phase, verdict>>
    BY <1>2, <1>3 DEF Enter
  <2> USE <1>1, <1>2, <1>3, <2>1 DEF Inv, input
  <2>2. TypeOK' /\ LoopInv' /\ PathInv'
    BY DEF TypeOK, LoopInv, PathInv, Requires
  <2>3. VisitedInv'
    BY DEF VisitedInv, Requires, Circular
  <2>4. VerdictRight'
    BY DEF VerdictRight, TypeOK
  <2> QED
    BY <2>2, <2>3, <2>4
<1>4. CASE m \notin visited
  <2>1. /\ visiting' = visiting \cup {m} /\ path' = Append(path, m)
        /\ left' = [left EXCEPT ![m] = Requires(m) \cap manifest.modules]
        /\ UNCHANGED <<phase, verdict>>
    BY <1>2, <1>4 DEF Enter
  <2>2. left \in [Module -> SUBSET manifest.modules] /\ todo' \subseteq manifest.modules
    BY <1>2 DEF Inv, TypeOK
  <2>3. manifest.modules \ todo' \subseteq visited \cup visiting \cup {m}
    BY <1>2 DEF Inv, VisitedInv
  <2>4. m \notin visiting \cup visited /\ 1 .. Len(path) = {}
    BY <1>2, <1>4
  <2> QED
    BY <1>1, <1>2, <2>1, <2>2, <2>3, <2>4, BeginVisit
<1> QED
  BY <1>3, <1>4

LEMMA VisitDependencyInv == Inv /\ VisitDependency => Inv'
<1> SUFFICES ASSUME Inv, VisitDependency PROVE Inv'
  OBVIOUS
<1> DEFINE m == First(left[Top])
           l == [left EXCEPT ![Top] = @ \ {m}]
<1>1. /\ path \in Seq(manifest.modules) /\ Len(path) \in Nat \ {0}
      /\ Top \in manifest.modules /\ Top \in Module
      /\ \A i \in 1 .. Len(path) : path[i] \in Module
      /\ left \in [Module -> SUBSET manifest.modules]
  BY FrontPath DEF VisitDependency, Inv, TypeOK, Top
<1>2. m \in left[Top]
  BY <1>1, FirstIsMember DEF VisitDependency, Inv, TypeOK
<1>3. m \in manifest.modules /\ m \in Requires(Top)
  <2> HIDE DEF m, l
  <2>1. left[Top] \subseteq Requires(Top)
    BY <1>1 DEF VisitDependency, Inv, VisitedInv, Top
  <2> QED
    BY <1>1, <1>2, <2>1
<1>4. phase = "search" /\ path # <<>> /\ UNCHANGED <<input, todo, visited>> /\ Enter(m, l)
  BY DEF VisitDependency
<1>5. /\ l \in [Module -> SUBSET manifest.modules]
      /\ l[Top] = left[Top] \ {m}
      /\ \A x \in Module : x # Top => l[x] = left[x]
  BY <1>1
<1> HIDE DEF m, l
<1>6. ASSUME NEW i \in 1 .. Len(path)
      PROVE  /\ l[path[i]] \subseteq Requires(path[i])
             /\ i < Len(path) => Requires(path[i]) \ l[path[i]] \subseteq visited \cup {path[i + 1]}
             /\ i = Len(path) => Requires(path[i]) \ l[path[i]] \subseteq visited \cup {m}
  <2>1. /\ left[path[i]] \subseteq Requires(path[i])
        /\ i < Len(path) => Requires(path[i]) \ left[path[i]] \subseteq visited \cup {path[i + 1]}
        /\ i = Len(path) => Requires(path[i]) \ left[path[i]] \subseteq visited
    BY <1>4 DEF Inv, VisitedInv
  <2>2. CASE i = Len(path)
    BY <1>5, <2>1, <2>2 DEF Top
  <2>3. CASE i # Len(path)
    <3>1. path[i] # Top
      BY <1>1, <2>3 DEF Inv, PathInv, Top
    <3> QED
      BY <1>1, <1>5, <2>1, <2>3, <3>1
  <2> QED
    BY <2>2, <2>3
<1>7. CASE m \in visited
  <2>1. UNCHANGED <<path, visiting, phase, verdict>> /\ left' = l
    BY <1>4, <1>7 DEF Enter, Inv, PathInv
  <2> USE <1>4, <2>1 DEF Inv, input
  <2>2. TypeOK' /\ LoopInv' /\ PathInv'
    BY <1>5 DEF TypeOK, LoopInv, PathInv, Requires
  <2>3. VisitedInv'
    <3>1. (\A x \in visited : Requires(x) \subseteq visited)'
          /\ (~\E S \in SUBSET visited : Circular(S))'
          /\ (manifest.modules \ todo \subseteq visited \cup visiting)'
      BY DEF VisitedInv, Requires, Circular
    <3> QED
      BY <1>6, <1>7, <3>1 DEF VisitedInv, Requires
  <2>4. VerdictRight'
    BY DEF VerdictRight, TypeOK
  <2> QED
    BY <2>2, <2>3, <2>4
<1>8. CASE m \in visiting \ visited
  <2>1. UNCHANGED <<path, visiting>> /\ left' = l /\ phase' = "done" /\ verdict' = "cycle"
    BY <1>4, <1>8 DEF Enter
  <2> USE <1>4, <2>1 DEF Inv, input
  <2>2. ~Valid
    BY <1>3, <1>8, PathCloses DEF Valid
  <2>3. TypeOK' /\ LoopInv' /\ PathInv'
    BY <1>5 DEF TypeOK, Phases, Verdicts, LoopInv, PathInv, Requires
  <2>4. VisitedInv'
    BY DEF VisitedInv, Requires, Circular
  <2>5. Valid' = Valid
    BY DEF Valid, Requires, Circular
  <2>6. VerdictRight'
    BY <2>2, <2>5 DEF VerdictRight
  <2> QED
    BY <2>3, <2>4, <2>6
<1>9. CASE m \notin visiting \cup visited
  <2>1. /\ visiting' = visiting \cup {m} /\ path' = Append(path, m)
        /\ left' = [l EXCEPT ![m] = Requires(m) \cap manifest.modules]
        /\ UNCHANGED <<phase, verdict>>
    BY <1>4, <1>9 DEF Enter
  <2>2. todo' \subseteq manifest.modules /\ manifest.modules \ todo' \subseteq visited \cup visiting \cup {m}
    BY <1>4 DEF Inv, TypeOK, VisitedInv
  <2> QED
    BY <1>3, <1>4, <1>5, <1>6, <1>9, <2>1, <2>2, BeginVisit
<1> QED
  BY <1>7, <1>8, <1>9

\* The visit of the innermost module returns: its dependencies were all visited.
LEMMA LeaveInv == Inv /\ Leave => Inv'
<1> SUFFICES ASSUME Inv, Leave PROVE Inv'
  OBVIOUS
<1> USE DEF input
<1>1. /\ path \in Seq(manifest.modules) /\ Len(path) \in Nat \ {0}
      /\ Top = path[Len(path)] /\ Top \in manifest.modules /\ left[Top] = {}
      /\ phase = "search" /\ UNCHANGED <<input, phase, todo, left, verdict>>
      /\ visiting' = visiting \ {Top} /\ visited' = visited \cup {Top}
  BY FrontPath DEF Leave, Inv, TypeOK, Top
<1>2. /\ path' \in Seq(manifest.modules)
      /\ Len(path') = Len(path) - 1
      /\ \A i \in 1 .. Len(path) - 1 : path'[i] = path[i]
  <2>1. path # <<>> /\ path' = SubSeq(path, 1, Len(path) - 1)
    BY DEF Leave
  <2> QED
    BY <1>1, <2>1, FrontPath
<1>3. \A i \in 1 .. Len(path) - 1 : path[i] # Top
  BY <1>1 DEF Inv, PathInv
<1>4. Top \in visiting /\ Top \notin visited
  <2>1. Top \in {path[i] : i \in 1 .. Len(path)}
    BY <1>1
  <2> QED
    BY <2>1 DEF Inv, PathInv
<1>5. Requires(Top) \subseteq visited
  <2>1. Len(path) \in 1 .. Len(path)
    BY <1>1
  <2>2. Requires(Top) \ left[Top] \subseteq visited
    BY <1>1, <2>1 DEF Inv, VisitedInv
  <2> QED
    BY <1>1, <2>2
<1> HIDE DEF Top
<1>6. TypeOK'
  BY <1>1, <1>2 DEF Inv, TypeOK
<1>7. LoopInv'
  BY <1>1 DEF Inv, LoopInv, Requires
<1>8. PathInv'
  <2>1. visiting' = {path'[i] : i \in 1 .. Len(path')}
    <3>1. \A i \in 1 .. Len(path') : path'[i] \in visiting'
      BY <1>1, <1>2, <1>3 DEF Inv, PathInv
    <3>2. \A x \in visiting' : \E i \in 1 .. Len(path') : path'[i] = x
      <4> TAKE x \in visiting'
      <4>1. PICK i \in 1 .. Len(path) : path[i] = x
        BY <1>1 DEF Inv, PathInv
      <4>2. i # Len(path)
        BY <1>1, <4>1
      <4> QED
        BY <1>1, <1>2, <4>1, <4>2
    <3> QED
      BY <3>1, <3>2
  <2>2. \A i, j \in 1 .. Len(path') : path'[i] = path'[j] => i = j
    BY <1>1, <1>2 DEF Inv, PathInv
  <2>3. \A i \in 1 .. Len(path') - 1 : path'[i + 1] \in Requires(path'[i])
    BY <1>1, <1>2 DEF Inv, PathInv
  <2>4. visiting' \cap visited' = {}
    BY <1>1 DEF Inv, PathInv
  <2>5. \A i \in 1 .. Len(path') - 1 :
          path'[i + 1] \in metadata'.required_dependencies[path'[i]]
    BY <1>1, <2>3 DEF Requires
  <2> QED
    BY <2>1, <2>2, <2>4, <2>5 DEF PathInv, Requires
<1>9. VisitedInv'
  <2>1. \A x \in visited' : Requires(x) \subseteq visited'
    BY <1>1, <1>5 DEF Inv, VisitedInv
  <2>2. ~\E S \in SUBSET visited' : Circular(S)
    BY <1>1, <1>4, <1>5, NoNewCycle DEF Inv, VisitedInv
  <2>3. manifest'.modules \ todo' \subseteq visited' \cup visiting'
    BY <1>1 DEF Inv, VisitedInv
  <2>4. ASSUME NEW i \in 1 .. Len(path')
        PROVE  /\ left'[path'[i]] \subseteq Requires(path'[i])
               /\ i < Len(path') => Requires(path'[i]) \ left'[path'[i]] \subseteq visited' \cup {path'[i + 1]}
               /\ i = Len(path') => Requires(path'[i]) \ left'[path'[i]] \subseteq visited'
    <3>1. i \in 1 .. Len(path) /\ i < Len(path) /\ path'[i] = path[i] /\ left' = left
      BY <1>1, <1>2
    <3>2. /\ left[path[i]] \subseteq Requires(path[i])
          /\ Requires(path[i]) \ left[path[i]] \subseteq visited \cup {path[i + 1]}
      BY <1>1, <3>1 DEF Inv, VisitedInv
    <3>3. i < Len(path') => path'[i + 1] = path[i + 1]
      BY <1>1, <1>2, <3>1
    <3>4. i = Len(path') => path[i + 1] = Top
      BY <1>1, <1>2
    <3> QED
      BY <1>1, <3>1, <3>2, <3>3, <3>4
  <2>5. metadata' = metadata
    BY <1>1
  <2> QED
    BY <2>1, <2>2, <2>3, <2>4, <2>5 DEF VisitedInv, Requires, Circular
<1>10. VerdictRight'
  BY <1>1 DEF Inv, VerdictRight, TypeOK
<1> QED
  BY <1>6, <1>7, <1>8, <1>9, <1>10 DEF Inv

\* Nothing is left to visit: the search has seen every module, and found no cycle.
LEMMA AcceptInv == Inv /\ Accept => Inv'
<1> SUFFICES ASSUME Inv, Accept PROVE Inv'
  OBVIOUS
<1> USE DEF Inv, Accept, input, search
<1>1. visiting = {} /\ manifest.modules \subseteq visited
  BY DEF PathInv, VisitedInv
<1>2. Valid
  BY <1>1 DEF Valid, LoopInv, VisitedInv
<1>3. TypeOK'
  BY DEF TypeOK, Phases, Verdicts
<1>4. LoopInv' /\ PathInv'
  BY DEF LoopInv, PathInv, Requires
<1>5. VisitedInv'
  BY DEF VisitedInv, Requires, Circular
<1>6. Valid' = Valid
  BY DEF Valid, Requires, Circular
<1>7. VerdictRight'
  BY <1>2, <1>6 DEF VerdictRight
<1> QED
  BY <1>3, <1>4, <1>5, <1>7

LEMMA StutterInv == Inv /\ UNCHANGED vars => Inv'
<1> SUFFICES ASSUME Inv, UNCHANGED vars PROVE Inv'
  OBVIOUS
<1> USE DEF Inv, vars, input, search
<1>1. TypeOK' /\ LoopInv' /\ PathInv'
  BY DEF TypeOK, LoopInv, PathInv, Requires
<1>2. VisitedInv'
  BY DEF VisitedInv, Requires, Circular
<1>3. Valid' = Valid
  BY DEF Valid, Requires, Circular
<1> QED
  BY <1>1, <1>2, <1>3 DEF VerdictRight

-------------------------------------------------------------------------------
(* The theorems *)

\* The search keeps its invariant: the path is a chain of dependencies, and what
\* it has left behind is closed and has no cycle.
THEOREM Invariance == Spec => []Inv
<1>1. Inv /\ [Next]_vars => Inv'
  BY CheckReleaseInv, CheckInstallationInv, CheckDependenciesInv, NextLoopInv, VisitModuleInv,
     VisitDependencyInv, LeaveInv, AcceptInv, StutterInv DEF Next, validate_manifest
<1> QED
  BY InitInv, <1>1, PTL DEF Spec

\* The variables keep their types; no module outside the release is ever visited.
THEOREM TypeCorrect == Spec => []TypeOK
<1>1. Inv => TypeOK
  BY DEF Inv
<1> QED
  BY Invariance, <1>1, PTL

\* validate_manifest accepts exactly the manifests that are closed under
\* dependencies and have no cycle, and whose release, modules and contracts fit.
THEOREM Sound == Spec => []VerdictRight
<1>1. Inv => VerdictRight
  BY DEF Inv
<1> QED
  BY Invariance, <1>1, PTL

-------------------------------------------------------------------------------
(* Progress *)

\* A call of visit keeps the marks, and what the marked modules have left, but for
\* the loop it is made from.
LEMMA EnterProgress ==
  ASSUME NEW m \in Module, NEW l \in [Module -> SUBSET manifest.modules],
         left \in [Module -> SUBSET manifest.modules],
         \A x \in Marked : l[x] \subseteq left[x],
         phase = "search", UNCHANGED visited, Enter(m, l)
  PROVE  \/ phase' = "done"
         \/ /\ phase' = phase /\ Marked \subseteq Marked'
            /\ \A x \in Marked \cap Module : left'[x] = l[x]
<1>1. CASE m \in visited
  BY <1>1 DEF Enter, Marked
<1>2. CASE m \in visiting \ visited
  BY <1>2 DEF Enter
<1>3. CASE m \notin Marked
  BY <1>3 DEF Enter, Marked
<1> QED
  BY <1>1, <1>2, <1>3 DEF Marked

LEMMA LoopProgress ==
  ASSUME Inv, CheckRelease \/ CheckInstallation \/ CheckDependencies \/ NextLoop \/ Accept
  PROVE  Progress
<1>1. CASE CheckRelease \/ NextLoop \/ Accept
  BY <1>1 DEF CheckRelease, NextLoop, Accept, Reject, Progress, Order, Phases
<1>2. ASSUME CheckInstallation \/ CheckDependencies PROVE First(todo) \in todo
  BY <1>2, FirstIsMember DEF CheckInstallation, CheckDependencies, Inv, TypeOK
<1>3. Order["installations"] < Order["done"] /\ Order["dependencies"] < Order["done"]
  BY DEF Order, Phases
<1>4. ASSUME CheckInstallation \/ CheckDependencies
      PROVE  \/ phase \in {"installations", "dependencies"} /\ phase' = "done"
             \/ /\ phase' = phase /\ todo' = todo \ {First(todo)}
                /\ UNCHANGED <<left, visiting, visited>>
  BY <1>4 DEF CheckInstallation, CheckDependencies, Reject, search
<1>5. CASE CheckInstallation \/ CheckDependencies
  BY <1>2, <1>3, <1>4, <1>5 DEF Progress, Marked
<1> QED
  BY <1>1, <1>5

LEMMA SearchProgress ==
  ASSUME Inv, VisitModule \/ VisitDependency \/ Leave
  PROVE  Progress
<1>1. /\ left \in [Module -> SUBSET manifest.modules] /\ manifest.modules \subseteq Module
      /\ Marked \subseteq Module /\ phase = "search"
  BY DEF Inv, TypeOK, Marked, VisitModule, VisitDependency, Leave
<1>2. path # <<>> => Top \in visiting /\ Top \in Marked
  <2>1. path # <<>> => Len(path) \in 1 .. Len(path)
    BY FrontPath DEF Inv, TypeOK
  <2> QED
    BY <2>1 DEF Inv, PathInv, Top, Marked
<1>3. Order["search"] < Order["done"]
  BY DEF Order, Phases
<1>4. CASE VisitModule
  <2>1. First(todo) \in todo /\ First(todo) \in Module
    <3>1. todo \in SUBSET Module /\ todo # {}
      BY <1>1, <1>4 DEF VisitModule, Inv, TypeOK
    <3> QED
      BY <3>1, FirstIsMember
  <2>2. UNCHANGED visited /\ Enter(First(todo), left) /\ todo' = todo \ {First(todo)}
    BY <1>4 DEF VisitModule
  <2>3. \/ phase' = "done"
        \/ /\ phase' = phase /\ Marked \subseteq Marked'
           /\ \A x \in Marked \cap Module : left'[x] = left[x]
    BY <1>1, <2>1, <2>2, EnterProgress
  <2> QED
    BY <1>1, <1>3, <2>1, <2>2, <2>3 DEF Progress
<1>5. CASE VisitDependency
  <2> DEFINE d == First(left[Top])
             l == [left EXCEPT ![Top] = @ \ {d}]
  <2>1. Top \in Marked /\ Top \in Module /\ left[Top] # {}
    BY <1>1, <1>2, <1>5 DEF VisitDependency
  <2>2. d \in left[Top] /\ d \in Module
    BY <1>1, <2>1, FirstIsMember
  <2>3. UNCHANGED <<todo, visited>> /\ Enter(d, l)
    BY <1>5 DEF VisitDependency
  <2> HIDE DEF d
  <2>4. /\ l \in [Module -> SUBSET manifest.modules] /\ l[Top] = left[Top] \ {d}
        /\ \A x \in Marked : l[x] \subseteq left[x]
    BY <1>1, <2>1
  <2> HIDE DEF l
  <2>5. \/ phase' = "done"
        \/ /\ phase' = phase /\ Marked \subseteq Marked'
           /\ \A x \in Marked \cap Module : left'[x] = l[x]
    BY <1>1, <2>2, <2>3, <2>4, EnterProgress
  <2> QED
    BY <1>1, <1>3, <2>1, <2>2, <2>3, <2>4, <2>5 DEF Progress
<1>6. CASE Leave
  <2>1. Top \notin visited
    BY <1>2, <1>6 DEF Leave, Inv, PathInv
  <2> QED
    BY <1>2, <1>6, <2>1 DEF Leave, Progress, Marked
<1> QED
  BY <1>4, <1>5, <1>6

\* A validation takes a bounded number of steps, whatever the graph of modules.
THEOREM AlwaysAdvances == Spec => Advances
<1>1. Inv /\ [Next]_vars => [Progress]_vars
  BY LoopProgress, SearchProgress DEF Next, validate_manifest
<1> QED
  BY <1>1, Invariance, PTL DEF Spec, Advances
===============================================================================
