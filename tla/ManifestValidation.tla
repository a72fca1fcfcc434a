-------------------------- MODULE ManifestValidation --------------------------
(***************************************************************************)
(* validate_manifest (core/src/manifest.rs): the checks of a manifest      *)
(* against the metadata of the release, and the depth-first search for a   *)
(* dependency cycle.  The recursion of visit is a path of modules whose    *)
(* calls have not returned; one step is one iteration of a loop.           *)
(***************************************************************************)
EXTENDS Integers, Sequences

CONSTANT Module     \* module ids; a BTreeMap goes through them in their order

ASSUME ModuleAssumption == Module \subseteq Nat

VARIABLES
  manifest,   \* whether release and deployment mode are supported; enabled modules
  metadata,   \* modules of the release, those whose version and contracts fit the
              \* manifest, and their required_dependencies
  phase,      \* the loop validate_manifest is in
  todo,       \* modules this loop has yet to take
  path,       \* modules whose visit has not returned, the innermost last
  left,       \* [module -> dependencies its visit has yet to follow]
  visiting, visited,
  verdict     \* "none", "accepted" or the reason of the error

input  == <<manifest, metadata>>
search == <<path, left, visiting, visited>>
vars   == <<input, phase, todo, search, verdict>>

Requires(m) == metadata.required_dependencies[m]

Init ==
  /\ manifest \in [supported : BOOLEAN, modules : SUBSET Module]
  /\ \E known \in SUBSET Module : \E fitting \in SUBSET known :
       \E dependencies \in [known -> SUBSET Module] :
         metadata = [modules |-> known, fitting |-> fitting, required_dependencies |-> dependencies]
  /\ phase = "release"
  /\ todo = {}
  /\ path = <<>>
  /\ left = [m \in Module |-> {}]
  /\ visiting = {} /\ visited = {}
  /\ verdict = "none"

First(S) == CHOOSE m \in S : \A n \in S : m <= n

Reject(reason) ==
  /\ phase' = "done"
  /\ verdict' = reason
  /\ UNCHANGED <<input, todo, search>>

-------------------------------------------------------------------------------
CheckRelease ==
  /\ phase = "release"
  /\ \/ /\ manifest.supported
        /\ phase' = "installations"
        /\ todo' = manifest.modules
        /\ UNCHANGED <<input, search, verdict>>
     \/ /\ ~manifest.supported
        /\ Reject("unsupported")

\* One installed module: it is known, and its version and contracts fit.
CheckInstallation ==
  /\ phase = "installations" /\ todo # {}
  /\ LET m == First(todo) IN
       \/ /\ m \in metadata.fitting
          /\ todo' = todo \ {m}
          /\ UNCHANGED <<input, phase, search, verdict>>
       \/ m \notin metadata.modules /\ Reject("unknown module")
       \/ m \in metadata.modules \ metadata.fitting /\ Reject("incompatible")

\* The modules it requires are enabled.
CheckDependencies ==
  /\ phase = "dependencies" /\ todo # {}
  /\ LET m == First(todo) IN
       \/ /\ Requires(m) \subseteq manifest.modules
          /\ todo' = todo \ {m}
          /\ UNCHANGED <<input, phase, search, verdict>>
       \/ ~(Requires(m) \subseteq manifest.modules) /\ Reject("dependency not enabled")

NextLoop ==
  /\ phase \in {"installations", "dependencies"} /\ todo = {}
  /\ phase' = IF phase = "installations" THEN "dependencies" ELSE "search"
  /\ todo' = manifest.modules
  /\ UNCHANGED <<input, search, verdict>>

-------------------------------------------------------------------------------
(* ensure_acyclic *)

Top == path[Len(path)]

EnterUnmarked(m, l) ==   \* mutant: the module is not remembered as being visited
  IF m \in visited
    THEN left' = l /\ UNCHANGED <<path, visiting, phase, verdict>>
    ELSE /\ path' = Append(path, m)
         /\ left' = [l EXCEPT ![m] = Requires(m) \cap manifest.modules]
         /\ UNCHANGED <<visiting, phase, verdict>>

\* The call visit(m), from a loop that leaves l: it returns at once, finds a
\* cycle, or begins the loop over its own dependencies.
Enter(m, l) ==
  \/ /\ m \in visited
     /\ left' = l
     /\ UNCHANGED <<path, visiting, phase, verdict>>
  \/ /\ m \in visiting \ visited
     /\ left' = l
     /\ phase' = "done" /\ verdict' = "cycle"
     /\ UNCHANGED <<path, visiting>>
  \/ /\ m \notin visiting \cup visited
     /\ visiting' = visiting \cup {m}
     /\ path' = Append(path, m)
     /\ left' = [l EXCEPT ![m] = Requires(m) \cap manifest.modules]
     /\ UNCHANGED <<phase, verdict>>

VisitModule ==
  /\ phase = "search" /\ path = <<>> /\ todo # {}
  /\ Enter(First(todo), left)
  /\ todo' = todo \ {First(todo)}
  /\ UNCHANGED <<input, visited>>

DependencyKept ==   \* mutant: the loop does not go on to the next dependency
  /\ phase = "search" /\ path # <<>> /\ left[Top] # {}
  /\ Enter(First(left[Top]), left)
  /\ UNCHANGED <<input, todo, visited>>

VisitDependency ==
  /\ phase = "search" /\ path # <<>> /\ left[Top] # {}
  /\ LET m == First(left[Top]) IN Enter(m, [left EXCEPT ![Top] = @ \ {m}])
  /\ UNCHANGED <<input, todo, visited>>

LeaveStillVisiting ==   \* mutant: the module stays in visiting and is never in visited
  /\ phase = "search" /\ path # <<>> /\ left[Top] = {}
  /\ path' = SubSeq(path, 1, Len(path) - 1)
  /\ UNCHANGED <<input, phase, todo, left, visiting, visited, verdict>>

Leave ==
  /\ phase = "search" /\ path # <<>> /\ left[Top] = {}
  /\ visiting' = visiting \ {Top}
  /\ visited' = visited \cup {Top}
  /\ path' = SubSeq(path, 1, Len(path) - 1)
  /\ UNCHANGED <<input, phase, todo, left, verdict>>

Accept ==
  /\ phase = "search" /\ path = <<>> /\ todo = {}
  /\ phase' = "done"
  /\ verdict' = "accepted"
  /\ UNCHANGED <<input, todo, search>>

validate_manifest ==
  \/ CheckRelease \/ CheckInstallation \/ CheckDependencies \/ NextLoop
  \/ VisitModule \/ VisitDependency \/ Leave \/ Accept

Next == validate_manifest

Spec     == Init /\ [][Next]_vars
FairSpec == Spec /\ WF_vars(Next)

-------------------------------------------------------------------------------
(* Properties *)

Phases   == {"release", "installations", "dependencies", "search", "done"}
Verdicts == {"none", "accepted", "unsupported", "unknown module", "incompatible",
             "dependency not enabled", "cycle"}

\* The variables hold values of their kind; there is a verdict exactly at the end.
TypeOK ==
  /\ manifest \in [supported : BOOLEAN, modules : SUBSET Module]
  /\ metadata.modules \subseteq Module /\ metadata.fitting \subseteq metadata.modules
  /\ metadata.required_dependencies \in [metadata.modules -> SUBSET Module]
  /\ phase \in Phases
  /\ todo \subseteq manifest.modules
  /\ path \in Seq(manifest.modules)
  /\ left \in [Module -> SUBSET manifest.modules]
  /\ visiting \subseteq manifest.modules /\ visited \subseteq manifest.modules
  /\ verdict \in Verdicts /\ (verdict = "none" <=> phase # "done")

\* A set of modules in which every one requires another of the set: what a cycle
\* is, without a search.
Circular(S) == S # {} /\ \A m \in S : Requires(m) \cap S # {}

Valid ==
  /\ manifest.supported
  /\ manifest.modules \subseteq metadata.fitting
  /\ \A m \in manifest.modules : Requires(m) \subseteq manifest.modules
  /\ ~\E S \in SUBSET manifest.modules : Circular(S)

\* The verdict is right in both directions: an accepted manifest is closed under
\* dependencies and free of cycles, and a rejected one is not, shared
\* dependencies included (ensure_acyclic, lines 210-247).
VerdictRight == verdict # "none" => (verdict = "accepted" <=> Valid)

\* The loops before the search have established what it relies on: its modules
\* are those of the release, so that indexing the metadata cannot panic.
LoopInv ==
  /\ phase \in {"installations", "dependencies", "search"} => manifest.supported
  /\ phase = "installations" => manifest.modules \ todo \subseteq metadata.fitting
  /\ phase \in {"dependencies", "search"} => manifest.modules \subseteq metadata.fitting
  /\ phase = "dependencies" =>
       \A m \in manifest.modules \ todo : Requires(m) \subseteq manifest.modules
  /\ phase = "search" =>
       \A m \in manifest.modules : Requires(m) \subseteq manifest.modules
  /\ phase \in {"release", "installations", "dependencies"} =>
       path = <<>> /\ visiting = {} /\ visited = {}

\* The path holds the modules being visited, each once, each required by the one
\* before.
PathInv ==
  /\ visiting = {path[i] : i \in 1 .. Len(path)}
  /\ \A i, j \in 1 .. Len(path) : path[i] = path[j] => i = j
  /\ \A i \in 1 .. Len(path) - 1 : path[i + 1] \in Requires(path[i])
  /\ visiting \cap visited = {}

\* What was visited is closed under dependencies and has no cycle; what is no
\* longer to be visited was, or is on the path.
VisitedInv ==
  /\ \A m \in visited : Requires(m) \subseteq visited
  /\ ~\E S \in SUBSET visited : Circular(S)
  /\ phase = "search" =>
       /\ manifest.modules \ todo \subseteq visited \cup visiting
       /\ \A i \in 1 .. Len(path) :
            /\ left[path[i]] \subseteq Requires(path[i])
            /\ i < Len(path) => Requires(path[i]) \ left[path[i]] \subseteq visited \cup {path[i + 1]}
            /\ i = Len(path) => Requires(path[i]) \ left[path[i]] \subseteq visited

\* The inductive invariant of the search.
Inv == TypeOK /\ LoopInv /\ PathInv /\ VisitedInv /\ VerdictRight

Marked == visiting \cup visited
Order  == [p \in Phases |->
  IF p = "release" THEN 0 ELSE IF p = "installations" THEN 1
  ELSE IF p = "dependencies" THEN 2 ELSE IF p = "search" THEN 3 ELSE 4]

\* A step that goes on to a later loop, or takes a module less, follows a
\* dependency less or is done with one more module, and undoes none of these.
Progress ==
  \/ Order[phase] < Order[phase']
  \/ /\ phase' = phase
     /\ todo' \subseteq todo /\ visited \subseteq visited' /\ Marked \subseteq Marked'
     /\ \A m \in Marked : left'[m] \subseteq left[m]
     /\ \/ todo' # todo \/ visited' # visited
        \/ \E m \in Marked : left'[m] # left[m]

\* Every step makes progress, whatever the graph.  Of each kind there is a finite
\* amount, so no manifest keeps validation busy for ever; and a module once marked
\* stays so, so that its dependencies are followed once, however many modules
\* share it (ensure_acyclic).
Advances == [][Progress]_vars

\* Every validation comes to a verdict, also on a cyclic graph.
Terminates == <>(verdict # "none")
===============================================================================
