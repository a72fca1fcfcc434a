----------------------------- MODULE DesiredState -----------------------------
(***************************************************************************)
(* What reconciliation promises when any number of operators run it at the *)
(* same time, without statements, containers, passwords or a manifest:     *)
(* every run wants a set of facts about the database, what a run has       *)
(* brought about is there to stay, each fact comes after the facts it      *)
(* rests on, and a run that succeeds leaves every fact it wanted.          *)
(***************************************************************************)

CONSTANTS
  Runner,
  Fact,
  Wish,      \* the sets of facts a run may want
  Needs      \* [fact -> facts it rests on]

VARIABLES
  outcome,   \* [Runner -> where its run stands, or how it ended]
  wanted,    \* [Runner -> facts its run wants, once it knows]
  facts      \* what is true of the database

vars == <<outcome, wanted, facts>>

Init ==
  /\ outcome = [r \in Runner |-> "idle"]
  /\ wanted = [r \in Runner |-> {}]
  /\ facts = {}

Plan(r) ==
  /\ outcome[r] \in {"idle", "ok", "error"}
  /\ outcome' = [outcome EXCEPT ![r] = "planned"]
  /\ wanted' = [wanted EXCEPT ![r] = {}]
  /\ UNCHANGED facts

\* What the run wants is read when its work starts, not when it is planned.
Start(r) ==
  /\ outcome[r] = "planned"
  /\ outcome' = [outcome EXCEPT ![r] = "working"]
  /\ \E w \in Wish : wanted' = [wanted EXCEPT ![r] = w]
  /\ UNCHANGED facts

\* The run brings about some of what it wants and takes nothing back, not even
\* what another run wanted.
Work(r) ==
  /\ outcome[r] = "working"
  /\ facts' \in SUBSET Fact
  /\ facts \subseteq facts'
  /\ \A f \in facts' \ facts : f \in wanted[r] /\ Needs[f] \subseteq facts
  /\ UNCHANGED <<outcome, wanted>>

Succeed(r) ==
  /\ outcome[r] = "working" /\ wanted[r] \subseteq facts
  /\ outcome' = [outcome EXCEPT ![r] = "ok"]
  /\ UNCHANGED <<wanted, facts>>

\* What the run has done stays.
Fail(r) ==
  /\ outcome[r] \in {"planned", "working"}
  /\ outcome' = [outcome EXCEPT ![r] = "error"]
  /\ wanted' = [wanted EXCEPT ![r] = {}]
  /\ UNCHANGED facts

Next == \E r \in Runner : Plan(r) \/ Start(r) \/ Work(r) \/ Succeed(r) \/ Fail(r)

Spec == Init /\ [][Next]_vars

-------------------------------------------------------------------------------
\* A successful run has what it wanted until its operator runs again, whatever the
\* others do.
SuccessLasts == \A r \in Runner : outcome[r] = "ok" => wanted[r] \subseteq facts
===============================================================================
