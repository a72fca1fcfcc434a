----------------------------- MODULE Verification -----------------------------
(***************************************************************************)
(* verify_ready (core/src/reconcile.rs): bc polls /readyz of the API it    *)
(* started until the answer is 200 or its time is up.  Time is counted in  *)
(* seconds from the start of the verification; the runtime wakes the task  *)
(* when its timer fires and not later.                                     *)
(***************************************************************************)
EXTENDS Integers

CONSTANTS
  READY_TIMEOUT,   \* seconds
  REQUEST_TIMEOUT, \* the seconds one poll may take
  READY_INTERVAL,  \* seconds between two polls
  NULL

ASSUME TimeoutAssumption ==
  /\ READY_TIMEOUT \in Nat \ {0}
  /\ REQUEST_TIMEOUT \in Nat \ {0}
  /\ READY_INTERVAL \in Nat \ {0}
ASSUME NullAssumption == NULL \notin Int

VARIABLES
  pc,            \* where the loop stands
  timer,         \* seconds left of the poll or the sleep
  now,
  steady_since   \* since when the API answers every request with 200 in time

vars == <<pc, timer, now, steady_since>>

Init ==
  /\ pc = "check" /\ timer = 0 /\ now = 0
  /\ steady_since \in {NULL, 0}

Ended == pc \in {"ok", "failed"}

-------------------------------------------------------------------------------
(* The loop *)

PollAtDeadline ==   \* mutant: the deadline itself still counts
  /\ pc = "check" /\ now <= READY_TIMEOUT
  /\ pc' = "asking" /\ timer' = REQUEST_TIMEOUT
  /\ UNCHANGED <<now, steady_since>>

\* while Instant::now() < deadline
Poll ==
  /\ pc = "check" /\ now < READY_TIMEOUT
  /\ pc' = "asking" /\ timer' = REQUEST_TIMEOUT
  /\ UNCHANGED <<now, steady_since>>

GiveUpEarly ==   \* mutant: no poll is begun that the interval would carry past the deadline
  /\ pc = "check" /\ now + READY_INTERVAL >= READY_TIMEOUT
  /\ pc' = "failed"
  /\ UNCHANGED <<timer, now, steady_since>>

GiveUp ==
  /\ pc = "check" /\ now >= READY_TIMEOUT
  /\ pc' = "failed"
  /\ UNCHANGED <<timer, now, steady_since>>

\* The API was steady when the request of this poll reached it.
AskedSteady == steady_since # NULL /\ steady_since <= now - (REQUEST_TIMEOUT - timer)

\* An answer of 200 arrives; an unsteady API may give one too.
Status200 ==
  /\ pc = "asking"
  /\ pc' = "ok"
  /\ UNCHANGED <<timer, now, steady_since>>

AnswerEndsSleep ==   \* mutant: the sleep takes over what is left of the poll
  pc' = "sleeping" /\ timer' = timer

\* tokio::time::sleep(READY_INTERVAL)
Sleep == pc' = "sleeping" /\ timer' = READY_INTERVAL

\* Another status, or an error: refused, reset, or no HTTP status.
OtherAnswer ==
  /\ pc = "asking" /\ ~AskedSteady
  /\ Sleep
  /\ UNCHANGED <<now, steady_since>>

WaitsForAnswer ==   \* mutant: a poll whose time is up waits on
  /\ pc = "asking" /\ timer = 0 /\ ~AskedSteady
  /\ UNCHANGED vars

\* The poll is dropped, and with it an answer that comes later.
PollTimesOut ==
  /\ pc = "asking" /\ timer = 0 /\ ~AskedSteady
  /\ Sleep
  /\ UNCHANGED <<now, steady_since>>

Wake ==
  /\ pc = "sleeping" /\ timer = 0
  /\ pc' = "check"
  /\ UNCHANGED <<timer, now, steady_since>>

-------------------------------------------------------------------------------
(* Time and the API *)

Tick ==
  /\ pc \in {"asking", "sleeping"} /\ timer > 0
  /\ timer' = timer - 1 /\ now' = now + 1
  /\ UNCHANGED <<pc, steady_since>>

BecomeSteady ==
  /\ steady_since = NULL
  /\ steady_since' = now
  /\ UNCHANGED <<pc, timer, now>>

\* The container, a connection or the database fails.
Falter ==
  /\ steady_since # NULL
  /\ steady_since' = NULL
  /\ UNCHANGED <<pc, timer, now>>

\* The steps the task takes of its own, and those an answer brings about.
verify_ready == Poll \/ GiveUp \/ PollTimesOut \/ Wake
Answer       == Status200 \/ OtherAnswer

Next == verify_ready \/ Answer \/ Tick \/ BecomeSteady \/ Falter

Spec == Init /\ [][Next]_vars

\* The task runs when it can, time passes, and an API that stays steady answers.
\* No other answer is promised.
FairSpec ==
  Spec /\ WF_vars(verify_ready) /\ WF_vars(Tick) /\ WF_vars(AskedSteady /\ Status200)

-------------------------------------------------------------------------------
(* Properties *)

\* The variables hold values of their kind; a timer never passes what it was set to.
TypeOK ==
  /\ pc \in {"check", "asking", "sleeping", "ok", "failed"}
  /\ timer \in Nat /\ now \in Nat
  /\ pc = "asking" => timer <= REQUEST_TIMEOUT
  /\ pc = "sleeping" => timer <= READY_INTERVAL
  /\ steady_since \in Nat \cup {NULL}
  /\ steady_since # NULL => steady_since <= now

\* The verification takes no longer than its timeout and one round of the loop
\* that began just before it.
EndsInTime == now < READY_TIMEOUT + REQUEST_TIMEOUT + READY_INTERVAL

\* No API is given up that has been answering 200 in time since a whole round of
\* the loop before the deadline, wherever in a round it became steady.
SteadyIsNoticed ==
  pc = "failed" /\ steady_since # NULL =>
    steady_since + REQUEST_TIMEOUT + READY_INTERVAL > READY_TIMEOUT

\* Every verification ends, although the API may never answer a request.
VerificationEnds == <>Ended

\* When the current poll was sent, and when the loop tests the deadline next.
Asked     == now - (REQUEST_TIMEOUT - timer)
NextCheck == IF pc = "sleeping" THEN now + timer ELSE now

\* The inductive invariant behind the theorems of VerificationProofs: a poll is
\* sent before the deadline, and a steady API is younger than the round that
\* failed to see it.
Inv ==
  /\ TypeOK
  /\ pc = "asking" => Asked < READY_TIMEOUT
  /\ NextCheck < READY_TIMEOUT + REQUEST_TIMEOUT + READY_INTERVAL
  /\ pc \in {"check", "sleeping"} /\ steady_since # NULL =>
       NextCheck < steady_since + REQUEST_TIMEOUT + READY_INTERVAL
  /\ SteadyIsNoticed

\* What is left of a verification: the seconds until its latest end, and the steps
\* the loop can still take before the next of them has to pass.
Rank ==
  4 * (READY_TIMEOUT + REQUEST_TIMEOUT + READY_INTERVAL - now)
    + IF pc = "check" THEN 2
      ELSE IF pc = "asking" THEN 1
      ELSE IF pc = "sleeping" /\ timer = 0 THEN 3
      ELSE 0

\* The loop never goes round without time passing, however fast the API answers
\* and whatever it answers: each step of the loop and each second takes it nearer
\* to its end, of which only a bounded number is left (reconcile.rs, the loop of
\* verify_ready).
LoopAdvances ==
  /\ [](Rank \in Nat)
  /\ [][<<pc, timer, now>>' # <<pc, timer, now>> => Rank' < Rank]_vars
===============================================================================
