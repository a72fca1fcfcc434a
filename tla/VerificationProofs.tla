-------------------------- MODULE VerificationProofs --------------------------
(***************************************************************************)
(* Theorems about the readiness check of bc, for all values of its three   *)
(* constants and an API that becomes steady and falters at any time.       *)
(***************************************************************************)
EXTENDS Verification, TLAPS

USE TimeoutAssumption, NullAssumption

-------------------------------------------------------------------------------
(* The inductive invariant *)

LEMMA InitInv == Init => Inv
BY DEF Init, Inv, TypeOK, NextCheck, SteadyIsNoticed

LEMMA LoopStep ==
  ASSUME Inv, verify_ready
  PROVE  Inv'
<1> USE DEF Inv, TypeOK, Asked, NextCheck, SteadyIsNoticed
<1>1. CASE Poll
  BY <1>1 DEF Poll
<1>2. CASE GiveUp
  BY <1>2 DEF GiveUp
<1>3. CASE PollTimesOut
  BY <1>3 DEF PollTimesOut, Sleep, AskedSteady
<1>4. CASE Wake
  BY <1>4 DEF Wake
<1> QED
  BY <1>1, <1>2, <1>3, <1>4 DEF verify_ready

LEMMA AnswerStep ==
  ASSUME Inv, Answer
  PROVE  Inv'
<1> USE DEF Inv, TypeOK, Asked, NextCheck, SteadyIsNoticed
<1>1. CASE Status200
  BY <1>1 DEF Status200
<1>2. CASE OtherAnswer
  BY <1>2 DEF OtherAnswer, Sleep, AskedSteady
<1> QED
  BY <1>1, <1>2 DEF Answer

\* Time runs out of the timer, so the next test of the deadline stays where it was
\* during a sleep, and moves by one second during a poll.
LEMMA TickStep ==
  ASSUME Inv, Tick
  PROVE  Inv'
<1> USE DEF Inv, TypeOK, Asked, NextCheck, SteadyIsNoticed, Tick
<1>1. CASE pc = "asking"
  BY <1>1
<1>2. CASE pc = "sleeping"
  BY <1>2
<1> QED
  BY <1>1, <1>2

LEMMA ApiStep ==
  ASSUME Inv, BecomeSteady \/ Falter
  PROVE  Inv'
<1> USE DEF Inv, TypeOK, Asked, NextCheck, SteadyIsNoticed
<1>1. CASE BecomeSteady
  BY <1>1 DEF BecomeSteady
<1>2. CASE Falter
  BY <1>2 DEF Falter
<1> QED
  BY <1>1, <1>2

LEMMA NextInv == Inv /\ [Next]_vars => Inv'
<1> SUFFICES ASSUME Inv, [Next]_vars
             PROVE  Inv'
  OBVIOUS
<1>1. CASE UNCHANGED vars
  BY <1>1 DEF Inv, TypeOK, Asked, NextCheck, SteadyIsNoticed, vars
<1> QED
  BY <1>1, LoopStep, AnswerStep, TickStep, ApiStep DEF Next

-------------------------------------------------------------------------------
(* The theorems *)

\* The invariant holds in every state of every verification.
THEOREM Invariance == Spec => []Inv
BY InitInv, NextInv, PTL DEF Spec

\* The variables hold values of their kind, and no timer passes what it was set to.
THEOREM TypeCorrect == Spec => []TypeOK
<1>1. Inv => TypeOK
  BY DEF Inv
<1> QED
  BY <1>1, Invariance, PTL

\* However the API behaves, the verification is over less than one round of the
\* loop after its timeout.
THEOREM InTime == Spec => []EndsInTime
<1>1. Inv => EndsInTime
  BY DEF Inv, TypeOK, NextCheck, EndsInTime
<1> QED
  BY <1>1, Invariance, PTL

\* An API that has been answering in time for a whole round before the deadline is
\* never given up.
THEOREM Noticed == Spec => []SteadyIsNoticed
<1>1. Inv => SteadyIsNoticed
  BY DEF Inv
<1> QED
  BY <1>1, Invariance, PTL

LEMMA RankType == Inv => Rank \in Nat
BY DEF Inv, TypeOK, NextCheck, Rank

\* Within one second the loop wakes, polls and goes to sleep, each once at most.
LEMMA RankFalls ==
  ASSUME Inv, [Next]_vars
  PROVE  <<pc, timer, now>>' # <<pc, timer, now>> => Rank' < Rank
<1> USE DEF Inv, TypeOK, Rank
<1>1. CASE Poll \/ GiveUp
  BY <1>1 DEF Poll, GiveUp
<1>2. CASE PollTimesOut \/ Wake
  BY <1>2 DEF PollTimesOut, Sleep, Wake
<1>3. CASE Answer
  BY <1>3 DEF Answer, Status200, OtherAnswer, Sleep
<1>4. CASE Tick
  BY <1>4 DEF Tick
<1>5. CASE BecomeSteady \/ Falter \/ UNCHANGED vars
  BY <1>5 DEF BecomeSteady, Falter, vars
<1> QED
  BY <1>1, <1>2, <1>3, <1>4, <1>5 DEF Next, verify_ready

\* A verification takes a bounded number of steps, for every timeout and interval.
THEOREM Advances == Spec => LoopAdvances
<1>1. Inv => Rank \in Nat
  BY RankType
<1>2. Inv /\ [Next]_vars => [<<pc, timer, now>>' # <<pc, timer, now>> => Rank' < Rank]_vars
  BY RankFalls
<1> QED
  BY <1>1, <1>2, Invariance, PTL DEF Spec, LoopAdvances
===============================================================================
