---------------------------- MODULE MCVerification ----------------------------
(* The values of reconcile.rs: 90 seconds, polls of 2 seconds, sleeps of 1. *)
EXTENDS Verification
===============================================================================
