------------------------------ MODULE MCProducer ------------------------------
(* Three calls for two connections, so that one waits for another's. *)
EXTENDS Producer, TLC

CallSymmetry == Permutations(Call)
===============================================================================
