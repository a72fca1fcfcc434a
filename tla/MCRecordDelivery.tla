--------------------------- MODULE MCRecordDelivery ---------------------------
(* Two calls for one connection, of which the second may begin while PostgreSQL   *)
(* still ends the session of the first, and one worker that may die and come back. *)
EXTENDS RecordDelivery

MCWorkerId == [w \in Worker |-> "dispatcher"]
===============================================================================
