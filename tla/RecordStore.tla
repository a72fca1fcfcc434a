------------------------------ MODULE RecordStore ------------------------------
(***************************************************************************)
(* What create_record promises, without sessions, connections or failures: *)
(* a record and the outbox event that tells of it appear in one step, and  *)
(* no id is ever given twice.                                              *)
(***************************************************************************)
EXTENDS Naturals

CONSTANT Label      \* what a record holds

VARIABLES
  records,    \* pairs of an id and a label
  events      \* pairs of an aggregate_id and the label in the payload

vars == <<records, events>>

Init == records = {} /\ events = {}

Create(row) ==
  /\ row \in (Nat \ {0}) \X Label
  /\ \A r \in records : r[1] # row[1]
  /\ records' = records \cup {row}
  /\ events' = events \cup {row}

Next == \E row \in records' : Create(row)

Spec == Init /\ [][Next]_vars
===============================================================================
