------------------------------- MODULE RowUpdate -------------------------------
(***************************************************************************)
(* How a repository's update() reaches the row.  The use case has read an  *)
(* entity and assigned some of its fields; update() selects the row again  *)
(* and assigns every field of the entity to it; the flush emits an UPDATE  *)
(* of those columns only whose value differs from the selected one.  Other *)
(* transactions may commit between the read and the select, and between    *)
(* the select and the flush, which waits for the row's lock.               *)
(***************************************************************************)

\* The row after the flush: a column the entity leaves as it was selected is
\* not written, and keeps what another transaction may have put there since.
Written(row, selected, entity) ==
  [f \in DOMAIN row |-> IF entity[f] = selected[f] THEN row[f] ELSE entity[f]]

\* Faulty variant: a field that is left out is assigned too.
FaultyAssigned(row, change, absent) ==
  [f \in DOMAIN row |-> IF f \in DOMAIN change THEN change[f] ELSE row[f]]

\* Assigning the fields a request gives; the others stay.
Assigned(row, change, absent) ==
  [f \in DOMAIN row |->
     IF f \in DOMAIN change
     THEN IF change[f] = absent THEN row[f] ELSE change[f]
     ELSE row[f]]
=============================================================================
