------------------------------ MODULE MCTables ------------------------------
(***************************************************************************)
(* How the instances write down chunks and predicates.                     *)
(***************************************************************************)
EXTENDS Column, Sequences

MCMinValue == -3

Chunk(type, data, nulls) ==
  [type |-> type, num_rows |-> Len(data), has_nulls |-> nulls # {},
   nulls |-> nulls, data |-> [r \in 0 .. (Len(data) - 1) |-> data[r + 1]],
   stats |-> NoStats]

\* A chunk whose statistics are out of date.
Misled(chunk) == [chunk EXCEPT !.stats = [min |-> 3, max |-> 3, initialized |-> TRUE]]

P(col, op, val, hint) == [col |-> col, op |-> op, val |-> val, hint |-> hint]
=============================================================================
