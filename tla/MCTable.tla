------------------------------- MODULE MCTable -------------------------------
(***************************************************************************)
(* Instance of Table for TLC: schemas that drop, add, swap, retype and     *)
(* repeat a column or have one without a name, and files of both widths    *)
(* around the chunk boundary.                                              *)
(***************************************************************************)
EXTENDS Table

CONSTANTS a, b

Column(n, t) == [name |-> n, type |-> t]

MCNames == {a, b}

MCTypes == {"INT32", "INT64", "STRING"}

MCSchemas ==
  {<<Column(a, "INT32"), Column(b, "INT32")>>,
   <<Column(b, "INT64"), Column(a, "INT32")>>,
   <<Column(b, "INT32")>>,
   <<Column(a, "INT32"), Column(a, "INT64")>>,
   <<Column(a, "INT32"), Column(b, "STRING"), Column(NoName, "INT32")>>,
   <<Column(NoName, "INT32"), Column(a, "INT32")>>}

MCCsvFiles == {[width |-> 2, rows |-> 3], [width |-> 2, rows |-> 1], [width |-> 1, rows |-> 2]}
=============================================================================
