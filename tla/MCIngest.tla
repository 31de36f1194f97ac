------------------------------ MODULE MCIngest ------------------------------
(***************************************************************************)
(* Instance of Ingest for TLC: two stored columns around one that is not,  *)
(* the last with the name of the first, files long enough for two full     *)
(* chunks and a rest.  Of the table that Loads has beside it nothing but   *)
(* the names is needed.                                                    *)
(***************************************************************************)
EXTENDS Loads

MCColumnTypes == <<"INT32", "STRING", "INT64", "FLOAT64">>

MCColumnNames == <<"x", "y", "z", "x">>
=============================================================================
