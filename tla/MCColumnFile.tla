---------------------------- MODULE MCColumnFile ----------------------------
(***************************************************************************)
(* Instance of ColumnFile for TLC.  The contents differ in the number and  *)
(* the size of their chunks, so that an index used on the data of another  *)
(* write may hit a header, the middle of a chunk or nothing.               *)
(***************************************************************************)
EXTENDS ColumnFile

MCContents == {<< >>, <<2>>, <<0, 2>>, <<2, 2>>, <<2, 0, 2>>}
=============================================================================
