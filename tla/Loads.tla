-------------------------------- MODULE Loads --------------------------------
(***************************************************************************)
(* The two views of ingest_csv side by side (storage.cpp): module Table    *)
(* takes the reading of a file as one step, module Ingest takes it line by *)
(* line.  Both cut columns into chunks of the same size.  Here Ingest runs *)
(* while the table of module Table is at rest.                             *)
(***************************************************************************)
EXTENDS Table

CONSTANTS
  ColumnTypes, ColumnNames, Partial, MaxLines,  \* as in Ingest
  MaxLoads                                      \* bound on the calls of ingest_csv

ASSUME LoadsAssumption ==
  /\ ColumnTypes \in Seq(STRING)
  /\ ColumnNames \in Seq(Names) /\ Len(ColumnNames) = Len(ColumnTypes)
  /\ Garbage \notin Nat
  /\ Partial \notin Seq(Seq(Nat \cup {Garbage}))
  /\ MaxLines \in Nat /\ MaxLoads \in Nat

VARIABLES
  store, columns, active, rowInChunk, nextCol, pc, lines,
  loads,                                      \* the number of calls
  accepted, before, failed, outcome           \* as in Ingest

Loader == INSTANCE Ingest WITH MaxIngests <- MaxLoads, ingests <- loads

LoadSpec == Init /\ Loader!Init /\ [][Loader!Next /\ UNCHANGED vars]_<<Loader!vars, vars>>

-----------------------------------------------------------------------------

\* What a call of ingest_csv that returns has made of the file: see Ingest.
IngestExact == Loader!IngestExact

\* What a field that does not parse leaves of the table: see Ingest.
ParseErrorKeepsTable == Loader!ParseErrorKeepsTable

\* What a call that is cut short leaves of the table: see Ingest.
NewColumnsFirst == Loader!NewColumnsFirst
=============================================================================
