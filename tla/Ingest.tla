------------------------------- MODULE Ingest -------------------------------
(***************************************************************************)
(* ingest_csv (storage.cpp): the lines of a CSV file become the rows of a  *)
(* table's columns.  Rows are gathered in one active chunk per column,     *)
(* full chunks are set aside, and only when the file is at its end are the *)
(* columns written, one after the other, over what the table held.  A      *)
(* field that does not parse ends the call with an exception; the process  *)
(* may die at any time.                                                    *)
(*                                                                         *)
(* A row is the number of the line it came from, among the lines accepted  *)
(* by this call.  A line is blank, ragged (another number of fields than   *)
(* the schema has), bad (a field std::stoi and its kin reject) or good.  A *)
(* file that cannot be read on ends there.                                 *)
(* The table holds by name, of each column, a sequence of chunks, or       *)
(* Partial where the writing of the column was interrupted or one of its   *)
(* two streams failed: module ColumnFile has what that can be.             *)
(***************************************************************************)
EXTENDS Integers, Sequences, SequencesExt

CONSTANTS
  ColumnTypes,   \* the types of the schema's columns, in its order
  ColumnNames,   \* their names; two columns may have the same
  ChunkSize,     \* CHUNK_SIZE
  Garbage,       \* what the buffer of an active chunk holds at first
  Partial,       \* a column that was written in part
  MaxLines,      \* bound on the lines of a file
  MaxIngests     \* bound on the calls of ingest_csv

VARIABLES
  store,        \* the table: for each name the column's chunks, or Partial
  columns,      \* columns: the chunks set aside
  active,       \* active: the buffer of each column's chunk
  rowInChunk,   \* row_in_chunk
  nextCol,      \* the column to be written next
  pc,           \* "idle", "read" or "write"
  lines,        \* the number of lines read by this call
  ingests,      \* the number of calls
  accepted,     \* observer: the number of good lines of this call
  before,       \* observer: the table when this call began
  failed,       \* observer: the columns whose streams failed in this call
  outcome       \* observer: "none", "ok", "threw", "broken" or "crashed"

vars == <<store, columns, active, rowInChunk, nextCol, pc, lines, ingests,
          accepted, before, failed, outcome>>

Cols == DOMAIN ColumnTypes

FreshBuffer == [i \in 1 .. ChunkSize |-> Garbage]

Init ==
  /\ store = [name \in Range(ColumnNames) |-> << >>]
  /\ columns = [c \in Cols |-> << >>]
  /\ active = [c \in Cols |-> FreshBuffer]
  /\ rowInChunk = 0 /\ nextCol = 1 /\ pc = "idle"
  /\ lines = 0 /\ ingests = 0 /\ accepted = 0
  /\ before = store /\ failed = {} /\ outcome = "none"

-----------------------------------------------------------------------------

Start ==
  /\ pc = "idle" /\ ingests < MaxIngests
  /\ ingests' = ingests + 1
  /\ columns' = [c \in Cols |-> << >>]
  /\ active' = [c \in Cols |-> FreshBuffer]
  /\ rowInChunk' = 0 /\ nextCol' = 1
  /\ pc' = "read"
  /\ lines' = 0 /\ accepted' = 0
  /\ before' = store /\ failed' = {} /\ outcome' = "none"
  /\ UNCHANGED store

ReadLine == pc = "read" /\ lines < MaxLines /\ lines' = lines + 1

\* A blank or a ragged line.
SkipLine ==
  /\ ReadLine
  /\ UNCHANGED <<store, columns, active, rowInChunk, nextCol, pc, ingests,
                 accepted, before, failed, outcome>>

\* The columns gathered so far are lost with the call.
BadLine ==
  /\ ReadLine
  /\ pc' = "idle" /\ outcome' = "threw"
  /\ UNCHANGED <<store, columns, active, rowInChunk, nextCol, ingests, accepted,
                 before, failed>>

\* The buffers with the fields of the line at hand.  A STRING field is not
\* stored at all.
Filled ==
  [c \in Cols |-> IF ColumnTypes[c] = "STRING" THEN active[c]
                  ELSE [active[c] EXCEPT ![rowInChunk + 1] = accepted + 1]]

\* Mutant: a full chunk is written at once.
GoodLineEager ==
  /\ ReadLine
  /\ accepted' = accepted + 1
  /\ IF rowInChunk + 1 = ChunkSize
     THEN /\ columns' = [c \in Cols |-> Append(columns[c], Filled[c])]
          /\ active' = [c \in Cols |-> FreshBuffer]
          /\ rowInChunk' = 0
          /\ store' = columns'
     ELSE /\ active' = Filled
          /\ rowInChunk' = rowInChunk + 1
          /\ UNCHANGED <<columns, store>>
  /\ UNCHANGED <<nextCol, pc, ingests, before, failed, outcome>>

GoodLine ==
  /\ ReadLine
  /\ accepted' = accepted + 1
  /\ IF rowInChunk + 1 = ChunkSize
     THEN /\ columns' = [c \in Cols |-> Append(columns[c], Filled[c])]
          /\ active' = [c \in Cols |-> FreshBuffer]
          /\ rowInChunk' = 0
     ELSE /\ active' = Filled
          /\ rowInChunk' = rowInChunk + 1
          /\ UNCHANGED columns
  /\ UNCHANGED <<store, nextCol, pc, ingests, before, failed, outcome>>

\* Mutant: the last chunk keeps the row count of a full one.
EndOfFileFullChunk ==
  /\ pc = "read"
  /\ columns' = [c \in Cols |-> IF rowInChunk = 0 THEN columns[c]
                                ELSE Append(columns[c], active[c])]
  /\ pc' = "write"
  /\ UNCHANGED <<store, active, rowInChunk, nextCol, lines, ingests, accepted,
                 before, failed, outcome>>

EndOfFile ==
  /\ pc = "read"
  /\ columns' = [c \in Cols |-> IF rowInChunk = 0 THEN columns[c]
                                ELSE Append(columns[c], SubSeq(active[c], 1, rowInChunk))]
  /\ pc' = "write"
  /\ UNCHANGED <<store, active, rowInChunk, nextCol, lines, ingests, accepted,
                 before, failed, outcome>>

-----------------------------------------------------------------------------

\* Mutant: the columns are written from the last to the first.
WriteColumnBackwards ==
  /\ pc = "write" /\ nextCol <= Len(ColumnTypes)
  /\ LET c == Len(ColumnTypes) + 1 - nextCol
     IN  store' = [store EXCEPT ![ColumnNames[c]] = columns[c]]
  /\ nextCol' = nextCol + 1
  /\ UNCHANGED <<columns, active, rowInChunk, pc, lines, ingests, accepted,
                 before, failed, outcome>>

WriteColumn ==
  /\ pc = "write" /\ nextCol <= Len(ColumnTypes)
  /\ store' = [store EXCEPT ![ColumnNames[nextCol]] = columns[nextCol]]
  /\ nextCol' = nextCol + 1
  /\ UNCHANGED <<columns, active, rowInChunk, pc, lines, ingests, accepted,
                 before, failed, outcome>>

\* The streams cannot be opened, or fail on the way, and nobody asks: the call
\* goes on with the next column.
WriteColumnFails ==
  /\ pc = "write" /\ nextCol <= Len(ColumnTypes)
  /\ \/ UNCHANGED store
     \/ store' = [store EXCEPT ![ColumnNames[nextCol]] = Partial]
  /\ nextCol' = nextCol + 1
  /\ failed' = failed \cup {nextCol}
  /\ UNCHANGED <<columns, active, rowInChunk, pc, lines, ingests, accepted,
                 before, outcome>>

\* create_directories throws before the column's files are touched.
WriteThrows ==
  /\ pc = "write" /\ nextCol <= Len(ColumnTypes)
  /\ pc' = "idle" /\ outcome' = "broken"
  /\ UNCHANGED <<store, columns, active, rowInChunk, nextCol, lines, ingests,
                 accepted, before, failed>>

AllWritten ==
  /\ pc = "write" /\ nextCol > Len(ColumnTypes)
  /\ pc' = "idle" /\ outcome' = "ok"
  /\ UNCHANGED <<store, columns, active, rowInChunk, nextCol, lines, ingests,
                 accepted, before, failed>>

\* The process dies, or an exception ends the call in the middle of a column,
\* which is left as it was or in part.
Crash ==
  /\ pc # "idle"
  /\ \/ UNCHANGED store
     \/ /\ pc = "write" /\ nextCol <= Len(ColumnTypes)
        /\ store' = [store EXCEPT ![ColumnNames[nextCol]] = Partial]
  /\ pc' = "idle" /\ outcome' = "crashed"
  /\ UNCHANGED <<columns, active, rowInChunk, nextCol, lines, ingests,
                 accepted, before, failed>>

Next ==
  \/ Start \/ SkipLine \/ BadLine \/ GoodLine \/ EndOfFile
  \/ WriteColumn \/ WriteColumnFails \/ WriteThrows \/ AllWritten \/ Crash

Spec == Init /\ [][Next]_vars

-----------------------------------------------------------------------------

RowsInOrder == [i \in 1 .. accepted |-> i]

\* The column that has the last word on its name.
LastOfName(c) == \A d \in Cols : d > c => ColumnNames[d] # ColumnNames[c]

\* After a call that returns, the table holds the good lines of this file and
\* nothing else, in every column that was written: the column in file order
\* and without garbage (but for STRING columns, whose values are never
\* stored), and cut into chunks at the same rows as all others, full ones but
\* for the last and none empty.  That the streams of a column failed does not
\* keep the call from returning, and of two columns of one name the table
\* holds the last.
IngestExact ==
  outcome = "ok" =>
    \A c \in Cols \ failed :
      LastOfName(c) =>
        LET column == store[ColumnNames[c]]
        IN  /\ ColumnTypes[c] # "STRING" => FlattenSeq(column) = RowsInOrder
            /\ Len(FlattenSeq(column)) = accepted
            /\ \A n \in DOMAIN column :
                 Len(column[n]) = IF n < Len(column) THEN ChunkSize
                                  ELSE accepted - ChunkSize * (n - 1)
            /\ Len(column) > 0 => Len(Last(column)) > 0

\* A call that ends with a parse error leaves the table as it was, however
\* many chunks had been filled.
ParseErrorKeepsTable == outcome = "threw" => store = before

\* Whichever way the call ends, and whatever streams fail on its way: a column
\* whose turn is over has been replaced, unless its streams failed or a later
\* one of its name has had a turn; a name whose turn has not come holds what it
\* held before; only failing streams and the column at which the call ended
\* leave something in part.  The table may mix two files, but only in this way.
NewColumnsFirst ==
  \A c \in Cols :
    LET name == ColumnNames[c]
        same == {d \in Cols : ColumnNames[d] = name}
        done == {d \in same : d < nextCol}
    IN  /\ c \in done \ failed /\ (\A d \in same : d > c => d > nextCol) =>
             store[name] = columns[c]
        /\ (\A d \in same : d > nextCol) => store[name] = before[name]
        /\ store[name] \in {before[name], Partial} \cup {columns[d] : d \in done}
        /\ store[name] = Partial /\ before[name] # Partial =>
             same \cap (failed \cup {nextCol}) # {}
=============================================================================
