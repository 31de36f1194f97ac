---------------------------- MODULE ColumnStream ----------------------------
(***************************************************************************)
(* What write_column and ColumnReader promise together (storage.hpp): a    *)
(* column that was written to the end is read back chunk by chunk, all of  *)
(* it and in order; of a column whose last write did not end well a reader *)
(* delivers a prefix, at most the last delivered chunk being torn, and     *)
(* then stops or throws.  Nothing is promised to a reader opened before a  *)
(* write began, nor once the two files stem from different writes.         *)
(* Module ColumnFile implements this.                                      *)
(***************************************************************************)
EXTENDS Naturals, Sequences

CONSTANTS
  Values,      \* the sequences of chunks a write may be given
  Anything     \* the results a read may have where nothing is promised

VARIABLES
  value,       \* the chunks of the last write
  writing,     \* that write is going on
  condition,   \* "intact", "damaged" or "mixed"
  mode,        \* of the reader: "none", "live", "stale" or "dead"
  cursor,      \* the number of chunks a live reader has delivered
  last         \* the result of the last read

vars == <<value, writing, condition, mode, cursor, last>>

Result(kind) == [kind |-> kind]

Init ==
  /\ value = << >> /\ writing = FALSE /\ condition = "intact"
  /\ mode = "none" /\ cursor = 0 /\ last = Result("none")

-----------------------------------------------------------------------------

\* Until both files are begun anew they hold parts of different writes.
BeginWrite ==
  /\ ~writing /\ writing' = TRUE
  /\ value' \in Values
  /\ condition' = "mixed"
  /\ mode' = IF mode = "none" THEN "none" ELSE "stale"
  /\ cursor' = 0
  /\ last' = Result("none")

BothBegun ==
  /\ writing /\ condition' = "damaged"
  /\ UNCHANGED <<value, writing, mode, cursor, last>>

CompleteWrite ==
  /\ writing /\ writing' = FALSE
  /\ condition = "damaged" /\ condition' = "intact"
  /\ UNCHANGED <<value, mode, cursor, last>>

\* An error nobody notices, an exception, or the death of the process.
FailWrite ==
  /\ writing /\ writing' = FALSE
  /\ UNCHANGED <<value, condition>>
  /\ \/ UNCHANGED <<mode, cursor, last>>
     \/ mode' = "none" /\ cursor' = 0 /\ last' = Result("none")

-----------------------------------------------------------------------------

CloseReader ==
  /\ mode' = "none" /\ cursor' = 0 /\ last' = Result("none")
  /\ UNCHANGED <<value, writing, condition>>

OpenReader ==
  /\ ~writing
  /\ mode' = IF condition = "mixed" THEN "stale" ELSE "live"
  /\ cursor' = 0
  /\ last' = Result("none")
  /\ UNCHANGED <<value, writing, condition>>

More == mode = "live" /\ cursor < Len(value)

ReadChunk ==
  /\ More
  /\ last' = [kind |-> "chunk", chunk |-> value[cursor + 1]]
  /\ cursor' = cursor + 1
  /\ mode' = mode

ReadTorn ==
  /\ More /\ condition = "damaged"
  /\ last' = [kind |-> "torn", chunk |-> value[cursor + 1]]
  /\ mode' = "dead" /\ cursor' = 0

ReadThrows ==
  /\ mode = "dead" \/ (mode = "live" /\ condition = "damaged")
  /\ last' = Result("throw")
  /\ mode' = "dead" /\ cursor' = 0

ReadEnd ==
  /\ \/ mode = "dead"
     \/ mode = "live" /\ (condition = "damaged" \/ cursor = Len(value))
  /\ last' = Result("end")
  /\ UNCHANGED <<mode, cursor>>

ReadStale ==
  /\ mode = "stale"
  /\ last' \in Anything
  /\ UNCHANGED <<mode, cursor>>

Read ==
  /\ ~writing
  /\ ReadChunk \/ ReadTorn \/ ReadThrows \/ ReadEnd \/ ReadStale
  /\ UNCHANGED <<value, writing, condition>>

Next ==
  \/ BeginWrite \/ BothBegun \/ CompleteWrite \/ FailWrite
  \/ CloseReader \/ OpenReader \/ Read

Spec == Init /\ [][Next]_vars
=============================================================================
