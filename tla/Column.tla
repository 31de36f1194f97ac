------------------------------- MODULE Column -------------------------------
(***************************************************************************)
(* Column chunks of the engine (column.hpp, column.cpp) and the comparison *)
(* a predicate makes on them (filter.cpp): the null bitmap, the min/max    *)
(* statistics of a chunk and the decision to skip a chunk from them.       *)
(*                                                                         *)
(* Values are integers.  In an INT32 or INT64 chunk a value stands for     *)
(* itself; in a FLOAT32 or FLOAT64 chunk v stands for the number v / Unit, *)
(* so that the fraction static_cast<int64_t> drops is visible.  NaN and    *)
(* numbers outside the range of int64_t are not represented.               *)
(***************************************************************************)
EXTENDS Integers, FiniteSetsExt

CONSTANTS
  Unit,                \* the number of representable steps from 0.0 to 1.0
  MinValue, MaxValue   \* the least and the greatest value of an element

ASSUME ValueAssumption ==
  /\ Unit \in Nat \ {0}
  /\ MinValue \in Int /\ MaxValue \in Int
  /\ MinValue <= 0 /\ 0 <= MaxValue

Values == MinValue .. MaxValue

IntTypes   == {"INT32", "INT64"}
FloatTypes == {"FLOAT32", "FLOAT64"}
DataTypes  == IntTypes \cup FloatTypes \cup {"STRING"}
CompareOps == {"EQ", "NEQ", "LT", "LTE", "GT", "GTE"}

-----------------------------------------------------------------------------
(* Rows and nulls.  A chunk is a record                                    *)
(*   [type, num_rows, has_nulls, nulls, data, stats]                       *)
(* where nulls is the set of rows whose bit in null_bitmap is cleared and  *)
(* data maps the row numbers the buffer has room for to values.            *)

Stats == [min : Values, max : Values, initialized : BOOLEAN]

NoStats == [min |-> 0, max |-> 0, initialized |-> FALSE]

RowsOf(chunk) == 0 .. (chunk.num_rows - 1)

\* A chunk with a value for each of its rows and any statistics.
IsChunk(chunk) ==
  /\ chunk \in [type : DataTypes, num_rows : Nat, has_nulls : BOOLEAN, nulls : SUBSET Nat,
                data : {chunk.data}, stats : Stats]
  /\ \A r \in RowsOf(chunk) : chunk.data[r] \in Values

IsNull(chunk, row) == chunk.has_nulls /\ row \in chunk.nulls

LiveRows(chunk) == {r \in RowsOf(chunk) : ~IsNull(chunk, r)}

\* resize() gives every row of the chunk a set bit again but leaves the
\* statistics alone; what the buffer holds afterwards is the caller's input.
Resize(chunk, rows, buffer) ==
  [chunk EXCEPT !.num_rows = rows, !.has_nulls = FALSE,
                !.nulls = {}, !.data = buffer]

\* has_nulls is only ever raised: clearing the last null leaves it set.
SetNull(chunk, row, null) ==
  [chunk EXCEPT !.has_nulls = @ \/ null,
                !.nulls = IF null THEN @ \cup {row} ELSE @ \ {row}]

-----------------------------------------------------------------------------
(* Statistics.                                                             *)

\* static_cast<int64_t>(v): the identity on integers, truncation on floats.
AsInt64(type, v) ==
  IF type \in IntTypes THEN v
  ELSE IF v >= 0 THEN v \div Unit ELSE -((-v) \div Unit)

\* Mutant: the bounds start from zero and not from the first live value.
LiveInt64sFromZero(chunk) ==
  {0} \cup {AsInt64(chunk.type, chunk.data[r]) : r \in LiveRows(chunk)}

LiveInt64s(chunk) ==
  {AsInt64(chunk.type, chunk.data[r]) : r \in LiveRows(chunk)}

\* A chunk without a live value keeps its old bounds, marked as unknown.
FinalizeStats(chunk) ==
  IF chunk.type = "STRING" \/ LiveInt64s(chunk) = {}
  THEN [chunk EXCEPT !.stats.initialized = FALSE]
  ELSE [chunk EXCEPT !.stats = [min |-> Min(LiveInt64s(chunk)),
                                max |-> Max(LiveInt64s(chunk)),
                                initialized |-> TRUE]]

\* Statistics, where there are any, enclose the live rows.
Covers(chunk) ==
  chunk.stats.initialized =>
    /\ chunk.type # "STRING"
    /\ \A r \in LiveRows(chunk) :
         /\ chunk.stats.min <= AsInt64(chunk.type, chunk.data[r])
         /\ AsInt64(chunk.type, chunk.data[r]) <= chunk.stats.max

\* What an evaluation or a scan does before it looks at the statistics.
EnsureStats(chunk) ==
  IF chunk.stats.initialized THEN chunk ELSE FinalizeStats(chunk)

\* Mutant: the statistics of the chunk that was written are trusted.
StoredChunkTrusting(chunk) ==
  [chunk EXCEPT !.data = [r \in RowsOf(chunk) |-> chunk.data[r]]]

\* A chunk written with write_chunk and read back with read_chunk: num_rows
\* values and the bitmap come back, the statistics are computed anew.
StoredChunk(chunk) ==
  FinalizeStats([chunk EXCEPT !.data = [r \in RowsOf(chunk) |-> chunk.data[r]],
                              !.stats = NoStats])

-----------------------------------------------------------------------------
(* Comparison and pruning.                                                 *)

Compare(lhs, rhs, op) ==
  \/ op = "EQ"  /\ lhs = rhs
  \/ op = "NEQ" /\ lhs # rhs
  \/ op = "LT"  /\ lhs < rhs
  \/ op = "LTE" /\ lhs <= rhs
  \/ op = "GT"  /\ lhs > rhs
  \/ op = "GTE" /\ lhs >= rhs

CanSkipGt(stats, threshold) == stats.initialized /\ stats.max <= threshold

\* Mutant: the upper end of the range is left out.
MightMatchRangeOffByOne(stats, lo, hi) ==
  stats.initialized => ~(stats.max < lo \/ stats.min >= hi)

MightMatchRange(stats, lo, hi) ==
  stats.initialized => ~(stats.max < lo \/ stats.min > hi)

\* Mutant: >= written with the comparison of >.
CanSkipPredicateOffByOne(stats, op, threshold) ==
  /\ stats.initialized
  /\ \/ op = "GT"  /\ stats.max <= threshold
     \/ op = "GTE" /\ stats.max <= threshold
     \/ op = "LT"  /\ stats.min >= threshold
     \/ op = "LTE" /\ stats.min > threshold
     \/ op = "EQ"  /\ (stats.min > threshold \/ stats.max < threshold)
     \/ op = "NEQ" /\ stats.min = stats.max /\ stats.min = threshold

CanSkipPredicate(stats, op, threshold) ==
  /\ stats.initialized
  /\ \/ op = "GT"  /\ stats.max <= threshold
     \/ op = "GTE" /\ stats.max < threshold
     \/ op = "LT"  /\ stats.min >= threshold
     \/ op = "LTE" /\ stats.min > threshold
     \/ op = "EQ"  /\ (stats.min > threshold \/ stats.max < threshold)
     \/ op = "NEQ" /\ stats.min = stats.max /\ stats.min = threshold

\* The operators for which skipping by truncated bounds loses no row.  On
\* floats the truncation of both sides keeps <= and so the decisions made
\* with a strict comparison; it does not keep <.
SoundOps(type) == IF type \in IntTypes THEN CompareOps ELSE {"EQ", "LTE", "GTE"}
=============================================================================
