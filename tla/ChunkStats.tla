----------------------------- MODULE ChunkStats -----------------------------
(***************************************************************************)
(* One column chunk and its statistics (column.cpp), under every sequence  *)
(* of calls its owner may make.  Nothing in ColumnChunk ties the cached    *)
(* bounds to the data they describe: values and null bits change, the row  *)
(* count is assigned and the buffer is reallocated while the statistics    *)
(* stay.  Whether skipping the chunk is still correct depends on the order *)
(* of the calls; the variable bounds records how much of it may be relied  *)
(* upon.                                                                   *)
(***************************************************************************)
EXTENDS Column

CONSTANTS
  Types,     \* the column types considered
  MaxRows    \* the largest number of rows resize() is called with

ASSUME ChunkAssumption == Types \subseteq DataTypes /\ MaxRows \in Nat

VARIABLES
  chunk,     \* the ColumnChunk
  bounds     \* observer: what an initialized chunk.stats says of the live rows
             \*   "exact"     its least and its greatest value
             \*   "covering"  bounds around them, perhaps too wide
             \*   "stale"     nothing

vars == <<chunk, bounds>>

Rows == 0 .. (MaxRows - 1)

Buffers == UNION {[0 .. (n - 1) -> Values] : n \in 0 .. MaxRows}

Chunks == [type : Types, num_rows : 0 .. MaxRows, has_nulls : BOOLEAN,
           nulls : SUBSET Rows, data : Buffers, stats : Stats]

TypeOK ==
  /\ chunk \in Chunks
  /\ bounds \in {"exact", "covering", "stale"}
  /\ RowsOf(chunk) \subseteq DOMAIN chunk.data

\* A bound survives a call that can only remove live rows.
Loosened == IF bounds = "stale" THEN "stale" ELSE "covering"

-----------------------------------------------------------------------------

Init ==
  /\ \E t \in Types :
       chunk = [type |-> t, num_rows |-> 0, has_nulls |-> FALSE,
                nulls |-> {}, data |-> [r \in 0 .. -1 |-> 0], stats |-> NoStats]
  /\ bounds = "exact"

\* The buffer is fresh memory: its values are whatever the allocator left.
ResizeTo(rows) ==
  /\ \E buffer \in [0 .. (rows - 1) -> Values] :
       chunk' = Resize(chunk, rows, buffer)
  /\ bounds' = "stale"

\* values<T>()[row] = value, in the owner's code (ingest_csv, the tests).
Store(row, value) ==
  /\ row \in DOMAIN chunk.data
  /\ chunk' = [chunk EXCEPT !.data[row] = value]
  /\ bounds' = IF row \in LiveRows(chunk) THEN "stale" ELSE bounds

\* Mutant: a row count the buffer has no room for.
SetNumRowsUnchecked(rows) ==
  /\ chunk' = [chunk EXCEPT !.num_rows = rows]
  /\ bounds' = IF rows > chunk.num_rows THEN "stale" ELSE Loosened

\* num_rows = rows, in the owner's code, within what the buffer holds.
SetNumRows(rows) ==
  /\ 0 .. (rows - 1) \subseteq DOMAIN chunk.data
  /\ chunk' = [chunk EXCEPT !.num_rows = rows]
  /\ bounds' = IF rows > chunk.num_rows THEN "stale" ELSE Loosened

MarkNull(row, null) ==
  /\ row \in RowsOf(chunk)
  /\ chunk' = SetNull(chunk, row, null)
  /\ bounds' = IF null THEN Loosened
               ELSE IF row \in LiveRows(chunk) THEN bounds ELSE "stale"

Finalize ==
  /\ chunk' = FinalizeStats(chunk)
  /\ bounds' = "exact"

\* evaluate_predicates and next_batch compute statistics only when there
\* are none: bounds that are there are taken at their word.
Ensure ==
  /\ chunk' = EnsureStats(chunk)
  /\ bounds' = IF chunk.stats.initialized THEN bounds ELSE "exact"

WriteAndRead ==
  /\ chunk' = StoredChunk(chunk)
  /\ bounds' = "exact"

Next ==
  \/ \E rows \in 0 .. MaxRows : ResizeTo(rows)
  \/ \E row \in Rows, value \in Values : Store(row, value)
  \/ \E rows \in 0 .. MaxRows : SetNumRows(rows)
  \/ \E row \in Rows, null \in BOOLEAN : MarkNull(row, null)
  \/ Finalize
  \/ Ensure
  \/ WriteAndRead

Spec == Init /\ [][Next]_vars

-----------------------------------------------------------------------------

\* The live rows whose value passes the comparison.
LiveMatches(op, threshold) ==
  {r \in LiveRows(chunk) : Compare(chunk.data[r], threshold, op)}

Skips(op, threshold) ==
  CanSkipPredicate(chunk.stats, op, AsInt64(chunk.type, threshold))

\* A chunk whose bounds still hold is never skipped while one of its live
\* rows passes the predicate (can_skip_predicate with the truncated bounds
\* and threshold), for the comparisons truncation respects.
PruneSound ==
  bounds # "stale" =>
    \A op \in SoundOps(chunk.type), threshold \in Values :
      Skips(op, threshold) => LiveMatches(op, threshold) = {}

\* might_match_range and can_skip_gt, whose arguments are whole numbers,
\* never give up a chunk with a live row in the range; can_skip_gt is held to
\* this on integer columns only, where no fraction can exceed the threshold.
RangeSound ==
  bounds # "stale" =>
    \A r \in LiveRows(chunk), lo, hi \in Values :
      LET scale == IF chunk.type \in FloatTypes THEN Unit ELSE 1
          value == chunk.data[r]
      IN  /\ ~MightMatchRange(chunk.stats, lo, hi)
               => ~(lo * scale <= value /\ value <= hi * scale)
          /\ chunk.type \in IntTypes /\ CanSkipGt(chunk.stats, lo)
               => value <= lo

\* Statistics fresh from finalize_stats are as sharp as bounds can be: on
\* an integer column a chunk in which no live row passes an ordering
\* predicate is skipped.
PruneComplete ==
  bounds = "exact" /\ chunk.stats.initialized /\ chunk.type \in IntTypes =>
    \A op \in {"LT", "LTE", "GT", "GTE"}, threshold \in Values :
      LiveMatches(op, threshold) = {} => Skips(op, threshold)
=============================================================================
