------------------------------ MODULE Kernels -------------------------------
(***************************************************************************)
(* The loops over the rows of one chunk, batch by batch: scan_gt_int32,    *)
(* evaluate_predicate without an input and fill_all (filter.cpp) and       *)
(* filter_gt_int32_batch (batch.cpp), and vectorized_sum_int32             *)
(* (aggregator.cpp) over the rows they select.                             *)
(*                                                                         *)
(* A selection vector has room for ChunkSize row numbers, of a type with   *)
(* as many values; the batch kernel returns a vector of wider numbers that *)
(* grows.  A row passes the comparison, fails it, or is null with a        *)
(* value that passes; the value of row r is 2^r, so that a sum tells which *)
(* rows were added.                                                        *)
(***************************************************************************)
EXTENDS Orders

CONSTANTS
  ChunkSize,   \* CHUNK_SIZE: 2^16, and a row number is a uint16_t
  BatchSize,   \* BATCH_SIZE
  MaxRows      \* bound on the rows of a chunk

VARIABLES
  kernel,      \* the function called
  data,        \* its input
  i,           \* the number of rows looked at
  sel,         \* the row numbers selected; rows count from 0
  pc,          \* "batches", "overrun", "sum" or "done"
  k,           \* the number of selected rows that were added
  s            \* s0 .. s3

vars == <<kernel, data, i, sel, pc, k, s>>

KernelNames == {"scan_gt_int32", "evaluate_predicate", "fill_all", "filter_gt_int32_batch"}

Init ==
  /\ kernel \in KernelNames
  /\ data \in UNION {[1 .. n -> {"pass", "fail", "null"}] : n \in 0 .. MaxRows}
  /\ i = 0 /\ sel = << >> /\ pc = "batches"
  /\ k = 0 /\ s = [a \in 0 .. 3 |-> 0]

-----------------------------------------------------------------------------

\* Only evaluate_predicate asks for nulls; fill_all asks for nothing.
Selects(row) ==
  CASE kernel = "fill_all"           -> TRUE
    [] kernel = "evaluate_predicate" -> data[row + 1] = "pass"
    [] OTHER                         -> data[row + 1] \in {"pass", "null"}

RowNumber(row) == IF kernel = "filter_gt_int32_batch" THEN row ELSE row % ChunkSize

\* fill_all makes one batch of all rows.
BatchEnd == IF kernel = "fill_all" THEN Len(data) ELSE Min({i + BatchSize, Len(data)})

\* The selected rows from one up to another, which is none of them.
SelectedRows(from, end) == Ascending({row \in from .. (end - 1) : Selects(row)})

\* Mutant: the rows are numbered within the batch.
BatchRowsWithin ==
  LET rows == SelectedRows(i, BatchEnd)
  IN  [n \in DOMAIN rows |-> RowNumber(rows[n] - i)]

Numbered(rows) == [n \in DOMAIN rows |-> RowNumber(rows[n])]

BatchRows == Numbered(SelectedRows(i, BatchEnd))

\* What the unchecked writes stay within.
Fits(rows) == kernel = "filter_gt_int32_batch" \/ Len(sel \o rows) <= ChunkSize

Batch ==
  /\ pc = "batches" /\ i < Len(data)
  /\ IF Fits(BatchRows)
     THEN sel' = sel \o BatchRows /\ i' = BatchEnd /\ pc' = pc
     ELSE pc' = "overrun" /\ UNCHANGED <<sel, i>>
  /\ UNCHANGED <<kernel, data, k, s>>

\* The caller adds up what is in a selection vector.
EndOfRows ==
  /\ pc = "batches" /\ i = Len(data)
  /\ pc' = IF kernel = "filter_gt_int32_batch" THEN "done" ELSE "sum"
  /\ UNCHANGED <<kernel, data, i, sel, k, s>>

-----------------------------------------------------------------------------
(* vectorized_sum_int32: four sums at once, the rest into the first.       *)

Value(n) == 2^sel[n]

\* Mutant: what is left after the groups of four is added four at a time.
AddFourBeyond ==
  /\ pc = "sum" /\ k + 3 <= Len(sel)
  /\ s' = [a \in 0 .. 3 |-> s[a] + (IF k + 1 + a \in DOMAIN sel THEN Value(k + 1 + a) ELSE 0)]
  /\ k' = k + 3
  /\ UNCHANGED <<kernel, data, i, sel, pc>>

AddFour ==
  /\ pc = "sum" /\ k + 4 <= Len(sel)
  /\ s' = [a \in 0 .. 3 |-> s[a] + Value(k + 1 + a)]
  /\ k' = k + 4
  /\ UNCHANGED <<kernel, data, i, sel, pc>>

AddOne ==
  /\ pc = "sum" /\ k + 4 > Len(sel) /\ k < Len(sel)
  /\ s' = [s EXCEPT ![0] = @ + Value(k + 1)]
  /\ k' = k + 1
  /\ UNCHANGED <<kernel, data, i, sel, pc>>

Summed ==
  /\ pc = "sum" /\ k = Len(sel)
  /\ pc' = "done"
  /\ UNCHANGED <<kernel, data, i, sel, k, s>>

Next == Batch \/ EndOfRows \/ AddFour \/ AddOne \/ Summed

Spec == Init /\ [][Next]_vars

-----------------------------------------------------------------------------

\* The rows asked for, from the first on.
Wanted == SelectedRows(0, Len(data))

\* Up to a full chunk every kernel returns the rows that pass, each once and
\* in order, wherever the borders of the batches lie.  In a longer chunk the
\* numbers wrap around, and a row beyond CHUNK_SIZE stands for one of the
\* first rows, without an error; only filter_gt_int32_batch is right for any
\* length.  Memory behind the vector is written if and only if more than
\* CHUNK_SIZE rows pass.
RowsExact ==
  /\ pc \in {"sum", "done"} =>
       sel = IF kernel = "filter_gt_int32_batch" THEN Wanted
             ELSE [n \in DOMAIN Wanted |-> Wanted[n] % ChunkSize]
  /\ pc = "overrun" <=>
       pc # "batches" /\ kernel # "filter_gt_int32_batch" /\ Len(Wanted) > ChunkSize

\* The values of the selected rows, one after the other.
Total ==
  LET total[n \in 0 .. Len(sel)] == IF n = 0 THEN 0 ELSE total[n - 1] + Value(n)
  IN  total[Len(sel)]

\* The four sums together hold every selected row once.
SumExact ==
  pc = "done" /\ kernel # "filter_gt_int32_batch" =>
    s[0] + s[1] + s[2] + s[3] = Total
=============================================================================
