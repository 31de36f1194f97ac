------------------------------- MODULE Query --------------------------------
(***************************************************************************)
(* QueryExecutor::execute (query.cpp): a query plan becomes the            *)
(* configuration of a scan, whose batches are consumed one by one, either  *)
(* into aggregates or into rows up to a limit.  The scan is module Scan;   *)
(* each of its calls and what execute does with the batch are one step.    *)
(* The client writes its columns first: one thread does everything.        *)
(*                                                                         *)
(* The columns of a table are cut into chunks at the same rows, as         *)
(* ingest_csv leaves them (module Ingest), but need not have equally many. *)
(***************************************************************************)
EXTENDS Scan, Aggregate, Orders

CONSTANTS
  Plans,       \* the plans: records [select, where, aggs, limit]
  NoLimit      \* a plan without LIMIT

VARIABLES
  plan,         \* the plan executed
  phase,        \* "before", "scan", "done" or "threw"
  rows,         \* result.rows
  rowsScanned,  \* result.rows_scanned
  states,       \* the states of the aggregator
  results       \* result.agg_results

resultVars == <<rows, rowsScanned, states, results>>
queryVars  == <<vars, plan, phase, resultVars>>

-----------------------------------------------------------------------------
(* The plan.                                                               *)

Aggregating == plan.aggs # << >>

Limited == ~Aggregating /\ plan.limit # NoLimit

\* The columns of the output, repeated where the plan repeats them.
OutputColumns(pl) ==
  IF pl.aggs = << >> THEN pl.select
  ELSE ElementsAt([e \in DOMAIN pl.aggs |-> pl.aggs[e].col],
                  {e \in DOMAIN pl.aggs : pl.aggs[e].col # NoColumn})

\* Behind them the columns the predicates need besides, each once.
ProjectionOf(pl) ==
  OutputColumns(pl)
    \o ElementsAt([p \in DOMAIN pl.where |-> pl.where[p].col],
                  {p \in DOMAIN pl.where :
                     /\ ~Contains(OutputColumns(pl), pl.where[p].col)
                     /\ \A q \in 1 .. (p - 1) : pl.where[q].col # pl.where[p].col})

ConfigOf(pl) == [projection |-> ProjectionOf(pl), filters |-> pl.where]

\* An aggregate other than COUNT names a column: accumulate would look for
\* the empty name in a projection that may be shorter than the batch.
ASSUME QueryAssumption ==
  /\ \A pl \in Plans :
       /\ ConfigOf(pl) \in Configs
       /\ pl.select \in Seq(Range(pl.select)) /\ pl.aggs \in Seq(Range(pl.aggs))
       /\ \A e \in DOMAIN pl.aggs :
            /\ pl.aggs[e].func \in {"COUNT", "SUM", "AVG", "MIN", "MAX"}
            /\ pl.aggs[e].col = NoColumn => pl.aggs[e].func = "COUNT"
       /\ pl.limit \in Nat \cup {NoLimit}
  /\ \A c, d \in Columns : \A content \in Contents[c], other \in Contents[d] :
       \A k \in DOMAIN content \cap DOMAIN other : content[k].num_rows = other[k].num_rows

QueryInit ==
  /\ plan \in Plans
  /\ Init /\ cfg = ConfigOf(plan)
  /\ phase = "before"
  /\ rows = << >> /\ rowsScanned = 0
  /\ states = [e \in DOMAIN plan.aggs |-> FreshState]
  /\ results = << >>

WriteBefore(c) ==
  /\ phase = "before"
  /\ WriteColumn(c)
  /\ UNCHANGED <<plan, phase, resultVars>>

Execute ==
  /\ phase = "before" /\ phase' = "scan"
  /\ UNCHANGED <<vars, plan, resultVars>>

-----------------------------------------------------------------------------
(* The loops over next_batch.                                              *)

\* An exception of the first call leaves execute.
ScanThrows ==
  /\ phase = "scan" /\ phase' = "threw"
  /\ LoadFails
  /\ UNCHANGED <<plan, resultVars>>

AggregateBatch ==
  /\ phase = "scan" /\ Aggregating
  /\ DeliverBatch
  /\ rowsScanned' = rowsScanned + out'[1].num_rows
  /\ states' = Accumulate(states, plan.aggs, out', cfg.projection, sel')
  /\ UNCHANGED <<plan, phase, rows, results>>

FinishAggregates ==
  /\ phase = "scan" /\ Aggregating /\ phase' = "done"
  /\ EndOfScan
  /\ results' = [e \in DOMAIN states |-> FinalizeOne(states[e], plan.aggs[e].func)]
  /\ UNCHANGED <<plan, rows, rowsScanned, states>>

\* One row of the output; a STRING column yields zero.
OutputRow(row) ==
  [i \in DOMAIN plan.select |->
     LET chunk == out'[Min(Named(cfg.projection, plan.select[i]))]
     IN  IF chunk.type = "STRING" THEN 0 ELSE chunk.data[row]]

\* The selected rows for which there is room below the limit.
Taken ==
  LET selected == Ascending(sel')
      room     == IF Limited THEN plan.limit - Len(rows) ELSE Len(selected)
  IN  SubSeq(selected, 1, Min({room, Len(selected)}))

\* Mutant: the scan goes on when the limit is reached.
SelectBatchOnward ==
  /\ phase = "scan" /\ ~Aggregating
  /\ DeliverBatch
  /\ rowsScanned' = rowsScanned + out'[1].num_rows
  /\ rows' = rows \o [i \in DOMAIN Taken |-> OutputRow(Taken[i])]
  /\ UNCHANGED <<plan, phase, states, results>>

\* Mutant: a batch without a selected row is taken for the end.
SelectBatchEmptyStops ==
  /\ phase = "scan" /\ ~Aggregating
  /\ DeliverBatch
  /\ rowsScanned' = rowsScanned + out'[1].num_rows
  /\ rows' = rows \o [i \in DOMAIN Taken |-> OutputRow(Taken[i])]
  /\ phase' = IF Taken = << >> THEN "done" ELSE "scan"
  /\ UNCHANGED <<plan, states, results>>

\* The limit is looked at before each row and after each batch, so that the
\* first batch is scanned also for a limit of zero.
SelectBatch ==
  /\ phase = "scan" /\ ~Aggregating
  /\ DeliverBatch
  /\ rowsScanned' = rowsScanned + out'[1].num_rows
  /\ rows' = rows \o [i \in DOMAIN Taken |-> OutputRow(Taken[i])]
  /\ phase' = IF Limited /\ Len(rows') >= plan.limit THEN "done" ELSE "scan"
  /\ UNCHANGED <<plan, states, results>>

\* Mutant: the end of the scan is taken for another empty batch.
FinishSelectOnward ==
  /\ phase = "scan" /\ ~Aggregating
  /\ EndOfScan
  /\ UNCHANGED <<plan, phase, resultVars>>

FinishSelect ==
  /\ phase = "scan" /\ ~Aggregating /\ phase' = "done"
  /\ EndOfScan
  /\ UNCHANGED <<plan, resultVars>>

Step == ScanThrows \/ AggregateBatch \/ FinishAggregates \/ SelectBatch \/ FinishSelect

QueryNext == (\E c \in Columns : WriteBefore(c)) \/ Execute \/ Step

\* execute runs until it returns or throws.
QuerySpec == QueryInit /\ [][QueryNext]_queryVars /\ WF_queryVars(Step)

-----------------------------------------------------------------------------

(* What the answer should be, told from the files and the plan alone.      *)

\* The scan, its batches and the loops over them as one step.
Answering == INSTANCE Answer WITH
  answer <- CASE phase = "threw" -> [kind |-> "throw"]
              [] phase = "done"  -> [kind    |-> "answer",  rows    |-> rows,
                                     results |-> results,   scanned |-> rowsScanned]
              [] OTHER           -> [kind |-> "pending"]

\* execute answers as if all rows of the table had been looked at once, one
\* after the other, or throws if and only if a column is missing: wherever
\* the row groups end, the limit falls, a chunk is skipped or a predicate
\* leaves early.  A comparison truncated bounds are not sound for may lose
\* whole row groups, and nothing else.
ImplementsAnswer == Answering!Spec

\* No comparison of the plan is one that truncated bounds lose rows for.
Sound == Answering!SoundGroups = Answering!Groups

\* A query for rows answers with the qualifying rows in the table's order,
\* cut off at the limit, and each with the selected columns in the plan's
\* order, wherever the scan was told to put them.
SelectExact ==
  phase = "done" /\ ~Aggregating /\ Sound =>
    rows = Answering!Rows(Answering!Groups)

\* The pairs of row group and row that qualify.
Pairs ==
  UNION {{<<k, r>> : r \in Answering!Selected(Answering!Groups, k)} : k \in Answering!Groups}

\* What SQL makes of an expression over these rows.
Expected(expr) ==
  LET value == [pair \in Pairs |-> store[expr.col][pair[1]].data[pair[2]]]
  IN  [num   |-> IF expr.func = "COUNT" THEN Cardinality(Pairs)
                 ELSE IF expr.func \in {"SUM", "AVG"} THEN SumFunctionOnSet(value, Pairs)
                 ELSE IF Pairs = {} THEN 0
                 ELSE IF expr.func = "MIN" THEN Min(Range(value)) ELSE Max(Range(value)),
       den   |-> IF expr.func = "AVG" /\ Pairs # {} THEN Cardinality(Pairs) ELSE 1,
       count |-> Cardinality(Pairs)]

\* No qualifying row is null in the column of the expression.
NoNullsIn(expr) ==
  expr.col # NoColumn => \A pair \in Pairs : ~IsNull(store[expr.col][pair[1]], pair[2])

\* Each aggregate is that of the qualifying rows of the whole table, however
\* they are spread over row groups, for the column types the aggregator
\* knows and as long as no null is among the values.
AggregatesExact ==
  phase = "done" /\ Aggregating /\ Sound =>
    \A e \in DOMAIN plan.aggs :
      LET expr == plan.aggs[e]
      IN  /\ expr.col # NoColumn =>
               \A k \in Answering!Groups : Accumulated(store[expr.col][k].type)
          /\ NoNullsIn(expr)
          => results[e] = Expected(expr)

\* The same for every column that holds numbers.
AggregatesEveryType ==
  phase = "done" /\ Aggregating /\ Sound =>
    \A e \in DOMAIN plan.aggs :
      LET expr == plan.aggs[e]
      IN  /\ expr.col # NoColumn =>
               \A k \in Answering!Groups : store[expr.col][k].type # "STRING"
          /\ NoNullsIn(expr)
          => results[e] = Expected(expr)

\* execute comes to its end, with a result or an exception.
QueryEnds == phase = "scan" ~> phase \in {"done", "threw"}
=============================================================================
