----------------------------- MODULE Predicates -----------------------------
(***************************************************************************)
(* Predicates over the columns of a batch (filter.cpp, scan.cpp): what one *)
(* predicate selects in a chunk, when a batch may be skipped unread, and   *)
(* the closed form of the loop in evaluate_predicates, which module Filter *)
(* takes step by step.                                                     *)
(*                                                                         *)
(* A batch is a sequence of chunks and the sequence of their names.  A     *)
(* SelectionVector is the set of the row numbers it holds: eval_typed and  *)
(* fill_all append them in increasing order and never twice.               *)
(***************************************************************************)
EXTENDS Column, Sequences

\* pred = [col |-> name, op |-> comparison, val |-> value, hint |-> number];
\* val is the member of the union the column's type selects.

PredicateThreshold(pred, type) ==
  IF type = "STRING" THEN 0 ELSE AsInt64(type, pred.val)

Skippable(chunk, pred) ==
  CanSkipPredicate(chunk.stats, pred.op, PredicateThreshold(pred, chunk.type))

Passes(chunk, pred, row) ==
  /\ chunk.type # "STRING"
  /\ row \in RowsOf(chunk)
  /\ ~IsNull(chunk, row)
  /\ Compare(chunk.data[row], pred.val, pred.op)

\* Evaluating pred on the rows of input.  A row number the chunk does not
\* have is read all the same, beyond the chunk's values, and may pass or not.
EvaluatePredicate(chunk, pred, input) ==
  LET passing == {r \in input : Passes(chunk, pred, r)}
      beyond  == IF chunk.type = "STRING" THEN {} ELSE input \ RowsOf(chunk)
  IN  {passing \cup lucky : lucky \in SUBSET beyond}

-----------------------------------------------------------------------------
(* Batches.                                                                *)

Named(names, col) == {i \in DOMAIN names : names[i] = col}

Known(names, pred) == Named(names, pred.col) # {}

\* The first column of that name.
ColumnOf(names, pred) == Min(Named(names, pred.col))

\* Every chunk of the batch has the same rows.
Aligned(chunks) ==
  \A i, j \in DOMAIN chunks : chunks[i].num_rows = chunks[j].num_rows

CommonRows(chunks) ==
  {r \in RowsOf(chunks[1]) : \A i \in DOMAIN chunks : r \in RowsOf(chunks[i])}

\* The rows a query with these predicates asks for.
Qualifying(chunks, names, preds) ==
  {r \in CommonRows(chunks) :
     \A p \in DOMAIN preds :
       /\ Known(names, preds[p])
       /\ Passes(chunks[ColumnOf(names, preds[p])], preds[p], r)}

\* No predicate compares in a way that truncated bounds lose rows.
SoundPredicates(chunks, names, preds) ==
  \A p \in DOMAIN preds :
    Known(names, preds[p]) =>
      preds[p].op \in SoundOps(chunks[ColumnOf(names, preds[p])].type)

\* evaluate_predicates returns early with nothing selected.
GivesUp(chunks, names, preds) ==
  \E p \in DOMAIN preds :
    \/ ~Known(names, preds[p])
    \/ Skippable(EnsureStats(chunks[ColumnOf(names, preds[p])]), preds[p])

\* What evaluate_predicates may select.  A predicate with the least hint goes
\* first and offers the rows of its chunk; a row passes each chunk that has
\* it, and where a shorter chunk has not, the memory read decides.
EvaluatePredicates(chunks, names, preds) ==
  LET chunkOf(p) == chunks[ColumnOf(names, preds[p])]
      first      == {p \in DOMAIN preds :
                       \A q \in DOMAIN preds : preds[p].hint <= preds[q].hint}
      possible(f) == {r \in RowsOf(chunkOf(f)) :
                        \A p \in DOMAIN preds :
                          \/ Passes(chunkOf(p), preds[p], r)
                          \/ r \notin RowsOf(chunkOf(p)) /\ chunkOf(p).type # "STRING"}
      certain(f)  == {r \in possible(f) :
                        \A p \in DOMAIN preds : r \in RowsOf(chunkOf(p))}
  IN  IF GivesUp(chunks, names, preds) THEN {{}}
      ELSE UNION {{certain(f) \cup lucky : lucky \in SUBSET (possible(f) \ certain(f))}
                    : f \in first}

\* The predicates of a scan on columns it has, up to the first of them whose
\* chunk has no statistics; the batch is skipped unread if one of these can be.
ChunkSetCanBeSkipped(chunks, names, preds) ==
  \E p \in DOMAIN preds :
    /\ Known(names, preds[p])
    /\ Skippable(chunks[ColumnOf(names, preds[p])], preds[p])
    /\ \A q \in 1 .. p :
         Known(names, preds[q]) =>
           chunks[ColumnOf(names, preds[q])].stats.initialized
=============================================================================
