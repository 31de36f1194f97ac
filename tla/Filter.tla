------------------------------- MODULE Filter -------------------------------
(***************************************************************************)
(* evaluate_predicates (filter.cpp) step by step.  The predicates are      *)
(* sorted by their selectivity hint, ties in any order; the loop takes one *)
(* predicate at a time, computes the statistics of its chunk if there are  *)
(* none (writing through a const reference into the caller's chunk), leaves*)
(* early when the column is missing or the chunk can be skipped, and       *)
(* otherwise narrows the selection.  The caller keeps the batch and the    *)
(* selection vector between calls.                                         *)
(***************************************************************************)
EXTENDS Predicates, Functions

CONSTANTS
  Batches,    \* the batches: records [chunks, names]
  PredLists   \* the lists of predicates a call may have

ASSUME FilterAssumption ==
  /\ \A b \in Batches :
       /\ b.chunks = [i \in 1 .. Len(b.chunks) |-> b.chunks[i]] /\ Len(b.chunks) \in Nat
       /\ DOMAIN b.names = DOMAIN b.chunks
       /\ \A i \in DOMAIN b.chunks : IsChunk(b.chunks[i])
  /\ \A l \in PredLists :
       /\ DOMAIN l = 1 .. Len(l) /\ Len(l) \in Nat
       /\ \A i \in DOMAIN l :
            l[i].op \in CompareOps /\ l[i].val \in Values /\ l[i].hint \in Int

VARIABLES
  chunks,     \* the chunks of the batch
  names,      \* col_names
  preds,      \* the predicates of the current call, as the caller gave them
  ordered,    \* the sorted copy
  p,          \* the loop's counter, from 1
  sel,        \* the caller's selection vector
  pc          \* "call", "loop" or "done"

vars == <<chunks, names, preds, ordered, p, sel, pc>>

Current == ordered[p]

-----------------------------------------------------------------------------

Init ==
  /\ \E b \in Batches : chunks = b.chunks /\ names = b.names
  /\ preds \in PredLists
  /\ ordered = << >>
  /\ p = 1
  /\ sel = {}
  /\ pc = "call"

\* No predicates: every row of the first chunk, or, with no chunk at all,
\* whatever the vector held.
FillAll ==
  /\ pc = "call" /\ preds = << >>
  /\ sel' = IF chunks = << >> THEN sel ELSE RowsOf(chunks[1])
  /\ pc' = "done"
  /\ UNCHANGED <<chunks, names, preds, ordered, p>>

\* std::sort by selectivity_hint, which is not stable.
Sort ==
  /\ pc = "call" /\ preds # << >>
  /\ \E order \in Bijection(DOMAIN preds, DOMAIN preds) :
       /\ \A i, j \in DOMAIN preds :
            i < j => preds[order[i]].hint <= preds[order[j]].hint
       /\ ordered' = [i \in DOMAIN preds |-> preds[order[i]]]
  /\ p' = 1
  /\ pc' = "loop"
  /\ UNCHANGED <<chunks, names, preds, sel>>

\* Mutant: a predicate on a column the batch has not is passed over.
MissingColumnIgnored ==
  /\ pc = "loop" /\ ~Known(names, Current)
  /\ p' = p + 1
  /\ pc' = IF p = Len(ordered) THEN "done" ELSE "loop"
  /\ UNCHANGED <<chunks, names, preds, ordered, sel>>

MissingColumn ==
  /\ pc = "loop" /\ ~Known(names, Current)
  /\ sel' = {}
  /\ pc' = "done"
  /\ UNCHANGED <<chunks, names, preds, ordered, p>>

\* The chunk of the current predicate, its statistics computed if need be.
Ensured == [chunks EXCEPT ![ColumnOf(names, Current)] = EnsureStats(@)]

SkipChunk ==
  /\ pc = "loop" /\ Known(names, Current)
  /\ chunks' = Ensured
  /\ Skippable(Ensured[ColumnOf(names, Current)], Current)
  /\ sel' = {}
  /\ pc' = "done"
  /\ UNCHANGED <<names, preds, ordered, p>>

\* Mutant: later predicates are evaluated on every row again.
InputRowsAll == RowsOf(Ensured[ColumnOf(names, Current)])

\* The first predicate looks at every row of its chunk, later ones at the
\* selection so far.
InputRows == IF p = 1 THEN RowsOf(Ensured[ColumnOf(names, Current)]) ELSE sel

Narrow ==
  /\ pc = "loop" /\ Known(names, Current)
  /\ chunks' = Ensured
  /\ ~Skippable(Ensured[ColumnOf(names, Current)], Current)
  /\ sel' \in EvaluatePredicate(Ensured[ColumnOf(names, Current)], Current, InputRows)
  /\ p' = p + 1
  /\ pc' = IF p = Len(ordered) THEN "done" ELSE "loop"
  /\ UNCHANGED <<names, preds, ordered>>

\* The caller evaluates another list of predicates on the same batch.
NextCall ==
  /\ pc = "done"
  /\ preds' \in PredLists
  /\ ordered' = << >>
  /\ p' = 1
  /\ pc' = "call"
  /\ UNCHANGED <<chunks, names, sel>>

Next == FillAll \/ Sort \/ MissingColumn \/ SkipChunk \/ Narrow \/ NextCall

Spec == Init /\ [][Next]_vars

-----------------------------------------------------------------------------

\* However the sort breaks ties and however early the loop leaves, the
\* selection is one the closed form allows: the order of evaluation and the
\* statistics written on the way do not show.
OrderFree ==
  pc = "done" /\ preds # << >> => sel \in EvaluatePredicates(chunks, names, preds)

\* On an aligned batch, with bounds that enclose the live rows and comparisons
\* truncation respects, evaluate_predicates selects exactly the rows asked
\* for: a chunk that was skipped had none.
FilterExact ==
  /\ pc = "done" /\ chunks # << >> /\ Aligned(chunks)
  /\ \A i \in DOMAIN chunks : Covers(chunks[i])
  /\ SoundPredicates(chunks, names, preds)
  => sel = Qualifying(chunks, names, preds)

\* Whatever the statistics, the operators and the sizes of the chunks, a
\* selected row that every chunk has passes every predicate.
SelectedQualify ==
  pc = "done" /\ chunks # << >> =>
    sel \cap CommonRows(chunks) \subseteq Qualifying(chunks, names, preds)
=============================================================================
