---------------------------- MODULE Filter_proofs ----------------------------
(***************************************************************************)
(* Proofs about Filter: whatever order the sort yields, whatever the       *)
(* statistics say and whenever the loop leaves, the rows selected are the  *)
(* rows asked for, and on any batch a selection the closed form allows.    *)
(* And about Kernels: a loop over the rows of a chunk selects each row     *)
(* once and in order, and a sum has each selected row once.                *)
(***************************************************************************)
EXTENDS Evaluation, Column_proofs

\* The batch is one of chunks, each under a name.
Shape ==
  /\ chunks = [i \in 1 .. Len(chunks) |-> chunks[i]] /\ Len(chunks) \in Nat
  /\ DOMAIN names = DOMAIN chunks
  /\ \A i \in DOMAIN chunks : IsChunk(chunks[i])
  /\ preds \in PredLists

\* The sorted copy has the predicates of the call.
SamePredicates ==
  /\ \A i \in DOMAIN ordered : \E j \in DOMAIN preds : ordered[i] = preds[j]
  /\ \A j \in DOMAIN preds : \E i \in DOMAIN ordered : ordered[i] = preds[j]
  /\ DOMAIN ordered = DOMAIN preds

PassesOne(pred, r) == Passes(chunks[ColumnOf(names, pred)], pred, r)

\* After n predicates the selection has, of the rows every chunk has, those
\* that pass them, and on an aligned batch no others.
Narrowed(n) ==
  /\ \A i \in 1 .. n : Known(names, ordered[i])
  /\ \A r \in CommonRows(chunks) :
       r \in sel <=> \A i \in 1 .. n : PassesOne(ordered[i], r)
  /\ Aligned(chunks) => sel \subseteq CommonRows(chunks)

InLoop ==
  pc = "loop" =>
    /\ SamePredicates
    /\ p \in DOMAIN ordered
    /\ p > 1 => Narrowed(p - 1)

IInv == Shape /\ InLoop /\ FilterExact /\ SelectedQualify

-----------------------------------------------------------------------------
(* Chunks and their names.                                                 *)

\* The search for a column ends at one of the batch.
LEMMA ColumnFound ==
  ASSUME Shape, NEW pred, Known(names, pred)
  PROVE  ColumnOf(names, pred) \in DOMAIN chunks
PROOF
  <1>1. Named(names, pred.col) # {} /\ Named(names, pred.col) \subseteq DOMAIN chunks
    BY DEF Shape, Named, Known
  <1> QED BY <1>1, FirstNamed DEF Shape, ColumnOf

\* On an aligned batch every chunk has the common rows and no others.
LEMMA AlignedRows ==
  ASSUME Shape, NEW c \in DOMAIN chunks
  PROVE  /\ CommonRows(chunks) \subseteq RowsOf(chunks[c])
         /\ Aligned(chunks) => CommonRows(chunks) = RowsOf(chunks[c])
PROOF
  <1>1. 1 \in DOMAIN chunks
    BY DEF Shape
  <1>2. CommonRows(chunks) \subseteq RowsOf(chunks[c])
    BY DEF CommonRows
  <1>3. ASSUME Aligned(chunks) PROVE RowsOf(chunks[c]) \subseteq CommonRows(chunks)
    <2>1. \A i \in DOMAIN chunks : RowsOf(chunks[i]) = RowsOf(chunks[c])
      BY <1>3 DEF Aligned, RowsOf
    <2> QED BY <1>1, <2>1 DEF CommonRows
  <1> QED BY <1>2, <1>3

\* The rows asked for, told from the sorted copy.
LEMMA QualifyingSorted ==
  ASSUME SamePredicates
  PROVE  Qualifying(chunks, names, preds) =
           {r \in CommonRows(chunks) :
              \A i \in DOMAIN ordered : Known(names, ordered[i]) /\ PassesOne(ordered[i], r)}
PROOF
  BY DEF SamePredicates, Qualifying, PassesOne

-----------------------------------------------------------------------------
(* Statistics written on the way do not show.                              *)

\* The chunks of the next state differ from these in their statistics at most.
StatsOnly ==
  /\ chunks' = [i \in DOMAIN chunks |-> chunks'[i]] /\ Len(chunks') = Len(chunks)
  /\ \A i \in DOMAIN chunks :
       /\ IsChunk(chunks'[i])
       /\ chunks'[i].type = chunks[i].type /\ chunks'[i].num_rows = chunks[i].num_rows
       /\ chunks'[i].has_nulls = chunks[i].has_nulls /\ chunks'[i].nulls = chunks[i].nulls
       /\ chunks'[i].data = chunks[i].data

\* Which rows there are and which pass does not depend on statistics.
LEMMA StatsDoNotShow ==
  ASSUME Shape, StatsOnly
  PROVE  /\ CommonRows(chunks') = CommonRows(chunks)
         /\ Aligned(chunks') <=> Aligned(chunks)
         /\ \A i \in DOMAIN chunks : RowsOf(chunks'[i]) = RowsOf(chunks[i])
         /\ \A i \in DOMAIN chunks : \A pred, r :
              Passes(chunks'[i], pred, r) <=> Passes(chunks[i], pred, r)
PROOF
  <1>1. \A i \in DOMAIN chunks : RowsOf(chunks'[i]) = RowsOf(chunks[i])
    BY DEF StatsOnly, RowsOf
  <1>2. \A i \in DOMAIN chunks : \A pred, r :
          Passes(chunks'[i], pred, r) <=> Passes(chunks[i], pred, r)
    BY <1>1 DEF StatsOnly, Passes, IsNull
  <1>3. Aligned(chunks') <=> Aligned(chunks)
    BY DEF StatsOnly, Aligned
  <1>4. CommonRows(chunks') = CommonRows(chunks)
    <2>1. CASE DOMAIN chunks = {}
      <3>1. chunks = << >> /\ chunks' = << >>
        BY <2>1 DEF Shape, StatsOnly
      <3> QED BY <3>1
    <2>2. CASE DOMAIN chunks # {}
      <3>1. 1 \in DOMAIN chunks
        BY <2>2 DEF Shape
      <3> QED BY <1>1, <3>1 DEF CommonRows, StatsOnly
    <2> QED BY <2>1, <2>2
  <1> QED BY <1>1, <1>2, <1>3, <1>4

\* The loop's write into the caller's chunks.
LEMMA EnsuredStatsOnly ==
  ASSUME Shape, Known(names, Current), chunks' = Ensured
  PROVE  StatsOnly
PROOF
  <1> DEFINE c == ColumnOf(names, Current)
  <1>1. c \in DOMAIN chunks
    BY ColumnFound
  <1>2. \A i \in DOMAIN chunks : chunks'[i] = IF i = c THEN EnsureStats(chunks[i]) ELSE chunks[i]
    BY <1>1 DEF Ensured
  <1>3. chunks' = [i \in DOMAIN chunks |-> chunks'[i]]
    BY DEF Ensured
  <1>4. Len(chunks') = Len(chunks)
    BY <1>3 DEF Shape
  <1>5. \A i \in DOMAIN chunks : IsChunk(chunks[i])
    BY DEF Shape
  <1> HIDE DEF c
  <1> QED BY <1>2, <1>3, <1>4, <1>5, EnsureKeeps DEF StatsOnly

\* What the invariant says of the batch and of the rows selected so far
\* survives statistics that are computed.
LEMMA StatsKeepShape ==
  ASSUME Shape, StatsOnly, UNCHANGED names, preds' \in PredLists
  PROVE  Shape'
PROOF
  <1>1. DOMAIN chunks = 1 .. Len(chunks)
    BY DEF Shape
  <1> QED BY <1>1 DEF Shape, StatsOnly

-----------------------------------------------------------------------------
(* The steps.                                                              *)

\* At the first call nothing is selected.
LEMMA InitIInv == Init => IInv
PROOF
  <1> SUFFICES ASSUME Init PROVE IInv
    OBVIOUS
  <1>1. PICK b \in Batches : chunks = b.chunks /\ names = b.names
    BY DEF Init
  <1>2. Shape
    BY <1>1, FilterAssumption DEF Init, Shape
  <1>3. pc = "call"
    BY DEF Init
  <1> QED BY <1>2, <1>3 DEF IInv, InLoop, FilterExact, SelectedQualify

\* A call that leaves with nothing selected, for a column that is missing or a
\* chunk that can be skipped, is right to do so.
LEMMA LeavingIsExact ==
  ASSUME IInv, pc = "loop", StatsOnly, sel' = {}, pc' = "done",
         UNCHANGED <<names, preds, ordered>>,
         \/ ~Known(names, Current)
         \/ /\ Known(names, Current)
            /\ Skippable(chunks'[ColumnOf(names, Current)], Current)
  PROVE  IInv'
PROOF
  <1>1. Shape /\ SamePredicates /\ p \in DOMAIN ordered /\ preds \in PredLists
    BY DEF IInv, InLoop, Shape
  <1>2. Shape'
    BY <1>1, StatsKeepShape
  <1>3. PICK q \in DOMAIN preds : Current = preds[q]
    BY <1>1 DEF SamePredicates, Current
  <1>4. ASSUME \A i \in DOMAIN chunks : Covers(chunks'[i]),
               SoundPredicates(chunks', names, preds)
        PROVE  Qualifying(chunks', names, preds) = {}
    <2>1. CASE ~Known(names, Current)
      BY <1>3, <2>1 DEF Qualifying
    <2>2. CASE Known(names, Current) /\ Skippable(chunks'[ColumnOf(names, Current)], Current)
      <3> DEFINE chunk == chunks'[ColumnOf(names, Current)]
      <3>1. ColumnOf(names, Current) \in DOMAIN chunks
        BY <1>1, <2>2, ColumnFound
      <3>2. IsChunk(chunk) /\ Covers(chunk)
        BY <1>4, <3>1 DEF StatsOnly
      <3>3. Current.val \in Values
        BY <1>1, <1>3, FilterAssumption
      <3>4. Current.op \in SoundOps(chunk.type)
        BY <1>3, <1>4, <2>2 DEF SoundPredicates
      <3>5. Skippable(chunk, Current)
        BY <2>2
      <3> HIDE DEF chunk
      <3>6. \A r : ~Passes(chunk, Current, r)
        BY <3>2, <3>3, <3>4, <3>5, SkippedHasNone
      <3>7. \A r \in Qualifying(chunks', names, preds) : Passes(chunk, Current, r)
        BY <1>3 DEF Qualifying, chunk
      <3> QED BY <3>6, <3>7
    <2> QED BY <2>1, <2>2
  <1>5. DOMAIN chunks' = DOMAIN chunks
    BY DEF StatsOnly
  <1>6. FilterExact'
    BY <1>4, <1>5 DEF FilterExact
  <1>7. SelectedQualify'
    BY DEF SelectedQualify
  <1>8. InLoop'
    BY DEF InLoop
  <1> QED BY <1>2, <1>6, <1>7, <1>8 DEF IInv

\* One more predicate narrows the selection by the rows it rejects.
LEMMA NarrowKeeps ==
  ASSUME IInv, Narrow
  PROVE  IInv'
PROOF
  <1> DEFINE c == ColumnOf(names, Current)
             chunk == Ensured[c]
  <1>1. /\ pc = "loop" /\ Known(names, Current) /\ chunks' = Ensured
        /\ sel' \in EvaluatePredicate(chunk, Current, InputRows)
        /\ p' = p + 1 /\ pc' = (IF p = Len(ordered) THEN "done" ELSE "loop")
        /\ UNCHANGED <<names, preds, ordered>>
    BY DEF Narrow
  <1>2. Shape /\ SamePredicates /\ p \in DOMAIN ordered /\ (p > 1 => Narrowed(p - 1))
        /\ preds \in PredLists /\ DOMAIN preds = 1 .. Len(preds) /\ Len(preds) \in Nat
    BY <1>1, FilterAssumption DEF IInv, InLoop, Shape
  <1>3. StatsOnly /\ Shape' /\ c \in DOMAIN chunks
    BY <1>1, <1>2, EnsuredStatsOnly, StatsKeepShape, ColumnFound
  <1>4. /\ CommonRows(chunks') = CommonRows(chunks)
        /\ Aligned(chunks') <=> Aligned(chunks)
        /\ chunk = chunks'[c] /\ RowsOf(chunk) = RowsOf(chunks[c])
        /\ \A i \in DOMAIN chunks : \A pred, r :
             Passes(chunks'[i], pred, r) <=> Passes(chunks[i], pred, r)
    BY <1>1, <1>2, <1>3, StatsDoNotShow
  <1>5. /\ CommonRows(chunks) \subseteq RowsOf(chunk)
        /\ Aligned(chunks) => CommonRows(chunks) = RowsOf(chunk)
    BY <1>2, <1>3, <1>4, AlignedRows
  <1> HIDE DEF chunk, c
  <1>6. /\ \A r \in RowsOf(chunk) : r \in sel' <=> r \in InputRows /\ Passes(chunk, Current, r)
        /\ sel' \subseteq InputRows
    BY <1>1 DEF EvaluatePredicate
  <1>7. InputRows = IF p = 1 THEN RowsOf(chunk) ELSE sel
    BY DEF InputRows, chunk, c
  <1>8. p \in Nat /\ p >= 1 /\ DOMAIN ordered = 1 .. Len(preds)
    BY <1>2 DEF SamePredicates
  <1>9. \A r : Passes(chunk, Current, r) <=> PassesOne(Current, r)
    BY <1>3, <1>4 DEF PassesOne, c
  <1>10. ASSUME NEW pred, Known(names, pred), NEW r PROVE PassesOne(pred, r)' <=> PassesOne(pred, r)
    BY <1>1, <1>2, <1>4, <1>10, ColumnFound DEF PassesOne
  <1>11. /\ \A i \in 1 .. p : Known(names, ordered[i])
         /\ \A r \in CommonRows(chunks) :
              r \in sel' <=> \A i \in 1 .. p : PassesOne(ordered[i], r)
         /\ Aligned(chunks) => sel' \subseteq CommonRows(chunks)
    <2>1. CASE p = 1
      <3>1. \A i \in 1 .. p : i = 1 /\ ordered[i] = Current
        BY <2>1 DEF Current
      <3>2. 1 \in 1 .. p /\ ordered[1] = Current
        BY <2>1 DEF Current
      <3> QED BY <1>1, <1>5, <1>6, <1>7, <1>9, <2>1, <3>1, <3>2
    <2>2. CASE p # 1
      <3>1. Narrowed(p - 1) /\ InputRows = sel
        BY <1>2, <1>7, <1>8, <2>2
      <3>2. 1 .. p = (1 .. (p - 1)) \cup {p} /\ ordered[p] = Current
        BY <1>8, <2>2 DEF Current
      <3>3. \A r : (\A i \in 1 .. p : PassesOne(ordered[i], r)) <=>
                     (\A i \in 1 .. (p - 1) : PassesOne(ordered[i], r)) /\ PassesOne(Current, r)
        BY <3>2
      <3>4. \A i \in 1 .. p : Known(names, ordered[i])
        BY <1>1, <3>1, <3>2 DEF Narrowed
      <3>5. \A r \in CommonRows(chunks) :
              r \in sel' <=> \A i \in 1 .. p : PassesOne(ordered[i], r)
        BY <1>5, <1>6, <1>9, <3>1, <3>3 DEF Narrowed
      <3>6. Aligned(chunks) => sel' \subseteq CommonRows(chunks)
        BY <1>6, <3>1 DEF Narrowed
      <3> QED BY <3>4, <3>5, <3>6
    <2> QED BY <2>1, <2>2
  <1>12. SamePredicates'
    BY <1>1, <1>2 DEF SamePredicates
  <1>13. \A pred : Known(names, pred) => \A r :
           Passes(chunks'[ColumnOf(names, pred)], pred, r) <=> PassesOne(pred, r)
    BY <1>2, <1>4, ColumnFound DEF PassesOne
  <1>14. CASE p # Len(ordered)
    <2>1. p' \in DOMAIN ordered /\ p' - 1 = p /\ pc' = "loop"
      <3>1. Len(ordered) = Len(preds)
        BY <1>2, <1>8 DEF SamePredicates
      <3> QED BY <1>1, <1>2, <1>8, <1>14, <3>1
    <2>2. \A i \in 1 .. (p' - 1) : Known(names', ordered'[i])
      BY <1>1, <1>11, <2>1
    <2>3. \A r \in CommonRows(chunks') :
            r \in sel' <=> \A i \in 1 .. p :
              Passes(chunks'[ColumnOf(names, ordered[i])], ordered[i], r)
      BY <1>4, <1>11, <1>13
    <2>4. \A r \in CommonRows(chunks') :
            r \in sel' <=> \A i \in 1 .. (p' - 1) :
              Passes(chunks'[ColumnOf(names', ordered'[i])], ordered'[i], r)
      BY <1>1, <2>1, <2>3
    <2>5. Aligned(chunks') => sel' \subseteq CommonRows(chunks')
      BY <1>4, <1>11
    <2>6. InLoop'
      BY <1>1, <1>12, <2>1, <2>2, <2>4, <2>5 DEF InLoop, Narrowed, PassesOne
    <2>7. FilterExact' /\ SelectedQualify'
      BY <2>1 DEF FilterExact, SelectedQualify
    <2> QED BY <1>3, <2>6, <2>7 DEF IInv
  <1>15. CASE p = Len(ordered)
    <2>1. DOMAIN ordered = 1 .. p
      BY <1>2, <1>8, <1>15
    <2>2. \A r \in CommonRows(chunks) :
            r \in sel' <=> r \in Qualifying(chunks, names, preds)
      BY <1>2, <1>11, <2>1, QualifyingSorted
    <2>3. Qualifying(chunks', names, preds) = Qualifying(chunks, names, preds)
      <3>1. \A r, i : Known(names, preds[i]) =>
              (Passes(chunks'[ColumnOf(names, preds[i])], preds[i], r) <=>
                 Passes(chunks[ColumnOf(names, preds[i])], preds[i], r))
        BY <1>13 DEF PassesOne
      <3> QED BY <1>4, <3>1 DEF Qualifying
    <2>4. Qualifying(chunks, names, preds) \subseteq CommonRows(chunks)
      BY DEF Qualifying
    <2>5. Aligned(chunks') => sel' = Qualifying(chunks', names', preds')
      BY <1>1, <1>4, <1>11, <2>2, <2>3, <2>4
    <2>6. sel' \cap CommonRows(chunks') \subseteq Qualifying(chunks', names', preds')
      BY <1>1, <1>4, <2>2, <2>3
    <2>7. FilterExact' /\ SelectedQualify'
      BY <2>5, <2>6 DEF FilterExact, SelectedQualify
    <2>8. InLoop'
      BY <1>1, <1>15 DEF InLoop
    <2> QED BY <1>3, <2>7, <2>8 DEF IInv
  <1> QED BY <1>14, <1>15

\* A call without predicates selects the rows of the first chunk.
LEMMA FillAllKeeps ==
  ASSUME IInv, FillAll
  PROVE  IInv'
PROOF
  <1>1. Shape /\ Shape' /\ preds = << >>
    BY DEF IInv, FillAll, Shape
  <1>2. ASSUME chunks # << >>
        PROVE  /\ Qualifying(chunks, names, preds) = CommonRows(chunks)
               /\ CommonRows(chunks) \subseteq RowsOf(chunks[1])
               /\ Aligned(chunks) => CommonRows(chunks) = RowsOf(chunks[1])
    <2>1. 1 \in DOMAIN chunks
      BY <1>1, <1>2 DEF Shape
    <2>2. Qualifying(chunks, names, preds) = CommonRows(chunks)
      BY <1>1 DEF Qualifying
    <2> QED BY <1>1, <2>1, <2>2, AlignedRows
  <1>3. FilterExact' /\ SelectedQualify'
    BY <1>2 DEF FillAll, FilterExact, SelectedQualify
  <1>4. InLoop'
    BY DEF FillAll, InLoop
  <1> QED BY <1>1, <1>3, <1>4 DEF IInv

\* Whatever permutation the sort yields, it has the predicates of the call.
LEMMA SortKeeps ==
  ASSUME IInv, Sort
  PROVE  IInv'
PROOF
  <1>1. PICK order \in Bijection(DOMAIN preds, DOMAIN preds) :
          ordered' = [i \in DOMAIN preds |-> preds[order[i]]]
    BY DEF Sort
  <1>2. /\ \A i \in DOMAIN preds : order[i] \in DOMAIN preds
        /\ \A j \in DOMAIN preds : \E i \in DOMAIN preds : order[i] = j
    BY DEF Bijection, Injection, Surjection
  <1>3. preds' = preds /\ p' = 1 /\ pc' = "loop" /\ preds # << >> /\ preds \in PredLists
    BY DEF Sort, IInv, Shape
  <1>4. SamePredicates'
    BY <1>1, <1>2, <1>3 DEF SamePredicates
  <1>5. 1 \in DOMAIN preds
    BY <1>3, FilterAssumption
  <1>6. InLoop'
    BY <1>1, <1>3, <1>4, <1>5 DEF InLoop
  <1>7. Shape'
    BY DEF Sort, IInv, Shape
  <1>8. FilterExact' /\ SelectedQualify'
    BY <1>3 DEF FilterExact, SelectedQualify
  <1> QED BY <1>6, <1>7, <1>8 DEF IInv

\* Every step keeps the invariant.
LEMMA NextKeepsIInv == IInv /\ [Next]_vars => IInv'
PROOF
  <1> SUFFICES ASSUME IInv, [Next]_vars PROVE IInv'
    OBVIOUS
  <1>1. CASE FillAll
    BY <1>1, FillAllKeeps
  <1>2. CASE Sort
    BY <1>2, SortKeeps
  <1>3. CASE MissingColumn
    <2>1. chunks' = chunks /\ Shape
      BY <1>3 DEF MissingColumn, IInv
    <2>2. StatsOnly
      BY <2>1 DEF StatsOnly, Shape
    <2> QED BY <1>3, <2>2, LeavingIsExact DEF MissingColumn
  <1>4. CASE SkipChunk
    <2>1. StatsOnly
      BY <1>4, EnsuredStatsOnly DEF SkipChunk, IInv
    <2>2. Skippable(chunks'[ColumnOf(names, Current)], Current)
      BY <1>4 DEF SkipChunk
    <2> QED BY <1>4, <2>1, <2>2, LeavingIsExact DEF SkipChunk
  <1>5. CASE Narrow
    BY <1>5, NarrowKeeps
  <1>6. CASE NextCall
    BY <1>6 DEF NextCall, IInv, Shape, InLoop, FilterExact, SelectedQualify
  <1>7. CASE UNCHANGED vars
    <2>1. Shape' /\ FilterExact' /\ SelectedQualify'
      BY <1>7 DEF vars, IInv, Shape, FilterExact, SelectedQualify
    <2>2. InLoop'
      BY <1>7 DEF vars, IInv, InLoop, SamePredicates, Narrowed, PassesOne
    <2> QED BY <2>1, <2>2 DEF IInv
  <1> QED BY <1>1, <1>2, <1>3, <1>4, <1>5, <1>6, <1>7 DEF Next

LEMMA IInvAlways == Spec => []IInv
PROOF
  <1> QED BY InitIInv, NextKeepsIInv, PTL DEF Spec

\* evaluate_predicates (filter.cpp): on an aligned batch whose bounds enclose
\* the live rows, with comparisons truncation respects, the rows selected are
\* the rows asked for, whatever the order of evaluation, the early returns
\* and the statistics computed on the way.
THEOREM FilterExactAlways == Spec => []FilterExact
PROOF
  <1>1. IInv => FilterExact
    BY DEF IInv
  <1> QED BY <1>1, IInvAlways, PTL

\* evaluate_predicates (filter.cpp): whatever the statistics, the operators and
\* the sizes of the chunks, a selected row that every chunk has passes every
\* predicate of the call.
THEOREM SelectedQualifyAlways == Spec => []SelectedQualify
PROOF
  <1>1. IInv => SelectedQualify
    BY DEF IInv
  <1> QED BY <1>1, IInvAlways, PTL

-----------------------------------------------------------------------------
(* The closed form.                                                        *)

\* Computing statistics a second time yields what the first time did.
LEMMA EnsureTwice ==
  ASSUME NEW c, IsChunk(c)
  PROVE  EnsureStats(EnsureStats(c)).stats = EnsureStats(c).stats
PROOF
  <1> DEFINE f == FinalizeStats(c)
  <1>1. CASE c.stats.initialized
    BY <1>1 DEF EnsureStats
  <1>2. CASE ~c.stats.initialized
    <2>1. EnsureStats(c) = f
      BY <1>2 DEF EnsureStats
    <2>2. CASE f.stats.initialized
      BY <2>1, <2>2 DEF EnsureStats
    <2>3. CASE ~f.stats.initialized
      <3>1. /\ IsChunk(f) /\ f.type = c.type /\ f.num_rows = c.num_rows
            /\ f.has_nulls = c.has_nulls /\ f.nulls = c.nulls /\ f.data = c.data
        BY FinalizeKeeps
      <3>2. LiveInt64s(f) = LiveInt64s(c)
        <4> HIDE DEF f
        <4> QED BY <3>1 DEF LiveInt64s, LiveRows, RowsOf, IsNull
      <3>3. c.type = "STRING" \/ LiveInt64s(c) = {}
        <4>1. ASSUME ~(c.type = "STRING" \/ LiveInt64s(c) = {}) PROVE f.stats.initialized
          <5>1. f = [c EXCEPT !.stats = [min |-> Min(LiveInt64s(c)), max |-> Max(LiveInt64s(c)),
                                         initialized |-> TRUE]]
            BY <4>1 DEF FinalizeStats
          <5> QED BY <5>1 DEF IsChunk
        <4> QED BY <2>3, <4>1
      <3>4. EnsureStats(f) = [f EXCEPT !.stats.initialized = FALSE]
        BY <2>3, <3>1, <3>2, <3>3 DEF EnsureStats, FinalizeStats
      <3> HIDE DEF f
      <3>5. f.stats \in Stats /\ f.stats.initialized = FALSE
        BY <2>3, <3>1 DEF IsChunk, Stats
      <3>6. EnsureStats(f).stats = [f.stats EXCEPT !.initialized = FALSE]
        BY <3>1, <3>4 DEF IsChunk
      <3>7. [f.stats EXCEPT !.initialized = FALSE] = f.stats
        BY <3>5 DEF Stats
      <3> QED BY <2>1, <3>6, <3>7
    <2> QED BY <2>2, <2>3
  <1> QED BY <1>1, <1>2

ChunkFor(pred) == chunks[ColumnOf(names, pred)]

\* The predicate does not make the loop leave.
Retained(pred) == Known(names, pred) /\ ~Skippable(EnsureStats(ChunkFor(pred)), pred)

\* The row passes the predicate, or the chunk has no such row and what lies
\* behind its values decides.
Possible(r, pred) ==
  \/ Passes(ChunkFor(pred), pred, r)
  \/ r \notin RowsOf(ChunkFor(pred)) /\ ChunkFor(pred).type # "STRING"

\* After n predicates the selection is between the rows that pass them all
\* and the rows of the first one's chunk that may.
Bracketed(n) ==
  /\ \A i \in 1 .. n : Retained(ordered[i])
  /\ \A r \in sel : r \in RowsOf(ChunkFor(ordered[1])) /\ \A i \in 1 .. n : Possible(r, ordered[i])
  /\ \A r : (\A i \in 1 .. n : r \in RowsOf(ChunkFor(ordered[i])) /\ Possible(r, ordered[i]))
              => r \in sel

\* The first predicate evaluated is one with the least hint.
LeastFirst == \A i \in DOMAIN ordered : ordered[1].hint <= ordered[i].hint

Bracketing == pc = "loop" => LeastFirst /\ (p > 1 => Bracketed(p - 1))

\* What statistics computed on the way leave as it was.
LEMMA StatsKeepVerdicts ==
  ASSUME Shape, chunks' = Ensured \/ chunks' = chunks, Known(names, Current) \/ chunks' = chunks,
         UNCHANGED names, NEW pred, Known(names, pred)
  PROVE  /\ Retained(pred)' <=> Retained(pred)
         /\ RowsOf(ChunkFor(pred))' = RowsOf(ChunkFor(pred))
         /\ \A r : Possible(r, pred)' <=> Possible(r, pred)
PROOF
  <1>1. CASE chunks' = chunks
    BY <1>1 DEF Retained, ChunkFor, Possible
  <1>2. CASE chunks' = Ensured /\ Known(names, Current)
    <2> DEFINE c == ColumnOf(names, Current)
               d == ColumnOf(names, pred)
    <2>1. c \in DOMAIN chunks /\ d \in DOMAIN chunks
      BY <1>2, ColumnFound
    <2>2. StatsOnly
      BY <1>2, EnsuredStatsOnly
    <2>3. /\ RowsOf(chunks'[d]) = RowsOf(chunks[d]) /\ chunks'[d].type = chunks[d].type
          /\ \A r : Passes(chunks'[d], pred, r) <=> Passes(chunks[d], pred, r)
      BY <2>1, <2>2, StatsDoNotShow DEF StatsOnly
    <2>4. chunks'[d] = IF d = c THEN EnsureStats(chunks[d]) ELSE chunks[d]
      BY <1>2, <2>1 DEF Ensured
    <2>5. IsChunk(chunks[d]) /\ IsChunk(chunks'[d])
      BY <2>1, <2>2 DEF Shape, StatsOnly
    <2>6. EnsureStats(chunks'[d]).stats = EnsureStats(chunks[d]).stats
      BY <2>4, <2>5, EnsureTwice
    <2>7. EnsureStats(chunks'[d]).type = EnsureStats(chunks[d]).type
      BY <2>3, <2>5, EnsureKeeps
    <2>8. Skippable(EnsureStats(chunks'[d]), pred) <=> Skippable(EnsureStats(chunks[d]), pred)
      BY <2>6, <2>7 DEF Skippable
    <2>9. ChunkFor(pred)' = chunks'[d] /\ ChunkFor(pred) = chunks[d]
      BY DEF ChunkFor
    <2> HIDE DEF d, c
    <2> QED BY <2>3, <2>8, <2>9 DEF Retained, Possible
  <1> QED BY <1>1, <1>2

\* A call leaves the loop early because the closed form gives up as well.
LEMMA LeavingIsOrderFree ==
  ASSUME Shape, SamePredicates, p \in DOMAIN ordered,
         \/ MissingColumn
         \/ SkipChunk
  PROVE  OrderFree'
PROOF
  <1>1. PICK q \in DOMAIN preds : Current = preds[q]
    BY DEF SamePredicates, Current
  <1>2. sel' = {} /\ preds' = preds /\ names' = names
    BY DEF MissingColumn, SkipChunk
  <1>3. GivesUp(chunks', names, preds)
    <2>1. CASE ~Known(names, Current)
      BY <1>1, <2>1 DEF GivesUp
    <2>2. CASE Known(names, Current)
      <3> DEFINE c == ColumnOf(names, Current)
      <3>1. SkipChunk /\ chunks' = Ensured
        BY <2>2 DEF MissingColumn, SkipChunk
      <3>2. c \in DOMAIN chunks
        BY <2>2, ColumnFound
      <3>3. IsChunk(chunks[c])
        BY <3>2 DEF Shape
      <3>4. chunks'[c] = EnsureStats(chunks[c])
        BY <3>1, <3>2 DEF Ensured
      <3>5. Skippable(EnsureStats(chunks[c]), Current)
        BY <3>1, <3>4 DEF SkipChunk
      <3> HIDE DEF c
      <3>6. EnsureStats(chunks'[c]).stats = EnsureStats(chunks[c]).stats
            /\ EnsureStats(chunks'[c]).type = EnsureStats(chunks[c]).type
        BY <3>3, <3>4, EnsureTwice, EnsureKeeps
      <3>7. Skippable(EnsureStats(chunks'[c]), Current)
        BY <3>5, <3>6 DEF Skippable
      <3> QED BY <1>1, <3>7 DEF GivesUp, c
    <2> QED BY <2>1, <2>2
  <1> QED BY <1>2, <1>3 DEF OrderFree, EvaluatePredicates

\* The sort puts a predicate with the least hint first.
LEMMA SortIsBracketing ==
  ASSUME Shape, Sort
  PROVE  Bracketing'
PROOF
  <1>1. PICK order \in Bijection(DOMAIN preds, DOMAIN preds) :
          /\ \A i, j \in DOMAIN preds : i < j => preds[order[i]].hint <= preds[order[j]].hint
          /\ ordered' = [i \in DOMAIN preds |-> preds[order[i]]]
    BY DEF Sort
  <1>2. DOMAIN preds = 1 .. Len(preds) /\ Len(preds) \in Nat /\ preds # << >>
        /\ \A i \in DOMAIN preds : preds[i].hint \in Int
    BY FilterAssumption DEF Shape, Sort
  <1>3. \A i \in DOMAIN preds : order[i] \in DOMAIN preds
    BY DEF Bijection, Injection
  <1>4. p' = 1
    BY DEF Sort
  <1>5. ASSUME NEW i \in DOMAIN preds PROVE preds[order[1]].hint <= preds[order[i]].hint
    <2>1. 1 \in DOMAIN preds
      BY <1>2
    <2>2. CASE i = 1
      <3>1. preds[order[1]].hint \in Int
        BY <1>2, <1>3, <2>1
      <3> QED BY <2>2, <3>1
    <2>3. CASE i # 1
      <3>1. 1 < i
        BY <1>2, <1>5, <2>3
      <3> QED BY <1>1, <1>5, <2>1, <3>1
    <2> QED BY <2>2, <2>3
  <1>6. LeastFirst'
    <2>1. \A i \in DOMAIN ordered' : i \in DOMAIN preds /\ 1 \in DOMAIN preds
      BY <1>1, <1>2
    <2> QED BY <1>1, <1>5, <2>1 DEF LeastFirst
  <1> QED BY <1>4, <1>6 DEF Bracketing

\* One more predicate narrows the bracket.
LEMMA NarrowBrackets ==
  ASSUME Shape, SamePredicates, p \in DOMAIN ordered, p > 1 => Bracketed(p - 1), Narrow
  PROVE  Bracketed(p - 1)'
PROOF
  <1> DEFINE c == ColumnOf(names, Current)
             chunk == Ensured[c]
  <1>1. /\ Known(names, Current) /\ chunks' = Ensured /\ ~Skippable(chunk, Current)
        /\ sel' \in EvaluatePredicate(chunk, Current, InputRows)
        /\ p' = p + 1 /\ UNCHANGED <<names, preds, ordered>>
    BY DEF Narrow
  <1>2. c \in DOMAIN chunks /\ chunk = EnsureStats(chunks[c]) /\ IsChunk(chunks[c])
    BY <1>1, ColumnFound DEF Ensured, Shape
  <1>3. /\ chunk.type = chunks[c].type /\ chunk.num_rows = chunks[c].num_rows
        /\ chunk.has_nulls = chunks[c].has_nulls /\ chunk.nulls = chunks[c].nulls
        /\ chunk.data = chunks[c].data
    BY <1>2, EnsureKeeps
  <1>4. chunks[c] = ChunkFor(Current) /\ ordered[p] = Current
    BY DEF ChunkFor, Current
  <1>5. Retained(Current)
    BY <1>1, <1>2, <1>4 DEF Retained
  <1> HIDE DEF chunk, c
  <1>6. RowsOf(chunk) = RowsOf(ChunkFor(Current)) /\ chunk.type = ChunkFor(Current).type
        /\ \A r : Passes(chunk, Current, r) <=> Passes(ChunkFor(Current), Current, r)
    BY <1>3, <1>4 DEF RowsOf, Passes, IsNull
  <1>7. /\ sel' \subseteq InputRows
        /\ \A r \in sel' : Possible(r, Current)
        /\ \A r \in InputRows : Passes(chunk, Current, r) => r \in sel'
    <2>1. PICK lucky \in SUBSET (IF chunk.type = "STRING" THEN {} ELSE InputRows \ RowsOf(chunk)) :
            sel' = {r \in InputRows : Passes(chunk, Current, r)} \cup lucky
      BY <1>1 DEF EvaluatePredicate
    <2>2. \A r \in lucky : r \in InputRows /\ r \notin RowsOf(chunk) /\ chunk.type # "STRING"
      BY <2>1
    <2>3. \A r \in sel' : r \in InputRows /\ (Passes(chunk, Current, r) \/ r \in lucky)
      BY <2>1, <2>2
    <2>4. \A r \in sel' : Possible(r, Current)
      BY <1>6, <2>2, <2>3 DEF Possible
    <2>5. \A r \in InputRows : Passes(chunk, Current, r) => r \in sel'
      BY <2>1
    <2> QED BY <2>3, <2>4, <2>5
  <1>8. InputRows = IF p = 1 THEN RowsOf(chunk) ELSE sel
    BY DEF InputRows, chunk, c
  <1>9. p \in Nat /\ p >= 1
    <2>1. DOMAIN preds = 1 .. Len(preds) /\ Len(preds) \in Nat
      BY FilterAssumption DEF Shape
    <2>2. p \in 1 .. Len(preds)
      BY <2>1 DEF SamePredicates
    <2> QED BY <2>1, <2>2
  <1>10. \A r \in RowsOf(chunk) : Possible(r, Current) => Passes(chunk, Current, r)
    BY <1>6 DEF Possible
  <1>11. /\ \A i \in 1 .. p : Retained(ordered[i])
         /\ \A r \in sel' : r \in RowsOf(ChunkFor(ordered[1])) /\ \A i \in 1 .. p : Possible(r, ordered[i])
         /\ \A r : (\A i \in 1 .. p : r \in RowsOf(ChunkFor(ordered[i])) /\ Possible(r, ordered[i]))
                     => r \in sel'
    <2>1. CASE p = 1
      <3>1. 1 .. p = {1} /\ ordered[1] = Current
        BY <2>1, <1>4
      <3> QED BY <1>5, <1>6, <1>7, <1>8, <1>10, <2>1, <3>1
    <2>2. CASE p # 1
      <3>1. Bracketed(p - 1) /\ InputRows = sel
        BY <1>8, <1>9, <2>2
      <3>2. 1 .. p = (1 .. (p - 1)) \cup {p}
        BY <1>9, <2>2
      <3>3. \A i \in 1 .. p : Retained(ordered[i])
        BY <1>4, <1>5, <3>1, <3>2 DEF Bracketed
      <3>4. \A r \in sel' : r \in RowsOf(ChunkFor(ordered[1])) /\ \A i \in 1 .. p : Possible(r, ordered[i])
        BY <1>4, <1>7, <3>1, <3>2 DEF Bracketed
      <3>5. ASSUME NEW r, \A i \in 1 .. p : r \in RowsOf(ChunkFor(ordered[i])) /\ Possible(r, ordered[i])
            PROVE  r \in sel'
        <4>1. r \in sel
          BY <3>1, <3>2, <3>5 DEF Bracketed
        <4>2. r \in RowsOf(chunk) /\ Possible(r, Current)
          BY <1>4, <1>6, <3>2, <3>5
        <4> QED BY <1>7, <1>10, <3>1, <4>1, <4>2
      <3> QED BY <3>3, <3>4, <3>5
    <2> QED BY <2>1, <2>2
  <1>12. ASSUME NEW i \in 1 .. p
         PROVE  /\ Retained(ordered[i])' <=> Retained(ordered[i])
                /\ RowsOf(ChunkFor(ordered[i]))' = RowsOf(ChunkFor(ordered[i]))
                /\ \A r : Possible(r, ordered[i])' <=> Possible(r, ordered[i])
    <2>1. PICK pred : pred = ordered[i]
      OBVIOUS
    <2>2. Known(names, pred) /\ ordered'[i] = pred
      BY <1>1, <1>11, <2>1 DEF Retained
    <2>3. /\ Retained(pred)' <=> Retained(pred)
          /\ RowsOf(ChunkFor(pred))' = RowsOf(ChunkFor(pred))
          /\ \A r : Possible(r, pred)' <=> Possible(r, pred)
      BY <1>1, <2>2, StatsKeepVerdicts
    <2> QED BY <2>1, <2>2, <2>3 DEF Retained, Possible, ChunkFor
  <1>13. \A i \in 1 .. p : Retained(ordered[i])'
    BY <1>11, <1>12
  <1>14. 1 \in 1 .. p /\ p' - 1 = p
    BY <1>1, <1>9
  <1>15. \A r \in sel' : /\ r \in RowsOf(ChunkFor(ordered[1]))'
                       /\ \A i \in 1 .. p : Possible(r, ordered[i])'
    BY <1>11, <1>12, <1>14
  <1>16. \A r : (\A i \in 1 .. p : r \in RowsOf(ChunkFor(ordered[i]))' /\ Possible(r, ordered[i])')
                 => r \in sel'
    BY <1>11, <1>12
  <1> QED BY <1>13, <1>14, <1>15, <1>16 DEF Bracketed

\* A selection in the bracket of all predicates is one the closed form allows.
LEMMA BracketAllowed ==
  /\ Shape /\ SamePredicates /\ LeastFirst
  /\ preds # << >> /\ Bracketed(Len(preds))
  => sel \in EvaluatePredicates(chunks, names, preds)
PROOF
  <1> SUFFICES ASSUME Shape, SamePredicates, LeastFirst, preds # << >>, Bracketed(Len(preds))
               PROVE  sel \in EvaluatePredicates(chunks, names, preds)
    OBVIOUS
  <1> DEFINE chunkOf(q) == chunks[ColumnOf(names, preds[q])]
             first == {q \in DOMAIN preds : \A u \in DOMAIN preds : preds[q].hint <= preds[u].hint}
             possible(f) == {r \in RowsOf(chunkOf(f)) :
                               \A q \in DOMAIN preds :
                                 \/ Passes(chunkOf(q), preds[q], r)
                                 \/ r \notin RowsOf(chunkOf(q)) /\ chunkOf(q).type # "STRING"}
             certain(f)  == {r \in possible(f) : \A q \in DOMAIN preds : r \in RowsOf(chunkOf(q))}
  <1>1. DOMAIN preds = 1 .. Len(preds) /\ Len(preds) \in Nat /\ 1 \in DOMAIN preds
    BY FilterAssumption DEF Shape
  <1>2. PICK f \in DOMAIN preds : ordered[1] = preds[f]
    BY <1>1 DEF SamePredicates
  <1>3. f \in first
    <2>1. ASSUME NEW q \in DOMAIN preds PROVE preds[f].hint <= preds[q].hint
      <3>1. PICK i \in DOMAIN ordered : ordered[i] = preds[q]
        BY DEF SamePredicates
      <3>2. ordered[1].hint <= ordered[i].hint
        BY DEF LeastFirst
      <3> QED BY <1>2, <3>1, <3>2
    <2> QED BY <2>1
  <1>4. ~GivesUp(chunks, names, preds)
    <2>1. \A j \in DOMAIN preds : Retained(preds[j])
      BY <1>1 DEF SamePredicates, Bracketed
    <2> QED BY <2>1 DEF GivesUp, Retained, ChunkFor
  <1>5. \A q \in DOMAIN preds : \A r :
          Possible(r, preds[q]) <=> \/ Passes(chunkOf(q), preds[q], r)
                                    \/ r \notin RowsOf(chunkOf(q)) /\ chunkOf(q).type # "STRING"
    BY DEF Possible, ChunkFor
  <1>6. sel \subseteq possible(f)
    <2>1. ASSUME NEW r \in sel PROVE r \in RowsOf(chunkOf(f)) /\ \A j \in DOMAIN preds : Possible(r, preds[j])
      <3>1. r \in RowsOf(ChunkFor(preds[f]))
        BY <1>2, <2>1 DEF Bracketed
      <3>2. \A i \in DOMAIN ordered : Possible(r, ordered[i])
        BY <1>1, <2>1 DEF Bracketed, SamePredicates
      <3>3. \A j \in DOMAIN preds : Possible(r, preds[j])
        BY <3>2 DEF SamePredicates
      <3> QED BY <3>1, <3>3 DEF ChunkFor
    <2> QED BY <1>5, <2>1
  <1>7. certain(f) \subseteq sel
    <2>1. ASSUME NEW r \in certain(f) PROVE r \in sel
      <3>1. \A j \in DOMAIN preds : r \in RowsOf(chunkOf(j)) /\ Possible(r, preds[j])
        BY <1>5, <2>1
      <3>2. ASSUME NEW i \in 1 .. Len(preds)
            PROVE  r \in RowsOf(ChunkFor(ordered[i])) /\ Possible(r, ordered[i])
        <4>1. PICK j \in DOMAIN preds : ordered[i] = preds[j]
          BY <1>1 DEF SamePredicates
        <4> QED BY <3>1, <4>1 DEF ChunkFor
      <3> QED BY <3>2 DEF Bracketed
    <2> QED BY <2>1
  <1> HIDE DEF possible, certain, first
  <1>8. PICK lucky : lucky = sel \ certain(f)
    OBVIOUS
  <1>9. lucky \in SUBSET (possible(f) \ certain(f)) /\ sel = certain(f) \cup lucky
    BY <1>6, <1>7, <1>8
  <1>10. sel \in UNION {{certain(g) \cup l : l \in SUBSET (possible(g) \ certain(g))} : g \in first}
    BY <1>3, <1>9
  <1> QED BY <1>4, <1>10 DEF EvaluatePredicates, possible, certain, first

\* Every step keeps the bracket, and ends a call inside it.
LEMMA NextKeepsOrderFree == IInv /\ Bracketing /\ OrderFree /\ [Next]_vars => Bracketing' /\ OrderFree'
PROOF
  <1> SUFFICES ASSUME IInv, Bracketing, OrderFree, [Next]_vars PROVE Bracketing' /\ OrderFree'
    OBVIOUS
  <1>1. Shape /\ IInv'
    BY NextKeepsIInv DEF IInv
  <1>2. CASE FillAll
    BY <1>2 DEF FillAll, Bracketing, OrderFree
  <1>3. CASE Sort
    <2>1. Bracketing'
      BY <1>1, <1>3, SortIsBracketing
    <2> QED BY <1>3, <2>1 DEF Sort, OrderFree
  <1>4. CASE MissingColumn \/ SkipChunk
    <2>1. SamePredicates /\ p \in DOMAIN ordered /\ pc' = "done"
      BY <1>4 DEF MissingColumn, SkipChunk, IInv, InLoop
    <2>2. OrderFree'
      BY <1>1, <1>4, <2>1, LeavingIsOrderFree
    <2> QED BY <2>1, <2>2 DEF Bracketing
  <1>5. CASE Narrow
    <2>1. SamePredicates /\ p \in DOMAIN ordered /\ LeastFirst /\ (p > 1 => Bracketed(p - 1))
      BY <1>5 DEF Narrow, IInv, InLoop, Bracketing
    <2>2. Bracketed(p - 1)'
      BY <1>1, <1>5, <2>1, NarrowBrackets
    <2>3. LeastFirst' /\ SamePredicates' /\ UNCHANGED <<ordered, preds>>
          /\ p' = p + 1 /\ pc' = (IF p = Len(ordered) THEN "done" ELSE "loop")
      BY <1>5, <2>1 DEF Narrow, LeastFirst, SamePredicates
    <2>4. CASE p = Len(ordered)
      <3>1. DOMAIN ordered = 1 .. Len(preds) /\ Len(preds) \in Nat
        BY <1>1, <2>1, FilterAssumption DEF Shape, SamePredicates
      <3>2. Len(preds') = p' - 1
        BY <2>1, <2>3, <2>4, <3>1
      <3>3. Bracketed(Len(preds))'
        BY <2>2, <3>2
      <3>4. preds' # << >> => (sel \in EvaluatePredicates(chunks, names, preds))'
        <4>1. Shape'
          BY <1>1 DEF IInv
        <4>2. (/\ Shape /\ SamePredicates /\ LeastFirst
               /\ preds # << >> /\ Bracketed(Len(preds))
               => sel \in EvaluatePredicates(chunks, names, preds))'
          BY BracketAllowed, PTL
        <4> QED BY <2>3, <3>3, <4>1, <4>2
      <3> QED BY <2>3, <2>4, <3>4 DEF Bracketing, OrderFree
    <2>5. CASE p # Len(ordered)
      BY <2>2, <2>3, <2>5 DEF Bracketing, OrderFree
    <2> QED BY <2>4, <2>5
  <1>6. CASE NextCall
    BY <1>6 DEF NextCall, Bracketing, OrderFree
  <1>7. CASE UNCHANGED vars
    <2>1. OrderFree'
      BY <1>7 DEF vars, OrderFree
    <2>2. Bracketing'
      BY <1>7 DEF vars, Bracketing, LeastFirst, Bracketed, Retained, Possible, ChunkFor
    <2> QED BY <2>1, <2>2
  <1> QED BY <1>2, <1>3, <1>4, <1>5, <1>6, <1>7 DEF Next

\* evaluate_predicates (filter.cpp): however std::sort breaks ties, whatever
\* statistics the loop writes and wherever it leaves, the selection of a call
\* is one the closed form of the loop allows; the closed form, which module
\* Scan and the plan nodes use in place of the loop, is sound for it.
THEOREM OrderFreeAlways == Spec => []OrderFree
PROOF
  <1>1. Init => IInv /\ Bracketing /\ OrderFree
    BY InitIInv DEF Init, Bracketing, OrderFree
  <1> QED BY <1>1, NextKeepsIInv, NextKeepsOrderFree, PTL DEF Spec

-----------------------------------------------------------------------------
(* The loops over the rows of one chunk.                                   *)

\* Kernels takes rows in their order as Orders has it.
LEMMA KernelAscending ==
  ASSUME NEW S
  PROVE  Kernel!Ascending(S) = Ascending(S)
PROOF
  BY Zenon DEF Kernel!Ascending, Ascending, Kernel!Rank, Rank, Kernel!Cardinality, Cardinality

\* The selected rows up to c are those up to b and those from b on.
LEMMA SelectedJoin ==
  ASSUME NEW a \in Nat, NEW b \in Nat, NEW c \in Nat, a <= b, b <= c
  PROVE  /\ Kernel!SelectedRows(a, c) = Kernel!SelectedRows(a, b) \o Kernel!SelectedRows(b, c)
         /\ Kernel!SelectedRows(a, c) \in Seq(Nat)
         /\ Kernel!SelectedRows(a, a) = << >>
PROOF
  <1> DEFINE Rows(x, y) == {r \in x .. (y - 1) : Kernel!Selects(r)}
  <1>1. ASSUME NEW x \in Nat, NEW y \in Nat
        PROVE  Rows(x, y) \in SUBSET Nat /\ IsFiniteSet(Rows(x, y))
    <2>1. Rows(x, y) \in SUBSET (x .. (y - 1)) /\ y - 1 \in Int
      OBVIOUS
    <2>2. IsFiniteSet(x .. (y - 1))
      BY <2>1, FS_Interval
    <2> HIDE DEF Rows
    <2>3. IsFiniteSet(Rows(x, y))
      BY <2>1, <2>2, FS_Subset
    <2>4. (x .. (y - 1)) \subseteq Nat
      OBVIOUS
    <2> QED BY <2>1, <2>3, <2>4
  <1>2. Rows(a, c) = Rows(a, b) \cup Rows(b, c)
    <2>1. a .. (c - 1) = (a .. (b - 1)) \cup (b .. (c - 1))
      OBVIOUS
    <2> QED BY <2>1
  <1>3. \A x \in Rows(a, b), y \in Rows(b, c) : x < y
    <2> TAKE x \in Rows(a, b), y \in Rows(b, c)
    <2>1. x \in a .. (b - 1) /\ y \in b .. (c - 1)
      OBVIOUS
    <2> QED BY <2>1
  <1>4. Rows(a, a) = {}
    OBVIOUS
  <1>5. \A x, y : Kernel!SelectedRows(x, y) = Ascending(Rows(x, y))
    BY KernelAscending DEF Kernel!SelectedRows
  <1> HIDE DEF Rows
  <1>6. Ascending(Rows(a, b) \cup Rows(b, c))
          = Ascending(Rows(a, b)) \o Ascending(Rows(b, c))
    BY <1>1, <1>3, AscendingJoin
  <1>7. Ascending(Rows(a, c)) \in Seq(Nat)
    BY <1>1, AscendingRanks
  <1>8. Ascending({}) \in Seq(Nat) /\ Len(Ascending({})) = 0
    BY AscendingRanks, FS_EmptySet
  <1>9. Ascending({}) = << >>
    BY <1>8, EmptySeq
  <1> QED BY <1>2, <1>4, <1>5, <1>6, <1>7, <1>9

\* Rows are numbered one by one.
LEMMA NumberedJoin ==
  ASSUME NEW x \in Seq(Nat), NEW y \in Seq(Nat)
  PROVE  /\ Kernel!Numbered(x) \in Seq(Nat) /\ Len(Kernel!Numbered(x)) = Len(x)
         /\ Kernel!Numbered(x \o y) = Kernel!Numbered(x) \o Kernel!Numbered(y)
PROOF
  <1>1. ASSUME NEW r \in Nat PROVE Kernel!RowNumber(r) \in Nat
    BY <1>1, KernelAssumption DEF Kernel!RowNumber
  <1>2. ASSUME NEW z \in Seq(Nat)
        PROVE  /\ Kernel!Numbered(z) \in Seq(Nat) /\ Len(Kernel!Numbered(z)) = Len(z)
               /\ \A n \in 1 .. Len(z) : Kernel!Numbered(z)[n] = Kernel!RowNumber(z[n])
    <2>1. Kernel!Numbered(z) = [n \in 1 .. Len(z) |-> Kernel!RowNumber(z[n])]
      BY DEF Kernel!Numbered
    <2>2. \A n \in 1 .. Len(z) : Kernel!RowNumber(z[n]) \in Nat
      <3> TAKE n \in 1 .. Len(z)
      <3>1. z[n] \in Nat
        OBVIOUS
      <3> QED BY <1>1, <3>1
    <2> QED BY <2>1, <2>2
  <1> DEFINE a == Kernel!Numbered(x)
             b == Kernel!Numbered(y)
             c == Kernel!Numbered(x \o y)
  <1>3. x \o y \in Seq(Nat) /\ Len(x \o y) = Len(x) + Len(y)
    BY ConcatProperties
  <1>4. /\ a \in Seq(Nat) /\ Len(a) = Len(x) /\ b \in Seq(Nat) /\ Len(b) = Len(y)
        /\ c \in Seq(Nat) /\ Len(c) = Len(x) + Len(y)
    BY <1>2, <1>3
  <1>5. a \o b \in Seq(Nat) /\ Len(a \o b) = Len(c)
    BY <1>4, ConcatProperties
  <1>6. ASSUME NEW n \in 1 .. Len(c) PROVE c[n] = (a \o b)[n]
    <2>1. n \in 1 .. Len(x) + Len(y) /\ n \in Nat
      BY <1>4
    <2>2. c[n] = Kernel!RowNumber((x \o y)[n])
      BY <1>2, <1>3, <2>1
    <2>3. (x \o y)[n] = IF n <= Len(x) THEN x[n] ELSE y[n - Len(x)]
      BY <2>1, ConcatProperties
    <2>4. (a \o b)[n] = IF n <= Len(x) THEN a[n] ELSE b[n - Len(x)]
      <3>1. n \in 1 .. Len(a) + Len(b)
        BY <1>4, <2>1
      <3>2. a \in Seq(Nat) /\ b \in Seq(Nat) /\ Len(a) = Len(x)
        BY <1>4
      <3> HIDE DEF a, b
      <3>3. (a \o b)[n] = IF n <= Len(a) THEN a[n] ELSE b[n - Len(a)]
        BY <3>1, <3>2, ConcatProperties
      <3> QED BY <3>2, <3>3
    <2>5. CASE n <= Len(x)
      <3>1. n \in 1 .. Len(x)
        BY <2>1, <2>5
      <3>2. a[n] = Kernel!RowNumber(x[n])
        BY <1>2, <3>1
      <3> HIDE DEF a, b, c
      <3> QED BY <2>2, <2>3, <2>4, <2>5, <3>2
    <2>6. CASE ~(n <= Len(x))
      <3>1. n - Len(x) \in 1 .. Len(y)
        BY <2>1, <2>6
      <3>2. b[n - Len(x)] = Kernel!RowNumber(y[n - Len(x)])
        BY <1>2, <3>1
      <3> HIDE DEF a, b, c
      <3> QED BY <2>2, <2>3, <2>4, <2>6, <3>2
    <2> QED BY <2>5, <2>6
  <1> HIDE DEF a, b, c
  <1>7. c = a \o b
    BY <1>4, <1>5, <1>6, SeqEqual
  <1> QED BY <1>4, <1>7 DEF a, b, c

\* A batch ends behind its first row and at the end of the chunk at the latest.
LEMMA BatchBounds ==
  ASSUME Len(data) \in Nat, row \in Nat, row < Len(data)
  PROVE  Kernel!BatchEnd \in Nat /\ row <= Kernel!BatchEnd /\ Kernel!BatchEnd <= Len(data)
PROOF
  <1> DEFINE a == row + BatchSize
             b == Len(data)
  <1>1. a \in Nat /\ row <= a /\ b \in Nat
    BY KernelAssumption
  <1> HIDE DEF a, b
  <1>2. \E x \in {a, b} : \A y \in {a, b} : x <= y
    <2>1. a <= b \/ b <= a
      BY <1>1
    <2>2. a <= a /\ b <= b
      BY <1>1
    <2> QED BY <2>1, <2>2
  <1> DEFINE m == Kernel!Min({a, b})
  <1>3. m \in {a, b} /\ \A y \in {a, b} : m <= y
    BY <1>2 DEF Kernel!Min
  <1> HIDE DEF m
  <1>4. m \in Nat /\ row <= m /\ m <= b
    BY <1>1, <1>3 DEF b
  <1>5. Kernel!BatchEnd = IF kernel = "fill_all" THEN Len(data) ELSE m
    BY DEF Kernel!BatchEnd, m, a, b
  <1> QED BY <1>4, <1>5 DEF b

SelectionKernel == kernel # "filter_gt_int32_batch"

\* A kernel has selected the rows up to row, as many as there is room for.
RowsSoFar ==
  /\ kernel \in Kernel!KernelNames
  /\ Len(data) \in Nat /\ row \in 0 .. Len(data)
  /\ phase \in {"batches", "overrun", "sum", "done"}
  /\ phase # "overrun" =>
       /\ rows = Kernel!Numbered(Kernel!SelectedRows(0, row))
       /\ SelectionKernel => Len(rows) <= ChunkSize
  /\ phase = "overrun" => SelectionKernel /\ Len(Kernel!Wanted) > ChunkSize
  /\ phase \in {"sum", "done"} => row = Len(data)

\* No kernel runs, or one that has gone as far as this.
KernelInv == NoKernel \/ RowsSoFar

\* What has been selected decides what a kernel returns.
LEMMA SoFarExact ==
  KernelInv => RowsExact
PROOF
  <1> SUFFICES ASSUME KernelInv PROVE RowsExact
    OBVIOUS
  <1>1. CASE NoKernel
    <2>1. Len(data) = 0
      BY <1>1 DEF NoKernel
    <2>2. Len(Kernel!Wanted) = 0
      BY <2>1, SelectedJoin DEF Kernel!Wanted
    <2>3. ~(Len(Kernel!Wanted) > ChunkSize)
      BY <2>2, KernelAssumption
    <2>4. phase = "rest"
      BY <1>1 DEF NoKernel
    <2> QED BY <2>3, <2>4 DEF RowsExact, Kernel!RowsExact
  <1>2. CASE RowsSoFar
    <2>1. Kernel!Wanted \in Seq(Nat)
      <3>1. Len(data) \in Nat
        BY <1>2 DEF RowsSoFar
      <3>2. Kernel!SelectedRows(0, Len(data)) \in Seq(Nat)
        <4>1. PICK n \in Nat : n = Len(data)
          BY <3>1
        <4>2. 0 \in Nat /\ 0 <= n /\ n <= n
          OBVIOUS
        <4>3. Kernel!SelectedRows(0, n) \in Seq(Nat)
          BY <4>2, SelectedJoin
        <4> QED BY <4>1, <4>3
      <3> QED BY <3>2 DEF Kernel!Wanted
    <2>2. Kernel!Numbered(Kernel!Wanted) \in Seq(Nat) /\ Len(Kernel!Numbered(Kernel!Wanted)) = Len(Kernel!Wanted)
      BY <2>1, NumberedJoin
    <2>3. Kernel!Numbered(Kernel!Wanted)
            = IF SelectionKernel THEN [n \in DOMAIN Kernel!Wanted |-> Kernel!Wanted[n] % ChunkSize]
              ELSE Kernel!Wanted
      <3>1. CASE SelectionKernel
        BY <3>1 DEF Kernel!Numbered, Kernel!RowNumber, SelectionKernel
      <3>2. CASE ~SelectionKernel
        <4>1. Kernel!Numbered(Kernel!Wanted) = [n \in DOMAIN Kernel!Wanted |-> Kernel!Wanted[n]]
          BY <3>2 DEF Kernel!Numbered, Kernel!RowNumber, SelectionKernel
        <4>2. Kernel!Wanted = [n \in DOMAIN Kernel!Wanted |-> Kernel!Wanted[n]]
          BY <2>1
        <4> QED BY <3>2, <4>1, <4>2
      <3> QED BY <3>1, <3>2
    <2>4. ASSUME phase \in {"sum", "done"}
          PROVE  rows = Kernel!Numbered(Kernel!Wanted) /\ (SelectionKernel => Len(rows) <= ChunkSize)
      BY <1>2, <2>4 DEF RowsSoFar, Kernel!Wanted
    <2>5. ASSUME phase \in {"sum", "done"}, SelectionKernel PROVE ~(Len(Kernel!Wanted) > ChunkSize)
      <3>1. Len(Kernel!Wanted) <= ChunkSize /\ Len(Kernel!Wanted) \in Nat
        BY <2>1, <2>2, <2>4, <2>5
      <3> QED BY <3>1, KernelAssumption
    <2>6. phase = "overrun" => SelectionKernel /\ Len(Kernel!Wanted) > ChunkSize
      BY <1>2 DEF RowsSoFar
    <2>7. phase \in {"batches", "overrun", "sum", "done"}
      BY <1>2 DEF RowsSoFar
    <2> QED BY <2>3, <2>4, <2>5, <2>6, <2>7 DEF RowsExact, Kernel!RowsExact, SelectionKernel
  <1> QED BY <1>1, <1>2 DEF KernelInv

LEMMA KernelStarts ==
  Kernel!Init => RowsSoFar
PROOF
  <1> SUFFICES ASSUME Kernel!Init PROVE RowsSoFar
    OBVIOUS
  <1>1. kernel \in Kernel!KernelNames /\ row = 0 /\ rows = << >> /\ phase = "batches"
    BY DEF Kernel!Init
  <1>2. Len(data) \in Nat
    <2>1. PICK n \in 0 .. MaxRows : data \in [1 .. n -> {"pass", "fail", "null"}]
      BY DEF Kernel!Init
    <2>2. DOMAIN data = 1 .. n /\ n \in Nat
      BY <2>1, KernelAssumption
    <2> QED BY <2>1, <2>2
  <1>3. Kernel!SelectedRows(0, 0) = << >>
    <2>1. 0 \in Nat /\ 0 <= 0
      OBVIOUS
    <2> QED BY <2>1, SelectedJoin
  <1>4. Kernel!Numbered(<< >>) = << >>
    <2>1. Kernel!Numbered(<< >>) \in Seq(Nat) /\ Len(Kernel!Numbered(<< >>)) = 0
      <3>1. << >> \in Seq(Nat) /\ Len(<< >>) = 0
        OBVIOUS
      <3> QED BY <3>1, NumberedJoin
    <2> QED BY <2>1, EmptySeq
  <1>5. Len(<< >>) <= ChunkSize
    BY KernelAssumption
  <1> QED BY <1>1, <1>2, <1>3, <1>4, <1>5 DEF RowsSoFar

LEMMA KernelInit ==
  EvaluationInit => KernelInv
PROOF
  BY KernelStarts DEF EvaluationInit, KernelInv

\* A batch adds the selected rows of its part of the chunk.
LEMMA BatchGoesOn ==
  ASSUME RowsSoFar, Kernel!Batch
  PROVE  RowsSoFar'
PROOF
  <1> DEFINE e == Kernel!BatchEnd
             here == Kernel!SelectedRows(0, row)
             next == Kernel!SelectedRows(row, e)
  <1>1. /\ phase = "batches" /\ row \in Nat /\ row < Len(data) /\ Len(data) \in Nat
        /\ rows = Kernel!Numbered(here) /\ (SelectionKernel => Len(rows) <= ChunkSize)
        /\ kernel' = kernel /\ data' = data /\ kernel \in Kernel!KernelNames
    BY DEF RowsSoFar, Kernel!Batch
  <1>2. e \in Nat /\ row <= e /\ e <= Len(data)
    BY <1>1, BatchBounds
  <1>3. \A x, y : Kernel!SelectedRows(x, y)' = Kernel!SelectedRows(x, y)
    BY <1>1 DEF Kernel!SelectedRows, Kernel!Selects
  <1>4. \A x : Kernel!Numbered(x)' = Kernel!Numbered(x)
    BY <1>1 DEF Kernel!Numbered, Kernel!RowNumber
  <1>5. Kernel!BatchRows = Kernel!Numbered(next)
    BY DEF Kernel!BatchRows
  <1>6. /\ here \in Seq(Nat) /\ next \in Seq(Nat)
        /\ Kernel!SelectedRows(0, e) = here \o next
    <2>1. PICK m, n \in Nat : m = row /\ n = e
      BY <1>1, <1>2
    <2>2. 0 \in Nat /\ 0 <= m /\ m <= m /\ m <= n /\ n <= n /\ 0 <= 0
      BY <1>2, <2>1
    <2>3. /\ Kernel!SelectedRows(0, m) \in Seq(Nat) /\ Kernel!SelectedRows(m, n) \in Seq(Nat)
          /\ Kernel!SelectedRows(0, n) = Kernel!SelectedRows(0, m) \o Kernel!SelectedRows(m, n)
      BY <2>2, SelectedJoin
    <2> QED BY <2>1, <2>3
  <1> HIDE DEF e, here, next
  <1>7. /\ Kernel!Numbered(here \o next) = rows \o Kernel!BatchRows
        /\ rows \in Seq(Nat) /\ Len(rows) = Len(here)
        /\ Kernel!BatchRows \in Seq(Nat) /\ Len(Kernel!BatchRows) = Len(next)
    BY <1>1, <1>5, <1>6, NumberedJoin
  <1>8. CASE Kernel!Fits(Kernel!BatchRows)
    <2>1. rows' = rows \o Kernel!BatchRows /\ row' = e /\ phase' = "batches"
      BY <1>1, <1>8 DEF Kernel!Batch, e
    <2>2. rows' = Kernel!Numbered(Kernel!SelectedRows(0, row'))
      BY <1>6, <1>7, <2>1
    <2>3. SelectionKernel => Len(rows') <= ChunkSize
      BY <1>8, <2>1 DEF Kernel!Fits, SelectionKernel
    <2> QED BY <1>1, <1>2, <1>3, <1>4, <2>1, <2>2, <2>3 DEF RowsSoFar, SelectionKernel
  <1>9. CASE ~Kernel!Fits(Kernel!BatchRows)
    <2>1. phase' = "overrun" /\ row' = row /\ rows' = rows
      BY <1>9 DEF Kernel!Batch
    <2>2. SelectionKernel /\ ~(Len(rows \o Kernel!BatchRows) <= ChunkSize)
      BY <1>9 DEF Kernel!Fits, SelectionKernel
    <2>3. Len(rows \o Kernel!BatchRows) = Len(here) + Len(next)
      <3>1. Len(rows \o Kernel!BatchRows) = Len(rows) + Len(Kernel!BatchRows)
        BY <1>7, ConcatProperties
      <3> QED BY <1>7, <3>1
    <2>4. PICK rest \in Seq(Nat) : Kernel!Wanted = (here \o next) \o rest
      <3>1. 0 <= e
        BY <1>2
      <3>2. /\ Kernel!SelectedRows(0, Len(data)) = (here \o next) \o Kernel!SelectedRows(e, Len(data))
            /\ Kernel!SelectedRows(e, Len(data)) \in Seq(Nat)
        <4>1. PICK m, n \in Nat : m = e /\ n = Len(data)
          BY <1>1, <1>2
        <4>2. 0 \in Nat /\ 0 <= m /\ m <= n /\ n <= n
          BY <1>2, <4>1
        <4>3. /\ Kernel!SelectedRows(0, n) = Kernel!SelectedRows(0, m) \o Kernel!SelectedRows(m, n)
              /\ Kernel!SelectedRows(m, n) \in Seq(Nat)
          BY <4>2, SelectedJoin
        <4> QED BY <1>6, <4>1, <4>3
      <3> QED BY <3>2 DEF Kernel!Wanted
    <2>5. Len(Kernel!Wanted) = (Len(here) + Len(next)) + Len(rest)
      <3>1. here \o next \in Seq(Nat) /\ Len(here \o next) = Len(here) + Len(next)
        BY <1>6, ConcatProperties
      <3>2. Len((here \o next) \o rest) = Len(here \o next) + Len(rest)
        BY <3>1, ConcatProperties
      <3> QED BY <2>4, <3>1, <3>2
    <2>6. Len(Kernel!Wanted) > ChunkSize
      <3>1. PICK l, m, n \in Nat : l = Len(here) /\ m = Len(next) /\ n = Len(rest)
        BY <1>6, <2>4
      <3>2. ~(l + m <= ChunkSize)
        BY <2>2, <2>3, <3>1
      <3>3. l + m + n > ChunkSize
        BY <3>2, KernelAssumption
      <3> QED BY <2>5, <3>1, <3>3
    <2>7. Kernel!Wanted' = Kernel!Wanted
      BY <1>1, <1>3 DEF Kernel!Wanted
    <2>8. Len(Kernel!Wanted)' > ChunkSize
      BY <2>6, <2>7
    <2> QED BY <1>1, <2>1, <2>2, <2>8 DEF RowsSoFar, SelectionKernel
  <1> QED BY <1>8, <1>9

\* What neither the sum nor the end of the rows changes.
LEMMA SameSoFar ==
  ASSUME RowsSoFar, UNCHANGED <<kernel, data, row, rows>>,
         phase' # "overrun", phase # "overrun",
         phase' \in {"batches", "sum", "done"},
         phase' \in {"sum", "done"} => row = Len(data)
  PROVE  RowsSoFar'
PROOF
  <1>1. \A x, y : Kernel!SelectedRows(x, y)' = Kernel!SelectedRows(x, y)
    BY DEF Kernel!SelectedRows, Kernel!Selects
  <1>2. \A x : Kernel!Numbered(x)' = Kernel!Numbered(x)
    BY DEF Kernel!Numbered, Kernel!RowNumber
  <1>3. /\ kernel' = kernel /\ data' = data /\ row' = row /\ rows' = rows
    OBVIOUS
  <1> QED BY <1>1, <1>2, <1>3 DEF RowsSoFar, SelectionKernel

LEMMA KernelKeeps ==
  KernelInv /\ [EvaluationNext]_<<vars, kernelVars>> => KernelInv'
PROOF
  <1> SUFFICES ASSUME KernelInv, [EvaluationNext]_<<vars, kernelVars>> PROVE KernelInv'
    OBVIOUS
  <1>1. CASE UNCHANGED kernelVars
    <2>1. /\ kernel' = kernel /\ data' = data /\ row' = row /\ rows' = rows /\ phase' = phase
          /\ k' = k /\ s' = s
      BY <1>1 DEF kernelVars
    <2>2. \A x, y : Kernel!SelectedRows(x, y)' = Kernel!SelectedRows(x, y)
      BY <2>1 DEF Kernel!SelectedRows, Kernel!Selects
    <2>3. \A x : Kernel!Numbered(x)' = Kernel!Numbered(x)
      BY <2>1 DEF Kernel!Numbered, Kernel!RowNumber
    <2>4. Kernel!Wanted' = Kernel!Wanted
      BY <2>1, <2>2 DEF Kernel!Wanted
    <2>5. CASE NoKernel
      BY <2>1, <2>5 DEF KernelInv, NoKernel
    <2>6. CASE RowsSoFar
      BY <2>1, <2>2, <2>3, <2>4, <2>6 DEF KernelInv, RowsSoFar, SelectionKernel
    <2> QED BY <2>5, <2>6 DEF KernelInv
  <1>2. CASE Kernel!Next
    <2>1. phase \in {"batches", "sum"}
      BY <1>2 DEF Kernel!Next, Kernel!Batch, Kernel!EndOfRows, Kernel!AddFour, Kernel!AddOne,
                  Kernel!Summed
    <2>2. RowsSoFar
      BY <2>1 DEF KernelInv, NoKernel
    <2>3. CASE Kernel!Batch
      BY <2>2, <2>3, BatchGoesOn DEF KernelInv
    <2>4. CASE Kernel!EndOfRows
      <3>1. /\ UNCHANGED <<kernel, data, row, rows>> /\ phase # "overrun" /\ row = Len(data)
            /\ phase' \in {"sum", "done"}
        BY <2>4 DEF Kernel!EndOfRows
      <3> QED BY <2>2, <3>1, SameSoFar DEF KernelInv
    <2>5. CASE Kernel!AddFour \/ Kernel!AddOne \/ Kernel!Summed
      <3>1. /\ UNCHANGED <<kernel, data, row, rows>> /\ phase = "sum" /\ phase' \in {"sum", "done"}
        BY <2>5 DEF Kernel!AddFour, Kernel!AddOne, Kernel!Summed
      <3>2. row = Len(data)
        BY <2>2, <3>1 DEF RowsSoFar
      <3> QED BY <2>2, <3>1, <3>2, SameSoFar DEF KernelInv
    <2> QED BY <1>2, <2>3, <2>4, <2>5 DEF Kernel!Next
  <1>3. CASE EvaluationNext
    BY <1>1, <1>2, <1>3 DEF EvaluationNext
  <1> QED BY <1>1, <1>3

\* scan_gt_int32, evaluate_predicate, fill_all (filter.cpp) and
\* filter_gt_int32_batch (batch.cpp), for chunks of any length, batches and
\* row numbers of any size: each row that passes is returned once and in
\* order, wherever the borders of the batches lie, numbered modulo
\* CHUNK_SIZE; and memory behind a selection vector is written exactly when
\* more than CHUNK_SIZE rows pass.
THEOREM RowsExactAlways == EvaluationSpec => []RowsExact
PROOF
  <1>1. KernelInv => RowsExact
    BY SoFarExact
  <1> QED BY <1>1, KernelInit, KernelKeeps, PTL DEF EvaluationSpec

-----------------------------------------------------------------------------
(* The sum over a selection.                                               *)

\* The sums of the values of the first n selected rows.
Totals ==
  CHOOSE f : f = [n \in 0 .. Len(rows) |-> IF n = 0 THEN 0 ELSE f[n - 1] + Kernel!Value(n)]

\* The sums add one row after the other.
LEMMA TotalsUnfold ==
  ASSUME rows \in Seq(Nat)
  PROVE  /\ Kernel!Total = Totals[Len(rows)]
         /\ Totals[0] = 0
         /\ \A n \in 1 .. Len(rows) :
              Totals[n] = Totals[n - 1] + Kernel!Value(n) /\ Kernel!Value(n) \in Int
         /\ \A n \in 0 .. Len(rows) : Totals[n] \in Int
PROOF
  <1>1. PICK len \in Nat : len = Len(rows)
    OBVIOUS
  <1>2. PICK val : val = [n \in 1 .. len |-> Kernel!Value(n)]
    OBVIOUS
  <1>3. \A n \in 1 .. len : val[n] = Kernel!Value(n) /\ val[n] \in Int
    <2> TAKE n \in 1 .. len
    <2>1. rows[n] \in Nat
      BY <1>1
    <2>2. Kernel!Value(n) = 2^rows[n] /\ 2^rows[n] \in Int
      BY <2>1 DEF Kernel!Value
    <2> QED BY <1>2, <2>2
  <1> DEFINE Unfolds(f, m) == f = [n \in 0 .. m |-> IF n = 0 THEN 0 ELSE f[n - 1] + val[n]]
  <1>4. ASSUME NEW m \in 0 .. len PROVE \E f : Unfolds(f, m)
    <2> DEFINE Without == {n \in 0 .. len : ~\E f : Unfolds(f, n)}
    <2>1. ASSUME Without # {} PROVE FALSE
      <3>1. Without \in SUBSET Int /\ \A n \in Without : 0 <= n
        OBVIOUS
      <3> HIDE DEF Without
      <3>2. PICK n \in Without : \A q \in Without : n <= q
        <4>1. 0 \in Int
          OBVIOUS
        <4> QED BY <2>1, <3>1, <4>1, LeastInteger
      <3>3. n \in 0 .. len /\ ~\E f : Unfolds(f, n)
        BY <3>2 DEF Without
      <3>4. CASE n = 0
        <4>1. Unfolds([q \in 0 .. 0 |-> 0], 0)
          OBVIOUS
        <4> QED BY <3>3, <3>4, <4>1
      <3>5. CASE n # 0
        <4>1. n - 1 \in 0 .. len /\ n - 1 \notin Without
          BY <3>2, <3>3, <3>5, <3>1
        <4>2. PICK g : Unfolds(g, n - 1)
          BY <4>1 DEF Without
        <4> DEFINE h == [q \in 0 .. n |-> IF q = n THEN g[n - 1] + val[n] ELSE g[q]]
        <4>3. ASSUME NEW q \in 0 .. n
              PROVE  h[q] = IF q = 0 THEN 0 ELSE h[q - 1] + val[q]
          <5>1. CASE q = n
            <6>1. n - 1 \in 0 .. n /\ n - 1 # n
              BY <3>3, <3>5
            <6> QED BY <3>5, <5>1, <6>1
          <5>2. CASE q # n
            <6>1. q \in 0 .. (n - 1)
              BY <3>3, <5>2
            <6>2. g[q] = IF q = 0 THEN 0 ELSE g[q - 1] + val[q]
              BY <4>2, <6>1
            <6>3. q # 0 => q - 1 \in 0 .. n /\ q - 1 # n
              BY <3>3, <5>2
            <6> QED BY <5>2, <6>2, <6>3
          <5> QED BY <5>1, <5>2
        <4>4. Unfolds(h, n)
          <5>1. h = [q \in 0 .. n |-> h[q]]
            OBVIOUS
          <5> HIDE DEF h
          <5> QED BY <4>3, <5>1
        <4> QED BY <3>3, <4>4
      <3> QED BY <3>4, <3>5
    <2> QED BY <2>1
  <1> DEFINE Sums(f) == f = [n \in 0 .. Len(rows) |-> IF n = 0 THEN 0 ELSE f[n - 1] + Kernel!Value(n)]
  <1>5. Sums(Totals)
    <2>1. PICK f : Unfolds(f, len)
      <3>1. len \in 0 .. len
        OBVIOUS
      <3> HIDE DEF Unfolds
      <3> QED BY <1>4, <3>1
    <2>2. f = [n \in 0 .. Len(rows) |-> IF n = 0 THEN 0 ELSE f[n - 1] + Kernel!Value(n)]
      <3>1. f = [n \in 0 .. len |-> IF n = 0 THEN 0 ELSE f[n - 1] + val[n]]
        BY <2>1
      <3>2. \A n \in 0 .. len : n # 0 => val[n] = Kernel!Value(n)
        BY <1>3
      <3> QED BY <1>1, <3>1, <3>2, SMTT(30)
    <2>3. Totals = CHOOSE g : Sums(g)
      BY DEF Totals
    <2>4. Sums(f)
      BY <2>2
    <2> HIDE DEF Sums
    <2> QED BY <2>3, <2>4, Zenon
  <1>6. PICK t : t = Totals
    OBVIOUS
  <1>7. t = [n \in 0 .. len |-> IF n = 0 THEN 0 ELSE t[n - 1] + Kernel!Value(n)]
    BY <1>1, <1>5, <1>6
  <1>8. \A n \in 0 .. len : t[n] = IF n = 0 THEN 0 ELSE t[n - 1] + val[n]
    <2> TAKE n \in 0 .. len
    <2>1. t[n] = IF n = 0 THEN 0 ELSE t[n - 1] + Kernel!Value(n)
      BY <1>7
    <2>2. n # 0 => n \in 1 .. len
      OBVIOUS
    <2> QED BY <1>3, <2>1, <2>2
  <1>9. \A n \in 0 .. len : t[n] \in Int
    <2> DEFINE Other == {n \in 0 .. len : t[n] \notin Int}
    <2>1. ASSUME Other # {} PROVE FALSE
      <3>1. Other \in SUBSET Int /\ \A n \in Other : 0 <= n
        OBVIOUS
      <3> HIDE DEF Other
      <3>2. PICK n \in Other : \A q \in Other : n <= q
        <4>1. 0 \in Int
          OBVIOUS
        <4> QED BY <2>1, <3>1, <4>1, LeastInteger
      <3>3. n \in 0 .. len /\ t[n] \notin Int
        BY <3>2 DEF Other
      <3>4. n # 0
        BY <1>8, <3>3
      <3>5. n - 1 \in 0 .. len /\ ~(n <= n - 1) /\ n \in 1 .. len
        BY <3>3, <3>4
      <3>6. t[n - 1] \in Int
        BY <3>2, <3>5 DEF Other
      <3> QED BY <1>3, <1>8, <3>3, <3>4, <3>5, <3>6
    <2> QED BY <2>1
  <1>10. Kernel!Total = Totals[Len(rows)]
    BY DEF Kernel!Total, Totals
  <1>11. \A n \in 1 .. len : n \in 0 .. len /\ n # 0
    OBVIOUS
  <1> QED BY <1>1, <1>3, <1>6, <1>8, <1>9, <1>10, <1>11

\* The four sums together are the sum of the first k selected rows.
SumSoFar ==
  /\ s = [a \in 0 .. 3 |-> s[a]] /\ \A a \in 0 .. 3 : s[a] \in Int
  /\ phase = "batches" => k = 0 /\ s[0] + s[1] + s[2] + s[3] = 0
  /\ phase = "sum" => SelectionKernel
  /\ phase \in {"sum", "done"} /\ SelectionKernel =>
       k \in 0 .. Len(rows) /\ s[0] + s[1] + s[2] + s[3] = Totals[k]
  /\ phase = "done" /\ SelectionKernel => k = Len(rows)

SumInv == NoKernel \/ (RowsSoFar /\ SumSoFar)

LEMMA RowsAreNumbers ==
  ASSUME RowsSoFar, phase # "overrun"
  PROVE  rows \in Seq(Nat)
PROOF
  <1>1. rows = Kernel!Numbered(Kernel!SelectedRows(0, row))
    BY DEF RowsSoFar
  <1>2. PICK n \in Nat : n = row
    BY DEF RowsSoFar
  <1>3. 0 \in Nat /\ 0 <= n /\ n <= n
    OBVIOUS
  <1>4. Kernel!SelectedRows(0, n) \in Seq(Nat)
    BY <1>3, SelectedJoin
  <1>5. Kernel!Numbered(Kernel!SelectedRows(0, n)) \in Seq(Nat)
    BY <1>4, NumberedJoin
  <1> QED BY <1>1, <1>2, <1>5

\* What is added is the next of the sums.
LEMMA SumStep ==
  ASSUME RowsSoFar, SumSoFar, Kernel!AddFour \/ Kernel!AddOne \/ Kernel!Summed
  PROVE  SumSoFar'
PROOF
  <1>1. /\ phase = "sum" /\ kernel' = kernel /\ rows' = rows
    BY DEF Kernel!AddFour, Kernel!AddOne, Kernel!Summed
  <1>2. rows \in Seq(Nat)
    BY <1>1, RowsAreNumbers
  <1>3. Totals' = Totals
    BY <1>1 DEF Totals, Kernel!Value
  <1>4. PICK t : t = Totals
    OBVIOUS
  <1>5. PICK len \in Nat : len = Len(rows)
    BY <1>2
  <1>6. PICK m \in 0 .. len : m = k
    BY <1>1, <1>5 DEF SumSoFar
  <1>7. /\ \A n \in 1 .. len : t[n] = t[n - 1] + Kernel!Value(n) /\ Kernel!Value(n) \in Int
        /\ \A n \in 0 .. len : t[n] \in Int
    BY <1>2, <1>4, <1>5, TotalsUnfold
  <1>8. PICK a, b, c, d \in Int : a = s[0] /\ b = s[1] /\ c = s[2] /\ d = s[3]
    BY DEF SumSoFar
  <1>9. SelectionKernel /\ SelectionKernel' /\ a + b + c + d = t[m]
    BY <1>1, <1>4, <1>6, <1>8 DEF SumSoFar, SelectionKernel
  <1>10. ASSUME Kernel!AddFour PROVE SumSoFar'
    <2>1. /\ m + 4 <= len /\ k' = m + 4 /\ phase' = "sum"
          /\ s' = [x \in 0 .. 3 |-> s[x] + Kernel!Value(k + 1 + x)]
      BY <1>1, <1>5, <1>6, <1>10 DEF Kernel!AddFour
    <2>2. /\ m + 1 \in 1 .. len /\ m + 2 \in 1 .. len /\ m + 3 \in 1 .. len /\ m + 4 \in 1 .. len
          /\ m + 1 - 1 = m /\ m + 2 - 1 = m + 1 /\ m + 3 - 1 = m + 2 /\ m + 4 - 1 = m + 3
      BY <2>1
    <2>3. PICK e, f, g, h \in Int :
            /\ e = Kernel!Value(m + 1) /\ f = Kernel!Value(m + 2)
            /\ g = Kernel!Value(m + 3) /\ h = Kernel!Value(m + 4)
      BY <1>7, <2>2
    <2>4. /\ t[m + 1] = t[m] + e /\ t[m + 2] = t[m + 1] + f
          /\ t[m + 3] = t[m + 2] + g /\ t[m + 4] = t[m + 3] + h
      BY <1>7, <2>2, <2>3
    <2>5. m \in Int /\ m + 1 + 0 = m + 1 /\ m + 1 + 1 = m + 2 /\ m + 1 + 2 = m + 3 /\ m + 1 + 3 = m + 4
      OBVIOUS
    <2>6. s'[0] = a + e /\ s'[1] = b + f /\ s'[2] = c + g /\ s'[3] = d + h
      BY <1>6, <1>8, <2>1, <2>3, <2>5
    <2>7. s'[0] + s'[1] + s'[2] + s'[3] = t[m + 4]
      <3>1. t[m + 4] = t[m] + e + f + g + h /\ t[m] \in Int
        BY <1>7, <2>2, <2>4
      <3> QED BY <1>9, <2>6, <3>1
    <2>8. s' = [x \in 0 .. 3 |-> s'[x]]
      BY <2>1
    <2>9. \A x \in 0 .. 3 : s'[x] \in Int
      BY <2>6
    <2>10. m + 4 \in 0 .. len
      BY <2>1
    <2> QED BY <1>1, <1>3, <1>4, <1>5, <1>9, <2>1, <2>7, <2>8, <2>9, <2>10 DEF SumSoFar
  <1>11. ASSUME Kernel!AddOne PROVE SumSoFar'
    <2>1. /\ m < len /\ k' = m + 1 /\ phase' = "sum"
          /\ s' = [s EXCEPT ![0] = @ + Kernel!Value(k + 1)]
      BY <1>1, <1>5, <1>6, <1>11 DEF Kernel!AddOne
    <2>2. m + 1 \in 1 .. len /\ m + 1 - 1 = m
      BY <2>1
    <2>3. PICK e \in Int : e = Kernel!Value(m + 1)
      BY <1>7, <2>2
    <2>4. t[m + 1] = t[m] + e /\ t[m] \in Int
      BY <1>7, <2>2, <2>3
    <2>5. s'[0] = a + e /\ s'[1] = b /\ s'[2] = c /\ s'[3] = d /\ s' = [x \in 0 .. 3 |-> s'[x]]
      <3>1. s = [x \in 0 .. 3 |-> s[x]]
        BY DEF SumSoFar
      <3>2. DOMAIN s = 0 .. 3
        BY <3>1
      <3>3. s' = [x \in 0 .. 3 |-> IF x = 0 THEN s[0] + Kernel!Value(k + 1) ELSE s[x]]
        BY <2>1, <3>2
      <3> QED BY <1>6, <1>8, <2>3, <3>3
    <2>6. s'[0] + s'[1] + s'[2] + s'[3] = t[m + 1]
      BY <1>9, <2>4, <2>5
    <2>7. \A x \in 0 .. 3 : s'[x] \in Int
      BY <2>5
    <2>8. m + 1 \in 0 .. len
      BY <2>1
    <2> QED BY <1>1, <1>3, <1>4, <1>5, <1>9, <2>1, <2>5, <2>6, <2>7, <2>8 DEF SumSoFar
  <1>12. ASSUME Kernel!Summed PROVE SumSoFar'
    <2>1. k = Len(rows) /\ k' = k /\ s' = s /\ phase' = "done"
      BY <1>12 DEF Kernel!Summed
    <2> QED BY <1>1, <1>3, <1>9, <2>1 DEF SumSoFar
  <1> QED BY <1>10, <1>11, <1>12

LEMMA SumInit ==
  EvaluationInit => SumInv
PROOF
  <1> SUFFICES ASSUME Kernel!Init PROVE RowsSoFar /\ SumSoFar
    BY DEF EvaluationInit, SumInv
  <1>1. RowsSoFar
    BY KernelStarts
  <1>2. phase = "batches" /\ k = 0 /\ s = [a \in 0 .. 3 |-> 0]
    BY DEF Kernel!Init
  <1>3. SumSoFar
    BY <1>2 DEF SumSoFar
  <1> QED BY <1>1, <1>3

LEMMA SumKeeps ==
  SumInv /\ [EvaluationNext]_<<vars, kernelVars>> => SumInv'
PROOF
  <1> SUFFICES ASSUME SumInv, [EvaluationNext]_<<vars, kernelVars>> PROVE SumInv'
    OBVIOUS
  <1>1. KernelInv'
    BY KernelKeeps DEF SumInv, KernelInv
  <1>2. CASE UNCHANGED kernelVars
    <2>1. /\ kernel' = kernel /\ data' = data /\ row' = row /\ rows' = rows /\ phase' = phase
          /\ k' = k /\ s' = s
      BY <1>2 DEF kernelVars
    <2>2. CASE NoKernel
      BY <2>1, <2>2 DEF SumInv, NoKernel
    <2>3. CASE RowsSoFar /\ SumSoFar
      <3>1. Totals' = Totals
        BY <2>1 DEF Totals, Kernel!Value
      <3>2. SumSoFar'
        BY <2>1, <2>3, <3>1 DEF SumSoFar, SelectionKernel
      <3>3. CASE NoKernel'
        BY <3>3 DEF SumInv
      <3> QED BY <1>1, <3>2, <3>3 DEF SumInv, KernelInv
    <2> QED BY <2>2, <2>3 DEF SumInv
  <1>3. CASE Kernel!Next
    <2>1. phase \in {"batches", "sum"} /\ phase' # "rest"
      BY <1>3 DEF Kernel!Next, Kernel!Batch, Kernel!EndOfRows, Kernel!AddFour, Kernel!AddOne,
                  Kernel!Summed
    <2>2. RowsSoFar /\ SumSoFar /\ RowsSoFar'
      BY <1>1, <2>1 DEF SumInv, KernelInv, NoKernel
    <2>3. CASE Kernel!Batch
      <3>1. k' = k /\ s' = s /\ phase = "batches" /\ phase' \in {"batches", "overrun"}
        BY <2>3 DEF Kernel!Batch
      <3>2. SumSoFar'
        BY <2>2, <3>1 DEF SumSoFar
      <3> QED BY <2>2, <3>2 DEF SumInv
    <2>4. CASE Kernel!EndOfRows
      <3>1. /\ k' = k /\ s' = s /\ rows' = rows /\ kernel' = kernel /\ phase = "batches"
            /\ phase' = IF SelectionKernel THEN "sum" ELSE "done"
        BY <2>4 DEF Kernel!EndOfRows, SelectionKernel
      <3>2. rows \in Seq(Nat)
        BY <2>2, <3>1, RowsAreNumbers
      <3>3. Totals[0] = 0 /\ 0 \in 0 .. Len(rows)
        BY <3>2, TotalsUnfold
      <3>4. Totals' = Totals
        BY <3>1 DEF Totals, Kernel!Value
      <3>5. SumSoFar'
        BY <2>2, <3>1, <3>3, <3>4 DEF SumSoFar, SelectionKernel
      <3> QED BY <2>2, <3>5 DEF SumInv
    <2>5. CASE Kernel!AddFour \/ Kernel!AddOne \/ Kernel!Summed
      BY <2>2, <2>5, SumStep DEF SumInv
    <2> QED BY <1>3, <2>3, <2>4, <2>5 DEF Kernel!Next
  <1>4. CASE EvaluationNext
    BY <1>2, <1>3, <1>4 DEF EvaluationNext
  <1> QED BY <1>2, <1>4

\* vectorized_sum_int32 (aggregator.cpp), for selections of any length: the
\* four running sums and what is left behind the last group of four add up
\* every selected row once.
THEOREM SumExactAlways == EvaluationSpec => []SumExact
PROOF
  <1>1. SumInv => SumExact
    <2> SUFFICES ASSUME SumInv, phase = "done", SelectionKernel
                 PROVE  s[0] + s[1] + s[2] + s[3] = Kernel!Total
      BY DEF SumExact, Kernel!SumExact, SelectionKernel
    <2>1. RowsSoFar /\ SumSoFar
      BY DEF SumInv, NoKernel
    <2>2. rows \in Seq(Nat)
      BY <2>1, RowsAreNumbers
    <2>3. Kernel!Total = Totals[Len(rows)]
      BY <2>2, TotalsUnfold
    <2> QED BY <2>1, <2>3 DEF SumSoFar
  <1> QED BY <1>1, SumInit, SumKeeps, PTL DEF EvaluationSpec
=============================================================================
