---------------------------- MODULE Query_proofs ----------------------------
(***************************************************************************)
(* Proofs about Scan and Query.  Whatever is written between the calls of  *)
(* a scan, and however often loading throws half way, the batches hold the *)
(* table as it was when it was loaded, with the rows the filters ask for,  *)
(* and none is left out.  A query over the scan answers as module Answer   *)
(* says, in one step: what has been put out or accumulated after n batches *)
(* is told from the files, the plan and the first n row groups.            *)
(***************************************************************************)
EXTENDS Query, Column_proofs

Configured == cfg \in Configs

\* A column has files with one of its contents, or none.
Tables ==
  /\ store = [c \in Columns |-> store[c]]
  /\ \A c \in Columns : store[c] \in Contents[c] \cup {Absent}

\* names are those the scan is asked for, in any order and number.
SomeRequested(names) == \A i \in DOMAIN names : \E j \in DOMAIN Requested : names[i] = Requested[j]
AllRequested(names)  == \A j \in DOMAIN Requested : \E i \in DOMAIN names : names[i] = Requested[j]

AllNames == UNION ({Range(SchemaNames)} \cup {Range(g.projection) : g \in Configs})

\* Nothing has been delivered before the columns are loaded.
NotYet ==
  ~initialized =>
    /\ got = << >> /\ ret \in {"none", "throw"}
    /\ colNames \in Seq(AllNames) /\ SomeRequested(colNames)

\* The columns in memory are those of the files at the time of loading.
Held ==
  /\ DOMAIN colNames = 1 .. Len(colNames) /\ Len(colNames) \in Nat \ {0}
  /\ SomeRequested(colNames) /\ AllRequested(colNames)
  /\ \A i \in DOMAIN colNames :
       colNames[i] \in Columns /\ snap[colNames[i]] \in Contents[colNames[i]]
  /\ columns = [i \in DOMAIN colNames |->
                  [k \in DOMAIN snap[colNames[i]] |-> StoredChunk(snap[colNames[i]][k])]]

Within == \A i \in DOMAIN columns : Len(got) <= Len(columns[i])

Counted == chunkIdx = Len(got) /\ got \in Seq(SUBSET Int)

IInv ==
  /\ Configured /\ Tables /\ NotYet /\ Counted
  /\ initialized => Held /\ Within
  /\ ScanExact /\ BatchFaithful /\ ScanComplete

-----------------------------------------------------------------------------
(* Batches that show the same rows.                                        *)

\* c has the rows and nulls of d.
Alike(c, d) ==
  /\ c.type = d.type /\ c.num_rows = d.num_rows
  /\ c.has_nulls = d.has_nulls /\ c.nulls = d.nulls
  /\ \A r \in RowsOf(d) : c.data[r] = d.data[r]

\* Alike chunks have the same rows, and the same rows pass.
LEMMA AlikePasses ==
  ASSUME NEW c, NEW d, Alike(c, d)
  PROVE  /\ RowsOf(c) = RowsOf(d)
         /\ \A pred, r : Passes(c, pred, r) <=> Passes(d, pred, r)
PROOF
  <1>1. RowsOf(c) = RowsOf(d)
    BY DEF Alike, RowsOf
  <1> QED BY <1>1 DEF Alike, Passes, IsNull

\* Two batches, of n and of m chunks, have the same names, and chunks of the
\* same name are alike.
SameRows(b, bn, n, g, gn, m) ==
  /\ n \in Nat \ {0} /\ DOMAIN b = 1 .. n /\ DOMAIN bn = 1 .. n
  /\ m \in Nat \ {0} /\ DOMAIN g = 1 .. m /\ DOMAIN gn = 1 .. m
  /\ \A i \in 1 .. n : \E j \in 1 .. m : bn[i] = gn[j]
  /\ \A j \in 1 .. m : \E i \in 1 .. n : bn[i] = gn[j]
  /\ \A i \in 1 .. n, j \in 1 .. m : bn[i] = gn[j] => Alike(b[i], g[j])

\* Such batches answer every question of a filter alike.
LEMMA SameAnswers ==
  ASSUME NEW b, NEW bn, NEW n, NEW g, NEW gn, NEW m, SameRows(b, bn, n, g, gn, m), NEW preds
  PROVE  /\ Aligned(b) <=> Aligned(g)
         /\ SoundPredicates(b, bn, preds) <=> SoundPredicates(g, gn, preds)
         /\ Qualifying(b, bn, preds) = Qualifying(g, gn, preds)
PROOF
  <1> USE DEF SameRows
  <1>1. \A i \in 1 .. n, j \in 1 .. m : bn[i] = gn[j] =>
          /\ RowsOf(b[i]) = RowsOf(g[j]) /\ b[i].type = g[j].type
          /\ b[i].num_rows = g[j].num_rows
          /\ \A pred, r : Passes(b[i], pred, r) <=> Passes(g[j], pred, r)
    <2> TAKE i \in 1 .. n, j \in 1 .. m
    <2> HAVE bn[i] = gn[j]
    <2>1. Alike(b[i], g[j])
      OBVIOUS
    <2>2. RowsOf(b[i]) = RowsOf(g[j]) /\ \A pred, r : Passes(b[i], pred, r) <=> Passes(g[j], pred, r)
      BY <2>1, AlikePasses
    <2>3. b[i].type = g[j].type /\ b[i].num_rows = g[j].num_rows
      BY <2>1 DEF Alike
    <2> QED BY <2>2, <2>3
  <1>2. Aligned(b) <=> Aligned(g)
    <2>1. ASSUME Aligned(b), NEW j \in 1 .. m, NEW l \in 1 .. m
          PROVE  g[j].num_rows = g[l].num_rows
      <3>1. PICK i \in 1 .. n : bn[i] = gn[j]
        OBVIOUS
      <3>2. PICK o \in 1 .. n : bn[o] = gn[l]
        OBVIOUS
      <3>3. b[i].num_rows = b[o].num_rows
        BY <2>1 DEF Aligned
      <3>4. b[i].num_rows = g[j].num_rows /\ b[o].num_rows = g[l].num_rows
        BY <1>1, <3>1, <3>2
      <3> QED BY <3>3, <3>4
    <2>2. ASSUME Aligned(g), NEW i \in 1 .. n, NEW o \in 1 .. n
          PROVE  b[i].num_rows = b[o].num_rows
      <3>1. PICK j \in 1 .. m : bn[i] = gn[j]
        OBVIOUS
      <3>2. PICK l \in 1 .. m : bn[o] = gn[l]
        OBVIOUS
      <3>3. g[j].num_rows = g[l].num_rows
        BY <2>2 DEF Aligned
      <3>4. b[i].num_rows = g[j].num_rows /\ b[o].num_rows = g[l].num_rows
        BY <1>1, <3>1, <3>2
      <3> QED BY <3>3, <3>4
    <2>3. ASSUME Aligned(b) PROVE Aligned(g)
      BY <2>1, <2>3 DEF Aligned
    <2>4. ASSUME Aligned(g) PROVE Aligned(b)
      BY <2>2, <2>4 DEF Aligned
    <2> QED BY <2>3, <2>4
  <1>3. CommonRows(b) = CommonRows(g)
    <2>1. 1 \in 1 .. n /\ 1 \in 1 .. m
      OBVIOUS
    <2>2. \A r : r \in CommonRows(b) <=> \A i \in 1 .. n : r \in RowsOf(b[i])
      BY <2>1 DEF CommonRows
    <2>3. \A r : r \in CommonRows(g) <=> \A j \in 1 .. m : r \in RowsOf(g[j])
      BY <2>1 DEF CommonRows
    <2>4. ASSUME NEW r, \A i \in 1 .. n : r \in RowsOf(b[i]), NEW j \in 1 .. m
          PROVE  r \in RowsOf(g[j])
      BY <1>1, <2>4
    <2>5. ASSUME NEW r, \A j \in 1 .. m : r \in RowsOf(g[j]), NEW i \in 1 .. n
          PROVE  r \in RowsOf(b[i])
      BY <1>1, <2>5
    <2> QED BY <2>2, <2>3, <2>4, <2>5
  <1>4. \A pred : Known(bn, pred) <=> Known(gn, pred)
    <2> TAKE pred
    <2>1. ASSUME NEW i \in 1 .. n, bn[i] = pred.col PROVE \E j \in 1 .. m : gn[j] = pred.col
      BY <2>1
    <2>2. ASSUME NEW j \in 1 .. m, gn[j] = pred.col PROVE \E i \in 1 .. n : bn[i] = pred.col
      BY <2>2
    <2> QED BY <2>1, <2>2 DEF Known, Named
  <1>5. \A pred : Known(bn, pred) =>
          LET i == ColumnOf(bn, pred)
              j == ColumnOf(gn, pred)
          IN  i \in 1 .. n /\ j \in 1 .. m /\ bn[i] = gn[j]
    <2> TAKE pred
    <2> HAVE Known(bn, pred)
    <2>1. ColumnOf(bn, pred) \in Named(bn, pred.col)
      BY FirstNamed DEF ColumnOf, Known
    <2>2. ColumnOf(gn, pred) \in Named(gn, pred.col)
      BY <1>4, FirstNamed DEF ColumnOf, Known
    <2> QED BY <2>1, <2>2 DEF Named
  <1>6. \A pred : Known(bn, pred) =>
          /\ b[ColumnOf(bn, pred)].type = g[ColumnOf(gn, pred)].type
          /\ \A r : Passes(b[ColumnOf(bn, pred)], pred, r) <=>
                      Passes(g[ColumnOf(gn, pred)], pred, r)
    BY <1>1, <1>5
  <1>7. SoundPredicates(b, bn, preds) <=> SoundPredicates(g, gn, preds)
    BY <1>4, <1>6 DEF SoundPredicates
  <1>8. Qualifying(b, bn, preds) = Qualifying(g, gn, preds)
    BY <1>3, <1>4, <1>6 DEF Qualifying
  <1> QED BY <1>2, <1>7, <1>8

-----------------------------------------------------------------------------
(* What a filter selects of a batch.                                       *)

\* On a batch whose chunks have the same rows, the filters come to the rows
\* asked for, or to none where the batch is skipped or given up.
LEMMA SelectionsNoneOrExact ==
  ASSUME NEW b, NEW bn, NEW n \in Nat \ {0}, DOMAIN b = 1 .. n, DOMAIN bn = 1 .. n,
         Aligned(b), NEW s \in Selections(b, bn)
  PROVE  \/ s = Qualifying(b, bn, cfg.filters)
         \/ /\ s = {}
            /\ ChunkSetCanBeSkipped(b, bn, cfg.filters) \/ GivesUp(b, bn, cfg.filters)
PROOF
  <1> DEFINE filters == cfg.filters
             chunkOf(q) == b[ColumnOf(bn, filters[q])]
  <1>1. \A i \in 1 .. n : RowsOf(b[i]) = CommonRows(b)
    <2>1. 1 \in 1 .. n
      OBVIOUS
    <2>2. \A i, j \in 1 .. n : b[i].num_rows = b[j].num_rows
      BY DEF Aligned
    <2>3. \A i, j \in 1 .. n : RowsOf(b[i]) = RowsOf(b[j])
      BY <2>2 DEF RowsOf
    <2> QED BY <2>1, <2>3 DEF CommonRows
  <1>2. Qualifying(b, bn, filters) =
          {r \in CommonRows(b) : \A q \in DOMAIN filters :
             Known(bn, filters[q]) /\ Passes(chunkOf(q), filters[q], r)}
    BY DEF Qualifying
  <1>3. CASE filters = << >>
    <2>1. s = RowsOf(b[1]) /\ 1 \in 1 .. n
      BY <1>3 DEF Selections
    <2>2. Qualifying(b, bn, filters) = CommonRows(b)
      BY <1>2, <1>3
    <2> QED BY <1>1, <2>1, <2>2
  <1>4. CASE filters # << >> /\ (ChunkSetCanBeSkipped(b, bn, filters) \/ GivesUp(b, bn, filters))
    <2>1. s = {}
      BY <1>4 DEF Selections, EvaluatePredicates
    <2> QED BY <1>4, <2>1
  <1>5. CASE filters # << >> /\ ~ChunkSetCanBeSkipped(b, bn, filters) /\ ~GivesUp(b, bn, filters)
    <2> DEFINE first == {q \in DOMAIN filters :
                           \A o \in DOMAIN filters : filters[q].hint <= filters[o].hint}
               possible(f) == {r \in RowsOf(chunkOf(f)) : \A q \in DOMAIN filters :
                                 \/ Passes(chunkOf(q), filters[q], r)
                                 \/ r \notin RowsOf(chunkOf(q)) /\ chunkOf(q).type # "STRING"}
               certain(f) == {r \in possible(f) : \A q \in DOMAIN filters : r \in RowsOf(chunkOf(q))}
    <2>1. s \in EvaluatePredicates(b, bn, filters) /\ ~GivesUp(b, bn, filters)
      BY <1>5 DEF Selections, EvaluatePredicates
    <2>2. s \in UNION {{certain(f) \cup lucky : lucky \in SUBSET (possible(f) \ certain(f))}
                        : f \in first}
      BY <2>1 DEF EvaluatePredicates
    <2>3. \A q \in DOMAIN filters : Known(bn, filters[q])
      BY <2>1 DEF GivesUp
    <2>4. \A q \in DOMAIN filters : RowsOf(chunkOf(q)) = CommonRows(b)
      <3> TAKE q \in DOMAIN filters
      <3>1. ColumnOf(bn, filters[q]) \in Named(bn, filters[q].col)
        BY <2>3, FirstNamed DEF ColumnOf, Known
      <3>2. ColumnOf(bn, filters[q]) \in 1 .. n
        BY <3>1 DEF Named
      <3> QED BY <1>1, <3>2
    <2>5. \A f \in first : possible(f) = Qualifying(b, bn, filters) /\ certain(f) = possible(f)
      <3> HIDE DEF chunkOf, filters
      <3>1. \A f \in first : f \in DOMAIN filters
        OBVIOUS
      <3>2. \A f \in first : possible(f) = Qualifying(b, bn, filters)
        BY <1>2, <2>3, <2>4, <3>1
      <3>3. \A f \in first : certain(f) = possible(f)
        BY <2>4, <3>1
      <3> QED BY <3>2, <3>3
    <2> HIDE DEF possible, certain, first, chunkOf, filters
    <2>6. PICK f \in first : \E lucky \in SUBSET (possible(f) \ certain(f)) : s = certain(f) \cup lucky
      BY <2>2
    <2>7. PICK lucky \in SUBSET (possible(f) \ certain(f)) : s = certain(f) \cup lucky
      BY <2>6
    <2>8. lucky = {}
      BY <2>5, <2>7
    <2>9. s = Qualifying(b, bn, filters)
      BY <2>5, <2>7, <2>8
    <2> QED BY <2>9 DEF filters
  <1> QED BY <1>3, <1>4, <1>5

\* On a batch whose chunks have the same rows and bounds that enclose them,
\* every way through the filters comes to the rows asked for.
LEMMA SelectionsExact ==
  ASSUME Configured,
         NEW b, NEW bn, NEW n \in Nat \ {0}, DOMAIN b = 1 .. n, DOMAIN bn = 1 .. n,
         \A i \in 1 .. n : IsChunk(b[i]) /\ Covers(b[i]),
         Aligned(b), SoundPredicates(b, bn, cfg.filters),
         NEW s \in Selections(b, bn)
  PROVE  s = Qualifying(b, bn, cfg.filters)
PROOF
  <1> DEFINE filters == cfg.filters
             chunkOf(q) == b[ColumnOf(bn, filters[q])]
  <1>1. \A i \in 1 .. n : RowsOf(b[i]) = CommonRows(b)
    <2>1. 1 \in 1 .. n
      OBVIOUS
    <2>2. \A i, j \in 1 .. n : b[i].num_rows = b[j].num_rows
      BY DEF Aligned
    <2>3. \A i, j \in 1 .. n : RowsOf(b[i]) = RowsOf(b[j])
      BY <2>2 DEF RowsOf
    <2> QED BY <2>1, <2>3 DEF CommonRows
  <1>2. \A q \in DOMAIN filters : filters[q].op \in CompareOps /\ filters[q].val \in Values
    BY ScanAssumption DEF Configured
  <1>3. \A q \in DOMAIN filters : Known(bn, filters[q]) =>
          /\ IsChunk(chunkOf(q)) /\ Covers(chunkOf(q)) /\ RowsOf(chunkOf(q)) = CommonRows(b)
          /\ filters[q].op \in SoundOps(chunkOf(q).type)
    <2> TAKE q \in DOMAIN filters
    <2> HAVE Known(bn, filters[q])
    <2>1. ColumnOf(bn, filters[q]) \in 1 .. n
      BY FirstNamed DEF ColumnOf, Known, Named
    <2> QED BY <1>1, <2>1 DEF SoundPredicates
  <1>4. ASSUME NEW q \in DOMAIN filters, Known(bn, filters[q]),
               Skippable(chunkOf(q), filters[q]) \/ Skippable(EnsureStats(chunkOf(q)), filters[q])
        PROVE  \A r : ~Passes(chunkOf(q), filters[q], r)
    <2> DEFINE chunk == chunkOf(q)
               ensured == EnsureStats(chunk)
               pred == filters[q]
    <2>1. IsChunk(chunk) /\ Covers(chunk) /\ pred.op \in SoundOps(chunk.type) /\ pred.val \in Values
      BY <1>2, <1>3, <1>4
    <2>2. Skippable(chunk, pred) \/ Skippable(ensured, pred)
      BY <1>4
    <2> HIDE DEF chunk, pred
    <2>3. /\ IsChunk(ensured) /\ Covers(ensured) /\ pred.op \in SoundOps(ensured.type)
          /\ \A r : Passes(chunk, pred, r) => Passes(ensured, pred, r)
      BY <2>1, EnsureKeeps DEF Passes, RowsOf, IsNull
    <2> HIDE DEF ensured
    <2>4. \A r : ~Passes(chunk, pred, r)
      BY <2>1, <2>2, <2>3, SkippedHasNone
    <2> QED BY <2>4 DEF chunk, pred
  <1>5. Qualifying(b, bn, filters) =
          {r \in CommonRows(b) : \A q \in DOMAIN filters :
             Known(bn, filters[q]) /\ Passes(chunkOf(q), filters[q], r)}
    BY DEF Qualifying
  <1>6. CASE /\ s = {}
             /\ ChunkSetCanBeSkipped(b, bn, filters) \/ GivesUp(b, bn, filters)
    <2>1. PICK q \in DOMAIN filters :
            \/ ~Known(bn, filters[q])
            \/ Known(bn, filters[q]) /\ Skippable(chunkOf(q), filters[q])
            \/ Skippable(EnsureStats(chunkOf(q)), filters[q])
      BY <1>6 DEF ChunkSetCanBeSkipped, GivesUp
    <2> HIDE DEF chunkOf, filters
    <2> QED BY <1>4, <1>5, <1>6, <2>1 DEF filters
  <1> QED BY <1>6, SelectionsNoneOrExact

\* A selection is a set of row numbers.
LEMMA SelectionsAreRows ==
  ASSUME NEW b, NEW bn, NEW s \in Selections(b, bn)
  PROVE  s \in SUBSET Int
PROOF
  <1>1. \A chunk : RowsOf(chunk) \subseteq Int
    BY DEF RowsOf
  <1>2. CASE s \in EvaluatePredicates(b, bn, cfg.filters)
    <2>1. CASE s = {}
      BY <2>1
    <2>2. CASE s # {}
      <3>1. \E f \in DOMAIN cfg.filters : s \subseteq RowsOf(b[ColumnOf(bn, cfg.filters[f])])
        BY <1>2, <2>2 DEF EvaluatePredicates
      <3> QED BY <1>1, <3>1
    <2> QED BY <2>1, <2>2
  <1> QED BY <1>1, <1>2 DEF Selections

-----------------------------------------------------------------------------
(* Loading.                                                                *)

\* The columns a call will load are those the scan is asked for, also when an
\* earlier attempt has left its names.
LEMMA NamesFit ==
  ASSUME Configured, NotYet, ~initialized
  PROVE  /\ NamesToLoad \in Seq(AllNames) /\ NamesToLoad # << >>
         /\ SomeRequested(NamesToLoad) /\ AllRequested(NamesToLoad)
PROOF
  <1>1. SchemaNames \in Seq(AllNames) /\ colNames \in Seq(AllNames) /\ SchemaNames # << >>
    <2>1. Range(SchemaNames) \subseteq AllNames
      BY DEF AllNames
    <2> QED BY <2>1, ScanAssumption DEF NotYet
  <1>2. CASE cfg.projection = << >>
    <2>1. NamesToLoad = colNames \o SchemaNames /\ Requested = SchemaNames
      BY <1>2 DEF NamesToLoad, Requested
    <2>2. NamesToLoad \in Seq(AllNames) /\ NamesToLoad # << >>
      BY <1>1, <2>1
    <2>3. \A i \in DOMAIN NamesToLoad :
            \/ i \in DOMAIN colNames /\ NamesToLoad[i] = colNames[i]
            \/ i - Len(colNames) \in DOMAIN SchemaNames
               /\ NamesToLoad[i] = SchemaNames[i - Len(colNames)]
      BY <1>1, <2>1
    <2>4. SomeRequested(NamesToLoad)
      BY <2>1, <2>3 DEF SomeRequested, NotYet
    <2>5. \A j \in DOMAIN SchemaNames :
            /\ Len(colNames) + j \in DOMAIN NamesToLoad
            /\ NamesToLoad[Len(colNames) + j] = SchemaNames[j]
      BY <1>1, <2>1
    <2>6. AllRequested(NamesToLoad)
      BY <2>1, <2>5 DEF AllRequested
    <2> QED BY <2>2, <2>4, <2>6
  <1>3. CASE cfg.projection # << >>
    <2>1. NamesToLoad = cfg.projection /\ Requested = cfg.projection
      BY <1>3 DEF NamesToLoad, Requested
    <2>2. cfg.projection \in Seq(AllNames)
      <3>1. Range(cfg.projection) \subseteq AllNames
        BY DEF AllNames, Configured
      <3> QED BY <3>1, ScanAssumption DEF Configured
    <2> QED BY <1>3, <2>1, <2>2 DEF SomeRequested, AllRequested
  <1> QED BY <1>2, <1>3

\* The scan is asked for a sequence of names that is not empty.
LEMMA RequestedFits ==
  ASSUME Configured
  PROVE  DOMAIN Requested = 1 .. Len(Requested) /\ Len(Requested) \in Nat \ {0}
PROOF
  <1>1. SchemaNames \in Seq(Range(SchemaNames)) /\ SchemaNames # << >>
    BY ScanAssumption
  <1>2. cfg.projection \in Seq(Range(cfg.projection))
    BY ScanAssumption DEF Configured
  <1> QED BY <1>1, <1>2 DEF Requested

\* Once loaded, the columns are held as the files were when that happened.
LEMMA LoadHolds ==
  ASSUME Configured, Tables, NotYet, initialized => Held, Load, UNCHANGED cfg
  PROVE  Held'
PROOF
  <1>1. Requested' = Requested
    BY DEF Requested
  <1>2. CASE initialized
    <2>1. colNames' = colNames /\ columns' = columns /\ snap' = snap
      BY <1>2 DEF Load, LoadedNames, LoadedColumns
    <2> QED BY <1>1, <1>2, <2>1 DEF Held, SomeRequested, AllRequested
  <1>3. CASE ~initialized
    <2>1. /\ colNames' = NamesToLoad /\ snap' = store
          /\ columns' = [i \in DOMAIN NamesToLoad |-> ReadColumn(NamesToLoad[i])]
          /\ \A i \in DOMAIN NamesToLoad : Readable(NamesToLoad[i])
      BY <1>3 DEF Load, LoadedNames, LoadedColumns
    <2>2. /\ NamesToLoad \in Seq(AllNames) /\ NamesToLoad # << >>
          /\ SomeRequested(NamesToLoad) /\ AllRequested(NamesToLoad)
      BY <1>3, NamesFit
    <2>3. DOMAIN NamesToLoad = 1 .. Len(NamesToLoad) /\ Len(NamesToLoad) \in Nat \ {0}
      BY <2>2
    <2>4. \A i \in DOMAIN NamesToLoad :
            NamesToLoad[i] \in Columns /\ store[NamesToLoad[i]] \in Contents[NamesToLoad[i]]
      BY <2>1 DEF Readable, Tables
    <2> QED BY <1>1, <2>1, <2>2, <2>3, <2>4 DEF Held, SomeRequested, AllRequested, ReadColumn
  <1> QED BY <1>2, <1>3

\* The columns cols named nm, n of them, are what is read from the files.
ReadFrom(cols, nm, n, files) ==
  /\ DOMAIN nm = 1 .. n /\ n \in Nat
  /\ \A i \in 1 .. n : nm[i] \in Columns /\ files[nm[i]] \in Contents[nm[i]]
  /\ cols = [i \in 1 .. n |->
               [k \in DOMAIN files[nm[i]] |-> StoredChunk(files[nm[i]][k])]]

\* The batches of these columns show what is in the files.
Show(cols, nm, n, files) ==
  /\ DOMAIN cols = 1 .. n
  /\ \A i \in 1 .. n :
       /\ Len(cols[i]) \in Nat /\ Len(cols[i]) = Len(files[nm[i]])
       /\ \A k \in 1 .. Len(cols[i]) :
            LET chunk == EnsureStats(cols[i][k])
            IN  IsChunk(chunk) /\ Covers(chunk) /\ Alike(chunk, files[nm[i]][k])

\* A chunk that is held shows what was written.
LEMMA HeldChunks ==
  ASSUME NEW nm, NEW n, NEW files, NEW cols, ReadFrom(cols, nm, n, files)
  PROVE  Show(cols, nm, n, files)
PROOF
  <1> SUFFICES ASSUME NEW i \in 1 .. n
               PROVE  /\ Len(cols[i]) \in Nat /\ Len(cols[i]) = Len(files[nm[i]])
                      /\ \A k \in 1 .. Len(cols[i]) :
                           LET chunk == EnsureStats(cols[i][k])
                           IN  IsChunk(chunk) /\ Covers(chunk) /\ Alike(chunk, files[nm[i]][k])
    BY DEF Show, ReadFrom
  <1> DEFINE content == files[nm[i]]
  <1>1. /\ DOMAIN content = 1 .. Len(content) /\ Len(content) \in Nat
        /\ \A k \in DOMAIN content : IsChunk(content[k])
    BY ScanAssumption DEF Columns, ReadFrom
  <1>2. cols[i] = [k \in DOMAIN content |-> StoredChunk(content[k])]
    BY DEF ReadFrom
  <1> HIDE DEF content
  <1>3. Len(cols[i]) = Len(content)
    BY <1>1, <1>2
  <1>4. ASSUME NEW k \in 1 .. Len(content)
        PROVE  LET chunk == EnsureStats(cols[i][k])
               IN  IsChunk(chunk) /\ Covers(chunk) /\ Alike(chunk, content[k])
    <2> DEFINE stored == StoredChunk(content[k])
    <2>1. IsChunk(content[k]) /\ cols[i][k] = stored
      BY <1>1, <1>2
    <2>2. IsChunk(stored) /\ Covers(stored) /\ Alike(stored, content[k])
      BY <2>1, StoredKeeps DEF Alike
    <2> HIDE DEF stored
    <2> QED BY <2>1, <2>2, EnsureKeeps DEF Alike
  <1> QED BY <1>1, <1>3, <1>4 DEF content

-----------------------------------------------------------------------------
(* The steps.                                                              *)

\* Nothing is loaded or delivered at first.
LEMMA InitIInv == Init => IInv
PROOF
  <1> SUFFICES ASSUME Init PROVE IInv
    OBVIOUS
  <1>1. Configured /\ Tables
    BY DEF Init, Configured, Tables
  <1>2. got = << >> /\ chunkIdx = 0 /\ colNames = << >> /\ ~initialized /\ ret = "none"
    BY DEF Init
  <1>3. NotYet /\ Counted
    BY <1>2 DEF NotYet, Counted, SomeRequested
  <1>4. ScanExact /\ BatchFaithful /\ ScanComplete
    BY <1>2 DEF ScanExact, BatchFaithful, ScanComplete
  <1> QED BY <1>1, <1>2, <1>3, <1>4 DEF IInv

\* A write between the calls reaches the files only.
LEMMA WriteKeeps ==
  ASSUME IInv, NEW c \in Columns, WriteColumn(c)
  PROVE  IInv'
PROOF
  <1>1. UNCHANGED <<cfg, scanVars>>
    BY DEF WriteColumn
  <1>2. PICK content \in Contents[c] : store' = [store EXCEPT ![c] = content]
    BY DEF WriteColumn
  <1>3. Configured' /\ Tables'
    BY <1>1, <1>2 DEF IInv, Configured, Tables
  <1>4. NotYet' /\ Counted' /\ (initialized' => Held' /\ Within')
    BY <1>1 DEF IInv, scanVars, NotYet, Counted, Held, Within, SomeRequested, AllRequested, Requested
  <1>5. /\ got' = got /\ snap' = snap /\ out' = out /\ ret' = ret
        /\ colNames' = colNames /\ cfg' = cfg /\ Requested' = Requested
    BY <1>1 DEF scanVars, Requested
  <1>6. ScanExact'
    BY <1>5 DEF IInv, ScanExact, Group
  <1>7. BatchFaithful'
    BY <1>5 DEF IInv, BatchFaithful, Group
  <1>8. ScanComplete'
    BY <1>5 DEF IInv, ScanComplete
  <1> QED BY <1>3, <1>4, <1>6, <1>7, <1>8 DEF IInv

\* A call that throws leaves names and columns of an attempt behind, and
\* nothing that counts.
LEMMA LoadFailsKeeps ==
  ASSUME IInv, LoadFails
  PROVE  IInv'
PROOF
  <1>1. /\ ~initialized /\ initialized' = initialized /\ colNames' = NamesToLoad /\ ret' = "throw"
        /\ UNCHANGED <<store, cfg, chunkIdx, got>>
    BY DEF LoadFails
  <1>2. Configured' /\ Tables' /\ Counted'
    BY <1>1 DEF IInv, Configured, Tables, Counted
  <1>3. NotYet'
    BY <1>1, NamesFit DEF IInv, NotYet, SomeRequested, Requested
  <1>4. got' = << >>
    BY <1>1 DEF IInv, NotYet
  <1>5. ScanExact' /\ BatchFaithful' /\ ScanComplete'
    BY <1>1, <1>4 DEF ScanExact, BatchFaithful, ScanComplete
  <1> QED BY <1>1, <1>2, <1>3, <1>5 DEF IInv

\* What a call that does not throw finds once the columns are loaded.
LEMMA Loaded ==
  ASSUME IInv, Load, UNCHANGED <<store, cfg>>
  PROVE  /\ Configured' /\ Tables' /\ NotYet' /\ Held' /\ initialized'
         /\ Requested' = Requested
         /\ got # << >> => snap' = snap
         /\ Show(columns', colNames', Len(colNames'), snap')
         /\ \A i \in DOMAIN columns' : Len(got) <= Len(columns'[i])
PROOF
  <1>1. Configured /\ Tables /\ NotYet /\ (initialized => Held /\ Within)
    BY DEF IInv
  <1>2. Held' /\ initialized' = TRUE
    BY <1>1, LoadHolds DEF Load
  <1>3. Configured' /\ Tables' /\ NotYet' /\ Requested' = Requested
    BY <1>1, <1>2 DEF Configured, Tables, NotYet, Requested
  <1>4. got # << >> => initialized /\ snap' = snap
    BY <1>1 DEF NotYet, Load
  <1>5. ReadFrom(columns', colNames', Len(colNames'), snap')
    BY <1>2 DEF Held, Columns, ReadFrom
  <1>6. Show(columns', colNames', Len(colNames'), snap')
    BY <1>5, HeldChunks
  <1>7. \A i \in DOMAIN columns' : Len(got) <= Len(columns'[i])
    <2>1. CASE initialized
      <3>1. columns' = columns
        BY <2>1 DEF Load, LoadedColumns
      <3> QED BY <1>1, <2>1, <3>1 DEF Within
    <2>2. CASE ~initialized
      <3>1. Len(got) = 0
        BY <1>1, <2>2 DEF NotYet
      <3> QED BY <1>6, <3>1 DEF Show
    <2> QED BY <2>1, <2>2
  <1> QED BY <1>2, <1>3, <1>4, <1>6, <1>7

\* The shortest column.
LEMMA ShortestColumn ==
  ASSUME IInv, Load, UNCHANGED <<store, cfg>>
  PROVE  /\ MinChunks \in Nat
         /\ \A i \in DOMAIN columns' : MinChunks <= Len(columns'[i])
         /\ \E i \in DOMAIN columns' : MinChunks = Len(columns'[i])
PROOF
  <1> DEFINE lengths == {Len(columns'[i]) : i \in DOMAIN columns'}
  <1>1. DOMAIN columns' # {}
    <2>1. Held' /\ Show(columns', colNames', Len(colNames'), snap')
      BY Loaded
    <2> QED BY <2>1 DEF Held, Show
  <1>2. lengths \in SUBSET Nat /\ lengths # {}
    BY <1>1, Loaded DEF Show
  <1>3. Min(lengths) \in lengths /\ \A l \in lengths : Min(lengths) <= l
    <2> HIDE DEF lengths
    <2>1. lengths \in SUBSET Int /\ \A l \in lengths : 0 <= l
      BY <1>2
    <2> QED BY <1>2, <2>1, MinOfBounded
  <1>4. MinChunks = Min(lengths)
    BY DEF MinChunks
  <1> QED BY <1>2, <1>3, <1>4

\* The scan ends where the shortest column does.
LEMMA EndKeeps ==
  ASSUME IInv, EndOfScan
  PROVE  IInv'
PROOF
  <1>1. /\ Load /\ chunkIdx >= MinChunks /\ ret' = "end"
        /\ UNCHANGED <<store, cfg, chunkIdx, got>>
    BY DEF EndOfScan
  <1>2. Counted' /\ chunkIdx = Len(got) /\ Len(got) \in Nat
    BY <1>1 DEF IInv, Counted
  <1>3. PICK i \in DOMAIN columns' : MinChunks = Len(columns'[i])
    BY <1>1, ShortestColumn
  <1>4. Len(got) = Len(snap'[colNames'[i]])
    BY <1>1, <1>2, <1>3, Loaded DEF Show
  <1>5. PICK j \in DOMAIN Requested' : colNames'[i] = Requested'[j]
    BY <1>1, Loaded DEF Held, SomeRequested
  <1>6. ScanComplete'
    BY <1>1, <1>4, <1>5 DEF ScanComplete
  <1>7. BatchFaithful'
    BY <1>1 DEF BatchFaithful
  <1>8. Within'
    BY <1>1, Loaded DEF Within
  <1>9. ScanExact'
    <2>1. CASE got = << >>
      BY <1>1, <2>1 DEF ScanExact
    <2>2. CASE got # << >>
      <3>1. snap' = snap /\ Requested' = Requested /\ got' = got /\ cfg' = cfg
        BY <1>1, <2>2, Loaded
      <3>2. ScanExact
        BY DEF IInv
      <3> QED BY <3>1, <3>2 DEF ScanExact, Group
    <2> QED BY <2>1, <2>2
  <1> QED BY <1>1, <1>2, <1>6, <1>7, <1>8, <1>9, Loaded DEF IInv

\* A batch shows the next row group, and its selection the rows asked for.
LEMMA DeliverKeeps ==
  ASSUME IInv, DeliverBatch
  PROVE  IInv'
PROOF
  <1>0. PICK k : k = Len(got) + 1
    OBVIOUS
  <1> DEFINE n     == Len(colNames')
             m     == Len(Requested)
             nm    == colNames'
             cols  == columns'
             files == snap'
             s     == sel'
             b     == Batch
             g     == [i \in DOMAIN Requested |-> files[Requested[i]][k]]
  <1>1. /\ Load /\ chunkIdx < MinChunks /\ out' = b /\ s \in Selections(b, nm)
        /\ chunkIdx' = chunkIdx + 1 /\ got' = Append(got, s) /\ ret' = "batch"
        /\ UNCHANGED <<store, cfg>>
    BY DEF DeliverBatch
  <1>2. chunkIdx = Len(got) /\ got \in Seq(SUBSET Int) /\ Len(got) \in Nat
    BY DEF IInv, Counted
  <1>3. /\ got' \in Seq(SUBSET Int) /\ Len(got') = k /\ DOMAIN got' = 1 .. k /\ got'[k] = s
        /\ \A q \in 1 .. k : q # k => q \in DOMAIN got /\ got'[q] = got[q]
    <2>1. s \in SUBSET Int
      <3> HIDE DEF s, b, nm
      <3> QED BY <1>1, SelectionsAreRows
    <2> HIDE DEF s
    <2> QED BY <1>0, <1>1, <1>2, <2>1
  <1>4. Counted'
    BY <1>1, <1>2, <1>3 DEF Counted
  <1>5. /\ Configured /\ Configured' /\ Tables' /\ NotYet' /\ Held' /\ initialized'
        /\ Requested' = Requested /\ (got # << >> => files = snap)
        /\ Show(cols, nm, n, files)
    BY <1>1, Loaded DEF IInv
  <1>6. /\ n \in Nat \ {0} /\ DOMAIN nm = 1 .. n
        /\ \A i \in 1 .. n : \E j \in DOMAIN Requested : nm[i] = Requested[j]
        /\ \A j \in DOMAIN Requested : \E i \in 1 .. n : nm[i] = Requested[j]
    BY <1>5 DEF Held, SomeRequested, AllRequested
  <1>7. m \in Nat \ {0} /\ DOMAIN Requested = 1 .. m /\ DOMAIN g = 1 .. m
    BY <1>5, RequestedFits
  <1>8. \A i \in 1 .. n : k \in 1 .. Len(cols[i])
    <2>1. DOMAIN cols = 1 .. n /\ \A i \in 1 .. n : Len(cols[i]) \in Nat
      BY <1>5 DEF Show
    <2>2. MinChunks \in Nat /\ \A i \in DOMAIN cols : MinChunks <= Len(cols[i])
      BY <1>1, ShortestColumn
    <2> QED BY <1>0, <1>1, <1>2, <2>1, <2>2
  <1>9. b = [i \in DOMAIN cols |-> EnsureStats(cols[i][k])]
    BY <1>0, <1>2 DEF Batch
  <1> HIDE DEF b, n, m, nm, cols, files, s, g
  <1>10. /\ DOMAIN b = 1 .. n
         /\ \A i \in 1 .. n : IsChunk(b[i]) /\ Covers(b[i]) /\ Alike(b[i], files[nm[i]][k])
    BY <1>5, <1>8, <1>9 DEF Show
  <1>11. \A j \in 1 .. m : g[j] = files[Requested[j]][k]
    BY <1>7 DEF g
  <1>12. \A i \in 1 .. n, j \in 1 .. m : nm[i] = Requested[j] => Alike(b[i], g[j])
    BY <1>10, <1>11
  <1>13. /\ Aligned(b) <=> Aligned(g)
         /\ SoundPredicates(b, nm, cfg.filters) <=> SoundPredicates(g, Requested, cfg.filters)
         /\ Qualifying(b, nm, cfg.filters) = Qualifying(g, Requested, cfg.filters)
    <2>1. DOMAIN b = 1 .. n
      BY <1>10
    <2>2. /\ \A i \in 1 .. n : \E j \in 1 .. m : nm[i] = Requested[j]
          /\ \A j \in 1 .. m : \E i \in 1 .. n : nm[i] = Requested[j]
      BY <1>6, <1>7
    <2>3. SameRows(b, nm, n, g, Requested, m)
      BY <1>6, <1>7, <1>12, <2>1, <2>2 DEF SameRows
    <2> QED BY <2>3, SameAnswers
  <1>14. Aligned(g) /\ SoundPredicates(g, Requested, cfg.filters)
           => s = Qualifying(g, Requested, cfg.filters)
    <2> SUFFICES ASSUME Aligned(g), SoundPredicates(g, Requested, cfg.filters)
                 PROVE  s = Qualifying(g, Requested, cfg.filters)
      OBVIOUS
    <2>1. \A i \in 1 .. n : IsChunk(b[i]) /\ Covers(b[i])
      BY <1>10
    <2>2. Aligned(b) /\ SoundPredicates(b, nm, cfg.filters)
      BY <1>13
    <2>3. s = Qualifying(b, nm, cfg.filters)
      BY <1>1, <1>5, <1>6, <1>10, <2>1, <2>2, SelectionsExact
    <2> QED BY <1>13, <2>3
  <1>15. \A q : Group(q)' = [i \in DOMAIN Requested |-> files[Requested[i]][q]]
    BY <1>5 DEF Group, files
  <1>16. Group(k)' = g
    BY <1>15 DEF g
  <1>17. ScanExact'
    <2> SUFFICES ASSUME NEW q \in 1 .. k,
                        Aligned(Group(q)'), SoundPredicates(Group(q)', Requested, cfg.filters)
                 PROVE  got'[q] = Qualifying(Group(q)', Requested, cfg.filters)
      BY <1>1, <1>3, <1>5 DEF ScanExact
    <2>1. CASE q = k
      BY <1>3, <1>14, <1>16, <2>1
    <2>2. CASE q # k
      <3>1. q \in DOMAIN got /\ got'[q] = got[q]
        BY <1>3, <2>2
      <3>2. files = snap
        BY <1>5, <3>1
      <3>3. Group(q)' = Group(q)
        BY <1>15, <3>2 DEF Group
      <3>4. ScanExact
        BY DEF IInv
      <3> QED BY <3>1, <3>3, <3>4 DEF ScanExact
    <2> QED BY <2>1, <2>2
  <1>18. BatchFaithful'
    <2> SUFFICES ASSUME NEW j \in 1 .. m
                 PROVE  LET chunk == b[Min(Named(nm, Requested[j]))]
                        IN  /\ k <= Len(files[Requested[j]])
                            /\ chunk.num_rows = g[j].num_rows
                            /\ \A r \in RowsOf(g[j]) :
                                 /\ IsNull(chunk, r) = IsNull(g[j], r)
                                 /\ chunk.data[r] = g[j].data[r]
                            /\ Covers(chunk)
      BY <1>1, <1>3, <1>5, <1>7, <1>16 DEF BatchFaithful, nm, files
    <2> DEFINE o == Min(Named(nm, Requested[j]))
    <2>1. o \in Named(nm, Requested[j])
      <3>1. Named(nm, Requested[j]) # {}
        BY <1>6, <1>7 DEF Named
      <3> QED BY <1>6, <3>1, FirstNamed
    <2>2. o \in 1 .. n /\ nm[o] = Requested[j]
      BY <1>6, <2>1 DEF Named
    <2> HIDE DEF o
    <2>3. Alike(b[o], g[j]) /\ Covers(b[o])
      BY <1>10, <1>12, <2>2
    <2>4. k <= Len(files[Requested[j]])
      BY <1>5, <1>8, <2>2 DEF Show
    <2>5. /\ b[o].num_rows = g[j].num_rows
          /\ \A r \in RowsOf(g[j]) :
               IsNull(b[o], r) = IsNull(g[j], r) /\ b[o].data[r] = g[j].data[r]
      BY <2>3 DEF Alike, IsNull
    <2> QED BY <2>3, <2>4, <2>5 DEF o
  <1>19. Within'
    BY <1>3, <1>5, <1>8 DEF Within, Show, cols
  <1>20. ScanComplete'
    BY <1>1 DEF ScanComplete
  <1> QED BY <1>4, <1>5, <1>17, <1>18, <1>19, <1>20 DEF IInv

\* Every step keeps the invariant.
LEMMA NextKeepsIInv == IInv /\ [Next]_vars => IInv'
PROOF
  <1> SUFFICES ASSUME IInv, [Next]_vars PROVE IInv'
    OBVIOUS
  <1>1. CASE LoadFails
    BY <1>1, LoadFailsKeeps
  <1>2. CASE EndOfScan
    BY <1>2, EndKeeps
  <1>3. CASE DeliverBatch
    BY <1>3, DeliverKeeps
  <1>4. ASSUME NEW c \in Columns, WriteColumn(c) PROVE IInv'
    BY <1>4, WriteKeeps
  <1>5. CASE UNCHANGED vars
    <2>1. Configured' /\ Tables' /\ NotYet' /\ Counted' /\ (initialized' => Held' /\ Within')
      BY <1>5 DEF IInv, vars, scanVars, Configured, Tables, NotYet, Counted, Held, Within,
                  SomeRequested, AllRequested, Requested
    <2>2. /\ got' = got /\ snap' = snap /\ out' = out /\ ret' = ret
          /\ colNames' = colNames /\ cfg' = cfg /\ Requested' = Requested
      BY <1>5 DEF vars, scanVars, Requested
    <2>3. ScanExact'
      BY <2>2 DEF IInv, ScanExact, Group
    <2>4. BatchFaithful'
      BY <2>2 DEF IInv, BatchFaithful, Group
    <2>5. ScanComplete'
      BY <2>2 DEF IInv, ScanComplete
    <2> QED BY <2>1, <2>3, <2>4, <2>5 DEF IInv
  <1> QED BY <1>1, <1>2, <1>3, <1>4, <1>5 DEF Next, NextBatch

\* The invariant of a scan.
LEMMA IInvAlways == Spec => []IInv
PROOF
  <1> QED BY InitIInv, NextKeepsIInv, PTL DEF Spec

-----------------------------------------------------------------------------

\* Whatever the client writes between the calls, and however often loading
\* has thrown half way before it succeeded, every row group delivered by
\* next_batch got exactly the rows the filters ask for, judged by the files
\* as they were when they were loaded.
THEOREM ScanExactAlways == Spec => []ScanExact
PROOF
  <1>1. IInv => ScanExact
    BY DEF IInv
  <1> QED BY <1>1, IInvAlways, PTL

\* A column looked up by its name in a batch holds that column's values of
\* the row group, under bounds that enclose them, also when names left by a
\* failed attempt precede the ones of the schema.
THEOREM BatchFaithfulAlways == Spec => []BatchFaithful
PROOF
  <1>1. IInv => BatchFaithful
    BY DEF IInv
  <1> QED BY <1>1, IInvAlways, PTL

\* next_batch says that there are no more only when one of the columns asked
\* for has none left.
THEOREM ScanCompleteAlways == Spec => []ScanComplete
PROOF
  <1>1. IInv => ScanComplete
    BY DEF IInv
  <1> QED BY <1>1, IInvAlways, PTL

-----------------------------------------------------------------------------
(* The query.                                                              *)

\* Answer has the operators on sets, sequences and batches that Query has.
LEMMA SameOperators ==
  /\ \A S : Answering!Cardinality(S) = Cardinality(S)
  /\ \A S : Answering!Min(S) = Min(S) /\ Answering!Max(S) = Max(S)
  /\ \A f : Answering!Range(f) = Range(f)
  /\ \A f, S : Answering!SumFunctionOnSet(f, S) = SumFunctionOnSet(f, S)
  /\ \A S : Answering!Ascending(S) = Ascending(S)
  /\ \A s : Answering!FlattenSeq(s) = FlattenSeq(s)
  /\ \A type : Answering!Accumulated(type) <=> Accumulated(type)
PROOF
  <1>1. \A S : Answering!Cardinality(S) = Cardinality(S)
    BY Zenon DEF Answering!Cardinality, Cardinality
  <1>2. \A S : Answering!Min(S) = Min(S) /\ Answering!Max(S) = Max(S)
    BY Zenon DEF Answering!Min, Min, Answering!Max, Max
  <1>3. \A f : Answering!Range(f) = Range(f)
    BY Zenon DEF Answering!Range, Range
  <1>4. \A f, S : Answering!SumFunctionOnSet(f, S) = SumFunctionOnSet(f, S)
    BY Zenon DEF Answering!SumFunctionOnSet, SumFunctionOnSet, Answering!FoldFunctionOnSet,
                 FoldFunctionOnSet, Answering!MapThenFoldSet, MapThenFoldSet
  <1>5. \A S : Answering!Ascending(S) = Ascending(S)
    BY Zenon DEF Answering!Ascending, Ascending, Answering!Rank, Rank,
                 Answering!Cardinality, Cardinality
  <1>6. \A s : Answering!FlattenSeq(s) = FlattenSeq(s)
    BY Zenon DEF Answering!FlattenSeq, FlattenSeq
  <1>7. \A type : Answering!Accumulated(type) <=> Accumulated(type)
    BY Zenon DEF Answering!Accumulated, Accumulated
  <1> QED BY <1>1, <1>2, <1>3, <1>4, <1>5, <1>6, <1>7

\* The same for the predicates over a batch.
LEMMA SameBatchOperators ==
  /\ \A b, bn, preds : Answering!Qualifying(b, bn, preds) = Qualifying(b, bn, preds)
  /\ \A b, bn, preds : Answering!SoundPredicates(b, bn, preds) <=> SoundPredicates(b, bn, preds)
  /\ \A seq, S : Answering!ElementsAt(seq, S) = ElementsAt(seq, S)
PROOF
  <1>1. \A chunk : Answering!RowsOf(chunk) = RowsOf(chunk)
    BY Zenon DEF Answering!RowsOf, RowsOf
  <1>2. \A chunks : Answering!CommonRows(chunks) = CommonRows(chunks)
    BY <1>1, Zenon DEF Answering!CommonRows, CommonRows
  <1>3. \A names, col : Answering!Named(names, col) = Named(names, col)
    BY Zenon DEF Answering!Named, Named
  <1>4. \A names, pred : Answering!Known(names, pred) <=> Known(names, pred)
    BY <1>3, Zenon DEF Answering!Known, Known
  <1>5. \A names, pred : Answering!ColumnOf(names, pred) = ColumnOf(names, pred)
    BY <1>3, SameOperators, Zenon DEF Answering!ColumnOf, ColumnOf
  <1>6. \A chunk, r : Answering!IsNull(chunk, r) <=> IsNull(chunk, r)
    BY Zenon DEF Answering!IsNull, IsNull
  <1>7. \A x, y, op : Answering!Compare(x, y, op) <=> Compare(x, y, op)
    BY Zenon DEF Answering!Compare, Compare
  <1>8. \A chunk, pred, r : Answering!Passes(chunk, pred, r) <=> Passes(chunk, pred, r)
    BY <1>1, <1>6, <1>7, Zenon DEF Answering!Passes, Passes
  <1>9. \A b, bn, preds : Answering!Qualifying(b, bn, preds) = Qualifying(b, bn, preds)
    BY <1>2, <1>4, <1>5, <1>8, ZenonT(40) DEF Answering!Qualifying, Qualifying
  <1>10. \A type : Answering!SoundOps(type) = SoundOps(type)
    BY Zenon DEF Answering!SoundOps, SoundOps, Answering!IntTypes, IntTypes,
                 Answering!CompareOps, CompareOps
  <1>11. \A b, bn, preds : Answering!SoundPredicates(b, bn, preds) <=> SoundPredicates(b, bn, preds)
    BY <1>4, <1>5, <1>10, Zenon DEF Answering!SoundPredicates, SoundPredicates
  <1>12. \A seq, S : Answering!ElementsAt(seq, S) = ElementsAt(seq, S)
    BY SameOperators, Zenon DEF Answering!ElementsAt, ElementsAt
  <1> QED BY <1>9, <1>11, <1>12

\* The columns of a plan's output.
PlanColumns(pl) ==
  IF pl.aggs = << >> THEN Range(pl.select)
  ELSE {pl.aggs[e].col : e \in DOMAIN pl.aggs} \ {NoColumn}

\* The columns the plan speaks of are those the scan is asked for.
LEMMA ConfigFits ==
  ASSUME plan \in Plans, cfg = ConfigOf(plan)
  PROVE  /\ Configured /\ cfg.filters = plan.where
         /\ Answering!Mentioned = Range(Requested)
         /\ \A c \in PlanColumns(plan) : cfg.projection = Requested /\ c \in Range(cfg.projection)
PROOF
  <1>1. Configured /\ cfg.filters = plan.where /\ cfg.projection = ProjectionOf(plan)
    BY QueryAssumption DEF Configured, ConfigOf
  <1>2. DOMAIN plan.where = 1 .. Len(plan.where) /\ Len(plan.where) \in Nat
    BY <1>1, ScanAssumption DEF Configured
  <1> DEFINE wcols == [p \in DOMAIN plan.where |-> plan.where[p].col]
             acols == [e \in DOMAIN plan.aggs |-> plan.aggs[e].col]
             named == {e \in DOMAIN plan.aggs : plan.aggs[e].col # NoColumn}
             missing == {p \in DOMAIN plan.where :
                           /\ ~Contains(OutputColumns(plan), plan.where[p].col)
                           /\ \A q \in 1 .. (p - 1) : plan.where[q].col # plan.where[p].col}
             A == Range(plan.select) \cup Range(acols) \cup Range(wcols)
             output == IF plan.aggs = << >> THEN Range(plan.select)
                       ELSE {plan.aggs[e].col : e \in DOMAIN plan.aggs} \ {NoColumn}
  <1>3. wcols \in Seq(A) /\ DOMAIN wcols = 1 .. Len(plan.where)
    <2>1. \A p \in 1 .. Len(plan.where) : plan.where[p].col \in Range(wcols)
      BY <1>2 DEF Range
    <2>2. PICK w, n : w = wcols /\ n = Len(plan.where)
      OBVIOUS
    <2>3. /\ n \in Nat /\ w = [p \in 1 .. n |-> w[p]]
          /\ \A p \in 1 .. n : w[p] \in A
      BY <1>2, <2>1, <2>2
    <2>4. w \in Seq(A)
      <3> HIDE DEF A, wcols
      <3> QED BY <2>3
    <2> QED BY <1>2, <2>2, <2>4
  <1>4. acols \in Seq(A) /\ DOMAIN acols = DOMAIN plan.aggs
    <2>1. \A e \in DOMAIN plan.aggs : acols[e] \in Range(acols)
      BY DEF Range
    <2>2. DOMAIN plan.aggs = 1 .. Len(plan.aggs) /\ Len(plan.aggs) \in Nat
      BY QueryAssumption
    <2>3. PICK w, n : w = acols /\ n = Len(plan.aggs)
      OBVIOUS
    <2>4. /\ n \in Nat /\ w = [e \in 1 .. n |-> w[e]]
          /\ \A e \in 1 .. n : w[e] \in A
      BY <2>1, <2>2, <2>3
    <2>5. w \in Seq(A)
      <3> HIDE DEF A, acols
      <3> QED BY <2>4
    <2> QED BY <2>3, <2>5
  <1>5. plan.select \in Seq(A)
    <2>1. plan.select \in Seq(Range(plan.select))
      BY QueryAssumption
    <2>2. Range(plan.select) \subseteq A
      OBVIOUS
    <2>3. PICK w, R : w = plan.select /\ R = Range(plan.select)
      OBVIOUS
    <2>4. w \in Seq(R) /\ R \subseteq A
      BY <2>1, <2>2, <2>3
    <2>5. w \in Seq(A)
      <3> HIDE DEF A
      <3> QED BY <2>4
    <2> QED BY <2>3, <2>5
  <1>6. OutputColumns(plan) \in Seq(A) /\ Range(OutputColumns(plan)) = output
    <2>1. CASE plan.aggs = << >>
      BY <1>5, <2>1 DEF OutputColumns
    <2>2. CASE plan.aggs # << >>
      <3>1. OutputColumns(plan) = ElementsAt(acols, named)
        BY <2>2 DEF OutputColumns
      <3>2. named \in SUBSET DOMAIN acols
        OBVIOUS
      <3>3. {acols[e] : e \in named} = {plan.aggs[e].col : e \in DOMAIN plan.aggs} \ {NoColumn}
        OBVIOUS
      <3> HIDE DEF acols, named, A
      <3>4. /\ ElementsAt(acols, named) \in Seq(A)
            /\ Range(ElementsAt(acols, named)) = {acols[e] : e \in named}
        BY <1>4, <3>2, ElementsAtPlaces
      <3> QED BY <2>2, <3>1, <3>3, <3>4
    <2> QED BY <2>1, <2>2
  <1>7. /\ ElementsAt(wcols, missing) \in Seq(A)
        /\ Range(ElementsAt(wcols, missing)) = {wcols[p] : p \in missing}
    <2>1. missing \in SUBSET DOMAIN wcols
      OBVIOUS
    <2> HIDE DEF wcols, missing, A
    <2> QED BY <1>3, <2>1, ElementsAtPlaces
  <1>8. ProjectionOf(plan) = OutputColumns(plan) \o ElementsAt(wcols, missing)
    BY DEF ProjectionOf
  <1>9. ASSUME NEW p \in DOMAIN plan.where
        PROVE  \/ plan.where[p].col \in Range(OutputColumns(plan))
               \/ \E q \in missing : wcols[q] = plan.where[p].col
    <2> DEFINE same == {q \in DOMAIN plan.where : plan.where[q].col = plan.where[p].col}
    <2>1. same \in SUBSET Int /\ same # {} /\ \A q \in same : 0 <= q
      BY <1>2
    <2>2. PICK q \in same : \A o \in same : q <= o
      <3> HIDE DEF same
      <3>1. 0 \in Int
        OBVIOUS
      <3> QED BY <2>1, <3>1, LeastInteger
    <2>3. \A o \in 1 .. (q - 1) : plan.where[o].col # plan.where[q].col
      <3> SUFFICES ASSUME NEW o \in 1 .. (q - 1), plan.where[o].col = plan.where[q].col PROVE FALSE
        OBVIOUS
      <3>1. q \in 1 .. Len(plan.where) /\ o \in 1 .. Len(plan.where) /\ ~(q <= o)
        BY <1>2
      <3>2. o \in same
        BY <1>2, <3>1
      <3> QED BY <2>2, <3>1, <3>2
    <2>4. CASE Contains(OutputColumns(plan), plan.where[p].col)
      BY <2>4, <1>6 DEF Contains, Range
    <2>5. CASE ~Contains(OutputColumns(plan), plan.where[p].col)
      <3>1. q \in missing /\ wcols[q] = plan.where[p].col
        BY <2>3, <2>5
      <3> QED BY <3>1
    <2> QED BY <2>4, <2>5
  <1>10. \A q \in missing : wcols[q] \in {plan.where[p].col : p \in DOMAIN plan.where}
    OBVIOUS
  <1> HIDE DEF wcols, missing, A, output
  <1>11. /\ Range(ProjectionOf(plan)) = output \cup {plan.where[p].col : p \in DOMAIN plan.where}
         /\ ProjectionOf(plan) \in Seq(A)
    <2>1. PICK x, y : x = OutputColumns(plan) /\ y = ElementsAt(wcols, missing)
      OBVIOUS
    <2>2. x \in Seq(A) /\ y \in Seq(A)
      BY <1>6, <1>7, <2>1
    <2>3. Range(x \o y) = Range(x) \cup Range(y) /\ x \o y \in Seq(A)
      <3>1. DOMAIN (x \o y) = 1 .. Len(x) + Len(y) /\ x \o y \in Seq(A)
        BY <2>2
      <3>2. ASSUME NEW i \in 1 .. Len(x) PROVE i \in DOMAIN (x \o y) /\ (x \o y)[i] = x[i]
        BY <2>2
      <3>3. ASSUME NEW i \in 1 .. Len(y)
            PROVE  Len(x) + i \in DOMAIN (x \o y) /\ (x \o y)[Len(x) + i] = y[i]
        BY <2>2
      <3>4. ASSUME NEW i \in 1 .. Len(x) + Len(y)
            PROVE  (x \o y)[i] \in Range(x) \cup Range(y)
        <4>1. CASE i <= Len(x)
          <5>1. i \in DOMAIN x /\ (x \o y)[i] = x[i]
            BY <2>2, <4>1
          <5> QED BY <5>1 DEF Range
        <4>2. CASE ~(i <= Len(x))
          <5>1. i - Len(x) \in DOMAIN y /\ (x \o y)[i] = y[i - Len(x)]
            BY <2>2, <4>2
          <5> QED BY <5>1 DEF Range
        <4> QED BY <4>1, <4>2
      <3>5. DOMAIN x = 1 .. Len(x) /\ DOMAIN y = 1 .. Len(y)
        BY <2>2
      <3>6. Range(x \o y) \subseteq Range(x) \cup Range(y)
        BY <3>1, <3>4 DEF Range
      <3>7. Range(x) \subseteq Range(x \o y)
        BY <3>2, <3>5 DEF Range
      <3>8. Range(y) \subseteq Range(x \o y)
        BY <3>3, <3>5 DEF Range
      <3> QED BY <3>1, <3>6, <3>7, <3>8
    <2>4. Range(ProjectionOf(plan)) = output \cup {wcols[p] : p \in missing}
      BY <1>6, <1>7, <1>8, <2>1, <2>3
    <2>5. \A p \in DOMAIN plan.where :
            plan.where[p].col \in output \cup {wcols[q] : q \in missing}
      BY <1>6, <1>9
    <2>6. output \cup {wcols[q] : q \in missing}
            = output \cup {plan.where[p].col : p \in DOMAIN plan.where}
      BY <1>10, <2>5
    <2>7. ProjectionOf(plan) \in Seq(A)
      BY <1>8, <2>1, <2>3
    <2> QED BY <2>4, <2>6, <2>7
  <1>12. Answering!Mentioned =
           LET used == output \cup {plan.where[p].col : p \in DOMAIN plan.where}
           IN  IF used = {} THEN Columns ELSE used
    BY SameOperators DEF Answering!Mentioned, Answering!Aggregating, Answering!Columns, Columns, output
  <1>13. Range(ProjectionOf(plan)) = {} <=> ProjectionOf(plan) = << >>
    BY <1>11 DEF Range
  <1>14. Range(Requested) =
           IF ProjectionOf(plan) = << >> THEN Columns ELSE Range(ProjectionOf(plan))
    BY <1>1 DEF Requested, Columns
  <1>15. output = PlanColumns(plan)
    BY DEF output, PlanColumns
  <1>16. \A c \in PlanColumns(plan) : cfg.projection = Requested /\ c \in Range(cfg.projection)
    <2> TAKE c \in PlanColumns(plan)
    <2>1. c \in Range(cfg.projection)
      BY <1>1, <1>11, <1>15
    <2>2. cfg.projection # << >>
      BY <1>1, <1>13, <2>1
    <2> QED BY <2>1, <2>2 DEF Requested
  <1> QED BY <1>1, <1>11, <1>12, <1>13, <1>14, <1>16

\* Every column the scan is asked for has files.
AllReadable ==
  \A i \in DOMAIN Requested :
    Requested[i] \in Columns /\ store[Requested[i]] \in Contents[Requested[i]]

Planned == plan \in Plans /\ cfg = ConfigOf(plan)

\* The names of the batches the answer is told from are those the scan is
\* asked for, in the schema's order.
LEMMA NamesOfGroups ==
  ASSUME Planned, AllReadable
  PROVE  \E m \in Nat \ {0} :
           /\ DOMAIN Answering!Names = 1 .. m
           /\ \A j \in 1 .. m : \E i \in DOMAIN Requested : Answering!Names[j] = Requested[i]
           /\ \A i \in DOMAIN Requested : \E j \in 1 .. m : Answering!Names[j] = Requested[i]
PROOF
  <1>1. /\ Configured /\ Answering!Mentioned = Range(Requested)
        /\ DOMAIN Requested = 1 .. Len(Requested) /\ Len(Requested) \in Nat \ {0}
    BY ConfigFits, RequestedFits DEF Planned
  <1> DEFINE at == {i \in DOMAIN SchemaNames : SchemaNames[i] \in Answering!Mentioned}
  <1>2. PICK nm : nm = Answering!Names
    OBVIOUS
  <1>3. nm = ElementsAt(SchemaNames, at)
    BY <1>2, SameBatchOperators DEF Answering!Names
  <1>4. SchemaNames \in Seq(Columns)
    BY ScanAssumption DEF Columns
  <1>5. at \in SUBSET DOMAIN SchemaNames
    OBVIOUS
  <1>6. nm \in Seq(Columns) /\ Range(nm) = {SchemaNames[i] : i \in at}
    <2> HIDE DEF at
    <2> QED BY <1>3, <1>4, <1>5, ElementsAtPlaces
  <1>7. Answering!Mentioned \subseteq Columns
    BY <1>1 DEF AllReadable, Range
  <1>8. Range(nm) = Range(Requested)
    <2>1. \A c \in Columns : \E i \in DOMAIN SchemaNames : SchemaNames[i] = c
      BY DEF Columns, Range
    <2>2. {SchemaNames[i] : i \in at} = Answering!Mentioned
      BY <1>7, <2>1
    <2> QED BY <1>1, <1>6, <2>2
  <1>9. DOMAIN nm = 1 .. Len(nm) /\ Len(nm) \in Nat
    BY <1>6
  <1>10. \A j \in 1 .. Len(nm) : \E i \in DOMAIN Requested : nm[j] = Requested[i]
    BY <1>8, <1>9 DEF Range
  <1>11. \A i \in DOMAIN Requested : \E j \in 1 .. Len(nm) : nm[j] = Requested[i]
    BY <1>8, <1>9 DEF Range
  <1>12. Len(nm) # 0
    <2>1. 1 \in DOMAIN Requested
      BY <1>1
    <2> QED BY <1>11, <2>1
  <1> QED BY <1>2, <1>9, <1>10, <1>11, <1>12, ZenonT(40)

\* The row groups are as many as the shortest of these columns has.
LEMMA NumberOfGroups ==
  ASSUME Planned, AllReadable
  PROVE  /\ Answering!Readable
         /\ \E N \in Nat :
              /\ Answering!Groups = 1 .. N
              /\ \A i \in DOMAIN Requested : N <= Len(store[Requested[i]])
              /\ \E i \in DOMAIN Requested : N = Len(store[Requested[i]])
PROOF
  <1>1. /\ Configured /\ Answering!Mentioned = Range(Requested)
        /\ DOMAIN Requested = 1 .. Len(Requested) /\ Len(Requested) \in Nat \ {0}
    BY ConfigFits, RequestedFits DEF Planned
  <1>2. \A i \in DOMAIN Requested :
          Len(store[Requested[i]]) \in Nat /\ store[Requested[i]] # Absent
    BY ScanAssumption DEF AllReadable, Columns
  <1>3. Answering!Readable
    BY <1>1, <1>2 DEF Answering!Readable, Answering!Columns, Columns, AllReadable, Range,
                      Answering!Range
  <1> DEFINE lengths == {Len(store[c]) : c \in Answering!Mentioned}
  <1>4. lengths = {Len(store[Requested[i]]) : i \in DOMAIN Requested}
    BY <1>1 DEF Range
  <1>5. lengths \in SUBSET Int /\ lengths # {} /\ \A l \in lengths : 0 <= l
    <2>1. 1 \in DOMAIN Requested
      BY <1>1
    <2> HIDE DEF lengths
    <2> QED BY <1>2, <1>4, <2>1
  <1>6. PICK N : N = Min(lengths)
    OBVIOUS
  <1>7. N \in lengths /\ \A l \in lengths : N <= l
    <2> HIDE DEF lengths
    <2>1. 0 \in Int
      OBVIOUS
    <2>2. Min(lengths) \in lengths /\ \A l \in lengths : Min(lengths) <= l
      BY <1>5, <2>1, MinOfBounded
    <2> QED BY <1>6, <2>2
  <1>8. Answering!Groups = 1 .. N
    BY <1>6, SameOperators DEF Answering!Groups
  <1> HIDE DEF lengths
  <1>9. N \in Nat
    BY <1>2, <1>4, <1>7
  <1> QED BY <1>3, <1>4, <1>7, <1>8, <1>9

\* A batch of chunks alike those of a row group has its rows, and answers the
\* plan's filters as it does.
LEMMA BatchOfGroup ==
  ASSUME Planned, AllReadable, NEW k \in Answering!Groups,
         NEW b, NEW n, n = Len(Requested), DOMAIN b = 1 .. n,
         \A i \in 1 .. n : Alike(b[i], store[Requested[i]][k])
  PROVE  /\ Aligned(b)
         /\ b[1].num_rows = Answering!Group(k)[1].num_rows
         /\ SoundPredicates(b, Requested, cfg.filters) <=> k \in Answering!SoundGroups
         /\ Qualifying(b, Requested, cfg.filters)
              = Answering!Qualifying(Answering!Group(k), Answering!Names, plan.where)
PROOF
  <1>1. /\ DOMAIN Requested = 1 .. n /\ n \in Nat \ {0} /\ cfg.filters = plan.where
    BY ConfigFits, RequestedFits DEF Planned
  <1>2. PICK g, gn : g = Answering!Group(k) /\ gn = Answering!Names
    OBVIOUS
  <1>3. PICK m \in Nat \ {0} :
           /\ DOMAIN gn = 1 .. m
           /\ \A j \in 1 .. m : \E i \in DOMAIN Requested : gn[j] = Requested[i]
           /\ \A i \in DOMAIN Requested : \E j \in 1 .. m : gn[j] = Requested[i]
    BY <1>2, NamesOfGroups
  <1>4. DOMAIN g = 1 .. m /\ \A j \in 1 .. m : g[j] = store[gn[j]][k]
    BY <1>2, <1>3 DEF Answering!Group
  <1>5. SameRows(b, Requested, n, g, gn, m)
    BY <1>1, <1>3, <1>4 DEF SameRows
  <1>6. \A i \in 1 .. n : b[i].num_rows = store[Requested[i]][k].num_rows
    BY DEF Alike
  <1>7. \A i, j \in 1 .. n : store[Requested[i]][k].num_rows = store[Requested[j]][k].num_rows
    <2> TAKE i, j \in 1 .. n
    <2>1. PICK c \in Columns, d \in Columns : c = Requested[i] /\ d = Requested[j]
      BY <1>1 DEF AllReadable
    <2>2. store[c] \in Contents[c] /\ store[d] \in Contents[d]
      BY <1>1, <2>1 DEF AllReadable
    <2>3. k \in DOMAIN store[c] /\ k \in DOMAIN store[d]
      <3>1. PICK N \in Nat :
              /\ Answering!Groups = 1 .. N
              /\ \A o \in DOMAIN Requested : N <= Len(store[Requested[o]])
        BY NumberOfGroups
      <3>2. N <= Len(store[c]) /\ N <= Len(store[d])
        BY <1>1, <2>1, <3>1
      <3>3. /\ DOMAIN store[c] = 1 .. Len(store[c]) /\ Len(store[c]) \in Nat
            /\ DOMAIN store[d] = 1 .. Len(store[d]) /\ Len(store[d]) \in Nat
        BY <2>2, ScanAssumption DEF Columns
      <3> QED BY <3>1, <3>2, <3>3
    <2>4. store[c][k].num_rows = store[d][k].num_rows
      <3>1. PICK content \in Contents[c], other \in Contents[d] :
              content = store[c] /\ other = store[d]
        BY <2>2
      <3>2. k \in DOMAIN content \cap DOMAIN other
        BY <2>3, <3>1
      <3>3. content[k].num_rows = other[k].num_rows
        BY <3>2, QueryAssumption
      <3> QED BY <3>1, <3>3
    <2> QED BY <2>1, <2>4
  <1>8. Aligned(b)
    BY <1>6, <1>7 DEF Aligned
  <1>9. b[1].num_rows = g[1].num_rows
    <2>1. 1 \in 1 .. m /\ 1 \in 1 .. n
      BY <1>1
    <2>2. PICK i \in 1 .. n : gn[1] = Requested[i]
      BY <1>1, <1>3, <2>1
    <2>3. g[1] = store[Requested[i]][k]
      BY <1>4, <2>1, <2>2
    <2> QED BY <1>6, <1>7, <2>1, <2>3
  <1>10. /\ SoundPredicates(b, Requested, cfg.filters) <=> SoundPredicates(g, gn, cfg.filters)
         /\ Qualifying(b, Requested, cfg.filters) = Qualifying(g, gn, cfg.filters)
    <2>1. \A preds :
            /\ SoundPredicates(b, Requested, preds) <=> SoundPredicates(g, gn, preds)
            /\ Qualifying(b, Requested, preds) = Qualifying(g, gn, preds)
      BY <1>5, SameAnswers
    <2> QED BY <2>1
  <1>11. k \in Answering!SoundGroups <=> SoundPredicates(g, gn, plan.where)
    BY <1>2, SameBatchOperators DEF Answering!SoundGroups
  <1>12. Qualifying(g, gn, plan.where)
           = Answering!Qualifying(Answering!Group(k), Answering!Names, plan.where)
    BY <1>2, SameBatchOperators
  <1> QED BY <1>1, <1>2, <1>8, <1>9, <1>10, <1>11, <1>12

\* While a query runs nobody writes, and its one scan does not load again
\* after a throw.
QShape ==
  /\ Planned /\ phase \in {"before", "scan", "done", "threw"}
  /\ initialized => snap = store /\ colNames = Requested /\ phase # "before"
  /\ ~initialized /\ phase # "threw" => colNames = << >>

\* The qualifying rows of a row group, told from the files.
QualifyingOf(k) == Answering!Qualifying(Answering!Group(k), Answering!Names, plan.where)

\* The columns in memory are those the plan needs, as they are in the files.
LEMMA QueryLoaded ==
  ASSUME IInv, QShape, phase = "scan", Load, UNCHANGED <<store, cfg>>
  PROVE  /\ initialized' /\ snap' = store /\ colNames' = Requested
         /\ AllReadable
         /\ Show(columns', Requested, Len(Requested), store)
PROOF
  <1>1. /\ Held' /\ Requested' = Requested
        /\ Show(columns', colNames', Len(colNames'), snap')
    BY Loaded
  <1>2. snap' = store /\ initialized'
    BY DEF Load, QShape
  <1>3. colNames' = Requested
    <2>1. CASE initialized
      BY <2>1 DEF Load, LoadedNames, QShape
    <2>2. CASE ~initialized
      <3>1. colNames = << >> /\ colNames' = NamesToLoad
        BY <2>2 DEF QShape, Load, LoadedNames
      <3>2. << >> \o SchemaNames = SchemaNames
        BY ScanAssumption
      <3> QED BY <3>1, <3>2 DEF NamesToLoad, Requested
    <2> QED BY <2>1, <2>2
  <1>4. AllReadable
    BY <1>1, <1>2, <1>3 DEF Held, AllReadable
  <1> QED BY <1>1, <1>2, <1>3, <1>4

\* The batch a query is given is the next row group, with its qualifying rows
\* or, if a comparison is not sound for it, with none.
LEMMA BatchDelivered ==
  ASSUME IInv, QShape, phase = "scan", DeliverBatch,
         NEW k, k = Len(got) + 1
  PROVE  /\ AllReadable /\ k \in Answering!Groups
         /\ initialized' /\ snap' = store /\ colNames' = Requested
         /\ got' = Append(got, sel')
         /\ \A i \in DOMAIN Requested : Alike(out'[i], store[Requested[i]][k])
         /\ out'[1].num_rows = Answering!Group(k)[1].num_rows
         /\ \A i \in DOMAIN Requested : sel' \subseteq RowsOf(store[Requested[i]][k])
         /\ sel' = QualifyingOf(k) \/ (sel' = {} /\ k \notin Answering!SoundGroups)
PROOF
  <1>1. /\ Load /\ chunkIdx < MinChunks /\ out' = Batch /\ sel' \in Selections(Batch, colNames')
        /\ got' = Append(got, sel') /\ UNCHANGED <<store, cfg>>
    BY DEF DeliverBatch
  <1>2. chunkIdx = Len(got) /\ Len(got) \in Nat
    BY DEF IInv, Counted
  <1>3. /\ initialized' /\ snap' = store /\ colNames' = Requested
        /\ AllReadable
        /\ Show(columns', Requested, Len(Requested), store)
    BY <1>1, QueryLoaded
  <1>4. Planned /\ Configured
    BY DEF QShape, IInv
  <1>5. PICK n : n = Len(Requested)
    OBVIOUS
  <1>6. n \in Nat \ {0} /\ DOMAIN Requested = 1 .. n
    BY <1>4, <1>5, RequestedFits
  <1>7. PICK cols, b, s : cols = columns' /\ b = Batch /\ s = sel'
    OBVIOUS
  <1>8. /\ DOMAIN cols = 1 .. n
        /\ \A i \in 1 .. n :
             /\ Len(cols[i]) \in Nat /\ Len(cols[i]) = Len(store[Requested[i]])
             /\ \A q \in 1 .. Len(cols[i]) :
                  LET chunk == EnsureStats(cols[i][q])
                  IN  IsChunk(chunk) /\ Covers(chunk) /\ Alike(chunk, store[Requested[i]][q])
    BY <1>3, <1>5, <1>7 DEF Show
  <1>9. k \in Nat \ {0} /\ \A i \in 1 .. n : k \in 1 .. Len(cols[i])
    <2>1. MinChunks \in Nat /\ \A i \in DOMAIN cols : MinChunks <= Len(cols[i])
      BY <1>1, <1>7, ShortestColumn
    <2> QED BY <1>1, <1>2, <1>8, <2>1
  <1>10. b = [i \in DOMAIN cols |-> EnsureStats(cols[i][k])]
    BY <1>2, <1>7 DEF Batch
  <1>11. /\ DOMAIN b = 1 .. n
         /\ \A i \in 1 .. n :
              IsChunk(b[i]) /\ Covers(b[i]) /\ Alike(b[i], store[Requested[i]][k])
    BY <1>8, <1>9, <1>10
  <1>12. k \in Answering!Groups
    <2>1. PICK N \in Nat :
            /\ Answering!Groups = 1 .. N
            /\ \E i \in DOMAIN Requested : N = Len(store[Requested[i]])
      BY <1>3, <1>4, NumberOfGroups
    <2>2. PICK i \in 1 .. n : N = Len(store[Requested[i]])
      BY <1>6, <2>1
    <2>3. N = Len(cols[i]) /\ k \in 1 .. Len(cols[i])
      BY <1>8, <1>9, <2>2
    <2> QED BY <2>1, <2>3
  <1>13. /\ Aligned(b) /\ b[1].num_rows = Answering!Group(k)[1].num_rows
         /\ SoundPredicates(b, Requested, cfg.filters) <=> k \in Answering!SoundGroups
         /\ Qualifying(b, Requested, cfg.filters) = QualifyingOf(k)
    <2>1. \A i \in 1 .. n : Alike(b[i], store[Requested[i]][k])
      BY <1>11
    <2> QED BY <1>3, <1>4, <1>5, <1>11, <1>12, <2>1, BatchOfGroup DEF QualifyingOf
  <1>14. s \in Selections(b, Requested)
    BY <1>1, <1>3, <1>7
  <1>15. s = QualifyingOf(k) \/ s = {}
    BY <1>6, <1>11, <1>13, <1>14, SelectionsNoneOrExact
  <1>16. k \in Answering!SoundGroups => s = QualifyingOf(k)
    <2> SUFFICES ASSUME k \in Answering!SoundGroups PROVE s = QualifyingOf(k)
      OBVIOUS
    <2>1. SoundPredicates(b, Requested, cfg.filters)
      BY <1>13
    <2>2. \A i \in 1 .. n : IsChunk(b[i]) /\ Covers(b[i])
      BY <1>11
    <2>3. s = Qualifying(b, Requested, cfg.filters)
      BY <1>4, <1>6, <1>11, <1>13, <1>14, <2>1, <2>2, SelectionsExact
    <2> QED BY <1>13, <2>3
  <1>17. \A i \in 1 .. n : s \subseteq RowsOf(store[Requested[i]][k])
    <2>1. Qualifying(b, Requested, cfg.filters) \subseteq CommonRows(b)
      BY DEF Qualifying
    <2>2. \A i \in 1 .. n : CommonRows(b) \subseteq RowsOf(b[i])
      BY <1>11 DEF CommonRows
    <2>3. \A i \in 1 .. n : RowsOf(b[i]) = RowsOf(store[Requested[i]][k])
      BY <1>11, AlikePasses
    <2> QED BY <1>13, <1>15, <2>1, <2>2, <2>3
  <1>18. \A i \in DOMAIN Requested : Alike(out'[i], store[Requested[i]][k])
    BY <1>1, <1>6, <1>7, <1>11
  <1>19. out'[1].num_rows = Answering!Group(k)[1].num_rows
    BY <1>1, <1>7, <1>13
  <1>20. \A i \in DOMAIN Requested : sel' \subseteq RowsOf(store[Requested[i]][k])
    BY <1>6, <1>7, <1>17
  <1>21. sel' = QualifyingOf(k) \/ (sel' = {} /\ k \notin Answering!SoundGroups)
    <2>1. CASE k \in Answering!SoundGroups
      BY <1>7, <1>16, <2>1
    <2>2. CASE k \notin Answering!SoundGroups
      <3>1. s = QualifyingOf(k) \/ s = {}
        BY <1>15
      <3> QED BY <1>7, <2>2, <3>1, Zenon
    <2> QED BY <2>1, <2>2
  <1> QED BY <1>1, <1>3, <1>12, <1>18, <1>19, <1>20, <1>21

\* Where the scan ends, every row group has been delivered.
LEMMA ScanEnded ==
  ASSUME IInv, QShape, phase = "scan", EndOfScan
  PROVE  /\ AllReadable /\ Answering!Groups = 1 .. Len(got)
         /\ initialized' /\ snap' = store /\ colNames' = Requested
         /\ UNCHANGED <<store, cfg, got>>
PROOF
  <1>1. Load /\ chunkIdx >= MinChunks /\ UNCHANGED <<store, cfg, got>>
    BY DEF EndOfScan
  <1>2. chunkIdx = Len(got) /\ Len(got) \in Nat
    BY DEF IInv, Counted
  <1>3. /\ initialized' /\ snap' = store /\ colNames' = Requested
        /\ AllReadable
        /\ Show(columns', Requested, Len(Requested), store)
    BY <1>1, QueryLoaded
  <1>4. Planned /\ Configured
    BY DEF QShape, IInv
  <1>5. Len(Requested) \in Nat \ {0} /\ DOMAIN Requested = 1 .. Len(Requested)
    BY <1>4, RequestedFits
  <1>6. PICK cols, n : cols = columns' /\ n = Len(Requested)
    OBVIOUS
  <1>7. /\ DOMAIN cols = 1 .. n
        /\ \A i \in 1 .. n : Len(cols[i]) \in Nat /\ Len(cols[i]) = Len(store[Requested[i]])
    BY <1>3, <1>6 DEF Show
  <1>8. /\ \A i \in 1 .. n : Len(got) <= Len(cols[i])
        /\ \E i \in 1 .. n : Len(cols[i]) <= Len(got)
    <2>1. \A i \in DOMAIN columns' : Len(got) <= Len(columns'[i])
      BY <1>1, Loaded
    <2>2. MinChunks \in Nat /\ \E i \in DOMAIN columns' : MinChunks = Len(columns'[i])
      BY <1>1, ShortestColumn
    <2> QED BY <1>1, <1>2, <1>6, <1>7, <2>1, <2>2
  <1>9. PICK N \in Nat :
          /\ Answering!Groups = 1 .. N
          /\ \A i \in DOMAIN Requested : N <= Len(store[Requested[i]])
          /\ \E i \in DOMAIN Requested : N = Len(store[Requested[i]])
    BY <1>3, <1>4, NumberOfGroups
  <1>10. N = Len(got)
    <2>1. PICK i \in 1 .. n : N = Len(cols[i])
      BY <1>5, <1>6, <1>7, <1>9
    <2>2. PICK j \in 1 .. n : Len(cols[j]) <= Len(got)
      BY <1>8
    <2>3. N <= Len(cols[j]) /\ Len(got) <= Len(cols[i])
      BY <1>5, <1>6, <1>7, <1>8, <1>9
    <2> QED BY <1>2, <1>7, <2>1, <2>2, <2>3
  <1> QED BY <1>1, <1>3, <1>9, <1>10

\* A call that throws has met a column that cannot be read.
LEMMA ThrowsForReason ==
  ASSUME IInv, QShape, phase = "scan", LoadFails
  PROVE  ~Answering!Readable
PROOF
  <1>1. ~initialized /\ colNames = << >>
    BY DEF LoadFails, QShape
  <1>2. NamesToLoad = Requested
    <2>1. << >> \o SchemaNames = SchemaNames
      BY ScanAssumption
    <2> QED BY <1>1, <2>1 DEF NamesToLoad, Requested
  <1>3. PICK i \in DOMAIN Requested : ~Readable(Requested[i])
    BY <1>2 DEF LoadFails
  <1>4. Requested[i] \in Answering!Mentioned
    BY ConfigFits DEF QShape, Planned, Range
  <1> QED BY <1>3, <1>4 DEF Readable, Answering!Readable, Answering!Columns, Columns,
                            Range, Answering!Range

-----------------------------------------------------------------------------
(* Rows up to a limit.                                                     *)

\* The lesser of two numbers.
LEMMA MinOfTwo ==
  ASSUME NEW a \in Int, NEW b \in Int
  PROVE  Min({a, b}) = IF a <= b THEN a ELSE b
PROOF
  <1>1. PICK S, low : S = {a, b} /\ low = IF a <= b THEN a ELSE b
    OBVIOUS
  <1>2. low \in Int /\ S \in SUBSET Int /\ S # {} /\ low \in S /\ \A s \in S : low <= s
    BY <1>1
  <1>3. Min(S) \in S /\ \A s \in S : Min(S) <= s
    BY <1>2, MinOfBounded
  <1>4. PICK m \in Int : m = Min(S)
    BY <1>2, <1>3
  <1>5. m <= low /\ low <= m
    BY <1>2, <1>3, <1>4
  <1>6. m = low
    BY <1>2, <1>4, <1>5
  <1> QED BY <1>1, <1>4, <1>6

\* The first limit elements of a sequence, or as many as it has.
Cut(seq, limit) == SubSeq(seq, 1, Min({limit, Len(seq)}))

\* A sequence is cut off at the limit if it is longer.
LEMMA CutIs ==
  ASSUME NEW A, NEW seq \in Seq(A), NEW limit \in Nat
  PROVE  /\ Len(seq) <= limit => Cut(seq, limit) = seq
         /\ Len(seq) >= limit => /\ Cut(seq, limit) = SubSeq(seq, 1, limit)
                                 /\ Len(Cut(seq, limit)) = limit
PROOF
  <1>1. PICK n \in Nat : n = Len(seq)
    OBVIOUS
  <1>2. Min({limit, n}) = IF limit <= n THEN limit ELSE n
    BY MinOfTwo
  <1>3. Cut(seq, limit) = SubSeq(seq, 1, IF limit <= n THEN limit ELSE n)
    BY <1>1, <1>2 DEF Cut
  <1>4. SubSeq(seq, 1, n) = seq
    BY <1>1
  <1>5. limit <= n => Len(SubSeq(seq, 1, limit)) = limit
    BY <1>1
  <1> QED BY <1>1, <1>3, <1>4, <1>5

\* Behind what there is, as much as there is room for.
LEMMA CutJoin ==
  ASSUME NEW A, NEW x \in Seq(A), NEW y \in Seq(A), NEW limit \in Nat, Len(x) <= limit
  PROVE  x \o Cut(y, limit - Len(x)) = Cut(x \o y, limit)
PROOF
  <1>1. PICK room \in Nat : room = limit - Len(x)
    OBVIOUS
  <1>2. x \o y \in Seq(A) /\ Len(x \o y) = Len(x) + Len(y) /\ Len(x) \in Nat /\ Len(y) \in Nat
    OBVIOUS
  <1>3. CASE Len(y) <= room
    <2>1. Cut(y, room) = y
      BY <1>3, CutIs
    <2>2. Len(x \o y) <= limit
      BY <1>1, <1>2, <1>3
    <2>3. Cut(x \o y, limit) = x \o y
      BY <1>2, <2>2, CutIs
    <2> QED BY <1>1, <2>1, <2>3
  <1>4. CASE ~(Len(y) <= room)
    <2>1. Cut(y, room) = SubSeq(y, 1, room)
      BY <1>2, <1>4, CutIs
    <2>2. Len(x \o y) >= limit
      BY <1>1, <1>2, <1>4
    <2>3. Cut(x \o y, limit) = SubSeq(x \o y, 1, limit)
      BY <1>2, <2>2, CutIs
    <2>4. x \o SubSeq(y, 1, room) = SubSeq(x \o y, 1, limit)
      <3>1. PICK u : u = SubSeq(y, 1, room)
        OBVIOUS
      <3>2. u \in Seq(A) /\ Len(u) = room /\ \A i \in 1 .. room : u[i] = y[i]
        BY <1>2, <1>4, <3>1
      <3>3. PICK v, w : v = x \o u /\ w = SubSeq(x \o y, 1, limit)
        OBVIOUS
      <3>4. v \in Seq(A) /\ Len(v) = limit
        BY <1>1, <1>2, <3>2, <3>3
      <3>5. w \in Seq(A) /\ Len(w) = limit
        BY <1>2, <2>2, <3>3
      <3>6. ASSUME NEW i \in 1 .. limit PROVE v[i] = w[i]
        <4>1. w[i] = (x \o y)[i]
          BY <1>2, <2>2, <3>3
        <4>2. CASE i <= Len(x)
          <5>1. (x \o y)[i] = x[i] /\ v[i] = x[i]
            BY <1>2, <3>2, <3>3, <4>2
          <5> QED BY <4>1, <5>1
        <4>3. CASE ~(i <= Len(x))
          <5>1. i - Len(x) \in 1 .. room /\ i \in 1 .. Len(x) + Len(y)
            BY <1>1, <1>2, <1>4, <4>3
          <5>2. (x \o y)[i] = y[i - Len(x)]
            BY <1>2, <4>3, <5>1
          <5>3. v[i] = u[i - Len(x)]
            BY <1>2, <3>2, <3>3, <4>3, <5>1
          <5> QED BY <3>2, <4>1, <5>1, <5>2, <5>3
        <4> QED BY <4>2, <4>3
      <3>7. v = w
        BY <3>4, <3>5, <3>6
      <3> QED BY <3>1, <3>3, <3>7
    <2> QED BY <1>1, <2>1, <2>3, <2>4
  <1> QED BY <1>3, <1>4

\* What is laid end to end begins with what was there before.
Growing(g, A, N) ==
  /\ \A n \in 0 .. N : g[n] \in Seq(A)
  /\ \A n \in 1 .. N : \E y \in Seq(A) : g[n] = g[n - 1] \o y

Prefix(x, z) == Len(x) <= Len(z) /\ \A i \in 1 .. Len(x) : z[i] = x[i]

\* A sequence that grows step by step keeps what it had.
LEMMA PrefixGrows ==
  ASSUME NEW A, NEW N \in Nat, NEW g, Growing(g, A, N), NEW m \in 0 .. N, NEW n \in m .. N
  PROVE  Prefix(g[m], g[n])
PROOF
  <1>0. /\ \A q \in 0 .. N : g[q] \in Seq(A)
        /\ \A q \in 1 .. N : \E y \in Seq(A) : g[q] = g[q - 1] \o y
    BY DEF Growing
  <1> DEFINE Grown(q) == /\ Len(g[m]) <= Len(g[q])
                         /\ \A i \in 1 .. Len(g[m]) : g[q][i] = g[m][i]
             Wrong == {q \in m .. N : ~Grown(q)}
  <1>1. ASSUME Wrong # {} PROVE FALSE
    <2>1. Wrong \in SUBSET Int /\ \A q \in Wrong : 0 <= q
      <3> HIDE DEF Grown
      <3> QED OBVIOUS
    <2>2. PICK l \in Wrong : \A q \in Wrong : l <= q
      <3> HIDE DEF Wrong
      <3>1. 0 \in Int
        OBVIOUS
      <3> QED BY <1>1, <2>1, <3>1, LeastInteger
    <2>3. l \in m .. N /\ ~Grown(l)
      BY <2>2
    <2>4. l # m
      <3>1. Grown(m)
        BY <1>0
      <3> QED BY <2>3, <3>1
    <2>5. l - 1 \in m .. N /\ l \in 1 .. N /\ l - 1 \in 0 .. N /\ ~(l <= l - 1)
      BY <2>3, <2>4
    <2>6. Grown(l - 1)
      <3> HIDE DEF Grown
      <3>1. l - 1 \notin Wrong
        BY <2>2, <2>5
      <3> QED BY <2>5, <3>1
    <2>7. PICK y \in Seq(A) : g[l] = g[l - 1] \o y
      BY <1>0, <2>5
    <2>8. PICK x \in Seq(A), z \in Seq(A) : x = g[l - 1] /\ z = g[m]
      BY <1>0, <2>5
    <2>9. /\ Len(x) <= Len(x \o y)
          /\ \A i \in 1 .. Len(x) : (x \o y)[i] = x[i]
      OBVIOUS
    <2>10. Len(z) <= Len(x) /\ \A i \in 1 .. Len(z) : x[i] = z[i]
      BY <2>6, <2>8
    <2>11. Len(z) <= Len(x \o y) /\ \A i \in 1 .. Len(z) : (x \o y)[i] = z[i]
      <3>1. Len(z) \in Nat /\ Len(x) \in Nat /\ Len(x \o y) \in Nat
        OBVIOUS
      <3> QED BY <2>9, <2>10, <3>1
    <2>12. Grown(l)
      BY <2>7, <2>8, <2>11
    <2> QED BY <2>3, <2>12
  <1>2. Grown(n)
    <2> HIDE DEF Grown
    <2> QED BY <1>1
  <1> QED BY <1>2 DEF Prefix

\* A prefix that reaches the limit is all that is cut off.
LEMMA CutOfPrefix ==
  ASSUME NEW A, NEW x \in Seq(A), NEW z \in Seq(A), NEW limit \in Nat,
         Len(x) >= limit, Prefix(x, z)
  PROVE  Cut(z, limit) = Cut(x, limit)
PROOF
  <1> USE DEF Prefix
  <1>1. Cut(x, limit) = SubSeq(x, 1, limit)
    BY CutIs
  <1>2. Cut(z, limit) = SubSeq(z, 1, limit)
    <2>1. Len(z) >= limit
      OBVIOUS
    <2> QED BY <2>1, CutIs
  <1>3. SubSeq(x, 1, limit) = SubSeq(z, 1, limit)
    <2>1. PICK u, v : u = SubSeq(x, 1, limit) /\ v = SubSeq(z, 1, limit)
      OBVIOUS
    <2>2. u \in Seq(A) /\ Len(u) = limit /\ \A i \in 1 .. limit : u[i] = x[i]
      BY <2>1
    <2>3. v \in Seq(A) /\ Len(v) = limit /\ \A i \in 1 .. limit : v[i] = z[i]
      BY <2>1
    <2>4. \A i \in 1 .. limit : i \in 1 .. Len(x)
      OBVIOUS
    <2> QED BY <2>1, <2>2, <2>3, <2>4
  <1> QED BY <1>1, <1>2, <1>3

\* The rows selected in row group k, with the columns in the plan's order.
GroupRows(k, S) ==
  [i \in DOMAIN Ascending(S) |->
     [s \in DOMAIN plan.select |-> Answering!Cell(plan.select[s], k, Ascending(S)[i])]]

\* Those of the first n row groups, selected in each as S says.
RowsFrom(S, n) == FlattenSeq([k \in 1 .. n |-> GroupRows(k, S[k])])

\* g[n] are those of the first n, all in all N.
RowsInSteps(g, A, N, S) ==
  /\ g[0] = << >>
  /\ \A n \in 0 .. N : g[n] \in Seq(A) /\ RowsFrom(S, n) = g[n]
  /\ \A n \in 1 .. N : GroupRows(n, S[n]) \in Seq(A) /\ g[n] = g[n - 1] \o GroupRows(n, S[n])

\* The rows of N row groups can be laid end to end, one group after the other.
LEMMA RowsLaid ==
  ASSUME NEW N \in Nat, NEW S, \A k \in 1 .. N : S[k] \in SUBSET Nat /\ IsFiniteSet(S[k])
  PROVE  \E A, g : RowsInSteps(g, A, N, S)
PROOF
  <1>1. PICK p : p = [k \in 1 .. N |-> GroupRows(k, S[k])]
    OBVIOUS
  <1>2. PICK A : A = UNION {{p[k][i] : i \in DOMAIN p[k]} : k \in 1 .. N}
    OBVIOUS
  <1>3. \A k \in 1 .. N : p[k] = GroupRows(k, S[k])
    BY <1>1
  <1>4. ASSUME NEW k \in 1 .. N PROVE p[k] \in Seq(A)
    <2>1. PICK q : q = p[k]
      OBVIOUS
    <2>2. /\ DOMAIN Ascending(S[k]) = 1 .. Len(Ascending(S[k]))
          /\ Len(Ascending(S[k])) \in Nat
      <3>1. PICK T : T = S[k]
        OBVIOUS
      <3>2. T \in SUBSET Nat /\ IsFiniteSet(T)
        BY <3>1
      <3>3. DOMAIN Ascending(T) = 1 .. Len(Ascending(T)) /\ Len(Ascending(T)) \in Nat
        BY <3>2, AscendingMembers
      <3> QED BY <3>1, <3>3
    <2>3. PICK n \in Nat : n = Len(Ascending(S[k]))
      BY <2>2
    <2>4. DOMAIN q = 1 .. n /\ q = [i \in 1 .. n |-> q[i]]
      BY <1>3, <2>1, <2>2, <2>3 DEF GroupRows
    <2>5. \A i \in 1 .. n : q[i] \in A
      <3> TAKE i \in 1 .. n
      <3>1. q[i] \in {p[k][j] : j \in DOMAIN p[k]}
        BY <2>1, <2>4
      <3> QED BY <1>2, <3>1
    <2> QED BY <2>1, <2>3, <2>4, <2>5
  <1>5. PICK g : LaidInSteps(g, A, N, p)
    BY <1>4, FlattenSteps
  <1>6. ASSUME NEW n \in 0 .. N PROVE RowsFrom(S, n) = g[n]
    <2>1. \A k \in 1 .. n : k \in 1 .. N
      OBVIOUS
    <2>2. [k \in 1 .. n |-> p[k]] = [k \in 1 .. n |-> GroupRows(k, S[k])]
      BY <1>3, <2>1
    <2> QED BY <1>5, <2>2 DEF RowsFrom, FirstLaid, LaidInSteps
  <1>7. \A n \in 1 .. N : GroupRows(n, S[n]) \in Seq(A) /\ g[n] = g[n - 1] \o GroupRows(n, S[n])
    BY <1>3, <1>4, <1>5 DEF LaidInSteps
  <1>8. \A n \in 0 .. N : g[n] \in Seq(A) /\ RowsFrom(S, n) = g[n]
    BY <1>5, <1>6 DEF LaidInSteps
  <1>9. g[0] = << >>
    BY <1>5 DEF LaidInSteps
  <1> QED BY <1>9, <1>7, <1>8, Zenon DEF RowsInSteps

-----------------------------------------------------------------------------
(* What has been delivered.                                                *)

\* The selections g got the first row groups.
DeliveredBy(g) ==
  \A k \in DOMAIN g :
    /\ k \in Answering!Groups
    /\ \A i \in DOMAIN Requested : g[k] \subseteq RowsOf(store[Requested[i]][k])
    /\ g[k] = QualifyingOf(k) \/ (g[k] = {} /\ k \notin Answering!SoundGroups)

\* The row groups that were not lost.
KeptBy(g) == Answering!SoundGroups \cup {k \in DOMAIN g : g[k] # {}}

\* What was delivered is what the row groups kept select, and none that is
\* sound was lost.
LEMMA KeptSelects ==
  ASSUME NEW g, DeliveredBy(g)
  PROVE  /\ \A k \in DOMAIN g : Answering!Selected(KeptBy(g), k) = g[k]
         /\ \E lucky \in SUBSET (Answering!Groups \ Answering!SoundGroups) :
              KeptBy(g) = Answering!SoundGroups \cup lucky
PROOF
  <1>1. ASSUME NEW k \in DOMAIN g PROVE Answering!Selected(KeptBy(g), k) = g[k]
    <2>1. Answering!Selected(KeptBy(g), k) = IF k \in KeptBy(g) THEN QualifyingOf(k) ELSE {}
      BY DEF Answering!Selected, QualifyingOf
    <2>2. CASE k \in KeptBy(g)
      BY <2>1, <2>2 DEF KeptBy, DeliveredBy
    <2>3. CASE k \notin KeptBy(g)
      BY <2>1, <2>3 DEF KeptBy
    <2> QED BY <2>2, <2>3
  <1> DEFINE lucky == {k \in DOMAIN g : g[k] # {}} \ Answering!SoundGroups
  <1>2. lucky \in SUBSET (Answering!Groups \ Answering!SoundGroups)
    BY DEF DeliveredBy
  <1>3. KeptBy(g) = Answering!SoundGroups \cup lucky
    BY DEF KeptBy
  <1> QED BY <1>1, <1>2, <1>3

\* The chunks of the row groups.
LEMMA GroupChunks ==
  ASSUME Planned, AllReadable, NEW k \in Answering!Groups
  PROVE  /\ \A i \in DOMAIN Requested : IsChunk(store[Requested[i]][k])
         /\ Answering!Group(k)[1].num_rows \in Nat
         /\ QualifyingOf(k) \subseteq 0 .. (Answering!Group(k)[1].num_rows - 1)
PROOF
  <1>1. DOMAIN Requested = 1 .. Len(Requested) /\ Len(Requested) \in Nat \ {0}
    BY ConfigFits, RequestedFits DEF Planned
  <1>2. ASSUME NEW i \in DOMAIN Requested PROVE IsChunk(store[Requested[i]][k])
    <2>1. PICK c \in Columns : c = Requested[i]
      BY DEF AllReadable
    <2>2. PICK content \in Contents[c] : content = store[c]
      BY <2>1 DEF AllReadable
    <2>3. PICK N \in Nat :
            /\ Answering!Groups = 1 .. N
            /\ \A o \in DOMAIN Requested : N <= Len(store[Requested[o]])
      BY NumberOfGroups
    <2>4. /\ DOMAIN content = 1 .. Len(content) /\ Len(content) \in Nat
          /\ \A q \in DOMAIN content : IsChunk(content[q])
      BY ScanAssumption DEF Columns
    <2>5. N <= Len(content)
      BY <2>1, <2>2, <2>3
    <2>6. k \in DOMAIN content
      BY <2>3, <2>4, <2>5
    <2> QED BY <2>1, <2>2, <2>4, <2>6
  <1>3. PICK b, n : n = Len(Requested) /\ b = [i \in 1 .. n |-> store[Requested[i]][k]]
    OBVIOUS
  <1>4. \A i \in 1 .. n : Alike(b[i], store[Requested[i]][k])
    BY <1>3 DEF Alike
  <1>5. /\ b[1].num_rows = Answering!Group(k)[1].num_rows
        /\ Qualifying(b, Requested, cfg.filters) = QualifyingOf(k)
    <2>1. DOMAIN b = 1 .. n
      BY <1>3
    <2> QED BY <1>3, <1>4, <2>1, BatchOfGroup DEF QualifyingOf
  <1>6. b[1] = store[Requested[1]][k] /\ 1 \in DOMAIN Requested
    BY <1>1, <1>3
  <1>7. b[1].num_rows \in Nat
    <2>1. IsChunk(b[1])
      BY <1>2, <1>6
    <2> QED BY <2>1 DEF IsChunk
  <1>8. Qualifying(b, Requested, cfg.filters) \subseteq RowsOf(b[1])
    BY DEF Qualifying, CommonRows
  <1> QED BY <1>2, <1>5, <1>7, <1>8 DEF RowsOf

\* Selections of the row groups are finite sets of row numbers.
LEMMA SelectedFinite ==
  ASSUME Planned, AllReadable, NEW k \in Answering!Groups, NEW kept
  PROVE  /\ Answering!Selected(kept, k) \in SUBSET Nat
         /\ IsFiniteSet(Answering!Selected(kept, k))
PROOF
  <1>1. PICK n \in Nat : n = Answering!Group(k)[1].num_rows
    BY GroupChunks
  <1>2. QualifyingOf(k) \subseteq 0 .. (n - 1)
    BY <1>1, GroupChunks
  <1>3. Answering!Selected(kept, k) \subseteq 0 .. (n - 1)
    BY <1>2 DEF Answering!Selected, QualifyingOf
  <1>4. IsFiniteSet(0 .. (n - 1))
    <2>1. 0 \in Int /\ n - 1 \in Int
      OBVIOUS
    <2> QED BY <2>1, FS_Interval
  <1>5. IsFiniteSet(Answering!Selected(kept, k))
    BY <1>3, <1>4, FS_Subset
  <1>6. 0 .. (n - 1) \subseteq Nat
    OBVIOUS
  <1> QED BY <1>3, <1>5, <1>6

\* The rows of the answer, as they are laid end to end.
LEMMA RowsUpToIs ==
  ASSUME NEW kept, NEW S, NEW n, \A k \in 1 .. n : S[k] = Answering!Selected(kept, k)
  PROVE  Answering!RowsUpTo(kept, n) = RowsFrom(S, n)
PROOF
  <1>1. ASSUME NEW k \in 1 .. n PROVE Answering!RowsOfGroup(kept, k) = GroupRows(k, S[k])
    <2>1. PICK T : T = Answering!Selected(kept, k)
      OBVIOUS
    <2>2. Answering!Ascending(T) = Ascending(T)
      BY SameOperators
    <2> QED BY <2>1, <2>2 DEF Answering!RowsOfGroup, GroupRows
  <1>2. [k \in 1 .. n |-> Answering!RowsOfGroup(kept, k)] = [k \in 1 .. n |-> GroupRows(k, S[k])]
    BY <1>1
  <1>3. PICK z : z = [k \in 1 .. n |-> GroupRows(k, S[k])]
    OBVIOUS
  <1>4. Answering!FlattenSeq(z) = FlattenSeq(z)
    BY SameOperators
  <1> QED BY <1>2, <1>3, <1>4 DEF Answering!RowsUpTo, RowsFrom

\* The rows that have been seen when the first n row groups have.
ScannedOf(n) ==
  SumFunctionOnSet([k \in 1 .. n |-> Answering!Group(k)[1].num_rows], 1 .. n)

\* A scan of N row groups ends with the last, or with the one that reaches the
\* limit, for which the first K were delivered, with the selections of g.
Stops(g, K, N) ==
  /\ K \in 0 .. N /\ DOMAIN g = 1 .. K
  /\ \A k \in 1 .. (K - 1) : Limited => ~(Len(RowsFrom(g, k)) >= plan.limit)
  /\ K = N \/ (K > 0 /\ Limited /\ Len(RowsFrom(g, K)) >= plan.limit)

RowsUpToLimit(seq) == IF Limited THEN Cut(seq, plan.limit) ELSE seq

\* Answer and Query read the plan alike.
LEMMA SameLimits ==
  /\ Answering!Limited <=> Limited
  /\ Answering!Aggregating <=> Aggregating
PROOF
  BY Zenon DEF Answering!Limited, Limited, Answering!Aggregating, Aggregating

\* The rows of the answer are told by the row groups seen.
LEMMA AnsweredRows ==
  ASSUME Planned, AllReadable, ~Aggregating,
         NEW N \in Nat, Answering!Groups = 1 .. N,
         NEW g, NEW K, Stops(g, K, N), DeliveredBy(g)
  PROVE  /\ Answering!Rows(KeptBy(g)) = RowsUpToLimit(RowsFrom(g, K))
         /\ \A k \in 1 .. K : Answering!RowsUpTo(KeptBy(g), k) = RowsFrom(g, k)
PROOF
  <1>1. K \in 0 .. N /\ DOMAIN g = 1 .. K
    BY DEF Stops
  <1>2. PICK kept : kept = KeptBy(g)
    OBVIOUS
  <1>3. PICK S : S = [k \in 1 .. N |-> Answering!Selected(kept, k)]
    OBVIOUS
  <1>4. \A k \in 1 .. N : S[k] = Answering!Selected(kept, k)
    BY <1>3
  <1>5. \A k \in 1 .. K : g[k] = S[k]
    <2>1. \A k \in 1 .. K : k \in 1 .. N
      BY <1>1
    <2> QED BY <1>1, <1>2, <1>4, <2>1, KeptSelects
  <1>6. PICK A, z : RowsInSteps(z, A, N, S)
    <2>1. \A k \in 1 .. N : S[k] \in SUBSET Nat /\ IsFiniteSet(S[k])
      BY <1>4, SelectedFinite
    <2> QED BY <2>1, RowsLaid
  <1>7. ASSUME NEW n \in 0 .. N PROVE Answering!RowsUpTo(kept, n) = z[n] /\ z[n] \in Seq(A)
    <2>1. \A k \in 1 .. n : S[k] = Answering!Selected(kept, k)
      BY <1>4
    <2>2. Answering!RowsUpTo(kept, n) = RowsFrom(S, n)
      BY <2>1, RowsUpToIs
    <2> QED BY <1>6, <2>2 DEF RowsInSteps
  <1>8. ASSUME NEW n \in 0 .. K PROVE RowsFrom(g, n) = z[n]
    <2>1. n \in 0 .. N /\ \A k \in 1 .. n : k \in 1 .. K
      BY <1>1
    <2>2. [k \in 1 .. n |-> GroupRows(k, g[k])] = [k \in 1 .. n |-> GroupRows(k, S[k])]
      BY <1>5, <2>1
    <2>3. RowsFrom(g, n) = RowsFrom(S, n)
      BY <2>2 DEF RowsFrom
    <2> QED BY <1>6, <2>1, <2>3 DEF RowsInSteps
  <1>9. \A k \in 1 .. K : Answering!RowsUpTo(kept, k) = RowsFrom(g, k)
    <2>1. \A k \in 1 .. K : k \in 0 .. N /\ k \in 0 .. K
      BY <1>1
    <2> QED BY <1>7, <1>8, <2>1
  <1>10. PICK all, x : all = z[N] /\ x = z[K]
    OBVIOUS
  <1>11. all \in Seq(A) /\ x \in Seq(A) /\ RowsFrom(g, K) = x
    <2>1. N \in 0 .. N /\ K \in 0 .. N /\ K \in 0 .. K
      BY <1>1
    <2> QED BY <1>7, <1>8, <1>10, <2>1
  <1>12. Answering!RowsUpTo(kept, Answering!Cardinality(Answering!Groups)) = all
    <2>1. Cardinality(1 .. N) = N
      <3>1. 1 \in Int /\ N \in Int
        OBVIOUS
      <3>2. Cardinality(1 .. N) = IF 1 > N THEN 0 ELSE N - 1 + 1
        BY <3>1, FS_Interval
      <3> QED BY <3>2
    <2>2. Answering!Cardinality(Answering!Groups) = N
      BY <2>1, SameOperators
    <2>3. N \in 0 .. N
      OBVIOUS
    <2> QED BY <1>7, <1>10, <2>2, <2>3
  <1>13. Answering!Rows(kept) = RowsUpToLimit(all)
    <2>1. Answering!Min({plan.limit, Len(all)}) = Min({plan.limit, Len(all)})
      BY SameOperators
    <2> QED BY <1>12, <2>1, SameLimits DEF Answering!Rows, RowsUpToLimit, Cut
  <1>14. RowsUpToLimit(all) = RowsUpToLimit(x)
    <2>1. CASE K = N
      BY <1>10, <2>1
    <2>2. CASE K # N
      <3>1. Limited /\ Len(x) >= plan.limit
        BY <1>11, <2>2 DEF Stops
      <3>2. PICK limit \in Nat : limit = plan.limit
        BY <3>1, QueryAssumption DEF Planned, Limited
      <3>3. Prefix(x, all)
        <4>1. Growing(z, A, N)
          BY <1>6 DEF RowsInSteps, Growing
        <4>2. N \in K .. N
          BY <1>1
        <4> QED BY <1>1, <1>10, <4>1, <4>2, PrefixGrows
      <3>4. Cut(all, limit) = Cut(x, limit)
        BY <1>11, <3>1, <3>2, <3>3, CutOfPrefix
      <3> QED BY <3>1, <3>2, <3>4 DEF RowsUpToLimit
    <2> QED BY <2>1, <2>2
  <1> QED BY <1>2, <1>9, <1>11, <1>13, <1>14

\* A sum depends on the values at the elements summed only.
LEMMA SameSum ==
  ASSUME NEW S, IsFiniteSet(S), NEW f, NEW g, \A x \in S : f[x] \in Int /\ g[x] = f[x]
  PROVE  SumFunctionOnSet(g, S) = SumFunctionOnSet(f, S)
PROOF
  <1>1. PICK h : h = [x \in S |-> x]
    OBVIOUS
  <1>2. PICK E : E = {}
    OBVIOUS
  <1>3. IsFiniteSet(E) /\ SumFunctionOnSet(g, E) = 0
    <2>1. IsFiniteSet(E)
      BY <1>2, FS_EmptySet
    <2>2. \A x \in E : g[x] \in Int
      BY <1>2
    <2> QED BY <1>2, <2>1, <2>2, SumTakesOne
  <1>4. /\ \A x \in E : g[x] \in Int
        /\ \A y \in S : h[y] \notin E /\ g[h[y]] = f[y]
        /\ \A y, w \in S : h[y] = h[w] => y = w
    BY <1>1, <1>2
  <1>5. \A y \in S : f[y] \in Int
    OBVIOUS
  <1>6. SumFunctionOnSet(g, E \cup {h[y] : y \in S})
          = SumFunctionOnSet(g, E) + SumFunctionOnSet(f, S)
    <2>1. Numbers(h, g, E, f, S)
      BY <1>3, <1>4, <1>5 DEF Numbers
    <2> QED BY <2>1, SumJoin
  <1>7. E \cup {h[y] : y \in S} = S
    BY <1>1, <1>2
  <1>8. SumFunctionOnSet(f, S) \in Int
    BY <1>5, SumTakesOne
  <1>9. PICK a, b : a = SumFunctionOnSet(f, S) /\ b = SumFunctionOnSet(g, S)
    OBVIOUS
  <1>10. b = 0 + a /\ a \in Int
    BY <1>3, <1>6, <1>7, <1>8, <1>9
  <1> QED BY <1>9, <1>10

\* So are the rows it says were scanned.
LEMMA AnsweredScanned ==
  ASSUME Planned, AllReadable,
         NEW N \in Nat, Answering!Groups = 1 .. N,
         NEW g, NEW K, Stops(g, K, N),
         NEW kept, \A k \in 1 .. K : Limited => Answering!RowsUpTo(kept, k) = RowsFrom(g, k)
  PROVE  Answering!Scanned(kept) = ScannedOf(K)
PROOF
  <1>1. /\ K \in 0 .. N
        /\ \A k \in 1 .. (K - 1) : Limited => ~(Len(RowsFrom(g, k)) >= plan.limit)
        /\ K = N \/ (K > 0 /\ Limited /\ Len(RowsFrom(g, K)) >= plan.limit)
    BY DEF Stops
  <1> DEFINE enough == {k \in 1 .. N : Limited /\ Len(Answering!RowsUpTo(kept, k)) >= plan.limit}
             seen == {k \in 1 .. N : \A j \in enough : k <= j}
  <1>2. \A j \in enough : K <= j
    <2> SUFFICES ASSUME NEW j \in enough, ~(K <= j) PROVE FALSE
      OBVIOUS
    <2>1. j \in 1 .. N /\ Limited /\ Len(Answering!RowsUpTo(kept, j)) >= plan.limit
      OBVIOUS
    <2>2. j \in 1 .. (K - 1) /\ j \in 1 .. K
      BY <1>1, <2>1
    <2>3. Answering!RowsUpTo(kept, j) = RowsFrom(g, j)
      BY <2>1, <2>2
    <2> QED BY <1>1, <2>1, <2>2, <2>3
  <1>3. K = N \/ K \in enough
    <2> SUFFICES ASSUME K # N PROVE K \in enough
      OBVIOUS
    <2>1. K \in 1 .. N /\ K \in 1 .. K /\ Limited /\ Len(RowsFrom(g, K)) >= plan.limit
      BY <1>1
    <2> QED BY <2>1
  <1>4. seen = 1 .. K
    <2>1. enough \subseteq 1 .. N
      OBVIOUS
    <2> HIDE DEF enough
    <2>2. \A k \in 1 .. K : k \in seen
      BY <1>1, <1>2, <2>1
    <2>3. \A k \in seen : k \in 1 .. K
      BY <1>1, <1>3
    <2> QED BY <2>2, <2>3
  <1>5. PICK f, h : /\ f = [k \in 1 .. N |-> Answering!Group(k)[1].num_rows]
                    /\ h = [k \in 1 .. K |-> Answering!Group(k)[1].num_rows]
    OBVIOUS
  <1>6. Answering!Scanned(kept) = SumFunctionOnSet(f, 1 .. K)
    <2>1. Answering!Scanned(kept) = Answering!SumFunctionOnSet(f, seen)
      BY <1>5, SameLimits DEF Answering!Scanned
    <2> HIDE DEF seen
    <2> QED BY <1>4, <2>1, SameOperators
  <1>7. \A k \in 1 .. K : f[k] \in Int /\ h[k] = f[k]
    BY <1>1, <1>5, GroupChunks
  <1>8. IsFiniteSet(1 .. K)
    <2>1. 1 \in Int /\ K \in Int
      BY <1>1
    <2> QED BY <2>1, FS_Interval
  <1>9. SumFunctionOnSet(h, 1 .. K) = SumFunctionOnSet(f, 1 .. K)
    BY <1>7, <1>8, SameSum
  <1> QED BY <1>5, <1>6, <1>9 DEF ScannedOf

-----------------------------------------------------------------------------
(* The states of the aggregator.                                           *)

Funcs == {"COUNT", "SUM", "AVG", "MIN", "MAX"}

State == [value : Int, count : Nat, initialized : BOOLEAN]

\* The best of the values v takes on S.
Best(func, S, v) ==
  IF func = "MIN" THEN Min({v[x] : x \in S}) ELSE Max({v[x] : x \in S})

ValuesOn(S, v) == \A x \in S : v[x] \in Values

\* The value of a state into which S has gone.
ValueSums(st, func, S, v) ==
  /\ func = "COUNT" => st.value = Cardinality(S)
  /\ func \in {"SUM", "AVG"} => st.value = SumFunctionOnSet(v, S)
  /\ func \in {"MIN", "MAX"} =>
       /\ S = {} => st.value = 0 /\ st.initialized = FALSE
       /\ S # {} => st.value = Best(func, S, v) /\ st.initialized = TRUE

\* st is what accumulating S, on which a column has the values v, comes to.
Summary(st, func, S, v) ==
  /\ st \in State /\ IsFiniteSet(S) /\ st.count = Cardinality(S)
  /\ func # "COUNT" => ValuesOn(S, v)
  /\ ValueSums(st, func, S, v)

\* The elements of a batch join those accumulated.
Joins(S, k, taken, T) ==
  /\ IsFiniteSet(S) /\ IsFiniteSet(taken)
  /\ \A x \in S : x[1] # k
  /\ T = {<<k, r>> : r \in taken}

\* f has on both the values of S and of the batch.
JoinsAs(f, S, k, g, taken) ==
  /\ \A x \in S : f[x] \in Int
  /\ \A r \in taken : g[r] \in Int /\ f[<<k, r>>] = g[r]

\* The values of f on S and the batch are those of S and those of the batch.
Joined(f, S, g, taken, T) ==
  /\ IsFiniteSet(S \cup T)
  /\ Cardinality(S \cup T) = Cardinality(S) + Cardinality(taken)
  /\ SumFunctionOnSet(f, S \cup T) = SumFunctionOnSet(f, S) + SumFunctionOnSet(g, taken)

\* Sums and counts over the pairs of a new row group add up.
LEMMA JoinSums ==
  ASSUME NEW S, NEW k, NEW taken, NEW T, Joins(S, k, taken, T),
         NEW f, NEW g, JoinsAs(f, S, k, g, taken)
  PROVE  Joined(f, S, g, taken, T)
PROOF
  <1>1. /\ IsFiniteSet(S) /\ IsFiniteSet(taken)
        /\ \A x \in S : x[1] # k
        /\ T = {<<k, r>> : r \in taken}
    BY DEF Joins
  <1>2. PICK h : h = [r \in taken |-> <<k, r>>]
    OBVIOUS
  <1>3. \A r \in taken : h[r] = <<k, r>> /\ h[r] \notin S
    BY <1>1, <1>2
  <1>4. \A q, r \in taken : h[q] = h[r] => q = r
    BY <1>3
  <1>5. T = {h[r] : r \in taken}
    BY <1>1, <1>3
  <1>6. \A r \in taken : h[r] \notin S /\ f[h[r]] = g[r]
    BY <1>3 DEF JoinsAs
  <1>7. \A r \in taken : g[r] \in Int
    BY DEF JoinsAs
  <1>8. /\ IsFiniteSet(S \cup {h[r] : r \in taken})
        /\ Cardinality(S \cup {h[r] : r \in taken}) = Cardinality(S) + Cardinality(taken)
        /\ SumFunctionOnSet(f, S \cup {h[r] : r \in taken})
             = SumFunctionOnSet(f, S) + SumFunctionOnSet(g, taken)
    <2>1. Numbers(h, f, S, g, taken)
      BY <1>1, <1>4, <1>6, <1>7 DEF Numbers, JoinsAs
    <2> QED BY <2>1, SumJoin
  <1> QED BY <1>5, <1>8 DEF Joined

\* Counts do so whatever the values.
LEMMA JoinCounts ==
  ASSUME NEW S, NEW k, NEW taken, NEW T, Joins(S, k, taken, T)
  PROVE  \E n, m \in Nat :
           /\ n = Cardinality(S) /\ m = Cardinality(taken)
           /\ Cardinality(S \cup T) = n + m /\ n + m \in Nat
           /\ IsFiniteSet(S \cup T)
PROOF
  <1>1. IsFiniteSet(S) /\ IsFiniteSet(taken) /\ T = {<<k, r>> : r \in taken}
    BY DEF Joins
  <1>2. PICK f, g : f = [x \in S \cup T |-> 0] /\ g = [r \in taken |-> 0]
    OBVIOUS
  <1>3. \A x \in S : f[x] \in Int
    BY <1>2
  <1>4. \A r \in taken : g[r] \in Int /\ f[<<k, r>>] = g[r]
    BY <1>1, <1>2
  <1>5. /\ IsFiniteSet(S \cup T)
        /\ Cardinality(S \cup T) = Cardinality(S) + Cardinality(taken)
    <2>1. JoinsAs(f, S, k, g, taken)
      BY <1>3, <1>4 DEF JoinsAs
    <2>2. Joined(f, S, g, taken, T)
      BY <2>1, JoinSums
    <2> QED BY <2>2 DEF Joined
  <1>6. PICK n, m : n = Cardinality(S) /\ m = Cardinality(taken)
    OBVIOUS
  <1>7. n \in Nat /\ m \in Nat
    BY <1>1, <1>6, FS_CardinalityType
  <1>8. n + m \in Nat
    BY <1>7
  <1> QED BY <1>5, <1>6, <1>7, <1>8

\* COUNT looks at no column.
LEMMA CountAdds ==
  ASSUME NEW st, NEW S, NEW v, Summary(st, "COUNT", S, v), NEW w,
         NEW k, NEW taken, NEW T, Joins(S, k, taken, T)
  PROVE  Summary(Count(st, taken), "COUNT", S \cup T, w)
PROOF
  <1>1. /\ st \in State /\ st.count = Cardinality(S) /\ st.value = Cardinality(S)
    BY DEF Summary, ValueSums
  <1>2. PICK n, m \in Nat :
          /\ n = Cardinality(S) /\ m = Cardinality(taken)
          /\ Cardinality(S \cup T) = n + m /\ n + m \in Nat
          /\ IsFiniteSet(S \cup T)
    BY JoinCounts
  <1>3. PICK next, o : next = Count(st, taken) /\ o = n + m /\ o \in Nat
    BY <1>2
  <1>4. next = [value |-> o, count |-> o, initialized |-> st.initialized]
    <2>1. next = [st EXCEPT !.count = n + m, !.value = n + m]
      BY <1>1, <1>2, <1>3 DEF Count
    <2>2. next = [st EXCEPT !.count = o, !.value = o]
      BY <1>3, <2>1
    <2> QED BY <1>1, <2>2 DEF State
  <1>5. next \in State /\ next.count = o /\ next.value = o
    <2>1. st.initialized \in BOOLEAN
      BY <1>1 DEF State
    <2>2. o \in Nat /\ o \in Int
      BY <1>3
    <2> QED BY <1>4, <2>1, <2>2 DEF State
  <1>6. next.count = Cardinality(S \cup T) /\ next.value = Cardinality(S \cup T)
    BY <1>2, <1>3, <1>5
  <1>7. Summary(next, "COUNT", S \cup T, w)
    BY <1>2, <1>5, <1>6 DEF Summary, ValueSums
  <1> QED BY <1>3, <1>7

\* The least or greatest of two sets.
LEMMA BestOfBoth ==
  ASSUME NEW X, NEW Y, X \cup Y \subseteq Values, X # {}
  PROVE  /\ Min(X) \in Values /\ Max(X) \in Values
         /\ Min({Min(X)} \cup Y) = Min(X \cup Y)
         /\ Max({Max(X)} \cup Y) = Max(X \cup Y)
PROOF
  <1>1. MinValue \in Int /\ MaxValue \in Int
    BY ValueAssumption
  <1>2. \A x \in Values : x \in Int /\ MinValue <= x /\ x <= MaxValue
    BY <1>1 DEF Values
  <1>3. ASSUME NEW Z, Z \subseteq Values, Z # {}
        PROVE  /\ Min(Z) \in Z /\ \A z \in Z : Min(Z) <= z
               /\ Max(Z) \in Z /\ \A z \in Z : z <= Max(Z)
    <2>1. Z \in SUBSET Int /\ (\A z \in Z : MinValue <= z) /\ (\A z \in Z : z <= MaxValue)
      BY <1>2, <1>3
    <2>2. Min(Z) \in Z /\ \A z \in Z : Min(Z) <= z
      BY <1>1, <1>3, <2>1, MinOfBounded
    <2>3. Max(Z) \in Z /\ \A z \in Z : z <= Max(Z)
      BY <1>1, <1>3, <2>1, MaxOfBounded
    <2> QED BY <2>2, <2>3
  <1>4. PICK Z : Z = X \cup Y
    OBVIOUS
  <1>5. PICK a, b : a = Min(X) /\ b = Max(X)
    OBVIOUS
  <1>6. a \in X /\ b \in X /\ \A x \in X : a <= x /\ x <= b
    <2>1. X \subseteq Values
      OBVIOUS
    <2> QED BY <1>3, <1>5, <2>1
  <1>7. PICK P, Q : P = {a} \cup Y /\ Q = {b} \cup Y
    OBVIOUS
  <1>8. P \subseteq Values /\ Q \subseteq Values /\ Z \subseteq Values /\ P # {} /\ Q # {} /\ Z # {}
    BY <1>4, <1>6, <1>7
  <1>9. PICK p, q, c, d : p = Min(P) /\ q = Max(Q) /\ c = Min(Z) /\ d = Max(Z)
    OBVIOUS
  <1>10. /\ p \in P /\ \A x \in P : p <= x
         /\ q \in Q /\ \A x \in Q : x <= q
         /\ c \in Z /\ \A x \in Z : c <= x
         /\ d \in Z /\ \A x \in Z : x <= d
    BY <1>3, <1>8, <1>9
  <1>11. p = c
    <2>1. p \in Z
      BY <1>4, <1>6, <1>7, <1>10
    <2>2. p <= c
      <3>1. CASE c \in Y
        BY <1>7, <1>10, <3>1
      <3>2. CASE c \in X
        <4>1. p <= a /\ a <= c
          BY <1>6, <1>7, <1>10, <3>2
        <4>2. p \in Int /\ a \in Int /\ c \in Int
          BY <1>2, <1>6, <1>8, <1>10
        <4> QED BY <4>1, <4>2
      <3> QED BY <1>4, <1>10, <3>1, <3>2
    <2>3. c <= p /\ p \in Int /\ c \in Int
      BY <1>2, <1>8, <1>10, <2>1
    <2> QED BY <2>2, <2>3
  <1>12. q = d
    <2>1. q \in Z
      BY <1>4, <1>6, <1>7, <1>10
    <2>2. d <= q
      <3>1. CASE d \in Y
        BY <1>7, <1>10, <3>1
      <3>2. CASE d \in X
        <4>1. b <= q /\ d <= b
          BY <1>6, <1>7, <1>10, <3>2
        <4>2. q \in Int /\ b \in Int /\ d \in Int
          BY <1>2, <1>6, <1>8, <1>10
        <4> QED BY <4>1, <4>2
      <3> QED BY <1>4, <1>10, <3>1, <3>2
    <2>3. q <= d /\ q \in Int /\ d \in Int
      BY <1>2, <1>8, <1>10, <2>1
    <2> QED BY <2>2, <2>3
  <1> QED BY <1>4, <1>5, <1>6, <1>7, <1>9, <1>11, <1>12

\* The rows of a batch are accumulated as the values they have.
LEMMA OneAdds ==
  ASSUME NEW func \in Funcs, NEW st, NEW S, NEW v, Summary(st, func, S, v),
         NEW k, NEW taken, NEW T, Joins(S, k, taken, T),
         NEW chunk, Accumulated(chunk.type), \A r \in taken : chunk.data[r] \in Values,
         NEW w, func # "COUNT" => \A x \in S : w[x] = v[x],
         \A r \in taken : w[<<k, r>>] = chunk.data[r]
  PROVE  Summary(AccumulateOne(st, func, chunk, taken), func, S \cup T, w)
PROOF
  <1>1. CASE func = "COUNT"
    <2>1. AccumulateOne(st, func, chunk, taken) = Count(st, taken)
      BY <1>1 DEF AccumulateOne
    <2> QED BY <1>1, <2>1, CountAdds
  <1>2. CASE func # "COUNT"
    <2>1. /\ st \in State /\ st.count = Cardinality(S) /\ ValuesOn(S, v)
          /\ ValueSums(st, func, S, v) /\ IsFiniteSet(S)
      BY <1>2 DEF Summary
    <2>2. PICK n, m \in Nat :
            /\ n = Cardinality(S) /\ m = Cardinality(taken)
            /\ Cardinality(S \cup T) = n + m /\ n + m \in Nat
            /\ IsFiniteSet(S \cup T)
      BY JoinCounts
    <2>3. PICK o \in Nat : o = n + m
      BY <2>2
    <2>4. T = {<<k, r>> : r \in taken} /\ IsFiniteSet(taken)
      BY DEF Joins
    <2>5. ValuesOn(S \cup T, w)
      BY <1>2, <2>1, <2>4 DEF ValuesOn
    <2>6. Values \subseteq Int
      BY ValueAssumption DEF Values
    <2>7. PICK next : next = AccumulateOne(st, func, chunk, taken)
      OBVIOUS
    <2>8. CASE func \in {"SUM", "AVG"}
      <3>1. PICK a, b, c : /\ a = SumFunctionOnSet(w, S) /\ b = SumFunctionOnSet(chunk.data, taken)
                           /\ c = SumFunctionOnSet(w, S \cup T)
        OBVIOUS
      <3>2. st.value = a
        <4>1. SumFunctionOnSet(w, S) = SumFunctionOnSet(v, S)
          <5>1. \A x \in S : v[x] \in Int /\ w[x] = v[x]
            BY <1>2, <2>1, <2>6 DEF ValuesOn
          <5> QED BY <2>1, <5>1, SameSum
        <4>2. st.value = SumFunctionOnSet(v, S)
          BY <2>1, <2>8 DEF ValueSums
        <4> QED BY <3>1, <4>1, <4>2
      <3>3. c = a + b
        <4>1. \A x \in S : w[x] \in Int
          BY <2>5, <2>6 DEF ValuesOn
        <4>2. PICK g : g = chunk.data
          OBVIOUS
        <4>3. \A r \in taken : g[r] \in Int /\ w[<<k, r>>] = g[r]
          BY <2>6, <4>2
        <4>4. SumFunctionOnSet(w, S \cup T) = SumFunctionOnSet(w, S) + SumFunctionOnSet(g, taken)
          <5>1. JoinsAs(w, S, k, g, taken)
            BY <4>1, <4>3 DEF JoinsAs
          <5>2. Joined(w, S, g, taken, T)
            BY <5>1, JoinSums
          <5> QED BY <5>2 DEF Joined
        <4> QED BY <3>1, <4>2, <4>4
      <3>4. c \in Int
        <4>1. \A x \in S \cup T : w[x] \in Int
          BY <2>5, <2>6 DEF ValuesOn
        <4>2. IsFiniteSet(S \cup T)
          BY <2>2
        <4> QED BY <3>1, <4>1, <4>2, SumTakesOne
      <3>5. next = [st EXCEPT !.count = @ + m, !.value = @ + b]
        BY <2>2, <2>7, <2>8, <3>1 DEF AccumulateOne, SumAt
      <3>6. next = [value |-> c, count |-> o, initialized |-> st.initialized]
        <4>1. next = [st EXCEPT !.count = o, !.value = c]
          BY <2>1, <2>2, <2>3, <3>2, <3>3, <3>5
        <4> QED BY <2>1, <4>1 DEF State
      <3>7. next \in State /\ next.count = o /\ next.value = c
        <4>1. st.initialized \in BOOLEAN
          BY <2>1 DEF State
        <4> QED BY <3>4, <3>6, <4>1 DEF State
      <3>8. ValueSums(next, func, S \cup T, w)
        BY <2>8, <3>1, <3>7 DEF ValueSums
      <3>9. Summary(next, func, S \cup T, w)
        BY <2>2, <2>3, <2>5, <3>7, <3>8 DEF Summary
      <3> QED BY <2>7, <3>9
    <2>9. CASE func \in {"MIN", "MAX"}
      <3>1. PICK X, Y, Z : /\ X = {v[x] : x \in S} /\ Y = {chunk.data[r] : r \in taken}
                           /\ Z = {w[x] : x \in S \cup T}
        OBVIOUS
      <3>2. /\ Z = X \cup Y /\ Z \subseteq Values
            /\ X = {} <=> S = {}
            /\ Y = {} <=> taken = {}
            /\ T = {} <=> taken = {}
        <4>1. X = {w[x] : x \in S}
          BY <1>2, <3>1
        <4>2. Y = {w[x] : x \in T}
          <5>1. \A r \in taken : <<k, r>> \in T /\ w[<<k, r>>] = chunk.data[r]
            BY <2>4
          <5>2. \A x \in T : \E r \in taken : w[x] = chunk.data[r]
            BY <2>4
          <5>3. Y \subseteq {w[x] : x \in T}
            BY <3>1, <5>1
          <5>4. {w[x] : x \in T} \subseteq Y
            BY <3>1, <5>2
          <5> QED BY <5>3, <5>4
        <4>3. Z = X \cup Y
          BY <3>1, <4>1, <4>2
        <4>4. Z \subseteq Values
          BY <2>5, <3>1 DEF ValuesOn
        <4>5. (X = {} <=> S = {}) /\ (Y = {} <=> taken = {}) /\ (T = {} <=> taken = {})
          BY <2>4, <3>1
        <4> QED BY <4>3, <4>4, <4>5
      <3>3. PICK value, flag : /\ value = BetterOf(st, func, chunk, taken)
                               /\ flag = (st.initialized \/ taken # {})
        OBVIOUS
      <3>4. next = [st EXCEPT !.count = @ + m, !.value = value, !.initialized = flag]
        <4>1. AccumulateOne(st, func, chunk, taken) =
                [st EXCEPT !.count = @ + Cardinality(taken),
                           !.value = BetterOf(st, func, chunk, taken),
                           !.initialized = @ \/ taken # {}]
          BY <2>9 DEF AccumulateOne
        <4> QED BY <2>2, <2>7, <3>3, <4>1
      <3>5. flag \in BOOLEAN /\ flag = (S \cup T # {})
        <4>1. st.initialized = (S # {})
          BY <2>1, <2>9 DEF ValueSums
        <4> QED BY <3>2, <3>3, <4>1
      <3>6. /\ S \cup T = {} => value = 0
            /\ S \cup T # {} => value = Best(func, S \cup T, w)
            /\ value \in Int
        <4>1. value = LET known == Y \cup (IF st.initialized THEN {st.value} ELSE {})
                      IN  IF known = {} THEN st.value
                          ELSE IF func = "MIN" THEN Min(known) ELSE Max(known)
          BY <3>1, <3>3 DEF BetterOf, ValuesAt
        <4>2. Best(func, S \cup T, w) = IF func = "MIN" THEN Min(Z) ELSE Max(Z)
          BY <3>1 DEF Best
        <4>3. Z # {} => Min(Z) \in Int /\ Max(Z) \in Int
          <5>1. Z \cup {} \subseteq Values
            BY <3>2
          <5>2. Z # {} => Min(Z) \in Values /\ Max(Z) \in Values
            BY <5>1, BestOfBoth
          <5> QED BY <2>6, <5>2
        <4>4. CASE S = {}
          <5>1. st.value = 0 /\ st.initialized = FALSE
            BY <2>1, <2>9, <4>4 DEF ValueSums
          <5>2. value = IF Z = {} THEN 0 ELSE IF func = "MIN" THEN Min(Z) ELSE Max(Z)
            BY <3>2, <4>1, <4>4, <5>1
          <5>3. Z = {} <=> S \cup T = {}
            BY <3>2, <4>4
          <5>4. value \in Int
            BY <4>3, <5>2
          <5> QED BY <4>2, <5>2, <5>3, <5>4
        <4>5. CASE S # {}
          <5>1. st.value = Best(func, S, v) /\ st.initialized = TRUE
            BY <2>1, <2>9, <4>5 DEF ValueSums
          <5>2. PICK a : a = st.value
            OBVIOUS
          <5>3. a = IF func = "MIN" THEN Min(X) ELSE Max(X)
            BY <3>1, <5>1, <5>2 DEF Best
          <5>4. value = IF func = "MIN" THEN Min({a} \cup Y) ELSE Max({a} \cup Y)
            <6>1. Y \cup {a} = {a} \cup Y /\ {a} \cup Y # {}
              OBVIOUS
            <6> QED BY <4>1, <5>1, <5>2, <6>1
          <5>5. /\ Min({Min(X)} \cup Y) = Min(Z)
                /\ Max({Max(X)} \cup Y) = Max(Z)
            BY <3>2, <4>5, BestOfBoth
          <5>6. value = IF func = "MIN" THEN Min(Z) ELSE Max(Z)
            BY <5>3, <5>4, <5>5
          <5>7. value \in Int
            BY <3>2, <4>3, <4>5, <5>6
          <5> QED BY <4>2, <4>5, <5>6, <5>7
        <4> QED BY <4>4, <4>5
      <3>7. next = [value |-> value, count |-> o, initialized |-> flag]
        <4>1. next = [st EXCEPT !.count = o, !.value = value, !.initialized = flag]
          BY <2>1, <2>2, <2>3, <3>4
        <4> QED BY <2>1, <4>1 DEF State
      <3>8. /\ next \in State /\ next.count = o /\ next.value = value
            /\ next.initialized = flag
        BY <3>5, <3>6, <3>7 DEF State
      <3>9. ValueSums(next, func, S \cup T, w)
        <4>1. S \cup T = {} => next.value = 0 /\ next.initialized = FALSE
          BY <3>5, <3>6, <3>8
        <4>2. S \cup T # {} => next.value = Best(func, S \cup T, w) /\ next.initialized = TRUE
          BY <3>5, <3>6, <3>8
        <4> QED BY <2>9, <4>1, <4>2 DEF ValueSums
      <3>10. Summary(next, func, S \cup T, w)
        BY <2>2, <2>3, <2>5, <3>8, <3>9 DEF Summary
      <3> QED BY <2>7, <3>10
    <2> QED BY <1>2, <2>8, <2>9 DEF Funcs
  <1> QED BY <1>1, <1>2

-----------------------------------------------------------------------------
(* What has gone into the states and the rows.                             *)

\* The pairs of row group and row that have gone into the state of expr, and
\* the values they have there.
PairsOf(g, expr) ==
  UNION {{<<k, r>> : r \in g[k]} :
           k \in {j \in DOMAIN g : expr.col = NoColumn \/ Accumulated(store[expr.col][j].type)}}

ValuesOf(expr, S) == [pair \in S |-> store[expr.col][pair[1]].data[pair[2]]]

\* The answer speaks of the files and the plan only.
LEMMA SameTable ==
  ASSUME UNCHANGED <<store, plan, cfg>>
  PROVE  /\ Answering!Groups' = Answering!Groups
         /\ Answering!SoundGroups' = Answering!SoundGroups
         /\ \A k : QualifyingOf(k)' = QualifyingOf(k)
         /\ \A kept : Answering!AnswerFrom(kept)' = Answering!AnswerFrom(kept)
         /\ \A S, n : RowsFrom(S, n)' = RowsFrom(S, n)
         /\ \A n : ScannedOf(n)' = ScannedOf(n)
         /\ \A g, expr : PairsOf(g, expr)' = PairsOf(g, expr)
         /\ \A expr, S : ValuesOf(expr, S)' = ValuesOf(expr, S)
         /\ Requested' = Requested
PROOF
  <1>1. store' = store /\ plan' = plan /\ cfg' = cfg
    OBVIOUS
  <1>2. Answering!Mentioned' = Answering!Mentioned
    BY <1>1 DEF Answering!Mentioned, Answering!Aggregating, Answering!Columns
  <1>3. Answering!Groups' = Answering!Groups
    BY <1>1, <1>2 DEF Answering!Groups
  <1>4. Answering!Names' = Answering!Names
    BY <1>2 DEF Answering!Names
  <1>5. \A k : Answering!Group(k)' = Answering!Group(k)
    BY <1>1, <1>4 DEF Answering!Group
  <1>6. \A k : QualifyingOf(k)' = QualifyingOf(k)
    BY <1>1, <1>4, <1>5 DEF QualifyingOf
  <1>7. Answering!SoundGroups' = Answering!SoundGroups
    BY <1>1, <1>3, <1>4, <1>5 DEF Answering!SoundGroups
  <1>8. \A kept, k : Answering!Selected(kept, k)' = Answering!Selected(kept, k)
    BY <1>1, <1>4, <1>5 DEF Answering!Selected
  <1>9. \A c, k, r : Answering!Cell(c, k, r)' = Answering!Cell(c, k, r)
    BY <1>1 DEF Answering!Cell
  <1>10. \A k, S : GroupRows(k, S)' = GroupRows(k, S)
    BY <1>1, <1>9 DEF GroupRows
  <1>11. \A S, n : RowsFrom(S, n)' = RowsFrom(S, n)
    BY <1>10 DEF RowsFrom
  <1>12. \A kept, k : Answering!RowsOfGroup(kept, k)' = Answering!RowsOfGroup(kept, k)
    BY <1>1, <1>8, <1>9 DEF Answering!RowsOfGroup
  <1>13. \A kept, n : Answering!RowsUpTo(kept, n)' = Answering!RowsUpTo(kept, n)
    BY <1>12 DEF Answering!RowsUpTo
  <1>14. (Answering!Limited' <=> Answering!Limited) /\ (Answering!Aggregating' <=> Answering!Aggregating)
    BY <1>1 DEF Answering!Limited, Answering!Aggregating
  <1>15. \A kept : Answering!Rows(kept)' = Answering!Rows(kept)
    BY <1>1, <1>3, <1>13, <1>14 DEF Answering!Rows
  <1>16. \A kept : Answering!Scanned(kept)' = Answering!Scanned(kept)
    BY <1>1, <1>3, <1>5, <1>13, <1>14 DEF Answering!Scanned
  <1>17. \A kept, expr : Answering!Pairs(kept, expr)' = Answering!Pairs(kept, expr)
    BY <1>1, <1>3, <1>8 DEF Answering!Pairs
  <1>18. \A kept, expr : Answering!Result(kept, expr)' = Answering!Result(kept, expr)
    BY <1>1, <1>17, ZenonT(40) DEF Answering!Result
  <1>19. \A kept : Answering!AnswerFrom(kept)' = Answering!AnswerFrom(kept)
    BY <1>1, <1>15, <1>16, <1>18 DEF Answering!AnswerFrom
  <1>20. \A n : ScannedOf(n)' = ScannedOf(n)
    BY <1>5 DEF ScannedOf
  <1>21. \A g, expr : PairsOf(g, expr)' = PairsOf(g, expr)
    BY <1>1 DEF PairsOf
  <1>22. \A expr, S : ValuesOf(expr, S)' = ValuesOf(expr, S)
    BY <1>1 DEF ValuesOf
  <1>23. Requested' = Requested
    BY <1>1 DEF Requested
  <1> QED BY <1>3, <1>6, <1>7, <1>11, <1>19, <1>20, <1>21, <1>22, <1>23

\* What a batch adds to the pairs of an expression.
BatchPairs(k, s, expr) ==
  IF expr.col = NoColumn \/ Accumulated(store[expr.col][k].type)
  THEN {<<k, r>> : r \in s} ELSE {}

\* One more row group adds its own pairs, and no others have its number.
LEMMA PairsGrow ==
  ASSUME NEW g, NEW n \in Nat, DOMAIN g = 1 .. n,
         NEW h, NEW k, k = n + 1, DOMAIN h = 1 .. k, \A j \in 1 .. n : h[j] = g[j],
         NEW expr
  PROVE  /\ PairsOf(h, expr) = PairsOf(g, expr) \cup BatchPairs(k, h[k], expr)
         /\ \A x \in PairsOf(g, expr) : x[1] # k
PROOF
  <1> DEFINE Of(j) == expr.col = NoColumn \/ Accumulated(store[expr.col][j].type)
  <1>1. PICK ks : ks = {j \in 1 .. n : Of(j)}
    OBVIOUS
  <1>2. PICK hs : hs = {j \in 1 .. k : Of(j)}
    OBVIOUS
  <1>3. hs = ks \cup (IF Of(k) THEN {k} ELSE {})
    <2> HIDE DEF Of
    <2> QED BY <1>1, <1>2
  <1>4. PairsOf(g, expr) = UNION {{<<j, r>> : r \in g[j]} : j \in ks}
    BY <1>1 DEF PairsOf
  <1>5. PairsOf(h, expr) = UNION {{<<j, r>> : r \in h[j]} : j \in hs}
    BY <1>2 DEF PairsOf
  <1>6. \A j \in ks : j \in 1 .. n /\ h[j] = g[j] /\ j # k
    BY <1>1
  <1>7. BatchPairs(k, h[k], expr) = IF Of(k) THEN {<<k, r>> : r \in h[k]} ELSE {}
    BY DEF BatchPairs
  <1> HIDE DEF Of
  <1>8. \A x \in PairsOf(g, expr) : x[1] # k
    BY <1>4, <1>6
  <1>9. PICK P, Q, B : P = PairsOf(h, expr) /\ Q = PairsOf(g, expr) /\ B = BatchPairs(k, h[k], expr)
    OBVIOUS
  <1>10. \A x : x \in P <=> \E j \in hs : \E r \in h[j] : x = <<j, r>>
    BY <1>5, <1>9
  <1>11. \A x : x \in Q <=> \E j \in ks : \E r \in h[j] : x = <<j, r>>
    BY <1>4, <1>6, <1>9
  <1>12. \A x : x \in B <=> Of(k) /\ \E r \in h[k] : x = <<k, r>>
    BY <1>7, <1>9
  <1>13. \A j : j \in hs <=> j \in ks \/ (Of(k) /\ j = k)
    BY <1>3
  <1>14. P = Q \cup B
    <2>1. ASSUME NEW x \in P PROVE x \in Q \cup B
      <3>1. PICK j \in hs : \E r \in h[j] : x = <<j, r>>
        BY <1>10
      <3>2. CASE j \in ks
        BY <1>11, <3>1, <3>2
      <3>3. CASE Of(k) /\ j = k
        BY <1>12, <3>1, <3>3
      <3> QED BY <1>13, <3>2, <3>3
    <2>2. ASSUME NEW x \in Q PROVE x \in P
      <3>1. PICK j \in ks : \E r \in h[j] : x = <<j, r>>
        BY <1>11
      <3>2. j \in hs
        BY <1>13
      <3> QED BY <1>10, <3>1, <3>2
    <2>3. ASSUME NEW x \in B PROVE x \in P
      <3>1. Of(k) /\ \E r \in h[k] : x = <<k, r>>
        BY <1>12
      <3>2. k \in hs
        BY <1>13, <3>1
      <3> QED BY <1>10, <3>1, <3>2
    <2> QED BY <2>1, <2>2, <2>3
  <1> QED BY <1>8, <1>9, <1>14

\* What finalize_one makes of a state is the result of what went into it.
LEMMA ResultIs ==
  ASSUME NEW expr, expr.func \in Funcs, NEW kept, NEW S, S = Answering!Pairs(kept, expr),
         NEW st, Summary(st, expr.func, S, ValuesOf(expr, S))
  PROVE  FinalizeOne(st, expr.func) = Answering!Result(kept, expr)
PROOF
  <1>1. PICK v, func : v = ValuesOf(expr, S) /\ func = expr.func
    OBVIOUS
  <1>2. /\ st \in State /\ IsFiniteSet(S) /\ st.count = Cardinality(S)
        /\ ValueSums(st, func, S, v)
    BY <1>1 DEF Summary
  <1>3. PICK n \in Nat : n = Cardinality(S)
    BY <1>2, FS_CardinalityType
  <1>4. n > 0 <=> S # {}
    <2>1. n = 0 <=> S = {}
      BY <1>2, <1>3, FS_EmptySet
    <2> QED BY <2>1
  <1>5. v = [pair \in S |-> store[expr.col][pair[1]].data[pair[2]]]
    BY <1>1 DEF ValuesOf
  <1>6. Answering!Result(kept, expr) =
          [num   |-> IF func = "COUNT" THEN n
                     ELSE IF func \in {"SUM", "AVG"} THEN SumFunctionOnSet(v, S)
                     ELSE IF S = {} THEN 0
                     ELSE IF func = "MIN" THEN Min(Range(v)) ELSE Max(Range(v)),
           den   |-> IF func = "AVG" /\ S # {} THEN n ELSE 1,
           count |-> n]
    <2>1. /\ Answering!Cardinality(S) = n
          /\ Answering!SumFunctionOnSet(v, S) = SumFunctionOnSet(v, S)
          /\ Answering!Range(v) = Range(v)
      BY <1>3, SameOperators
    <2>2. PICK R : R = Range(v)
      OBVIOUS
    <2>3. Answering!Min(R) = Min(R) /\ Answering!Max(R) = Max(R)
      BY SameOperators
    <2> QED BY <1>1, <1>5, <2>1, <2>2, <2>3, Zenon DEF Answering!Result
  <1>7. Range(v) = {v[x] : x \in S}
    BY <1>5 DEF Range
  <1>8. st.value = IF func = "COUNT" THEN n
                   ELSE IF func \in {"SUM", "AVG"} THEN SumFunctionOnSet(v, S)
                   ELSE IF S = {} THEN 0
                   ELSE IF func = "MIN" THEN Min(Range(v)) ELSE Max(Range(v))
    BY <1>1, <1>2, <1>3, <1>7 DEF ValueSums, Best, Funcs
  <1>9. st.count = n
    BY <1>2, <1>3
  <1>10. FinalizeOne(st, func) =
           [num |-> st.value, den |-> IF func = "AVG" /\ S # {} THEN n ELSE 1, count |-> n]
    BY <1>4, <1>9 DEF FinalizeOne
  <1> QED BY <1>1, <1>6, <1>8, <1>10

\* All pairs have gone in when all row groups have been delivered.
LEMMA PairsAtEnd ==
  ASSUME NEW g, DeliveredBy(g), Answering!Groups = DOMAIN g, NEW expr
  PROVE  Answering!Pairs(KeptBy(g), expr) = PairsOf(g, expr)
PROOF
  <1>1. PICK kept, ks : /\ kept = KeptBy(g)
                        /\ ks = {j \in DOMAIN g :
                                   expr.col = NoColumn \/ Accumulated(store[expr.col][j].type)}
    OBVIOUS
  <1>2. \A k \in ks : Answering!Selected(kept, k) = g[k]
    BY <1>1, KeptSelects
  <1>3. PairsOf(g, expr) = UNION {{<<k, r>> : r \in g[k]} : k \in ks}
    BY <1>1 DEF PairsOf
  <1>4. ks = {j \in Answering!Groups :
                expr.col = NoColumn \/ Answering!Accumulated(store[expr.col][j].type)}
    BY <1>1, SameOperators
  <1>5. Answering!Pairs(kept, expr)
          = UNION {{<<k, r>> : r \in Answering!Selected(kept, k)} : k \in ks}
    BY <1>4 DEF Answering!Pairs
  <1> QED BY <1>1, <1>2, <1>3, <1>5

-----------------------------------------------------------------------------
(* One batch.                                                              *)

\* The batch of row group k, of which taken is selected.
BatchOf(k, chunks, taken) ==
  /\ k \in Answering!Groups
  /\ \A i \in DOMAIN Requested : /\ Alike(chunks[i], store[Requested[i]][k])
                                 /\ taken \subseteq RowsOf(store[Requested[i]][k])

\* It gives the column an expression is about.
LEMMA ColumnFound ==
  ASSUME Planned, AllReadable,
         NEW k, NEW chunks, NEW taken, BatchOf(k, chunks, taken),
         NEW c \in PlanColumns(plan)
  PROVE  /\ Named(cfg.projection, c) # {}
         /\ Alike(chunks[Min(Named(cfg.projection, c))], store[c][k])
         /\ IsChunk(store[c][k]) /\ taken \subseteq RowsOf(store[c][k])
PROOF
  <1>1. PICK names : names = cfg.projection
    OBVIOUS
  <1>2. names = Requested /\ c \in Range(names) /\ Configured
    BY <1>1, ConfigFits DEF Planned
  <1>3. DOMAIN names = 1 .. Len(names) /\ Len(names) \in Nat
    BY <1>2, RequestedFits
  <1>4. Named(names, c) # {}
    BY <1>2 DEF Named, Range
  <1>5. PICK i : i = Min(Named(names, c))
    OBVIOUS
  <1>6. i \in Named(names, c)
    BY <1>3, <1>4, <1>5, FirstNamed
  <1>7. i \in DOMAIN Requested /\ Requested[i] = c
    BY <1>2, <1>6 DEF Named
  <1>8. Alike(chunks[i], store[c][k]) /\ taken \subseteq RowsOf(store[c][k])
    BY <1>7 DEF BatchOf
  <1>9. IsChunk(store[c][k])
    <2>1. k \in Answering!Groups
      BY DEF BatchOf
    <2> QED BY <1>7, <2>1, GroupChunks
  <1> QED BY <1>1, <1>4, <1>5, <1>8, <1>9

\* The rows taken are finitely many row numbers.
LEMMA TakenFinite ==
  ASSUME Planned, AllReadable,
         NEW k, NEW chunks, NEW taken, BatchOf(k, chunks, taken)
  PROVE  taken \in SUBSET Nat /\ IsFiniteSet(taken)
PROOF
  <1>1. 1 \in DOMAIN Requested
    BY ConfigFits, RequestedFits DEF Planned
  <1>2. PICK chunk : chunk = store[Requested[1]][k]
    OBVIOUS
  <1>3. IsChunk(chunk) /\ taken \subseteq RowsOf(chunk)
    BY <1>1, <1>2, GroupChunks DEF BatchOf
  <1>4. PICK n \in Nat : n = chunk.num_rows
    BY <1>3 DEF IsChunk
  <1>5. taken \subseteq 0 .. (n - 1)
    BY <1>3, <1>4 DEF RowsOf
  <1>6. IsFiniteSet(0 .. (n - 1))
    <2>1. 0 \in Int /\ n - 1 \in Int
      OBVIOUS
    <2> QED BY <2>1, FS_Interval
  <1>7. IsFiniteSet(taken)
    BY <1>5, <1>6, FS_Subset
  <1>8. 0 .. (n - 1) \subseteq Nat
    OBVIOUS
  <1> QED BY <1>5, <1>7, <1>8

\* What accumulating a batch makes of the state of an expression.
LEMMA AggregateAdds ==
  ASSUME Planned, AllReadable, Aggregating,
         NEW k, NEW chunks, NEW taken, BatchOf(k, chunks, taken),
         NEW sts, NEW e \in DOMAIN plan.aggs,
         NEW expr, expr = plan.aggs[e],
         NEW S, Summary(sts[e], expr.func, S, ValuesOf(expr, S)), \A x \in S : x[1] # k,
         NEW T, T = S \cup BatchPairs(k, taken, expr)
  PROVE  Summary(Accumulate(sts, plan.aggs, chunks, cfg.projection, taken)[e],
                 expr.func, T, ValuesOf(expr, T))
PROOF
  <1>1. /\ expr.func \in Funcs
        /\ expr.col = NoColumn => expr.func = "COUNT"
    BY QueryAssumption DEF Planned, Funcs
  <1>2. PICK st, v, w, next :
          /\ st = sts[e] /\ v = ValuesOf(expr, S) /\ w = ValuesOf(expr, T)
          /\ next = Accumulate(sts, plan.aggs, chunks, cfg.projection, taken)[e]
    OBVIOUS
  <1>3. Summary(st, expr.func, S, v)
    BY <1>2
  <1>4. next = IF expr.func = "COUNT" /\ expr.col = NoColumn THEN Count(st, taken)
               ELSE IF ~Known(cfg.projection, expr) THEN st
               ELSE AccumulateOne(st, expr.func, chunks[ColumnOf(cfg.projection, expr)], taken)
    BY <1>2 DEF Accumulate
  <1>5. taken \in SUBSET Nat /\ IsFiniteSet(taken)
    BY TakenFinite
  <1>6. IsFiniteSet(S)
    BY <1>3 DEF Summary
  <1>7. PICK B : B = {<<k, r>> : r \in taken}
    OBVIOUS
  <1>8. Joins(S, k, taken, B)
    BY <1>5, <1>6, <1>7 DEF Joins
  <1>9. CASE expr.col = NoColumn
    <2>1. T = S \cup B
      BY <1>7, <1>9 DEF BatchPairs
    <2>2. next = Count(st, taken) /\ expr.func = "COUNT"
      BY <1>1, <1>4, <1>9
    <2>3. Summary(Count(st, taken), "COUNT", S \cup B, w)
      BY <1>3, <1>8, <2>2, CountAdds
    <2> QED BY <1>2, <2>1, <2>2, <2>3
  <1>10. CASE expr.col # NoColumn
    <2>1. expr.col \in PlanColumns(plan)
      BY <1>10 DEF PlanColumns, Aggregating
    <2>2. PICK c, chunk, source :
            /\ c = expr.col /\ chunk = chunks[Min(Named(cfg.projection, c))]
            /\ source = store[c][k]
      OBVIOUS
    <2>3. /\ Named(cfg.projection, c) # {} /\ Alike(chunk, source)
          /\ IsChunk(source) /\ taken \subseteq RowsOf(source)
      BY <2>1, <2>2, ColumnFound
    <2>4. next = AccumulateOne(st, expr.func, chunk, taken)
      BY <1>4, <1>10, <2>2, <2>3 DEF Known, ColumnOf
    <2>5. chunk.type = source.type /\ \A r \in taken : chunk.data[r] = source.data[r]
      BY <2>3 DEF Alike
    <2>6. \A r \in taken : chunk.data[r] \in Values
      BY <2>3, <2>5 DEF IsChunk
    <2>7. /\ v = [pair \in S |-> store[c][pair[1]].data[pair[2]]]
          /\ w = [pair \in T |-> store[c][pair[1]].data[pair[2]]]
      BY <1>2, <2>2, Zenon DEF ValuesOf
    <2>8. CASE Accumulated(source.type)
      <3>1. T = S \cup B
        BY <1>7, <2>2, <2>8 DEF BatchPairs
      <3>2. \A x \in S : w[x] = v[x]
        BY <2>7, <3>1
      <3>3. \A r \in taken : w[<<k, r>>] = chunk.data[r]
        <4>1. \A r \in taken : <<k, r>> \in T
          BY <1>7, <3>1
        <4> QED BY <2>2, <2>5, <2>7, <4>1, Zenon
      <3>4. PICK func : func = expr.func
        OBVIOUS
      <3>5. Summary(AccumulateOne(st, func, chunk, taken), func, S \cup B, w)
        <4>1. func \in Funcs /\ Summary(st, func, S, v)
          BY <1>1, <1>3, <3>4
        <4>2. Accumulated(chunk.type)
          BY <2>5, <2>8
        <4> QED BY <1>8, <2>6, <3>2, <3>3, <4>1, <4>2, OneAdds
      <3> QED BY <1>2, <2>4, <3>1, <3>4, <3>5
    <2>9. CASE ~Accumulated(source.type)
      <3>1. T = S
        BY <1>10, <2>2, <2>9 DEF BatchPairs
      <3>2. next = st
        BY <2>4, <2>5, <2>9 DEF AccumulateOne
      <3> QED BY <1>2, <1>3, <3>1, <3>2
    <2> QED BY <2>8, <2>9
  <1> QED BY <1>9, <1>10

\* OutputRow and Taken of a batch, when done is the output so far.
RowOut(chunks, r) ==
  [i \in DOMAIN plan.select |->
     IF chunks[Min(Named(cfg.projection, plan.select[i]))].type = "STRING" THEN 0
     ELSE chunks[Min(Named(cfg.projection, plan.select[i]))].data[r]]

TakenOf(taken, done) ==
  Cut(Ascending(taken),
      IF Limited THEN plan.limit - Len(done) ELSE Len(Ascending(taken)))

RowsOut(chunks, seq) == [i \in DOMAIN seq |-> RowOut(chunks, seq[i])]

\* A row put out has the cells of the plan's columns in the files.
LEMMA RowOutIs ==
  ASSUME Planned, AllReadable, ~Aggregating,
         NEW k, NEW chunks, NEW taken, BatchOf(k, chunks, taken), NEW r \in taken
  PROVE  RowOut(chunks, r) =
           [s \in DOMAIN plan.select |-> Answering!Cell(plan.select[s], k, r)]
PROOF
  <1>1. ASSUME NEW i \in DOMAIN plan.select
        PROVE  (IF chunks[Min(Named(cfg.projection, plan.select[i]))].type = "STRING" THEN 0
                ELSE chunks[Min(Named(cfg.projection, plan.select[i]))].data[r])
                 = Answering!Cell(plan.select[i], k, r)
    <2>1. PICK c, chunk, source :
            /\ c = plan.select[i] /\ chunk = chunks[Min(Named(cfg.projection, c))]
            /\ source = store[c][k]
      OBVIOUS
    <2>2. c \in PlanColumns(plan)
      BY <2>1 DEF PlanColumns, Aggregating, Range
    <2>3. Alike(chunk, source) /\ taken \subseteq RowsOf(source)
      BY <2>1, <2>2, ColumnFound
    <2>4. chunk.type = source.type /\ chunk.data[r] = source.data[r]
      BY <2>3 DEF Alike
    <2> QED BY <2>1, <2>4 DEF Answering!Cell
  <1> QED BY <1>1 DEF RowOut

\* The rows put out for the first members of the selection.
LEMMA RowsOutCut ==
  ASSUME Planned, AllReadable, ~Aggregating,
         NEW k, NEW chunks, NEW taken, BatchOf(k, chunks, taken), NEW room \in Nat
  PROVE  /\ RowsOut(chunks, Ascending(taken)) = GroupRows(k, taken)
         /\ RowsOut(chunks, Cut(Ascending(taken), room)) = Cut(GroupRows(k, taken), room)
         /\ Len(GroupRows(k, taken)) = Len(Ascending(taken))
         /\ Len(Ascending(taken)) \in Nat
         /\ Cut(Ascending(taken), Len(Ascending(taken))) = Ascending(taken)
PROOF
  <1>1. taken \in SUBSET Nat /\ IsFiniteSet(taken)
    BY TakenFinite
  <1>2. PICK order, all : order = Ascending(taken) /\ all = GroupRows(k, taken)
    OBVIOUS
  <1>3. /\ DOMAIN order = 1 .. Len(order) /\ Len(order) \in Nat
        /\ \A n \in DOMAIN order : order[n] \in taken
        /\ order \in Seq(Nat)
    BY <1>1, <1>2, AscendingMembers, AscendingRanks
  <1>4. PICK L \in Nat : L = Len(order)
    BY <1>3, Zenon
  <1>5. \A n \in 1 .. L : RowOut(chunks, order[n]) =
          [s \in DOMAIN plan.select |-> Answering!Cell(plan.select[s], k, order[n])]
    BY <1>3, <1>4, RowOutIs
  <1>6. all = [n \in 1 .. L |-> RowOut(chunks, order[n])]
    BY <1>2, <1>3, <1>4, <1>5 DEF GroupRows
  <1>7. Len(all) = L
    BY <1>6
  <1>8. PICK m \in 0 .. L : m = Min({room, L})
    <2>1. Min({room, L}) = IF room <= L THEN room ELSE L
      BY MinOfTwo
    <2> QED BY <2>1
  <1>9. SubSeq(order, 1, m) = [n \in 1 .. m |-> order[n]]
    BY <1>3, <1>4, <1>8
  <1>10. SubSeq(all, 1, m) = [n \in 1 .. m |-> RowOut(chunks, order[n])]
    <2>1. \A n \in 1 .. m : n \in 1 .. L
      BY <1>8
    <2>2. \A n \in 1 .. m : all[n] = RowOut(chunks, order[n])
      BY <1>6, <2>1
    <2>3. SubSeq(all, 1, m) = [n \in 1 .. m |-> all[n]]
      <3>1. PICK B, z : B = {RowOut(chunks, order[n]) : n \in 1 .. L} /\ z = all
        OBVIOUS
      <3>2. z \in Seq(B)
        BY <1>6, <3>1
      <3>3. Len(z) = L
        BY <1>7, <3>1
      <3>4. SubSeq(z, 1, m) = [n \in 1 .. m |-> z[n]]
        BY <1>8, <3>2, <3>3
      <3> QED BY <3>1, <3>4
    <2> QED BY <2>2, <2>3
  <1>11. RowsOut(chunks, SubSeq(order, 1, m)) = SubSeq(all, 1, m)
    BY <1>9, <1>10 DEF RowsOut
  <1>12. Cut(order, room) = SubSeq(order, 1, m) /\ Cut(all, room) = SubSeq(all, 1, m)
    BY <1>4, <1>7, <1>8 DEF Cut
  <1>13. RowsOut(chunks, order) = all
    BY <1>3, <1>4, <1>6 DEF RowsOut
  <1>14. Cut(order, L) = order
    BY <1>3, <1>4, CutIs
  <1> QED BY <1>2, <1>4, <1>7, <1>11, <1>12, <1>13, <1>14

\* What a batch adds to the rows put out.
LEMMA RowsAdd ==
  ASSUME Planned, AllReadable, ~Aggregating,
         NEW k, NEW chunks, NEW taken, BatchOf(k, chunks, taken),
         NEW A, NEW x \in Seq(A), NEW y \in Seq(A), y = GroupRows(k, taken),
         Limited => Len(x) <= plan.limit
  PROVE  x \o RowsOut(chunks, TakenOf(taken, x)) = RowsUpToLimit(x \o y)
PROOF
  <1>1. CASE Limited
    <2>1. PICK limit \in Nat : limit = plan.limit
      BY <1>1, QueryAssumption DEF Planned, Limited
    <2>2. PICK room \in Nat : room = limit - Len(x)
      BY <1>1, <2>1
    <2>3. RowsOut(chunks, TakenOf(taken, x)) = Cut(y, room)
      <3>1. RowsOut(chunks, Cut(Ascending(taken), room)) = Cut(GroupRows(k, taken), room)
        BY RowsOutCut
      <3> QED BY <1>1, <2>1, <2>2, <3>1 DEF TakenOf
    <2>4. x \o Cut(y, limit - Len(x)) = Cut(x \o y, limit)
      BY <1>1, <2>1, CutJoin
    <2> QED BY <1>1, <2>1, <2>2, <2>3, <2>4 DEF RowsUpToLimit
  <1>2. CASE ~Limited
    <2>1. TakenOf(taken, x) = Cut(Ascending(taken), Len(Ascending(taken)))
      BY <1>2 DEF TakenOf
    <2>2. /\ Cut(Ascending(taken), Len(Ascending(taken))) = Ascending(taken)
          /\ RowsOut(chunks, Ascending(taken)) = GroupRows(k, taken)
      <3>1. 0 \in Nat
        OBVIOUS
      <3> QED BY <3>1, RowsOutCut
    <2>3. RowsOut(chunks, TakenOf(taken, x)) = y
      BY <2>1, <2>2
    <2> QED BY <1>2, <2>3 DEF RowsUpToLimit
  <1> QED BY <1>1, <1>2

\* h is g and the selection of one more row group.
Longer(g, h, n, taken) ==
  /\ n \in Nat /\ DOMAIN g = 1 .. n /\ DOMAIN h = 1 .. (n + 1)
  /\ \A j \in 1 .. n : h[j] = g[j]
  /\ h[n + 1] = taken

\* What every batch adds to what was delivered and scanned.
LEMMA ScannedAdds ==
  ASSUME Planned, AllReadable, NEW n \in Nat, n + 1 \in Answering!Groups
  PROVE  ScannedOf(n + 1) = ScannedOf(n) + Answering!Group(n + 1)[1].num_rows
PROOF
  <1>1. PICK k \in Nat : k = n + 1
    OBVIOUS
  <1>2. PICK N \in Nat : Answering!Groups = 1 .. N
    BY NumberOfGroups
  <1>3. \A j \in 1 .. k : j \in Answering!Groups
    BY <1>1, <1>2
  <1>4. PICK f, h : /\ f = [j \in 1 .. n |-> Answering!Group(j)[1].num_rows]
                    /\ h = [j \in 1 .. k |-> Answering!Group(j)[1].num_rows]
    OBVIOUS
  <1>5. \A j \in 1 .. k : h[j] \in Nat
    BY <1>3, <1>4, GroupChunks
  <1>6. \A j \in 1 .. n : f[j] \in Nat /\ f[j] = h[j]
    <2>1. \A j \in 1 .. n : j \in 1 .. k
      BY <1>1
    <2> QED BY <1>4, <1>5, <2>1
  <1>7. IsFiniteSet(1 .. n) /\ IsFiniteSet(1 .. k)
    <2>1. 1 \in Int /\ n \in Int /\ k \in Int
      OBVIOUS
    <2> QED BY <2>1, FS_Interval
  <1>8. k \in 1 .. k /\ (1 .. k) \ {k} = 1 .. n
    BY <1>1
  <1>9. SumFunctionOnSet(h, 1 .. k) = h[k] + SumFunctionOnSet(h, 1 .. n)
    <2>1. \A j \in 1 .. k : h[j] \in Int
      BY <1>5
    <2>2. SumFunctionOnSet(h, 1 .. k) = h[k] + SumFunctionOnSet(h, (1 .. k) \ {k})
      BY <1>7, <1>8, <2>1, SumTakesOne
    <2> QED BY <1>8, <2>2
  <1>10. SumFunctionOnSet(h, 1 .. n) = SumFunctionOnSet(f, 1 .. n)
    <2>1. \A j \in 1 .. n : f[j] \in Int /\ h[j] = f[j]
      BY <1>6
    <2> QED BY <1>7, <2>1, SameSum
  <1>11. SumFunctionOnSet(f, 1 .. n) \in Int
    <2>1. \A j \in 1 .. n : f[j] \in Int
      BY <1>6
    <2> QED BY <1>7, <2>1, SumTakesOne
  <1>12. PICK a, b, c : /\ a = SumFunctionOnSet(f, 1 .. n) /\ b = h[k]
                        /\ c = SumFunctionOnSet(h, 1 .. k)
    OBVIOUS
  <1>13. c = b + a /\ a \in Int /\ b \in Int
    BY <1>5, <1>8, <1>9, <1>10, <1>11, <1>12
  <1>14. c = a + b
    BY <1>13
  <1>15. ScannedOf(n) = a /\ ScannedOf(k) = c
    BY <1>4, <1>12 DEF ScannedOf
  <1>16. Answering!Group(k)[1].num_rows = b
    BY <1>4, <1>8, <1>12
  <1> QED BY <1>1, <1>13, <1>14, <1>15, <1>16

\* So it is with every step that delivers a batch.
LEMMA BatchStep ==
  ASSUME IInv, QShape, phase = "scan", DeliverBatch,
         NEW g, g = got, NEW h, h = got', NEW chunks, chunks = out', NEW taken, taken = sel',
         NEW n, n = Len(g), DeliveredBy(g)
  PROVE  /\ AllReadable /\ initialized' /\ snap' = store /\ colNames' = Requested
         /\ Longer(g, h, n, taken) /\ DeliveredBy(h) /\ BatchOf(n + 1, chunks, taken)
         /\ ScannedOf(n + 1) = ScannedOf(n) + chunks[1].num_rows
PROOF
  <1>1. g \in Seq(SUBSET Int)
    BY DEF IInv, Counted
  <1>2. n \in Nat /\ DOMAIN g = 1 .. n
    BY <1>1
  <1>3. PICK k : k = n + 1
    OBVIOUS
  <1>4. /\ AllReadable /\ k \in Answering!Groups
        /\ initialized' /\ snap' = store /\ colNames' = Requested
        /\ got' = Append(got, sel')
        /\ \A i \in DOMAIN Requested : Alike(out'[i], store[Requested[i]][k])
        /\ out'[1].num_rows = Answering!Group(k)[1].num_rows
        /\ \A i \in DOMAIN Requested : sel' \subseteq RowsOf(store[Requested[i]][k])
        /\ sel' = QualifyingOf(k) \/ (sel' = {} /\ k \notin Answering!SoundGroups)
    <2>1. k = Len(got) + 1
      BY <1>3
    <2> QED BY <2>1, BatchDelivered
  <1>5. Longer(g, h, n, taken)
    <2>1. h = Append(g, taken)
      BY <1>4
    <2>2. DOMAIN h = 1 .. (n + 1) /\ (\A j \in 1 .. n : h[j] = g[j]) /\ h[n + 1] = taken
      BY <1>1, <1>2, <2>1
    <2> QED BY <1>2, <2>2 DEF Longer
  <1>6. BatchOf(k, chunks, taken)
    BY <1>4 DEF BatchOf
  <1>7. DeliveredBy(h)
    <2> SUFFICES ASSUME NEW j \in DOMAIN h
                 PROVE  /\ j \in Answering!Groups
                        /\ \A i \in DOMAIN Requested : h[j] \subseteq RowsOf(store[Requested[i]][j])
                        /\ h[j] = QualifyingOf(j) \/ (h[j] = {} /\ j \notin Answering!SoundGroups)
      BY DEF DeliveredBy
    <2>1. CASE j = k
      <3>1. h[j] = taken
        BY <1>3, <1>5, <2>1 DEF Longer
      <3>2. taken = QualifyingOf(k) \/ (taken = {} /\ k \notin Answering!SoundGroups)
        BY <1>4
      <3>3. \A i \in DOMAIN Requested : taken \subseteq RowsOf(store[Requested[i]][k])
        BY <1>4
      <3> QED BY <1>4, <2>1, <3>1, <3>2, <3>3
    <2>2. CASE j # k
      <3>1. j \in DOMAIN g /\ h[j] = g[j]
        BY <1>2, <1>3, <1>5, <2>2 DEF Longer
      <3> QED BY <3>1 DEF DeliveredBy
    <2> QED BY <2>1, <2>2
  <1>8. ScannedOf(n + 1) = ScannedOf(n) + chunks[1].num_rows
    <2>1. Planned /\ n + 1 \in Answering!Groups
      BY <1>3, <1>4 DEF QShape
    <2>2. ScannedOf(n + 1) = ScannedOf(n) + Answering!Group(n + 1)[1].num_rows
      BY <1>2, <1>4, <2>1, ScannedAdds
    <2> QED BY <1>3, <1>4, <2>2
  <1> QED BY <1>3, <1>4, <1>5, <1>6, <1>7, <1>8

-----------------------------------------------------------------------------
(* The invariant.                                                          *)

\* Before the first call of next_batch.
Nothing ==
  /\ got = << >> /\ rows = << >> /\ rowsScanned = 0 /\ results = << >>
  /\ states = [e \in DOMAIN plan.aggs |-> FreshState]

\* The n row groups delivered have been put out, and none reached the limit.
RowsSoFar(g, n, rs) ==
  /\ rs = RowsFrom(g, n)
  /\ \A k \in 1 .. n : Limited => ~(Len(RowsFrom(g, k)) >= plan.limit)

\* They have been accumulated.
StatesSoFar(g, sts) ==
  /\ DOMAIN sts = DOMAIN plan.aggs
  /\ \A e \in DOMAIN plan.aggs :
       Summary(sts[e], plan.aggs[e].func, PairsOf(g, plan.aggs[e]),
               ValuesOf(plan.aggs[e], PairsOf(g, plan.aggs[e])))

Progress(g, n, rs, scanned, sts, res) ==
  /\ DeliveredBy(g) /\ scanned = ScannedOf(n) /\ res = << >>
  /\ ~Aggregating => RowsSoFar(g, n, rs)
  /\ Aggregating => rs = << >> /\ StatesSoFar(g, sts)

Answered(rs, scanned, res) ==
  \E lucky \in SUBSET (Answering!Groups \ Answering!SoundGroups) :
    [kind |-> "answer", rows |-> rs, results |-> res, scanned |-> scanned]
      = Answering!AnswerFrom(Answering!SoundGroups \cup lucky)

QInv ==
  /\ IInv /\ QShape
  /\ phase = "before" => Nothing
  /\ phase = "scan" => Progress(got, Len(got), rows, rowsScanned, states, results)
  /\ phase = "done" => Answered(rows, rowsScanned, results)

\* A state into which nothing has gone.
LEMMA FreshSummary ==
  ASSUME NEW func \in Funcs, NEW v
  PROVE  Summary(FreshState, func, {}, v)
PROOF
  <1>1. PICK E : E = {}
    OBVIOUS
  <1>2. IsFiniteSet(E) /\ Cardinality(E) = 0
    BY <1>1, FS_EmptySet
  <1>3. SumFunctionOnSet(v, E) = 0
    <2>1. \A x \in E : v[x] \in Int
      BY <1>1
    <2> QED BY <1>1, <1>2, <2>1, SumTakesOne
  <1>4. PICK st : st = FreshState
    OBVIOUS
  <1>5. st \in State /\ st.count = 0 /\ st.value = 0 /\ st.initialized = FALSE
    BY <1>4 DEF FreshState, State
  <1>6. ValueSums(st, func, E, v)
    BY <1>1, <1>2, <1>3, <1>5 DEF ValueSums
  <1>7. ValuesOn(E, v)
    BY <1>1 DEF ValuesOn
  <1>8. Summary(st, func, E, v)
    BY <1>2, <1>5, <1>6, <1>7 DEF Summary
  <1> QED BY <1>1, <1>4, <1>8

\* With no batch delivered, no rows, no count and fresh states are the right ones.
LEMMA ProgressStarts ==
  plan \in Plans /\ Nothing => Progress(got, Len(got), rows, rowsScanned, states, results)
PROOF
  <1> SUFFICES ASSUME plan \in Plans, Nothing
               PROVE  Progress(got, Len(got), rows, rowsScanned, states, results)
    OBVIOUS
  <1>1. PICK g, rs, scanned, sts, res :
          g = got /\ rs = rows /\ scanned = rowsScanned /\ sts = states /\ res = results
    OBVIOUS
  <1>2. /\ g = << >> /\ rs = << >> /\ scanned = 0 /\ res = << >>
        /\ sts = [e \in DOMAIN plan.aggs |-> FreshState]
    BY <1>1 DEF Nothing
  <1>3. DOMAIN g = {} /\ Len(g) = 0
    BY <1>2
  <1>4. DeliveredBy(g)
    BY <1>3 DEF DeliveredBy
  <1>5. ScannedOf(0) = 0
    <2>1. PICK f, E : E = 1 .. 0 /\ f = [k \in 1 .. 0 |-> Answering!Group(k)[1].num_rows]
      OBVIOUS
    <2>2. E = {}
      BY <2>1
    <2>3. IsFiniteSet(E) /\ \A x \in E : f[x] \in Int
      BY <2>2, FS_EmptySet
    <2>4. SumFunctionOnSet(f, E) = 0
      BY <2>2, <2>3, SumTakesOne
    <2> QED BY <2>1, <2>4 DEF ScannedOf
  <1>6. RowsFrom(g, 0) = << >>
    <2>1. 0 \in Nat /\ \A k \in 1 .. 0 : g[k] \in SUBSET Nat /\ IsFiniteSet(g[k])
      OBVIOUS
    <2>2. PICK A, z : RowsInSteps(z, A, 0, g)
      BY <2>1, RowsLaid
    <2>3. 0 \in 0 .. 0
      OBVIOUS
    <2> QED BY <2>2, <2>3 DEF RowsInSteps
  <1>7. RowsSoFar(g, 0, rs)
    BY <1>2, <1>6 DEF RowsSoFar
  <1>8. StatesSoFar(g, sts)
    <2>1. \A e \in DOMAIN plan.aggs : plan.aggs[e].func \in Funcs
      BY QueryAssumption DEF Funcs
    <2>2. \A expr : PairsOf(g, expr) = {}
      BY <1>3 DEF PairsOf
    <2> SUFFICES ASSUME NEW e \in DOMAIN plan.aggs
                 PROVE  Summary(sts[e], plan.aggs[e].func, PairsOf(g, plan.aggs[e]),
                                ValuesOf(plan.aggs[e], PairsOf(g, plan.aggs[e])))
      BY <1>2 DEF StatesSoFar
    <2>3. PICK expr, func, v : /\ expr = plan.aggs[e] /\ func = expr.func
                               /\ v = ValuesOf(expr, PairsOf(g, expr))
      OBVIOUS
    <2>4. func \in Funcs
      BY <2>1, <2>3
    <2>5. Summary(FreshState, func, {}, v)
      BY <2>4, FreshSummary
    <2>6. sts[e] = FreshState /\ PairsOf(g, expr) = {}
      BY <1>2, <2>2
    <2> QED BY <2>3, <2>5, <2>6
  <1>9. Progress(g, 0, rs, scanned, sts, res)
    BY <1>2, <1>4, <1>5, <1>7, <1>8 DEF Progress
  <1> QED BY <1>1, <1>3, <1>9

\* What was delivered is finite.
LEMMA DeliveredFinite ==
  ASSUME Planned, AllReadable, NEW g, DeliveredBy(g), NEW k \in DOMAIN g
  PROVE  g[k] \in SUBSET Nat /\ IsFiniteSet(g[k])
PROOF
  <1>1. PICK taken, b : taken = g[k] /\ b = [i \in DOMAIN Requested |-> store[Requested[i]][k]]
    OBVIOUS
  <1>2. \A i \in DOMAIN Requested : Alike(b[i], store[Requested[i]][k])
    BY <1>1 DEF Alike
  <1>3. BatchOf(k, b, taken)
    BY <1>1, <1>2 DEF BatchOf, DeliveredBy
  <1> QED BY <1>1, <1>3, TakenFinite

\* The next output has the rows of the first k row groups, up to the limit,
\* which those before k have not reached.
RowsOfBatch(h, k, next) ==
  /\ next = RowsUpToLimit(RowsFrom(h, k))
  /\ \A j \in 1 .. (k - 1) : Limited => ~(Len(RowsFrom(h, j)) >= plan.limit)
  /\ Limited => (Len(next) >= plan.limit <=> Len(RowsFrom(h, k)) >= plan.limit)
  /\ ~(Limited /\ Len(next) >= plan.limit) => RowsSoFar(h, k, next)

\* A batch put out leaves the rows so far or, at the limit, the answer.
LEMMA RowsStep ==
  ASSUME Planned, AllReadable, ~Aggregating,
         NEW g, NEW h, NEW n, NEW taken, Longer(g, h, n, taken), DeliveredBy(h),
         NEW chunks, BatchOf(n + 1, chunks, taken),
         NEW rs, RowsSoFar(g, n, rs),
         NEW next, next = rs \o RowsOut(chunks, TakenOf(taken, rs))
  PROVE  RowsOfBatch(h, n + 1, next)
PROOF
  <1>1. /\ n \in Nat /\ DOMAIN h = 1 .. (n + 1)
        /\ \A j \in 1 .. n : h[j] = g[j]
        /\ h[n + 1] = taken
    BY DEF Longer
  <1>2. PICK k \in Nat : k = n + 1
    BY <1>1
  <1>3. PICK A, z : RowsInSteps(z, A, k, h)
    <2>1. \A j \in 1 .. k : h[j] \in SUBSET Nat /\ IsFiniteSet(h[j])
      BY <1>1, <1>2, DeliveredFinite
    <2> QED BY <2>1, RowsLaid
  <1>4. ASSUME NEW j \in 0 .. n PROVE RowsFrom(g, j) = z[j] /\ RowsFrom(h, j) = z[j]
    <2>1. [i \in 1 .. j |-> GroupRows(i, g[i])] = [i \in 1 .. j |-> GroupRows(i, h[i])]
      <3>1. \A i \in 1 .. j : i \in 1 .. n
        BY <1>1
      <3> QED BY <1>1, <3>1
    <2>2. RowsFrom(g, j) = RowsFrom(h, j)
      BY <2>1 DEF RowsFrom
    <2>3. j \in 0 .. k
      BY <1>1, <1>2
    <2> QED BY <1>3, <2>2, <2>3 DEF RowsInSteps
  <1>5. PICK x, y, w : x = z[n] /\ y = GroupRows(k, taken) /\ w = z[k]
    OBVIOUS
  <1>6. /\ x \in Seq(A) /\ y \in Seq(A) /\ w = x \o y /\ w \in Seq(A)
        /\ RowsFrom(h, k) = w /\ rs = x
    <2>1. n \in 0 .. k /\ k \in 0 .. k /\ k \in 1 .. k /\ k - 1 = n /\ n \in 0 .. n
      BY <1>1, <1>2
    <2>2. x \in Seq(A) /\ w \in Seq(A) /\ RowsFrom(h, k) = w
      BY <1>3, <1>5, <2>1 DEF RowsInSteps
    <2>3. y \in Seq(A) /\ w = x \o y
      <3>1. GroupRows(k, h[k]) \in Seq(A) /\ z[k] = z[k - 1] \o GroupRows(k, h[k])
        BY <1>3, <2>1 DEF RowsInSteps
      <3>2. h[k] = taken
        BY <1>1, <1>2
      <3> QED BY <1>5, <2>1, <3>1, <3>2
    <2>4. rs = x
      BY <1>4, <1>5, <2>1 DEF RowsSoFar
    <2> QED BY <2>2, <2>3, <2>4
  <1>7. ASSUME Limited PROVE plan.limit \in Nat
    BY <1>7, QueryAssumption DEF Planned, Limited
  <1>8. ASSUME NEW j \in 1 .. n, Limited
        PROVE  ~(Len(RowsFrom(h, j)) >= plan.limit)
    <2>1. j \in 0 .. n
      BY <1>1
    <2>2. RowsFrom(h, j) = RowsFrom(g, j)
      BY <1>4, <2>1
    <2> QED BY <1>8, <2>2 DEF RowsSoFar
  <1>9. Limited => Len(x) <= plan.limit
    <2> SUFFICES ASSUME Limited PROVE Len(x) <= plan.limit
      OBVIOUS
    <2>1. CASE n = 0
      <3>1. x = << >>
        BY <1>3, <1>5, <2>1 DEF RowsInSteps
      <3> QED BY <1>7, <3>1
    <2>2. CASE n # 0
      <3>1. n \in 1 .. n /\ n \in 0 .. n
        BY <1>1, <2>2
      <3>2. ~(Len(RowsFrom(h, n)) >= plan.limit) /\ RowsFrom(h, n) = x
        BY <1>4, <1>5, <1>8, <3>1
      <3>3. Len(x) \in Nat /\ plan.limit \in Nat
        BY <1>6, <1>7
      <3> QED BY <3>2, <3>3
    <2> QED BY <2>1, <2>2
  <1>10. next = RowsUpToLimit(w)
    <2>1. BatchOf(k, chunks, taken)
      BY <1>2
    <2>2. x \o RowsOut(chunks, TakenOf(taken, x)) = RowsUpToLimit(x \o y)
      <3>1. x \in Seq(A) /\ y \in Seq(A) /\ y = GroupRows(k, taken)
        BY <1>5, <1>6
      <3> QED BY <1>9, <2>1, <3>1, RowsAdd, SMTT(30)
    <2> QED BY <1>6, <2>2
  <1>11. /\ Limited => (Len(next) >= plan.limit <=> Len(w) >= plan.limit)
         /\ ~(Limited /\ Len(next) >= plan.limit) => next = w
    <2>1. CASE Limited
      <3>1. PICK limit \in Nat : limit = plan.limit
        BY <1>7, <2>1
      <3>2. next = Cut(w, limit)
        BY <1>10, <2>1, <3>1 DEF RowsUpToLimit
      <3>3. /\ Len(w) <= limit => next = w
            /\ Len(w) >= limit => Len(next) = limit
        BY <1>6, <3>1, <3>2, CutIs
      <3>4. Len(w) \in Nat
        BY <1>6
      <3> QED BY <2>1, <3>1, <3>3, <3>4
    <2>2. CASE ~Limited
      BY <1>10, <2>2 DEF RowsUpToLimit
    <2> QED BY <2>1, <2>2
  <1>12. ~(Limited /\ Len(next) >= plan.limit) => RowsSoFar(h, k, next)
    <2> SUFFICES ASSUME ~(Limited /\ Len(next) >= plan.limit) PROVE RowsSoFar(h, k, next)
      OBVIOUS
    <2>1. next = RowsFrom(h, k)
      BY <1>6, <1>11
    <2>2. ASSUME NEW j \in 1 .. k, Limited PROVE ~(Len(RowsFrom(h, j)) >= plan.limit)
      <3>1. CASE j = k
        BY <1>6, <1>11, <2>2, <3>1
      <3>2. CASE j # k
        <4>1. j \in 1 .. n
          BY <1>1, <1>2, <3>2
        <4> QED BY <1>8, <2>2, <4>1
      <3> QED BY <3>1, <3>2
    <2> QED BY <2>1, <2>2 DEF RowsSoFar
  <1>13. RowsOfBatch(h, k, next)
    <2>1. \A j \in 1 .. (k - 1) : j \in 1 .. n
      BY <1>1, <1>2
    <2> QED BY <1>6, <1>8, <1>10, <1>11, <1>12, <2>1 DEF RowsOfBatch
  <1> QED BY <1>2, <1>13

\* A batch accumulated leaves the states so far.
LEMMA StatesStep ==
  ASSUME Planned, AllReadable, Aggregating,
         NEW g, NEW h, NEW n, NEW taken, Longer(g, h, n, taken),
         NEW chunks, BatchOf(n + 1, chunks, taken),
         NEW sts, StatesSoFar(g, sts),
         NEW next, next = Accumulate(sts, plan.aggs, chunks, cfg.projection, taken)
  PROVE  StatesSoFar(h, next)
PROOF
  <1>1. /\ n \in Nat /\ DOMAIN g = 1 .. n /\ DOMAIN h = 1 .. (n + 1)
        /\ \A j \in 1 .. n : h[j] = g[j]
        /\ h[n + 1] = taken
    BY DEF Longer
  <1>2. PICK k : k = n + 1
    OBVIOUS
  <1>3. DOMAIN next = DOMAIN plan.aggs
    BY DEF Accumulate
  <1>4. ASSUME NEW e \in DOMAIN plan.aggs
        PROVE  Summary(next[e], plan.aggs[e].func, PairsOf(h, plan.aggs[e]),
                       ValuesOf(plan.aggs[e], PairsOf(h, plan.aggs[e])))
    <2>1. PICK expr, S, T : /\ expr = plan.aggs[e] /\ S = PairsOf(g, expr)
                            /\ T = S \cup BatchPairs(k, taken, expr)
      OBVIOUS
    <2>2. PairsOf(h, expr) = T /\ \A x \in S : x[1] # k
      <3>1. DOMAIN h = 1 .. k /\ h[k] = taken
        BY <1>1, <1>2
      <3>2. /\ PairsOf(h, expr) = PairsOf(g, expr) \cup BatchPairs(k, h[k], expr)
            /\ \A x \in PairsOf(g, expr) : x[1] # k
        BY <1>1, <1>2, <3>1, PairsGrow
      <3> QED BY <2>1, <3>1, <3>2
    <2>3. Summary(sts[e], expr.func, S, ValuesOf(expr, S))
      BY <2>1 DEF StatesSoFar
    <2>4. BatchOf(k, chunks, taken)
      BY <1>2
    <2>5. Summary(Accumulate(sts, plan.aggs, chunks, cfg.projection, taken)[e],
                  expr.func, T, ValuesOf(expr, T))
      BY <2>1, <2>2, <2>3, <2>4, AggregateAdds
    <2> QED BY <2>1, <2>2, <2>5
  <1> QED BY <1>3, <1>4 DEF StatesSoFar

\* The answers.
LEMMA RowsAnswered ==
  ASSUME Planned, AllReadable, ~Aggregating,
         NEW N \in Nat, Answering!Groups = 1 .. N,
         NEW g, NEW K, Stops(g, K, N), DeliveredBy(g)
  PROVE  Answered(RowsUpToLimit(RowsFrom(g, K)), ScannedOf(K), << >>)
PROOF
  <1>1. PICK kept : kept = KeptBy(g)
    OBVIOUS
  <1>2. /\ Answering!Rows(kept) = RowsUpToLimit(RowsFrom(g, K))
        /\ \A k \in 1 .. K : Answering!RowsUpTo(kept, k) = RowsFrom(g, k)
    BY <1>1, AnsweredRows
  <1>3. Answering!Scanned(kept) = ScannedOf(K)
    BY <1>2, AnsweredScanned
  <1>4. [e \in DOMAIN plan.aggs |-> Answering!Result(kept, plan.aggs[e])] = << >>
    <2>1. plan.aggs = << >>
      BY DEF Aggregating
    <2>2. DOMAIN plan.aggs = {}
      BY <2>1
    <2> QED BY <2>2
  <1>5. PICK lucky \in SUBSET (Answering!Groups \ Answering!SoundGroups) :
          kept = Answering!SoundGroups \cup lucky
    BY <1>1, KeptSelects
  <1>6. [kind |-> "answer", rows |-> RowsUpToLimit(RowsFrom(g, K)), results |-> << >>,
         scanned |-> ScannedOf(K)] = Answering!AnswerFrom(kept)
    BY <1>2, <1>3, <1>4 DEF Answering!AnswerFrom
  <1> QED BY <1>5, <1>6 DEF Answered

\* The answer of aggregates, when all row groups were accumulated.
LEMMA AggregatesAnswered ==
  ASSUME Planned, AllReadable, Aggregating,
         NEW N \in Nat, Answering!Groups = 1 .. N,
         NEW g, DOMAIN g = 1 .. N, DeliveredBy(g),
         NEW sts, StatesSoFar(g, sts)
  PROVE  Answered(<< >>, ScannedOf(N),
                  [e \in DOMAIN sts |-> FinalizeOne(sts[e], plan.aggs[e].func)])
PROOF
  <1>1. PICK kept : kept = KeptBy(g)
    OBVIOUS
  <1>2. Answering!Rows(kept) = << >>
    BY SameLimits DEF Answering!Rows
  <1>3. Answering!Scanned(kept) = ScannedOf(N)
    <2>1. ~Limited
      BY DEF Limited
    <2>2. Stops(g, N, N)
      <3>1. N \in 0 .. N
        OBVIOUS
      <3> QED BY <2>1, <3>1 DEF Stops
    <2> QED BY <2>1, <2>2, AnsweredScanned
  <1>4. DOMAIN sts = DOMAIN plan.aggs
    BY DEF StatesSoFar
  <1>5. ASSUME NEW e \in DOMAIN plan.aggs
        PROVE  FinalizeOne(sts[e], plan.aggs[e].func) = Answering!Result(kept, plan.aggs[e])
    <2>1. PICK expr, S, st : expr = plan.aggs[e] /\ S = PairsOf(g, expr) /\ st = sts[e]
      OBVIOUS
    <2>2. expr.func \in Funcs
      BY <2>1, QueryAssumption DEF Planned, Funcs
    <2>3. S = Answering!Pairs(kept, expr)
      BY <1>1, <2>1, PairsAtEnd
    <2>4. Summary(st, expr.func, S, ValuesOf(expr, S))
      BY <2>1 DEF StatesSoFar
    <2>5. FinalizeOne(st, expr.func) = Answering!Result(kept, expr)
      BY <2>2, <2>3, <2>4, ResultIs
    <2> QED BY <2>1, <2>5
  <1>6. [e \in DOMAIN sts |-> FinalizeOne(sts[e], plan.aggs[e].func)]
          = [e \in DOMAIN plan.aggs |-> Answering!Result(kept, plan.aggs[e])]
    BY <1>4, <1>5
  <1>7. PICK lucky \in SUBSET (Answering!Groups \ Answering!SoundGroups) :
          kept = Answering!SoundGroups \cup lucky
    BY <1>1, KeptSelects
  <1>8. [kind |-> "answer", rows |-> << >>,
         results |-> [e \in DOMAIN sts |-> FinalizeOne(sts[e], plan.aggs[e].func)],
         scanned |-> ScannedOf(N)] = Answering!AnswerFrom(kept)
    BY <1>2, <1>3, <1>6 DEF Answering!AnswerFrom
  <1> QED BY <1>7, <1>8 DEF Answered

-----------------------------------------------------------------------------
(* The steps.                                                              *)

\* The invariant holds at first, and the steps keep it.
LEMMA QueryStarts == QueryInit => QInv
PROOF
  <1> SUFFICES ASSUME QueryInit PROVE QInv
    OBVIOUS
  <1>1. Init /\ plan \in Plans /\ cfg = ConfigOf(plan) /\ phase = "before"
    BY DEF QueryInit
  <1>2. IInv
    BY <1>1, InitIInv
  <1>3. QShape
    BY <1>1 DEF QShape, Planned, Init
  <1>4. Nothing
    BY DEF QueryInit, Init, Nothing
  <1> QED BY <1>1, <1>2, <1>3, <1>4 DEF QInv

\* Writes come before the scan.
LEMMA WriteBeforeKeeps ==
  ASSUME QInv, NEW c \in Columns, WriteBefore(c)
  PROVE  QInv'
PROOF
  <1>1. /\ WriteColumn(c) /\ phase = "before" /\ phase' = "before" /\ plan' = plan
        /\ UNCHANGED <<rows, rowsScanned, states, results>>
    BY DEF WriteBefore, resultVars
  <1>2. IInv'
    BY <1>1, WriteKeeps DEF QInv
  <1>3. cfg' = cfg /\ initialized' = initialized /\ colNames' = colNames /\ got' = got
    BY <1>1 DEF WriteColumn, scanVars
  <1>4. QShape /\ Nothing
    BY <1>1 DEF QInv
  <1>5. ~initialized /\ colNames = << >>
    BY <1>1, <1>4 DEF QShape
  <1>6. Planned'
    BY <1>1, <1>3, <1>4 DEF QShape, Planned
  <1>7. QShape'
    BY <1>1, <1>3, <1>5, <1>6 DEF QShape
  <1>8. Nothing'
    BY <1>1, <1>3, <1>4 DEF Nothing
  <1> QED BY <1>1, <1>2, <1>7, <1>8 DEF QInv

\* A step that leaves the scan alone.
LEMMA StutterKeepsIInv ==
  ASSUME IInv, UNCHANGED vars
  PROVE  IInv'
PROOF
  BY NextKeepsIInv

\* execute is called.
LEMMA ExecuteKeeps ==
  ASSUME QInv, Execute
  PROVE  QInv'
PROOF
  <1>1. /\ phase = "before" /\ phase' = "scan" /\ UNCHANGED vars /\ plan' = plan
        /\ UNCHANGED <<rows, rowsScanned, states, results>>
    BY DEF Execute, resultVars
  <1>2. IInv'
    BY <1>1, StutterKeepsIInv DEF QInv
  <1>3. /\ store' = store /\ cfg' = cfg /\ initialized' = initialized
        /\ colNames' = colNames /\ got' = got
    BY <1>1 DEF vars, scanVars
  <1>4. QShape /\ Nothing
    BY <1>1 DEF QInv
  <1>5. Planned'
    BY <1>1, <1>3, <1>4 DEF QShape, Planned
  <1>6. QShape'
    <2>1. ~initialized /\ colNames = << >>
      BY <1>1, <1>4 DEF QShape
    <2> QED BY <1>1, <1>3, <1>5, <2>1 DEF QShape
  <1>7. Nothing' /\ plan' \in Plans
    BY <1>1, <1>3, <1>4 DEF Nothing, QShape, Planned
  <1>8. Progress(got, Len(got), rows, rowsScanned, states, results)'
    <2>1. (plan \in Plans /\ Nothing =>
             Progress(got, Len(got), rows, rowsScanned, states, results))'
      BY ProgressStarts, PTL
    <2> QED BY <1>7, <2>1
  <1> QED BY <1>1, <1>2, <1>6, <1>8 DEF QInv

\* The first call of next_batch throws.
LEMMA ThrowKeeps ==
  ASSUME QInv, ScanThrows
  PROVE  QInv'
PROOF
  <1>1. phase = "scan" /\ phase' = "threw" /\ LoadFails /\ plan' = plan
    BY DEF ScanThrows
  <1>2. IInv'
    BY <1>1, LoadFailsKeeps DEF QInv
  <1>3. cfg' = cfg /\ initialized' = initialized /\ ~initialized
    BY <1>1 DEF LoadFails
  <1>4. Planned'
    BY <1>1, <1>3 DEF QInv, QShape, Planned
  <1>5. QShape'
    BY <1>1, <1>3, <1>4 DEF QShape
  <1> QED BY <1>1, <1>2, <1>5 DEF QInv

\* What holds of the next values with the table of this state holds then.
LEMMA ProgressNext ==
  ASSUME UNCHANGED <<store, plan, cfg>>,
         NEW g, g = got', NEW n, n = Len(g), NEW rs, rs = rows',
         NEW scanned, scanned = rowsScanned', NEW sts, sts = states', NEW res, res = results',
         Progress(g, n, rs, scanned, sts, res)
  PROVE  Progress(got, Len(got), rows, rowsScanned, states, results)'
PROOF
  <1>1. store' = store /\ plan' = plan /\ cfg' = cfg
    OBVIOUS
  <1>2. DeliveredBy(got)'
    <2>1. DeliveredBy(g)
      BY DEF Progress
    <2> QED BY <1>1, <2>1, SameTable DEF DeliveredBy
  <1>3. (rowsScanned = ScannedOf(Len(got)))'
    <2>1. scanned = ScannedOf(n)
      BY DEF Progress
    <2>2. ScannedOf(n)' = ScannedOf(n)
      BY SameTable
    <2>3. ScannedOf(Len(got))' = ScannedOf(n)'
      BY DEF ScannedOf
    <2> QED BY <2>1, <2>2, <2>3
  <1>4. (Aggregating' <=> Aggregating) /\ (Limited' <=> Limited)
    BY <1>1 DEF Aggregating, Limited
  <1>5. ~Aggregating' => RowsSoFar(got, Len(got), rows)'
    <2> SUFFICES ASSUME ~Aggregating PROVE RowsSoFar(got, Len(got), rows)'
      BY <1>4
    <2>1. RowsSoFar(g, n, rs)
      BY DEF Progress
    <2>2. \A k : RowsFrom(got, k)' = RowsFrom(g, k)
      <3>1. \A k : RowsFrom(g, k)' = RowsFrom(g, k)
        BY SameTable
      <3>2. \A k : RowsFrom(got, k)' = RowsFrom(g, k)'
        BY DEF RowsFrom
      <3> QED BY <3>1, <3>2
    <2>3. RowsFrom(got, Len(got))' = RowsFrom(g, n)
      <3>1. RowsFrom(g, n)' = RowsFrom(g, n)
        BY SameTable
      <3>2. RowsFrom(got, Len(got))' = RowsFrom(g, n)'
        BY DEF RowsFrom
      <3> QED BY <3>1, <3>2
    <2> QED BY <1>1, <1>4, <2>1, <2>2, <2>3 DEF RowsSoFar
  <1>6. Aggregating' => rows' = << >> /\ StatesSoFar(got, states)'
    <2> SUFFICES ASSUME Aggregating PROVE rows' = << >> /\ StatesSoFar(got, states)'
      BY <1>4
    <2>1. rs = << >> /\ StatesSoFar(g, sts)
      BY DEF Progress
    <2>2. \A expr : PairsOf(got, expr)' = PairsOf(g, expr)
      <3>1. \A expr : PairsOf(g, expr)' = PairsOf(g, expr)
        BY SameTable
      <3>2. \A expr : PairsOf(got, expr)' = PairsOf(g, expr)'
        BY DEF PairsOf
      <3> QED BY <3>1, <3>2
    <2>3. ASSUME NEW e \in DOMAIN plan.aggs
          PROVE  /\ PairsOf(got, plan.aggs[e])' = PairsOf(g, plan.aggs[e])
                 /\ ValuesOf(plan.aggs[e], PairsOf(got, plan.aggs[e]))'
                      = ValuesOf(plan.aggs[e], PairsOf(g, plan.aggs[e]))
      <3>1. PICK expr : expr = plan.aggs[e]
        OBVIOUS
      <3>2. PairsOf(got, plan.aggs[e])' = PairsOf(g, expr)
        <4>1. PairsOf(got, plan.aggs[e])' = PairsOf(got, expr)'
          BY <1>1, <3>1 DEF PairsOf
        <4> QED BY <2>2, <4>1
      <3>3. ValuesOf(plan.aggs[e], PairsOf(got, plan.aggs[e]))' = ValuesOf(expr, PairsOf(g, expr))
        BY <1>1, <3>1, <3>2 DEF ValuesOf
      <3> QED BY <3>1, <3>2, <3>3
    <2>4. StatesSoFar(got, states)'
      BY <1>1, <2>1, <2>3 DEF StatesSoFar
    <2> QED BY <2>1, <2>4
  <1>7. res = << >>
    BY DEF Progress
  <1> QED BY <1>2, <1>3, <1>5, <1>6, <1>7 DEF Progress

\* The same for an answer.
LEMMA AnsweredNext ==
  ASSUME UNCHANGED <<store, plan, cfg>>,
         NEW rs, rs = rows', NEW scanned, scanned = rowsScanned', NEW res, res = results',
         Answered(rs, scanned, res)
  PROVE  Answered(rows, rowsScanned, results)'
PROOF
  <1>1. PICK lucky \in SUBSET (Answering!Groups \ Answering!SoundGroups) :
          [kind |-> "answer", rows |-> rs, results |-> res, scanned |-> scanned]
            = Answering!AnswerFrom(Answering!SoundGroups \cup lucky)
    BY DEF Answered
  <1>2. /\ Answering!Groups' = Answering!Groups
        /\ Answering!SoundGroups' = Answering!SoundGroups
    BY SameTable
  <1>3. PICK kept : kept = Answering!SoundGroups \cup lucky
    OBVIOUS
  <1>4. Answering!AnswerFrom(kept)' = Answering!AnswerFrom(kept)
    BY SameTable
  <1>5. Answering!AnswerFrom(Answering!SoundGroups \cup lucky)' = Answering!AnswerFrom(kept)
    <2>1. (Answering!SoundGroups \cup lucky)' = kept
      BY <1>2, <1>3
    <2>2. Answering!AnswerFrom(Answering!SoundGroups \cup lucky)' = Answering!AnswerFrom(kept)'
      BY <2>1
    <2> QED BY <1>4, <2>2
  <1>6. [kind |-> "answer", rows |-> rows', results |-> results', scanned |-> rowsScanned']
          = Answering!AnswerFrom(Answering!SoundGroups \cup lucky)'
    BY <1>1, <1>3, <1>5
  <1> QED BY <1>2, <1>6 DEF Answered

\* The scan stays that of the table as it is.
LEMMA QShapeKept ==
  ASSUME QShape, phase = "scan", UNCHANGED <<store, plan, cfg>>,
         initialized', snap' = store, colNames' = Requested, phase' \in {"scan", "done"}
  PROVE  QShape'
PROOF
  <1>1. store' = store /\ plan' = plan /\ cfg' = cfg /\ Requested' = Requested
    BY SameTable
  <1>2. Planned'
    BY <1>1 DEF QShape, Planned
  <1> QED BY <1>1, <1>2 DEF QShape

-----------------------------------------------------------------------------
(* The steps of the loops.                                                 *)

\* A batch is accumulated.
LEMMA AggregateKeeps ==
  ASSUME QInv, AggregateBatch
  PROVE  QInv'
PROOF
  <1>1. /\ phase = "scan" /\ phase' = "scan" /\ Aggregating /\ DeliverBatch
        /\ rowsScanned' = rowsScanned + out'[1].num_rows
        /\ states' = Accumulate(states, plan.aggs, out', cfg.projection, sel')
        /\ plan' = plan /\ rows' = rows /\ results' = results
    BY DEF AggregateBatch
  <1>2. IInv /\ QShape /\ Progress(got, Len(got), rows, rowsScanned, states, results)
    BY <1>1 DEF QInv
  <1>3. IInv'
    BY <1>1, <1>2, DeliverKeeps
  <1>4. UNCHANGED <<store, plan, cfg>>
    BY <1>1 DEF DeliverBatch
  <1>5. PICK g, h, n, chunks, taken :
          /\ g = got /\ h = got' /\ n = Len(got) /\ chunks = out' /\ taken = sel'
    OBVIOUS
  <1>6. PICK rs, scanned, sts, res, more, next :
          /\ rs = rows /\ scanned = rowsScanned /\ sts = states /\ res = results
          /\ more = rowsScanned' /\ next = states'
    OBVIOUS
  <1>7. Progress(g, n, rs, scanned, sts, res)
    BY <1>2, <1>5, <1>6
  <1>8. /\ DeliveredBy(g) /\ scanned = ScannedOf(n) /\ res = << >>
        /\ rs = << >> /\ StatesSoFar(g, sts)
    BY <1>1, <1>7 DEF Progress
  <1>9. /\ AllReadable /\ initialized' /\ snap' = store /\ colNames' = Requested
        /\ Longer(g, h, n, taken) /\ DeliveredBy(h) /\ BatchOf(n + 1, chunks, taken)
        /\ ScannedOf(n + 1) = ScannedOf(n) + chunks[1].num_rows
    <2>1. n = Len(g)
      BY <1>5
    <2> QED BY <1>1, <1>2, <1>5, <1>8, <2>1, BatchStep
  <1>10. QShape'
    BY <1>1, <1>2, <1>4, <1>9, QShapeKept
  <1>11. more = ScannedOf(n + 1)
    BY <1>1, <1>5, <1>6, <1>8, <1>9
  <1>12. StatesSoFar(h, next)
    <2>1. next = Accumulate(sts, plan.aggs, chunks, cfg.projection, taken)
      BY <1>1, <1>5, <1>6
    <2>2. Planned
      BY <1>2 DEF QShape
    <2> QED BY <1>1, <1>8, <1>9, <2>1, <2>2, StatesStep
  <1>13. PICK m : m = Len(h)
    OBVIOUS
  <1>14. m = n + 1
    <2>1. h \in Seq(SUBSET Int)
      BY <1>3, <1>5 DEF IInv, Counted
    <2>2. DOMAIN h = 1 .. (n + 1) /\ n \in Nat
      BY <1>9 DEF Longer
    <2> QED BY <1>13, <2>1, <2>2
  <1>15. Progress(h, m, rs, more, next, res)
    BY <1>1, <1>8, <1>9, <1>11, <1>12, <1>14 DEF Progress
  <1>16. Progress(got, Len(got), rows, rowsScanned, states, results)'
    <2>1. /\ h = got' /\ m = Len(h) /\ rs = rows' /\ more = rowsScanned'
          /\ next = states' /\ res = results'
      BY <1>1, <1>5, <1>6, <1>13
    <2> QED BY <1>4, <1>15, <2>1, ProgressNext
  <1> QED BY <1>1, <1>3, <1>10, <1>16 DEF QInv

\* The end of the scan of a query.
LEMMA FinishStep ==
  ASSUME QInv, phase = "scan", EndOfScan, plan' = plan, phase' = "done"
  PROVE  /\ IInv' /\ QShape' /\ UNCHANGED <<store, plan, cfg>>
         /\ Planned /\ AllReadable /\ Answering!Groups = 1 .. Len(got)
         /\ Len(got) \in Nat /\ DOMAIN got = 1 .. Len(got)
         /\ Progress(got, Len(got), rows, rowsScanned, states, results)
PROOF
  <1>1. IInv /\ QShape /\ Progress(got, Len(got), rows, rowsScanned, states, results)
    BY DEF QInv
  <1>2. IInv'
    BY <1>1, EndKeeps
  <1>3. /\ AllReadable /\ Answering!Groups = 1 .. Len(got)
        /\ initialized' /\ snap' = store /\ colNames' = Requested
        /\ UNCHANGED <<store, cfg, got>>
    BY <1>1, ScanEnded
  <1>4. QShape'
    BY <1>1, <1>3, QShapeKept
  <1>5. Len(got) \in Nat /\ DOMAIN got = 1 .. Len(got)
    BY <1>1 DEF IInv, Counted
  <1> QED BY <1>1, <1>2, <1>3, <1>4, <1>5 DEF QShape

\* The states become the results.
LEMMA FinishAggregatesKeeps ==
  ASSUME QInv, FinishAggregates
  PROVE  /\ QInv' /\ Answering!Readable /\ UNCHANGED <<store, plan, cfg>>
         /\ Answered(rows', rowsScanned', results')
PROOF
  <1>1. /\ phase = "scan" /\ phase' = "done" /\ Aggregating /\ EndOfScan
        /\ results' = [e \in DOMAIN states |-> FinalizeOne(states[e], plan.aggs[e].func)]
        /\ plan' = plan /\ rows' = rows /\ rowsScanned' = rowsScanned
    BY DEF FinishAggregates
  <1>2. /\ IInv' /\ QShape' /\ UNCHANGED <<store, plan, cfg>>
        /\ Planned /\ AllReadable /\ Answering!Groups = 1 .. Len(got)
        /\ Len(got) \in Nat /\ DOMAIN got = 1 .. Len(got)
        /\ Progress(got, Len(got), rows, rowsScanned, states, results)
    BY <1>1, FinishStep
  <1>3. PICK g, n, sts, rs, scanned, res :
          /\ g = got /\ n = Len(got) /\ sts = states
          /\ rs = rows' /\ scanned = rowsScanned' /\ res = results'
    OBVIOUS
  <1>4. PICK old : old = results
    OBVIOUS
  <1>5. Progress(g, n, rs, scanned, sts, old)
    BY <1>1, <1>2, <1>3, <1>4
  <1>6. DeliveredBy(g) /\ scanned = ScannedOf(n) /\ rs = << >> /\ StatesSoFar(g, sts)
    BY <1>1, <1>5 DEF Progress
  <1>7. n \in Nat /\ Answering!Groups = 1 .. n /\ DOMAIN g = 1 .. n
    BY <1>2, <1>3
  <1>8. Answered(<< >>, ScannedOf(n),
                 [e \in DOMAIN sts |-> FinalizeOne(sts[e], plan.aggs[e].func)])
    BY <1>1, <1>2, <1>6, <1>7, AggregatesAnswered, Zenon
  <1>9. res = [e \in DOMAIN sts |-> FinalizeOne(sts[e], plan.aggs[e].func)]
    BY <1>1, <1>3
  <1>10. Answered(rs, scanned, res)
    BY <1>6, <1>8, <1>9
  <1>11. Answered(rows, rowsScanned, results)'
    BY <1>2, <1>3, <1>10, AnsweredNext
  <1>12. QInv'
    BY <1>1, <1>2, <1>11 DEF QInv
  <1>13. Answering!Readable
    BY <1>2, NumberOfGroups, Zenon
  <1> QED BY <1>2, <1>3, <1>10, <1>12, <1>13

\* The rows are complete without the limit being reached.
LEMMA FinishSelectKeeps ==
  ASSUME QInv, FinishSelect
  PROVE  /\ QInv' /\ Answering!Readable /\ UNCHANGED <<store, plan, cfg>>
         /\ Answered(rows', rowsScanned', results')
PROOF
  <1>1. /\ phase = "scan" /\ phase' = "done" /\ ~Aggregating /\ EndOfScan
        /\ plan' = plan /\ rows' = rows /\ rowsScanned' = rowsScanned /\ results' = results
    BY DEF FinishSelect, resultVars
  <1>2. /\ IInv' /\ QShape' /\ UNCHANGED <<store, plan, cfg>>
        /\ Planned /\ AllReadable /\ Answering!Groups = 1 .. Len(got)
        /\ Len(got) \in Nat /\ DOMAIN got = 1 .. Len(got)
        /\ Progress(got, Len(got), rows, rowsScanned, states, results)
    BY <1>1, FinishStep
  <1>3. PICK g, n, sts, rs, scanned, res :
          /\ g = got /\ n = Len(got) /\ sts = states
          /\ rs = rows' /\ scanned = rowsScanned' /\ res = results'
    OBVIOUS
  <1>4. Progress(g, n, rs, scanned, sts, res)
    BY <1>1, <1>2, <1>3
  <1>5. DeliveredBy(g) /\ scanned = ScannedOf(n) /\ res = << >> /\ RowsSoFar(g, n, rs)
    BY <1>1, <1>4 DEF Progress
  <1>6. n \in Nat /\ Answering!Groups = 1 .. n /\ DOMAIN g = 1 .. n
    BY <1>2, <1>3
  <1>7. PICK x : x = RowsFrom(g, n)
    OBVIOUS
  <1>8. rs = x /\ \A k \in 1 .. n : Limited => ~(Len(RowsFrom(g, k)) >= plan.limit)
    BY <1>5, <1>7 DEF RowsSoFar
  <1>9. RowsUpToLimit(x) = x
    <2>1. CASE ~Limited
      BY <2>1 DEF RowsUpToLimit
    <2>2. CASE Limited
      <3>1. PICK limit \in Nat : limit = plan.limit
        BY <1>2, <2>2, QueryAssumption DEF Planned, Limited
      <3>2. PICK A, z : RowsInSteps(z, A, n, g)
        <4>1. \A k \in 1 .. n : g[k] \in SUBSET Nat /\ IsFiniteSet(g[k])
          BY <1>2, <1>5, <1>6, DeliveredFinite
        <4> QED BY <1>6, <4>1, RowsLaid
      <3>3. x \in Seq(A) /\ (n = 0 => x = << >>)
        <4>1. n \in 0 .. n
          BY <1>6
        <4> QED BY <1>7, <3>2, <4>1 DEF RowsInSteps
      <3>4. Len(x) \in Nat /\ Len(x) <= limit
        <4>1. Len(x) \in Nat
          BY <3>3
        <4>2. CASE n = 0
          BY <3>1, <3>3, <4>2
        <4>3. CASE n # 0
          <5>1. n \in 1 .. n
            BY <1>6, <4>3
          <5>2. ~(Len(x) >= limit)
            BY <1>7, <1>8, <2>2, <3>1, <5>1
          <5> QED BY <3>1, <4>1, <5>2
        <4> QED BY <4>1, <4>2, <4>3
      <3>5. Cut(x, limit) = x
        BY <3>1, <3>3, <3>4, CutIs
      <3> QED BY <2>2, <3>1, <3>5 DEF RowsUpToLimit
    <2> QED BY <2>1, <2>2
  <1>10. Stops(g, n, n)
    <2>1. n \in 0 .. n /\ \A k \in 1 .. (n - 1) : k \in 1 .. n
      BY <1>6
    <2> QED BY <1>6, <1>8, <2>1 DEF Stops
  <1>11. Answered(RowsUpToLimit(RowsFrom(g, n)), ScannedOf(n), << >>)
    BY <1>1, <1>2, <1>5, <1>6, <1>10, RowsAnswered, Zenon
  <1>12. Answered(rs, scanned, res)
    BY <1>5, <1>7, <1>8, <1>9, <1>11
  <1>13. Answered(rows, rowsScanned, results)'
    BY <1>2, <1>3, <1>12, AnsweredNext
  <1>14. QInv'
    BY <1>1, <1>2, <1>13 DEF QInv
  <1>15. Answering!Readable
    BY <1>2, NumberOfGroups, Zenon
  <1> QED BY <1>2, <1>3, <1>12, <1>14, <1>15

\* A batch of rows leaves the scan going, or the answer.
LEMMA SelectKeeps ==
  ASSUME QInv, SelectBatch
  PROVE  /\ QInv' /\ UNCHANGED <<store, plan, cfg>> /\ phase' \in {"scan", "done"}
         /\ phase' = "done" =>
              Answering!Readable /\ Answered(rows', rowsScanned', results')
PROOF
  <1>1. /\ phase = "scan" /\ ~Aggregating /\ DeliverBatch
        /\ rowsScanned' = rowsScanned + out'[1].num_rows
        /\ rows' = rows \o [i \in DOMAIN Taken |-> OutputRow(Taken[i])]
        /\ phase' = IF Limited /\ Len(rows') >= plan.limit THEN "done" ELSE "scan"
        /\ plan' = plan /\ states' = states /\ results' = results
    BY DEF SelectBatch
  <1>2. IInv /\ QShape /\ Progress(got, Len(got), rows, rowsScanned, states, results)
    BY <1>1 DEF QInv
  <1>3. IInv'
    BY <1>1, <1>2, DeliverKeeps
  <1>4. UNCHANGED <<store, plan, cfg>>
    BY <1>1 DEF DeliverBatch
  <1>5. PICK g, h, n, chunks, taken :
          /\ g = got /\ h = got' /\ n = Len(got) /\ chunks = out' /\ taken = sel'
    OBVIOUS
  <1>6. PICK rs, scanned, sts, res, more, next :
          /\ rs = rows /\ scanned = rowsScanned /\ sts = states /\ res = results
          /\ more = rowsScanned' /\ next = rows'
    OBVIOUS
  <1>7. Progress(g, n, rs, scanned, sts, res)
    BY <1>2, <1>5, <1>6
  <1>8. DeliveredBy(g) /\ scanned = ScannedOf(n) /\ res = << >> /\ RowsSoFar(g, n, rs)
    BY <1>1, <1>7 DEF Progress
  <1>9. /\ AllReadable /\ initialized' /\ snap' = store /\ colNames' = Requested
        /\ Longer(g, h, n, taken) /\ DeliveredBy(h) /\ BatchOf(n + 1, chunks, taken)
        /\ ScannedOf(n + 1) = ScannedOf(n) + chunks[1].num_rows
    <2>1. n = Len(g)
      BY <1>5
    <2> QED BY <1>1, <1>2, <1>5, <1>8, <2>1, BatchStep
  <1>10. phase' \in {"scan", "done"}
    BY <1>1
  <1>11. QShape'
    BY <1>1, <1>2, <1>4, <1>9, <1>10, QShapeKept
  <1>12. more = ScannedOf(n + 1)
    BY <1>1, <1>5, <1>6, <1>8, <1>9
  <1>13. PICK m : m = Len(h)
    OBVIOUS
  <1>14. m = n + 1 /\ n \in Nat /\ DOMAIN h = 1 .. m
    <2>1. h \in Seq(SUBSET Int)
      BY <1>3, <1>5 DEF IInv, Counted
    <2>2. DOMAIN h = 1 .. (n + 1) /\ n \in Nat
      BY <1>9 DEF Longer
    <2> QED BY <1>13, <2>1, <2>2
  <1>15. next = rs \o RowsOut(chunks, TakenOf(taken, rs))
    <2>1. PICK t : t = TakenOf(taken, rs)
      OBVIOUS
    <2>2. Taken = t
      BY <1>5, <1>6, <2>1 DEF Taken, TakenOf, Cut
    <2>3. \A r : OutputRow(r) = RowOut(chunks, r)
      BY <1>5 DEF OutputRow, RowOut
    <2>4. [i \in DOMAIN Taken |-> OutputRow(Taken[i])] = RowsOut(chunks, t)
      BY <2>2, <2>3 DEF RowsOut
    <2> QED BY <1>1, <1>6, <2>1, <2>4
  <1>16. Planned
    BY <1>2 DEF QShape
  <1>17. /\ next = RowsUpToLimit(RowsFrom(h, m))
         /\ \A k \in 1 .. n : Limited => ~(Len(RowsFrom(h, k)) >= plan.limit)
         /\ Limited => (Len(next) >= plan.limit <=> Len(RowsFrom(h, m)) >= plan.limit)
         /\ ~(Limited /\ Len(next) >= plan.limit) => RowsSoFar(h, m, next)
    <2>1. RowsOfBatch(h, n + 1, next)
      BY <1>1, <1>8, <1>9, <1>15, <1>16, RowsStep
    <2>2. m - 1 = n
      BY <1>14
    <2> QED BY <1>14, <2>1, <2>2 DEF RowsOfBatch
  <1>18. CASE ~(Limited /\ Len(next) >= plan.limit)
    <2>1. phase' = "scan"
      BY <1>1, <1>6, <1>18
    <2>2. Progress(h, m, next, more, sts, res)
      BY <1>1, <1>8, <1>9, <1>12, <1>14, <1>17, <1>18 DEF Progress
    <2>3. Progress(got, Len(got), rows, rowsScanned, states, results)'
      <3>1. /\ h = got' /\ m = Len(h) /\ next = rows' /\ more = rowsScanned'
            /\ sts = states' /\ res = results'
        BY <1>1, <1>5, <1>6, <1>13
      <3> QED BY <1>4, <2>2, <3>1, ProgressNext
    <2>4. QInv'
      BY <1>3, <1>11, <2>1, <2>3 DEF QInv
    <2> QED BY <1>4, <2>1, <2>4
  <1>19. CASE Limited /\ Len(next) >= plan.limit
    <2>1. phase' = "done"
      BY <1>1, <1>6, <1>19
    <2>2. Answering!Readable
      BY <1>9, <1>16, NumberOfGroups
    <2>3. PICK N \in Nat : Answering!Groups = 1 .. N
      BY <1>9, <1>16, NumberOfGroups
    <2>4. Stops(h, m, N)
      <3>1. m \in Answering!Groups
        BY <1>9, <1>14 DEF BatchOf
      <3>2. m \in 0 .. N /\ m > 0 /\ m - 1 = n
        BY <1>14, <2>3, <3>1
      <3>3. Len(RowsFrom(h, m)) >= plan.limit
        BY <1>17, <1>19
      <3> QED BY <1>14, <1>17, <1>19, <3>2, <3>3 DEF Stops
    <2>5. Answered(RowsUpToLimit(RowsFrom(h, m)), ScannedOf(m), << >>)
      BY <1>1, <1>9, <1>16, <2>3, <2>4, RowsAnswered
    <2>6. Answered(next, more, res)
      BY <1>8, <1>12, <1>14, <1>17, <2>5
    <2>7. next = rows' /\ more = rowsScanned' /\ res = results'
      BY <1>1, <1>6
    <2>8. Answered(rows, rowsScanned, results)'
      BY <1>4, <2>6, <2>7, AnsweredNext
    <2>9. QInv'
      BY <1>3, <1>11, <2>1, <2>8 DEF QInv
    <2> QED BY <1>4, <2>1, <2>2, <2>6, <2>7, <2>9
  <1> QED BY <1>18, <1>19

\* Nothing happens.
LEMMA QueryStutterKeeps ==
  ASSUME QInv, UNCHANGED queryVars
  PROVE  QInv'
PROOF
  <1>1. /\ UNCHANGED vars /\ plan' = plan /\ phase' = phase /\ rows' = rows
        /\ rowsScanned' = rowsScanned /\ states' = states /\ results' = results
    BY DEF queryVars, resultVars
  <1>2. IInv'
    BY <1>1, StutterKeepsIInv DEF QInv
  <1>3. /\ store' = store /\ cfg' = cfg /\ initialized' = initialized
        /\ colNames' = colNames /\ snap' = snap /\ got' = got
    BY <1>1 DEF vars, scanVars
  <1>4. UNCHANGED <<store, plan, cfg>>
    BY <1>1, <1>3
  <1>5. QShape'
    <2>1. Requested' = Requested
      BY <1>4, SameTable
    <2>2. QShape
      BY DEF QInv
    <2>3. Planned'
      BY <1>1, <1>3, <2>2 DEF QShape, Planned
    <2> QED BY <1>1, <1>3, <2>1, <2>2, <2>3 DEF QShape
  <1>6. phase' = "before" => Nothing'
    BY <1>1, <1>3 DEF QInv, Nothing
  <1>7. ASSUME phase = "scan"
        PROVE  Progress(got, Len(got), rows, rowsScanned, states, results)'
    <2>1. Progress(got, Len(got), rows, rowsScanned, states, results)
      BY <1>7 DEF QInv
    <2>2. PICK g, n, rs, scanned, sts, res :
            /\ g = got' /\ n = Len(g) /\ rs = rows' /\ scanned = rowsScanned'
            /\ sts = states' /\ res = results'
      OBVIOUS
    <2>3. Progress(g, n, rs, scanned, sts, res)
      BY <1>1, <1>3, <2>1, <2>2
    <2> QED BY <1>4, <2>2, <2>3, ProgressNext
  <1>8. ASSUME phase = "done" PROVE Answered(rows, rowsScanned, results)'
    <2>1. Answered(rows, rowsScanned, results)
      BY <1>8 DEF QInv
    <2>2. PICK rs, scanned, res : rs = rows' /\ scanned = rowsScanned' /\ res = results'
      OBVIOUS
    <2>3. Answered(rs, scanned, res)
      BY <1>1, <2>1, <2>2
    <2> QED BY <1>4, <2>2, <2>3, AnsweredNext
  <1> QED BY <1>1, <1>2, <1>5, <1>6, <1>7, <1>8 DEF QInv

\* Every step keeps the invariant.
LEMMA QueryNextKeeps == QInv /\ [QueryNext]_queryVars => QInv'
PROOF
  <1> SUFFICES ASSUME QInv, [QueryNext]_queryVars PROVE QInv'
    OBVIOUS
  <1>1. CASE \E c \in Columns : WriteBefore(c)
    BY <1>1, WriteBeforeKeeps
  <1>2. CASE Execute
    BY <1>2, ExecuteKeeps
  <1>3. CASE ScanThrows
    BY <1>3, ThrowKeeps
  <1>4. CASE AggregateBatch
    BY <1>4, AggregateKeeps
  <1>5. CASE FinishAggregates
    BY <1>5, FinishAggregatesKeeps
  <1>6. CASE SelectBatch
    BY <1>6, SelectKeeps
  <1>7. CASE FinishSelect
    BY <1>7, FinishSelectKeeps
  <1>8. CASE UNCHANGED queryVars
    BY <1>8, QueryStutterKeeps
  <1> QED BY <1>1, <1>2, <1>3, <1>4, <1>5, <1>6, <1>7, <1>8 DEF QueryNext, Step

\* The invariant of a query.
LEMMA QInvAlways == QuerySpec => []QInv
PROOF
  BY QueryStarts, QueryNextKeeps, PTL DEF QuerySpec

-----------------------------------------------------------------------------
(* What the answers are.                                                   *)

\* Where every comparison is sound nothing is lost.
LEMMA SoundAnswer ==
  ASSUME NEW rs, NEW scanned, NEW res, Answered(rs, scanned, res), Sound
  PROVE  [kind |-> "answer", rows |-> rs, results |-> res, scanned |-> scanned]
           = Answering!AnswerFrom(Answering!Groups)
PROOF
  <1>1. PICK lucky \in SUBSET (Answering!Groups \ Answering!SoundGroups) :
          [kind |-> "answer", rows |-> rs, results |-> res, scanned |-> scanned]
            = Answering!AnswerFrom(Answering!SoundGroups \cup lucky)
    BY DEF Answered
  <1>2. Answering!SoundGroups \cup lucky = Answering!Groups
    BY <1>1 DEF Sound
  <1> QED BY <1>1, <1>2

\* The invariant gives the rows of a SELECT.
LEMMA SelectIsExact == QInv => SelectExact
PROOF
  <1> SUFFICES ASSUME QInv, phase = "done", ~Aggregating, Sound
               PROVE  rows = Answering!Rows(Answering!Groups)
    BY DEF SelectExact
  <1>1. PICK rs, scanned, res : rs = rows /\ scanned = rowsScanned /\ res = results
    OBVIOUS
  <1>2. Answered(rs, scanned, res)
    BY <1>1 DEF QInv
  <1>3. [kind |-> "answer", rows |-> rs, results |-> res, scanned |-> scanned]
          = Answering!AnswerFrom(Answering!Groups)
    BY <1>2, SoundAnswer
  <1>4. PICK kept : kept = Answering!Groups
    OBVIOUS
  <1>5. rs = Answering!Rows(kept)
    BY <1>3, <1>4 DEF Answering!AnswerFrom
  <1> QED BY <1>1, <1>4, <1>5

\* The invariant gives the aggregates.
LEMMA AggregatesAreExact == QInv => AggregatesExact
PROOF
  <1> SUFFICES ASSUME QInv, phase = "done", Aggregating, Sound,
                      NEW e \in DOMAIN plan.aggs, NEW expr, expr = plan.aggs[e],
                      expr.col # NoColumn =>
                        \A k \in Answering!Groups : Accumulated(store[expr.col][k].type)
               PROVE  results[e] = Expected(expr)
    BY DEF AggregatesExact
  <1>1. PICK rs, scanned, res : rs = rows /\ scanned = rowsScanned /\ res = results
    OBVIOUS
  <1>2. Answered(rs, scanned, res)
    BY <1>1 DEF QInv
  <1>3. [kind |-> "answer", rows |-> rs, results |-> res, scanned |-> scanned]
          = Answering!AnswerFrom(Answering!Groups)
    BY <1>2, SoundAnswer
  <1>4. PICK kept : kept = Answering!Groups
    OBVIOUS
  <1>5. res[e] = Answering!Result(kept, expr)
    <2>1. res = [d \in DOMAIN plan.aggs |-> Answering!Result(kept, plan.aggs[d])]
      BY <1>3, <1>4 DEF Answering!AnswerFrom
    <2> QED BY <2>1
  <1>6. Answering!Pairs(kept, expr) = Pairs
    <2>1. {g \in Answering!Groups :
             expr.col = NoColumn \/ Answering!Accumulated(store[expr.col][g].type)}
            = Answering!Groups
      BY SameOperators
    <2> QED BY <1>4, <2>1 DEF Answering!Pairs, Pairs
  <1>7. PICK S, v : /\ S = Pairs
                    /\ v = [pair \in S |-> store[expr.col][pair[1]].data[pair[2]]]
    OBVIOUS
  <1>8. PICK func, R : func = expr.func /\ R = Range(v)
    OBVIOUS
  <1>9. /\ Answering!Cardinality(S) = Cardinality(S)
        /\ Answering!SumFunctionOnSet(v, S) = SumFunctionOnSet(v, S)
        /\ Answering!Range(v) = R
        /\ Answering!Min(R) = Min(R) /\ Answering!Max(R) = Max(R)
    BY <1>8, SameOperators
  <1> DEFINE Whole == [num   |-> IF func = "COUNT" THEN Cardinality(S)
                                 ELSE IF func \in {"SUM", "AVG"} THEN SumFunctionOnSet(v, S)
                                 ELSE IF S = {} THEN 0
                                 ELSE IF func = "MIN" THEN Min(R) ELSE Max(R),
                       den   |-> IF func = "AVG" /\ S # {} THEN Cardinality(S) ELSE 1,
                       count |-> Cardinality(S)]
  <1>10. Answering!Result(kept, expr) = Whole
    BY <1>6, <1>7, <1>8, <1>9, Zenon DEF Answering!Result
  <1>11. Expected(expr) = Whole
    BY <1>7, <1>8, Zenon DEF Expected
  <1> QED BY <1>1, <1>5, <1>10, <1>11

\* A query for rows answers with the qualifying rows in the table's order, up
\* to the limit, whatever plan, table and row groups (query.cpp, scan.cpp).
THEOREM SelectExactAlways == QuerySpec => []SelectExact
PROOF
  BY QInvAlways, SelectIsExact, PTL

\* Each aggregate is that of the qualifying rows of the whole table, however
\* they are spread over row groups (query.cpp, aggregator.cpp).
THEOREM AggregatesExactAlways == QuerySpec => []AggregatesExact
PROOF
  BY QInvAlways, AggregatesAreExact, PTL

-----------------------------------------------------------------------------
(* The answer as one step.                                                 *)

\* The answer the client sees.
Seen ==
  CASE phase = "threw" -> [kind |-> "throw"]
    [] phase = "done"  -> [kind    |-> "answer",  rows    |-> rows,
                           results |-> results,   scanned |-> rowsScanned]
    [] OTHER           -> [kind |-> "pending"]

\* What is seen in each phase.
LEMMA SeenIs ==
  /\ Answering!Pending = [kind |-> "pending"] /\ Answering!Thrown = [kind |-> "throw"]
  /\ phase \in {"before", "scan"} => Seen = [kind |-> "pending"]
  /\ phase = "threw" => Seen = [kind |-> "throw"]
  /\ phase = "done" => Seen = [kind |-> "answer", rows |-> rows, results |-> results,
                               scanned |-> rowsScanned]
PROOF
  BY DEF Seen, Answering!Pending, Answering!Thrown

\* The initial states of a query are those of the abstract one.
LEMMA AnswerStarts == QueryInit => Answering!Init
PROOF
  <1> SUFFICES ASSUME QueryInit PROVE Answering!Init
    OBVIOUS
  <1>1. plan \in Plans /\ phase = "before" /\ store \in [Columns -> {Absent}]
    BY DEF QueryInit, Init
  <1>2. Answering!Columns = Columns
    BY DEF Answering!Columns, Columns, Answering!Range, Range
  <1>3. store = [c \in Answering!Columns |-> Absent]
    BY <1>1, <1>2
  <1>4. Seen = Answering!Pending
    BY <1>1, SeenIs
  <1> QED BY <1>1, <1>3, <1>4 DEF Answering!Init, Seen

\* A step that leaves files, plan and answer alone.
LEMMA AnswerStutters ==
  ASSUME UNCHANGED <<store, plan>>, Seen' = Seen
  PROVE  UNCHANGED Answering!vars
PROOF
  BY DEF Answering!vars, Seen

\* A step that comes to the answer is the answer of the abstract query.
LEMMA Responds ==
  ASSUME UNCHANGED <<store, plan>>, phase = "scan", phase' = "done",
         Answering!Readable, Answered(rows', rowsScanned', results')
  PROVE  Answering!Respond
PROOF
  <1>1. Seen = Answering!Pending
    BY SeenIs
  <1>2. Seen' = [kind |-> "answer", rows |-> rows', results |-> results',
                 scanned |-> rowsScanned']
    BY DEF Seen
  <1>3. Seen' \in {Answering!AnswerFrom(Answering!SoundGroups \cup lucky) :
                     lucky \in SUBSET (Answering!Groups \ Answering!SoundGroups)}
    BY <1>2 DEF Answered
  <1> QED BY <1>1, <1>3 DEF Answering!Respond, Seen

\* Every step is one of the abstract query, or is not seen.
LEMMA AnswerSteps == QInv /\ [QueryNext]_queryVars => [Answering!Next]_Answering!vars
PROOF
  <1> SUFFICES ASSUME QInv, [QueryNext]_queryVars PROVE [Answering!Next]_Answering!vars
    OBVIOUS
  <1>1. ASSUME NEW c \in Columns, WriteBefore(c) PROVE Answering!Next
    <2>1. /\ phase = "before" /\ phase' = "before" /\ plan' = plan
          /\ \E content \in Contents[c] : store' = [store EXCEPT ![c] = content]
      BY <1>1 DEF WriteBefore, WriteColumn
    <2>2. Seen = Answering!Pending /\ Seen' = Seen
      BY <2>1 DEF Seen, Answering!Pending
    <2>3. c \in Answering!Columns
      BY DEF Answering!Columns, Columns, Answering!Range, Range
    <2>4. Answering!WriteColumn(c)
      BY <2>1, <2>2 DEF Answering!WriteColumn, Seen
    <2> QED BY <2>3, <2>4 DEF Answering!Next
  <1>2. ASSUME Execute PROVE UNCHANGED Answering!vars
    <2>1. phase = "before" /\ phase' = "scan" /\ UNCHANGED <<store, plan>>
      BY <1>2 DEF Execute, vars
    <2>2. Seen' = Seen
      BY <2>1 DEF Seen
    <2> QED BY <2>1, <2>2, AnswerStutters
  <1>3. ASSUME ScanThrows PROVE Answering!Next
    <2>1. /\ phase = "scan" /\ phase' = "threw" /\ LoadFails /\ UNCHANGED <<store, plan>>
      BY <1>3 DEF ScanThrows, LoadFails
    <2>2. ~Answering!Readable
      BY <2>1, ThrowsForReason DEF QInv
    <2>3. Seen = Answering!Pending /\ Seen' = Answering!Thrown
      BY <2>1 DEF Seen, Answering!Pending, Answering!Thrown
    <2>4. Answering!Respond
      BY <2>1, <2>2, <2>3 DEF Answering!Respond, Seen
    <2> QED BY <2>4 DEF Answering!Next
  <1>4. ASSUME AggregateBatch PROVE UNCHANGED Answering!vars
    <2>1. phase = "scan" /\ phase' = "scan" /\ UNCHANGED <<store, plan>>
      BY <1>4 DEF AggregateBatch, DeliverBatch
    <2>2. Seen' = Seen
      BY <2>1 DEF Seen
    <2> QED BY <2>1, <2>2, AnswerStutters
  <1>5. ASSUME FinishAggregates PROVE Answering!Next
    <2>1. phase = "scan" /\ phase' = "done"
      BY <1>5 DEF FinishAggregates
    <2>2. /\ Answering!Readable /\ UNCHANGED <<store, plan>>
          /\ Answered(rows', rowsScanned', results')
      BY <1>5, FinishAggregatesKeeps
    <2> QED BY <2>1, <2>2, Responds DEF Answering!Next
  <1>6. ASSUME SelectBatch PROVE [Answering!Next]_Answering!vars
    <2>1. phase = "scan"
      BY <1>6 DEF SelectBatch
    <2>2. /\ UNCHANGED <<store, plan>> /\ phase' \in {"scan", "done"}
          /\ phase' = "done" =>
               Answering!Readable /\ Answered(rows', rowsScanned', results')
      BY <1>6, SelectKeeps
    <2>3. CASE phase' = "done"
      BY <2>1, <2>2, <2>3, Responds DEF Answering!Next
    <2>4. CASE phase' = "scan"
      <3>1. Seen' = Seen
        BY <2>1, <2>4 DEF Seen
      <3> QED BY <2>2, <3>1, AnswerStutters
    <2> QED BY <2>2, <2>3, <2>4
  <1>7. ASSUME FinishSelect PROVE Answering!Next
    <2>1. phase = "scan" /\ phase' = "done"
      BY <1>7 DEF FinishSelect
    <2>2. /\ Answering!Readable /\ UNCHANGED <<store, plan>>
          /\ Answered(rows', rowsScanned', results')
      BY <1>7, FinishSelectKeeps
    <2> QED BY <2>1, <2>2, Responds DEF Answering!Next
  <1>8. ASSUME UNCHANGED queryVars PROVE UNCHANGED Answering!vars
    <2>1. /\ UNCHANGED <<store, plan>> /\ phase' = phase /\ rows' = rows
          /\ rowsScanned' = rowsScanned /\ results' = results
      BY <1>8 DEF queryVars, vars, resultVars
    <2>2. Seen' = Seen
      BY <2>1 DEF Seen
    <2> QED BY <2>1, <2>2, AnswerStutters
  <1> QED BY <1>1, <1>2, <1>3, <1>4, <1>5, <1>6, <1>7, <1>8 DEF QueryNext, Step

\* execute answers as module Answer does in one step: every batch but the last
\* is a step nobody sees, and an exception means that a column is missing
\* (query.cpp).
THEOREM ImplementsAnswerAlways == QuerySpec => ImplementsAnswer
PROOF
  BY QInvAlways, AnswerStarts, AnswerSteps, PTL
  DEF QuerySpec, ImplementsAnswer, Answering!Spec
=============================================================================
