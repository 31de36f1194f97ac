-------------------------------- MODULE Scan --------------------------------
(***************************************************************************)
(* ScanOperator::next_batch (scan.cpp) over a table whose columns are      *)
(* written one by one.  The first call loads the columns, and may throw    *)
(* after it has changed the operator's state; every call that does not     *)
(* throw delivers the chunks of the next row group with a selection, or    *)
(* says that there are no more.  Between two calls the client may write    *)
(* columns of the table anew.                                              *)
(*                                                                         *)
(* A column's two files are taken as one sequence of chunks; module        *)
(* ColumnFile has how they are written and what a fault leaves of them.    *)
(***************************************************************************)
EXTENDS Predicates, SequencesExt

CONSTANTS
  SchemaNames,   \* the columns of the table, in the schema's order
  Configs,       \* scan configurations: records [projection, filters]
  Contents,      \* for each column, what write_column may be given for it
  Absent,        \* a column without files
  MaxWrites,     \* bound on the writes of the client
  MaxFailures    \* bound on the calls that throw

ASSUME ScanAssumption ==
  /\ SchemaNames \in Seq(Range(SchemaNames)) /\ SchemaNames # << >> /\ IsInjective(SchemaNames)
  /\ \A c \in Range(SchemaNames) : \A content \in Contents[c] :
       /\ content # Absent /\ DOMAIN content = 1 .. Len(content) /\ Len(content) \in Nat
       /\ \A k \in DOMAIN content : IsChunk(content[k])
  /\ \A g \in Configs :
       /\ g.projection \in Seq(Range(g.projection))
       /\ DOMAIN g.filters = 1 .. Len(g.filters) /\ Len(g.filters) \in Nat
       /\ \A p \in DOMAIN g.filters : g.filters[p].op \in CompareOps /\ g.filters[p].val \in Values
  /\ MaxWrites \in Nat /\ MaxFailures \in Nat

VARIABLES
  store,        \* the files: column -> chunks, or Absent
  cfg,          \* cfg_
  initialized,  \* initialized_
  colNames,     \* col_names_
  columns,      \* columns_: the chunks of each column
  chunkIdx,     \* chunk_idx_, the number of row groups delivered
  out, sel,     \* what the caller passes by reference
  ret,          \* how the last call ended: "none", "batch", "end" or "throw"
  writes, failures,
  snap,         \* observer: the files as they were when loading succeeded
  got           \* observer: the selections delivered

scanVars == <<initialized, colNames, columns, chunkIdx, out, sel, ret, failures, snap, got>>
vars == <<store, cfg, writes, scanVars>>

Columns == Range(SchemaNames)

\* The names the scan is asked for.
Requested == IF cfg.projection = << >> THEN SchemaNames ELSE cfg.projection

-----------------------------------------------------------------------------

Init ==
  /\ store \in [Columns -> {Absent}]
  /\ cfg \in Configs
  /\ initialized = FALSE
  /\ colNames = << >> /\ columns = << >>
  /\ chunkIdx = 0
  /\ out = << >> /\ sel = {} /\ ret = "none"
  /\ writes = 0 /\ failures = 0
  /\ snap = store
  /\ got = << >>

\* write_column, complete, by the client that also runs the scan.
WriteColumn(c) ==
  /\ writes < MaxWrites
  /\ \E content \in Contents[c] : store' = [store EXCEPT ![c] = content]
  /\ writes' = writes + 1
  /\ UNCHANGED <<cfg, scanVars>>

-----------------------------------------------------------------------------
(* Loading the columns.                                                    *)

\* The schema's names are appended to what an earlier attempt left; a
\* projection replaces it.
NamesToLoad ==
  IF cfg.projection = << >> THEN colNames \o SchemaNames ELSE cfg.projection

Readable(c) == c \in Columns /\ store[c] # Absent

\* Mutant: the stored statistics come back with the chunk.
ReadColumnTrusting(c) == store[c]

\* read_column: the statistics of every chunk are computed on the way.
ReadColumn(c) == [k \in DOMAIN store[c] |-> StoredChunk(store[c][k])]

\* Loading stops at the first column that is unknown or without a file.
LoadFails ==
  /\ ~initialized /\ failures < MaxFailures
  /\ \E i \in DOMAIN NamesToLoad :
       /\ ~Readable(NamesToLoad[i])
       /\ \A j \in 1 .. (i - 1) : Readable(NamesToLoad[j])
       /\ columns' = [j \in DOMAIN NamesToLoad |->
                        IF j < i THEN ReadColumn(NamesToLoad[j])
                        ELSE IF j \in DOMAIN columns THEN columns[j] ELSE << >>]
  /\ colNames' = NamesToLoad
  /\ ret' = "throw"
  /\ failures' = failures + 1
  /\ UNCHANGED <<store, cfg, writes, initialized, chunkIdx, out, sel, snap, got>>

\* The operator's columns once this call has passed the loading.
LoadedNames == IF initialized THEN colNames ELSE NamesToLoad

\* Mutant: the columns are read again by every call.
LoadedColumnsReread == [i \in DOMAIN LoadedNames |-> ReadColumn(LoadedNames[i])]

LoadedColumns ==
  IF initialized THEN columns
  ELSE [i \in DOMAIN NamesToLoad |-> ReadColumn(NamesToLoad[i])]

Load ==
  /\ initialized \/ \A i \in DOMAIN NamesToLoad : Readable(NamesToLoad[i])
  /\ initialized' = TRUE
  /\ colNames' = LoadedNames
  /\ columns' = LoadedColumns
  /\ snap' = IF initialized THEN snap ELSE store

-----------------------------------------------------------------------------
(* Delivering the row groups.                                              *)

\* The shortest column decides: row groups that only others have are not
\* delivered.
MinChunks == Min({Len(columns'[i]) : i \in DOMAIN columns'})

\* Mutant: the last row group is taken for the end.
EndOfScanEarly ==
  /\ Load
  /\ chunkIdx + 1 >= MinChunks
  /\ out' = << >>
  /\ ret' = "end"
  /\ UNCHANGED <<store, cfg, writes, chunkIdx, sel, failures, got>>

EndOfScan ==
  /\ Load
  /\ chunkIdx >= MinChunks
  /\ out' = << >>
  /\ ret' = "end"
  /\ UNCHANGED <<store, cfg, writes, chunkIdx, sel, failures, got>>

Batch == [i \in DOMAIN columns' |-> EnsureStats(columns'[i][chunkIdx + 1])]

\* The selections a batch may get; no filter keeps every row of the first
\* column's chunk.
Selections(batch, batchNames) ==
  IF cfg.filters = << >> THEN {RowsOf(batch[1])}
  ELSE IF ChunkSetCanBeSkipped(batch, batchNames, cfg.filters) THEN {{}}
  ELSE EvaluatePredicates(batch, batchNames, cfg.filters)

\* Mutant: a batch that is skipped is not counted as delivered.
DeliverBatchStuck ==
  /\ Load
  /\ chunkIdx < MinChunks
  /\ out' = Batch
  /\ sel' \in Selections(Batch, colNames')
  /\ chunkIdx' = IF sel' = {} THEN chunkIdx ELSE chunkIdx + 1
  /\ got' = IF sel' = {} THEN got ELSE Append(got, sel')
  /\ ret' = "batch"
  /\ UNCHANGED <<store, cfg, writes, failures>>

DeliverBatch ==
  /\ Load
  /\ chunkIdx < MinChunks
  /\ out' = Batch
  /\ sel' \in Selections(Batch, colNames')
  /\ chunkIdx' = chunkIdx + 1
  /\ got' = Append(got, sel')
  /\ ret' = "batch"
  /\ UNCHANGED <<store, cfg, writes, failures>>

NextBatch == LoadFails \/ EndOfScan \/ DeliverBatch

Next == NextBatch \/ \E c \in Columns : WriteColumn(c)

Spec == Init /\ [][Next]_vars

\* The client calls next_batch until it returns false (query.cpp).
FairSpec == Spec /\ WF_vars(EndOfScan \/ DeliverBatch)

-----------------------------------------------------------------------------

\* Row group k of the table as the files were when the scan was loaded.
Group(k) == [i \in DOMAIN Requested |-> snap[Requested[i]][k]]

\* Every row group delivered so far got the rows the filters ask for,
\* judged by what the table held when the scan loaded it: whatever is written
\* in between, whatever statistics the written chunks carried, and also when
\* an earlier attempt to load had thrown half way.  Groups with chunks of
\* different length and comparisons truncation does not respect are left out.
ScanExact ==
  \A k \in DOMAIN got :
    Aligned(Group(k)) /\ SoundPredicates(Group(k), Requested, cfg.filters)
      => got[k] = Qualifying(Group(k), Requested, cfg.filters)

\* The same for every comparison.
PruningExact ==
  \A k \in DOMAIN got :
    Aligned(Group(k)) => got[k] = Qualifying(Group(k), Requested, cfg.filters)

\* A column of the batch, found by its name, holds the values of that column
\* and row group, and statistics that enclose them.
BatchFaithful ==
  ret = "batch" =>
    \A i \in DOMAIN Requested :
      LET chunk  == out[Min(Named(colNames, Requested[i]))]
          source == Group(Len(got))[i]
      IN  /\ Len(got) <= Len(snap[Requested[i]])
          /\ chunk.num_rows = source.num_rows
          /\ \A r \in RowsOf(source) :
               /\ IsNull(chunk, r) = IsNull(source, r)
               /\ chunk.data[r] = source.data[r]
          /\ Covers(chunk)

\* The scan ends only after every row group that all columns have.
ScanComplete ==
  ret = "end" =>
    \E i \in DOMAIN Requested : Len(got) = Len(snap[Requested[i]])

\* Once its columns are loaded the loop over next_batch comes to its end.
ScanEnds == initialized ~> ret = "end"
=============================================================================
