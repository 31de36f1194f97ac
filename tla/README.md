# A TLA+ model of the columnar analytics engine

This directory specifies the C++ engine in `src/` in TLA+, model-checks the
specifications with TLC on small instances and proves theorems about them with
TLAPS. It says, for each part of the engine, what state it keeps, what each call
does to it, and which properties make it correct.

## 1. The system

The engine is a library used by one thread. A *table* is a directory with a
`schema.json` and, for each column, a data file `<name>.col` and an index
`<name>.col.idx`. A column is a list of *chunks* of at most `CHUNK_SIZE` = 65536
rows; the chunks of all columns with the same number form a *row group*.

| component | state it keeps | operations | correct if |
|---|---|---|---|
| buffers (`AlignedBuffer`, `column.hpp`, `column.cpp`) | a pointer to aligned memory and a size | `resize`, copy, move, destruction, stores through `data()` | it behaves like a value: one owner for each block, nothing shared, nothing leaked |
| column chunks (`column.cpp`) | values, null bitmap, row count, cached min/max | `resize`, `set_null`, stores through `values<T>()`, `num_rows = n`, `finalize_stats`, `can_skip_gt`, `might_match_range`, `can_skip_predicate` | a chunk that is skipped has no matching row; the bounds are as sharp as they can be |
| predicate evaluation (`filter.cpp`) | none of its own; writes statistics into the caller's chunks and the caller's selection vector | `evaluate_predicate`, `evaluate_predicates`, `fill_all`, `scan_gt_int32` | exactly the rows that pass all predicates are selected, whatever the order of evaluation |
| table scan (`scan.cpp`) | loaded names and columns, number of the next row group, whether it is initialised | `next_batch` | every row group is delivered once, with its values and its qualifying rows; the scan ends |
| column files (`storage.cpp`: `write_column`, `ColumnReader`, `read_column`) | the two files; a reader's index, position and stream state | write, open, `read_next_chunk` | a column is read back whole and in order; a damaged one as a prefix |
| CSV ingest (`storage.cpp`: `ingest_csv`) | active chunks, full chunks, row counter | one call for a file | every good line once and in order, columns cut at the same rows; no half-replaced table beyond what a crash allows |
| schema (`schema.cpp`, `create_table`, `load_schema`) | `schema.json` | create, load | what is written is parsed back; a torn file never yields another column or type |
| a table over its life (`storage.cpp`, `scan.cpp`) | schema and column files, which only names relate | create, ingest, query, in any order and with crashes between | a query shows lines of the files that were ingested, never out of step; an ingest that does all its work repairs everything |
| codecs (`compression.cpp`) | none | `compress`, `decompress` | decompressing gives back the bytes |
| aggregation (`aggregator.cpp`) | one state per expression | `accumulate`, `finalize` | the aggregate of the qualifying rows of the whole table |
| query execution (`query.cpp`, `pipeline_executor.cpp`) | the result under construction | `execute` | select list, LIMIT and aggregates over the scan |
| row kernels (`batch.cpp`, `filter.cpp`, `aggregator.cpp`) | none | `filter_gt_int32_batch`, `scan_gt_int32`, `fill_all`, `vectorized_sum_int32` | each passing row once and in order; each selected row added once |

How they interact. `QueryExecutor::execute` builds a scan and calls `next_batch`
until it returns false, feeding batch and selection to an `Aggregator` or to the
result rows. `next_batch` loads, in its first call, whole columns through
`read_column`, which opens a `ColumnReader` and reads it to the end; then it copies
one chunk per column, skips the batch if the statistics allow it, and otherwise calls
`evaluate_predicates`. `ingest_csv` fills chunks and calls `write_column` for each
column. All of them share `ColumnChunk`, and with it the cached statistics.

What is hard here. There are no threads. The hazards are cached bounds that nothing
keeps in step with the data; truncation of floating-point bounds; two files per
column, several columns and a schema per table that are replaced one after the other
without any commit; streams whose errors nobody asks for; exceptions that leave an
object half changed and usable; a scan that outlives writes to the files under it;
row numbers of sixteen bits; and two texts parsed by hand.
`PROJECT.json` lists each hazard at its line with the properties that cover it.

## 2. The modules

| module | models | uses |
|---|---|---|
| `Column` | the chunk as a record, its nulls, statistics and skip decisions; pure operators | |
| `ChunkStats` | one chunk under every sequence of calls | `Column` |
| `Buffers` | abstract: buffers are values | |
| `AlignedBuffer` | pointers, sizes and a heap; implements `Buffers` | `Buffers` |
| `Predicates` | what one predicate selects, the closed form of `evaluate_predicates`, `chunk_set_can_be_skipped`; pure operators | `Column` |
| `Filter` | the loop of `evaluate_predicates`, one action per turn | `Predicates` |
| `Kernels` | the loops over the rows of one chunk, batch by batch, and the sum over a selection | `Orders` |
| `Evaluation` | `Filter` and `Kernels` side by side | `Filter`, `Kernels` |
| `Scan` | `ScanOperator::next_batch`, with writes between the calls | `Predicates` |
| `ColumnStream` | abstract: what writing and reading a column promises | |
| `ColumnFile` | `write_column` and `ColumnReader` over two files; implements `ColumnStream` | `ColumnStream` |
| `CsvLine` | one line of a CSV file, character by character | `Orders` |
| `Ingest` | `ingest_csv` line by line, then column by column | |
| `Loads` | several calls of `ingest_csv` in detail, next to the life of a table that takes them as one step each | `Table`, `Ingest` |
| `SchemaFile` | `schema.json` as text: written, cut short, parsed | |
| `Texts` | the two texts side by side, and what is assumed of them | `SchemaFile`, `CsvLine` |
| `Table` | `create_table`, `ingest_csv` and `SELECT *` of one table, with crashes and failing streams | |
| `Aggregate` | the aggregator's states and what a batch does to them; pure operators | `Predicates` |
| `Answer` | abstract: a plan is answered in one step from the files | `Aggregate`, `Orders` |
| `Orders` | sets of numbers in their order, sequences at such numbers; pure operators | |
| `Query` | `QueryExecutor::execute`, a plan turned into a scan whose batches it consumes; implements `Answer` | `Aggregate`, `Orders`, `Scan`, `Answer` |
| `Codec` | the RLE and DELTA codecs over zigzag numbers and varints, and NONE; whole and torn blocks | |
| `Column_proofs` | lemmas on least numbers, sequences laid end to end, sums, ranks, chunks, bounds and predicates that the other proofs cite | `Predicates`, `Orders` |
| `ChunkStats_proofs`, `AlignedBuffer_proofs`, `Filter_proofs` (with those of `Kernels`), `Query_proofs` (with those of `Scan`), `ColumnFile_proofs` (with those of `SchemaFile`), `Table_proofs` (with those of `Ingest` and `CsvLine`), `Codec_proofs` | theorems | |
| `MCChunkStats`, `MCAlignedBuffer`, `MCFilter`, `MCScan`, `MCColumnFile`, `MCIngest`, `MCTable`, `MCQuery`, `MCCodec`, `MCText` | the instances for TLC | |
| `MCTables` | chunks and predicates that several instances use | `Column` |

Definitions keep the names of the source. Next to some definitions stands a variant
whose comment begins with "Mutant:". No specification uses it; it is the definition
with a plausible mistake, and substituting it must make the named property fail
(`PROJECT.json`, "mutants").

### How state and actions correspond

**Values.** A value is an integer. In an integer column it is itself; in a float
column `v` stands for `v / Unit`, so `AsInt64` is the identity on the one and
truncation towards zero on the other, which is what `static_cast<int64_t>` does in
`compute_typed_stats` and `predicate_threshold`. NaN, infinities and floats outside
the range of `int64_t` are not represented (converting them is undefined in C++).

**ChunkStats.** `chunk` is the `ColumnChunk`. `ResizeTo`, `Store`, `SetNumRows`,
`MarkNull`, `Finalize` are the calls and assignments an owner makes; `Ensure` is the
`if (!stats.initialized) finalize_stats()` of the filter and the scan; `WriteAndRead`
is a round trip through a file. `resize` leaves any values in the buffer (fresh
memory, or the old bytes when the size is the same). The variable `bounds` is an
observer: it says how far the cached bounds may be relied upon, and turns to "stale"
when a row comes to life or changes.

**AlignedBuffer.** `ptr` and `size` are `data_` and `size_`, `heap` the blocks.
`ResizeKeeps`, `ResizeAllocates` and `ResizeFails` are the outcomes of `resize`: the
block is kept if the size is the same, a new one is allocated before the old one is
freed, or `aligned_alloc` gives nothing and the size is set all the same. The copy
has an empty and a full case (`CopyNothing`, `CopyInto`); `Move` takes the pointer and
leaves the size, as the defaulted operator does. Copy and move construction are the
same onto a fresh buffer; destruction is `Reset`. `hollow` is an observer: the buffers
that were moved from or got no memory. A copy for which there is no memory writes
through a null pointer and is left out; a move of a buffer onto itself changes
nothing. `Buffers` has the same calls on a function from buffers to contents.

**Filter.** `chunks`, `names`, `preds`, `sel` are the arguments, `ordered` the sorted
copy, `p` the loop counter. `Sort` takes any order the comparator allows. `Narrow`
reads rows beyond a shorter chunk as the code does: the result is then any subset.
`NextCall` evaluates another list on the same batch, whose statistics the previous
call may have computed. `Predicates!EvaluatePredicates` is the same result in closed
form, which `Scan` uses; `OrderFree` shows that the loop agrees with it.

**Kernels.** `kernel` is the function called; `Batch` is one turn of its loop over
batches of `BATCH_SIZE` rows. A row passes, fails, or is null with a value that
passes. The rows a batch selects are those of its part that pass, from the least on
(`SelectedRows`). A selection vector has room for `ChunkSize` row numbers, each stored modulo
`ChunkSize`; what is written behind it is undefined, so that the model stops there
(`pc = "overrun"`) and `RowsExact` says when. `AddFour` and `AddOne` are the two
loops of the sum; row r has the value 2^r, which makes a sum tell its rows.

**Scan.** `LoadFails` is a call that throws while it loads: it has set `col_names_`
and some of `columns_`. `EndOfScan` and `DeliverBatch` are the calls that return,
including the loading when it is still due. `WriteColumn` is a complete
`write_column` by the same client between two calls. `snap` and `got` are observers:
the files at the moment loading succeeded, and the selections delivered.

**ColumnFile.** A file is a sequence of cells. A chunk is a header cell and the cells
of payload and bitmap after it; a cell remembers the write and the chunk it
belongs to, the program sees only whether it is a header. A seek to an offset of
another write may thus hit a header, the middle of a chunk, or nothing. Each stream may
fail once (when opened, or when its buffer is written out), after which it swallows
everything; `Crash` cuts each file at any place. `ReadThrows`, `ReadChunk`, `ReadTorn`
and `ReadEnd` are the outcomes of `read_next_chunk`. `ReadTorn` is the short payload
whose read nobody checks: the chunk is delivered with zeroes in it, and `failed`
keeps the failbit that makes every later read throw.

**ColumnStream.** The promise: while nothing went wrong the last value written is
read back chunk by chunk; after a write that did not end well a reader delivers a
prefix, at most its last chunk torn; to a reader opened before a write, or while the
two files stem from different writes, nothing is promised. The refinement mapping is
at the end of `ColumnFile`.

**Ingest.** A row is the number of its line. `GoodLine` stores the row in every
active chunk and flushes all of them when the chunk is full; `EndOfFile` cuts the
last chunk to its rows; `WriteColumn` is one turn of the loop at the end. `BadLine`
is an exception of `std::stoi` and its kin. `WriteColumnFails` is a turn whose streams
cannot be opened or fail on the way: `write_column` does not look at them, so the column
keeps its old rows or is in part (`Partial`, as after a crash) and the call goes on. The
table is held by name, since two columns of a schema may have the same one and then
write the same files. `failed` is an observer: the columns whose streams failed.

**Loads.** `Table` with an instance of `Ingest` beside it, over the same schemas, files and
chunk size: `LoadSpec` is the behaviour of `Ingest`, call after call. Nothing new
happens here; the module is where what `Ingest` gathers line by line and what `Table`
takes for it in one step can be compared (`GatheredAsTableTakesIt`), and the run `ingest`
checks `LoadSpec`.

**CsvLine.** What `Ingest` takes as given, whether a line is blank, ragged, bad or
good, is decided here: one action per character (`ReadQuote`, `ReadSeparator`,
`ReadCharacter`), and `EndOfLine`, which counts the fields and parses them. Of the
numbers `std::stoi` reads only leading white space and digits are modelled.

**SchemaFile.** A text is a sequence of quotes, backslashes, colons, words and other
punctuation; a word is one symbol, since the search compares whole keys, and the
blanks behind a colon, which are written and skipped, are left out. `CreateTable`
truncates the file, `CloseFile` is the text that reaches it, all of it or a part
(`TornTexts`: cut between symbols or inside a word). `LoadSchema` is `load_schema`
with the three functions under it. A `write_file` that cannot open the file throws and
leaves it as it was: no step. Of a torn file only the columns are promised to be a
prefix; its table name may be cut short, and nothing in the engine reads it.

**Table.** The composition, of which each part has the outcomes its own module
has shown: a `create_table` that is cut short leaves a prefix of the columns or a text
that does not load (`TornSchemaIsPrefix`); an ingest gathers every good line once and in
order, or leaves the table untouched (`IngestExact`, `ParseErrorKeepsTable`), which is
why `BeginIngest` is one step; a schema is loaded up to its first column without a
name (`LoadedAsCreated`): `LeadingNamed`; a column cut short is read back as a prefix, its last
chunk perhaps with zeroes, or makes the reader throw (`ImplementsStream`): `Cuts`. The
two files of a column that stem from different writes fall under these too, because the
data file is truncated first. `WriteColumn` is one turn of the loop at the end of
`ingest_csv`, `WriteColumnFails` one whose streams fail or cannot be opened, which nobody
notices; `Crash` ends the process, or an exception the call. A cell is the
line, the column and the ingest it came from, so that the properties see which files
a shown row is made of. A query is a select list of all columns of the schema, without
predicates: `fill_all` selects as many rows as the *first* column's chunk has, and
`Field` is what `values()[row]` gives of each other chunk, none of which is asked for
its own number of rows. Behind its rows, and of a column written with another
type, it gives `Garbage`; of a STRING column 0.0; behind the end of a torn file a zero.
`created`, `base`, `clean` and `opened` are observers.

**Query.** `Query` extends `Scan`, whose variables are the scan under `execute`, and adds
plan and result; `QuerySpec` is its specification. The configuration of the scan is the
one the plan gives (`ConfigOf`): the output columns, repeated where the plan repeats them,
and behind them the columns only the predicates need, each once (`ProjectionOf`).
`WriteBefore` is a `write_column` before the query. `Execute` begins a call; from then on each step is one `next_batch` and
what the loop does with its batch: `AggregateBatch` and `SelectBatch` when it
returns true, `FinishAggregates` and `FinishSelect` when it returns false,
`ScanThrows` when it throws. `SelectBatch` is the whole inner loop: it takes the
selected rows there is room for (`Taken`), makes the output rows (`OutputRow`, with the
lookup by name in a projection that may repeat columns) and looks at the limit again.

**Answer.** What the caller of `execute` may rely on: `Respond` gives the rows, the
aggregates and `rows_scanned` from plan and files alone, as if every row were looked
at, or an exception if and only if a column the plan speaks of cannot be read. The one
thing of the execution that shows is pruning: a row group in which some comparison
is not sound for truncated bounds may be missing, as a whole and never in part.
Like the aggregator, it counts null rows with the value in their buffer.

**Aggregate.** A state is the `State` of the source without its expression, which the
plan has. The loops of `accumulate_one` over the selection are sums, minima and
maxima over the set of selected rows; sums of doubles are taken as exact, and the
result of AVG is a fraction.

**Codec.** `data` is `block.data` as a sequence of bytes. RLE takes the bytes of an
element (`BytesOf`, `NarrowSize` or `WideSize` of them) as they are and the run's length as a
varint; its decoder writes bytes into `decoded`, whose n-th entry is the n-th element. Of NONE
and LZ4 only the elements are told apart. One action is one turn of the loop of the
encoder or of the decoder; `i`, `inPos` and `prev` are its variables. The decoder
knows of the input only its length (`original_size`). The subtraction of two
`int32_t` may overflow: `Differences` has both what wrapping gives and what an
extension to `int64_t` before the subtraction gives. `CompressWhole` is NONE;
`Lz4Throws` is all there is of LZ4: the library may be missing or refuse. `Tear`
replaces the bytes from any place on by zeroes, which is what `read_chunk` makes of a chunk
that was cut short. A decoder whose turn goes beyond a torn block reaches `"overread"`: the
number it has read there may be any, so that it copies the element, or what lies in
memory (`Beyond`), any number of times, more often than there is room for included.
After that turn its loop ends. `InBounds` says for which blocks it can come to that.

**Runs of two modules.** `Evaluation` has `Kernels` next to `Filter`, the loops over rows
below the loop over predicates, and `Texts` has `CsvLine` next to `SchemaFile`: a
behaviour belongs to one of the two modules while the variables of the other rest.

## 3. The runs

| run | instance | states | shows |
|---|---|---|---|
| `chunk_stats` | INT32, FLOAT64, STRING; values -3..3 in half steps; up to 2 rows | 102,188 | `TypeOK`, `PruneSound`, `RangeSound`, `PruneComplete` |
| `aligned_buffer` | 3 buffers, 4 blocks, sizes of 0, 1 and 2 units, with symmetry | 2,925 | `OneOwner`, `SizeHonest`, `ImplementsBuffers` |
| `filter` | `Filter`: int and float chunks of 2 rows with statistics fresh, absent, wide or wrong, a chunk of another length, a STRING chunk, no chunk; lists of up to 3 predicates. `Kernels`: up to 9 rows, batches of 4, row numbers modulo 8 | 780,873 | `OrderFree`, `FilterExact`, `SelectedQualify`; `RowsExact`, `SumExact` |
| `scan` | 2 columns of up to 2 chunks, 16 configurations, 3 writes, 2 failing calls | 7,264 | `ScanExact`, `BatchFaithful`, `ScanComplete`, `ScanEnds` |
| `scan_float` | the float column alone, each operator against 1.0 | violated | the finding below |
| `column_file` | 5 contents of up to 3 chunks, 2 writes, 2 readers, 2 faults | 273,943 | `IndexPointsAtHeaders`, `TornIsLast`, `ReadEnds`, `ImplementsStream` |
| `ingest` | 4 columns, two of them with one name, chunks of 2 rows, 6 lines, 2 calls | 820,708 | `IngestExact`, `ParseErrorKeepsTable`, `NewColumnsFirst` |
| `texts` | `SchemaFile`: 3 table names, up to 2 columns with 8 names and 2 types. `CsvLine`: all lines of up to 5 characters of 5 kinds, and two quoted fields of up to 3 | 174,339 | `LoadedAsCreated`, `TornSchemaIsPrefix`; `SplitExact`, `QuotedFieldsKept`, `CarriageReturnHarmless` |
| `table` | 2 names and none, 3 types, 6 schemas, 3 files, chunks of 2 rows, 2 creations, 3 ingests | 882,222 | `TypeOK`, `CleanTableShown`, `GenerationsDescend`, `RowsInStep`, `ReadAsWritten`, `EndlessOnlyWithoutColumns` |
| `query` | 4 columns (INT32, FLOAT64, FLOAT32, STRING) of up to 3 row groups, 115 plans | 46,285 | `SelectExact`, `AggregatesExact`, `QueryEnds`, `ImplementsAnswer` |
| `query_float32` | the same | violated | the second finding below |
| `codec` | digits of 2 bits, elements of 6 bits in 2 bytes and 9 bits in 3, inputs of up to 4 values out of 5 and of up to 3 out of 4, single runs of up to 16, two runs of up to 7; each block whole and torn at every byte | 298,331 | `RoundTrip`, `InBounds` |

Why the bounds are enough. Two rows are the least chunk with a minimum and a maximum
that differ and with one row null and the other not; with half steps every
interval between whole numbers has a value truncation moves, on both sides of zero.
Two row groups are the least scan with a next one; three writes allow both columns
to be written and one of them to change after loading; two failing calls allow the
retry of a retry. Two writes of different contents give a reader an index of the
first and the data of the second; two faults allow a failed stream and a crash in one
write. Chunks of two rows and six lines give two full chunks and none, one or a full
rest; the second call replaces a table that has chunks. Three row groups, the last
shorter, put a limit of 1, 2 or 4 in the middle of a group, at its end and beyond the
first, and let the first group select nothing. Elements of 6 and 9 bits with digits of 2
need varints of one to five bytes, as elements of 32 bits need one to five
digits of 7; runs of 15 and 16 are the two sides of a border at which the length takes
another byte; two runs that are short or long put the zeroes of a torn block in and out of
step with the turns of the decoder; the values contain the least and the greatest of both types, whose
differences overflow. Three buffers and one block more than buffers allow a copy, the
copy of the copy, and an allocation before the old block is freed. Nine rows with
row numbers of three bits and batches of four give two full batches and a rest of one, a
chunk that is just full and one that is too long by one, and every remainder of the sum
by fours. The names in `MCText` contain the parser's own keys in quotes with a
colon behind them, which is the most a name can do to the search; lines of five
characters have a quoted field with a comma next to an open quote. The schemas in `MCTable`
drop, add, swap, retype and repeat a column, or have one without a name, at the front
or behind others; the files have both widths and no, one
or two chunks, the last one short; two creations and three ingests let a third file
meet the remains of two others under a second schema.

`CHECK_DEADLOCK FALSE` is used where the bounds on writes, opens, failures or calls
let the model stop: `scan`, `scan_float`, `column_file`, `ingest`, `table`; and where the
call that is modelled returns: `query`, `query_float32`, `codec`, `filter` (a kernel),
`texts` (a line).

### Fairness

`Scan!FairSpec` assumes that the client goes on calling `next_batch`
(`while (scan.next_batch(...))`, `query.cpp:51` and `:68`); it does not assume that
loading succeeds. `ColumnFile!FairSpec` assumes that a `write_column` in progress
takes its next step (one thread, no waiting) and that the reading loop of
`read_column` goes on (`storage.cpp:261`). No fault and no opening of a file is ever
assumed to happen. `Query!QuerySpec` assumes that `execute`, once called, takes its next
step until it returns or throws: one thread, which waits for nothing. The other
specifications have no liveness property.

### What the code gets wrong: the findings

`scan_float` checks `PruningExact`, that a delivered row group has exactly the
rows the filters ask for, for *every* operator. TLC finds the chunk [-1.5, 1.5] skipped
for `> 1.0`: both bound and threshold are truncated (1.5 to 1, 1.0 to 1), and
`can_skip_predicate` compares 1 <= 1. `LT` and `NEQ` fail likewise. On float columns
only `EQ`, `LTE` and `GTE` are safe (`SoundOps`), because truncation keeps `<=` but
not `<`. `PruneSound`, `FilterExact` and `ScanExact` state what does hold and name
that restriction.

`query_float32` checks `AggregatesEveryType`, that every aggregate over a column of
numbers is that of the qualifying rows. TLC finds AVG over a FLOAT32 column to be 0:
`accumulate_one` has no case for `FLOAT32`, and its default does nothing, not even for
COUNT. `AggregatesExact` states the same for the other three types.

What a reader should also know: a crash
between two `write_column` calls of `ingest_csv` leaves a table of two files
(`NewColumnsFirst` says exactly how), and a scan over such a table stops at its
shortest column (`ScanComplete`); a truncated file delivers one chunk with zeroes
before the reader throws or ends (`TornIsLast`); an aggregate counts the null rows of
its column, with whatever value their buffer holds, unless a predicate on that column
excludes them (`AggregatesExact` is therefore stated for expressions with no null among
the qualifying rows); and a query with LIMIT 0 still scans its first row group
(`Answer!Scanned`). Furthermore:

* A column whose files cannot be opened keeps its old rows, and one whose disk fills up is
  left in part, while `ingest_csv` returns as if all were well (`WriteColumnFails`;
  `IngestExact` speaks of the columns not in `failed`, `GenerationsDescend` and
  `CleanTableShown` except that case by `opened` and `clean`).
* On a table mixed of two files a query shows as many rows of a row group as its first
  column has, with fields read behind the rows of a shorter chunk (`RowsInStep` says that
  only columns of different ingests or of another type can be read like that).
* A file whose lines have another number of fields than the schema has columns loses
  every line, and the table is then empty, without an error (`CleanTableShown`).
* A column that a new schema leaves out keeps its files and comes back with its old
  rows when a later schema names it again, next to the rows of newer files; and columns
  keep the type they were written with when `create_table` gives their name another
  one: nobody compares `element_size` with the schema, and the bytes are read under the new
  type (`ReadAsWritten` says that this is the only way).
* A query shows 0.0 for every field of a STRING column, whose values are not stored.
* `load_schema` stops at the first column without a name: the table has the columns before
  it, or none (`LoadedAsCreated`, `LeadingNamed`).
* A schema that repeats a column name makes both columns write the same files.
* On a table without columns, which a `create_table` that was cut short or whose first
  column has no name also leaves, the loop over `next_batch` does not end (`EndlessOnlyWithoutColumns`).
* In a file with DOS line ends a blank line is one field: a table of one numeric column
  rejects the whole file (`CarriageReturnHarmless`). Doubled quotes in a quoted field are
  lost (`QuotedFieldsKept`).
* A chunk of more than `CHUNK_SIZE` rows is filtered with row numbers that wrap around, and
  when more than `CHUNK_SIZE` of its rows pass they are written behind the selection vector
  (`RowsExact`). `ingest_csv` makes no such chunk, but the benchmarks do:
  `bench/bench_scan.cpp:40` and `:59` run `fill_all` (`:27`) and `evaluate_predicate` (`:53`)
  over one chunk of up to 2^22 rows, of which all are selected by the first and half by
  the second.
* A torn RLE block may make the decoder read on behind its end (`InBounds`). It takes
  the zeroes for runs of length 0, in turns of the element's bytes and one more; that comes
  out even if every run of the block is shorter than 128, since each run then takes as many
  bytes. Two lost runs of 128 or more `int32_t`, for instance, leave 12 bytes for turns
  of 5. The run length found behind the block then says how often an element is copied
  to `out`, whether or not there is room.
* An aggregate other than COUNT over the empty column name, alone in a plan, makes
  `accumulate` read from an empty vector of names; no plan of the models has one.

## 4. The theorems

TLAPS proves, for every value of the constants:

* `ChunkStats_proofs!PruneSoundAlways`: `Spec => []PruneSound`, and `TypeCorrect`:
  `Spec => []TypeOK`. `PruneSound` is not inductive: it speaks of skipping, while
  the calls change data, nulls and bounds separately. The inductive invariant `IInv`
  is `TypeOK` with `BoundsHold`: bounds that are not stale enclose the truncation of
  every live value. `NextKeepsIInv` has one step per call. `FinalizeStatsCorrect`
  needs that the bounded set of live values has a least and a greatest element
  (`MinOfBounded`, `MaxOfBounded`, from the well-foundedness of < on the naturals).
  That `BoundsHold` implies `PruneSound` is the lemma `SkipSound`, operator by
  operator, from `AsInt64Monotone`: truncation keeps `<=`. The proof fails, as it
  should, for the strict comparisons on floats.
* `AlignedBuffer_proofs!OneOwnerAlways`, `SizeHonestAlways` and
  `ImplementsBuffersAlways`: for any number of buffers and blocks. The invariant is
  `TypeOK` with `OneOwner` and `SizeHonest`; `StepImplements` maps each call to one of
  `Buffers` or to a stutter, and rests on `OthersKept`: a buffer that changes its block
  changes no other buffer's contents.
* `Filter_proofs!FilterExactAlways` and `SelectedQualifyAlways`: for every batch and list
  of predicates. The loop invariant `InLoop` says that the sorted list has the
  predicates of the call, and that after n of them the selection has, of the rows every
  chunk has, exactly those that pass these n (`Narrowed`). Statistics computed on the
  way change no value and enclose them (`EnsureKeeps`); a chunk that is skipped has no
  row that passes (`SkippedHasNone`).
* `Query_proofs!ScanExactAlways`, `BatchFaithfulAlways` and `ScanCompleteAlways`: for every
  table, projection and list of filters, whatever is written between the calls and
  however often loading throws. None of the three is inductive. The invariant `IInv`
  adds what the names left by a failed attempt are (`NotYet`: some of those asked for,
  in any number), that the columns in memory are those of the files at the time of
  loading with fresh bounds (`Held`), and that no column is shorter than what was
  delivered (`Within`). A batch whose names are repeated answers as the row group with
  each name once does (`SameAnswers`), and every way through the filters comes to the
  rows asked for (`SelectionsExact`).
* `Query_proofs!SelectExactAlways`, `AggregatesExactAlways` and `ImplementsAnswerAlways`:
  `QuerySpec => []SelectExact`, `[]AggregatesExact` and `ImplementsAnswer`, for every plan and
  every table whose columns are cut at the same rows. The invariant `QInv` joins the
  invariant of the scan with what the loop over its batches has made so far (`Progress`): the
  rows of the row groups delivered, cut off at the limit; a state per expression that has
  count, sum, least and greatest of the values delivered (`Summary`); and the number of rows.
  When the phase is "done" the result is one `Answer` allows for some set of row groups that pruning
  has lost (`Answered`). What the steps need: a name of the plan is found in the projection and in
  the batch where its column is; the selections of the delivered row groups are those of the
  plan's predicates or, of a row group with an unsound comparison, empty; the rows of one batch
  are those of its selection in order, and flattening appends them; a sum over the pairs of row
  group and row splits at the last row group (`SumJoin`); the least of two sets is the lesser
  of their least members. That the scan ends only when a column has no row group left
  (`ScanComplete`), or the limit is reached, makes the rows so far all rows. The refinement maps
  the step that leaves the phase "scan" to `Respond`, a write to `WriteColumn`, and every other
  step to a stutter. Both invariants then follow from `Answered`: with only sound comparisons
  there is one answer, and without nulls it is SQL's.
* `Table_proofs!TypeCorrect`, `GenerationsDescendAlways`, `RowsInStepAlways` and
  `ReadAsWrittenAlways`: for any names, types, schemas, files and chunk size and any
  number of creations and ingests. For the second half of `RowsInStep`, that a field read behind
  its chunk is of another ingest or type, the invariant has that two columns of one ingest
  are cut at the same rows as far as both go, torn ones included (`CutAlike`). The invariant adds that the columns written so far by a
  running ingest have its number and those behind them do not (`WrittenSoFar`), that a
  job fits the schema, and that cell r of chunk k is line `ChunkSize * (k - 1) + r` or a
  zero.
* `Table_proofs!CleanTableShownAlways` and `EndlessOnlyWithoutColumnsAlways`, from the same
  invariant and `Tidy`: after an ingest that was opened everywhere and not cut short, every
  column written so far holds the chunks gathered from its file (`CleanWritten`), and what was
  shown is the answer of the present table (`ShownFresh`). What SELECT * shows of columns that
  are all cut alike is their cells row by row (`TidyShows`), and it ends (`TidyEnds`).
* `Table_proofs!NewColumnsFirstAlways`, `ParseErrorKeepsTableAlways` and
  `IngestExactAlways`, about `Ingest`. For the first two `LoaderInv` adds: while the file is
  read no column has been touched, a running call has not thrown, and what each name holds once
  some columns have had their turn is what the last of them with that name left, or, if none
  had it, what was there before (`SoFar`). For the third `Exactness` says where each good
  line is: row `r` of chunk `k` of a column is good line
  `ChunkSize * (k - 1) + r` (`Gathering`), and at the end the chunks
  are the consecutive pieces of the column's rows (`AllGathered`); pieces put one behind the
  other give the rows (`FlattenPieces`). `GatheredAsTableTakesIt` says that these are the
  chunks `Table` takes for the file in one step.
* `ColumnFile_proofs!IndexPointsAtHeadersAlways`, `TornIsLastAlways` and
  `ImplementsStreamAlways`: for any number and size of chunks, any number of writes and
  readers and any places at which crashes and failing streams cut the two files. The
  invariant says that every entry taken from a good stream is the offset of its chunk's
  header, as far as the data file still goes, unless the two files are of two writes
  (`IndexFits`), that an undamaged pair is complete (`WholeWhenIntact`, `WriterFollows`), and
  that a reader nothing was written under has the index of the file (`ReaderFollows`). The
  refinement is proved action by action; most steps of the writer are stutters, the last one is
  the step that makes the new value the promise.
* `ChunkStats_proofs!RangeSoundAlways` and `PruneCompleteAlways`, from `IInv` again: bounds
  that enclose are enough for the first, for the second they have to be attained, which
  `FinalizeStatsCorrect` says of bounds just computed.
* `Filter_proofs!OrderFreeAlways`: the loop, whatever permutation `std::sort` has made and
  wherever it leaves, comes to a selection the closed form `EvaluatePredicates` has. The
  invariant `Bracketing` encloses the selection, for the predicates evaluated so far, between
  the rows certain to pass and those that possibly do (a chunk without the row says nothing),
  and says that the first of the list is one with the least hint.
* `Filter_proofs!RowsExactAlways` and `SumExactAlways`, about `Kernels` in `Evaluation`: for
  chunks, batches and selections of any length. `RowsSoFar` says that the vector has the
  selected rows up to `row`; that a batch adds those of its part is `SelectedJoin`, which
  rests on every number of a finite set having its place (`RankOrder`, `AscendingJoin`).
  `SumSoFar` says that the four sums together are the k-th of the sums the recursive
  definition makes (`TotalsUnfold`).
* `Codec_proofs!RoundTripAlways` and `InBoundsAlways`: for chunks of any length, every
  size of digit and element, and every place at which a block is torn. That a varint is
  read back (`VarintReadBack`) is an induction over its number, made with least
  counterexamples (`LeastNumber`): `Varint` and `VarintAt` are recursive functions, for which a
  solution has to be exhibited (`VarintUnfolds`, `ReadsOnce`). The invariant describes
  the block by marks: where in `data` the n-th run or difference begins, and where in `input`
  that run begins (`Runs`, `Deltas`); encoder and decoder are always at a mark. Of a torn
  block every number ends where one was written to end or before (`Marks`), which
  keeps DELTA within the block; RLE is at a mark before the tear, or behind the tear,
  where each turn reads zeroes (`RunsTorn`). For a block whose runs are all shorter than
  `Digit`, `TurnsEven` adds what keeps the turns even: the block is a multiple of a turn long,
  the decoder stands at a multiple, and the last byte of each turn is a whole number, torn
  or not.
* `Codec_proofs!DeltaStepExact`: the DELTA decoder's step undoes the encoder's, for
  every two values of an element type of any width, whichever way the build
  takes an overflowing difference. It rests on `ZigZagUndone` (decoding inverts
  encoding on the integers) and `WrapOnce` (what an overflow by one turn wraps to).
* `Table_proofs!SplitExactAlways`, `CarriageReturnHarmlessAlways` and `QuotedFieldsKeptAlways`:
  `TextSpec => []...`, for lines and fields of any length. The invariant `LineInvariant` says
  that `fields` and `field` are `FieldsOf` the part of the line read so far, and `inQuotes` that
  the number of its quotes is odd. `FieldsOf` is defined by places and not by a loop, so
  that each step needs what one more character does to it (`FieldsGrow`, from `SeparatorsGrow`
  and `PlacesGrow`). A carriage return ends the last field and is no digit
  (`DigitsBeforeReturn`, `ReturnHarmless`). That the text of quoted fields is read back
  is an induction over the characters of a field within one over the fields
  (`DoubledRead`, `QuotedTextRead`), both made with least counterexamples.
* `ColumnFile_proofs!LoadedAsCreatedAlways` and `TornSchemaIsPrefixAlways`: for names of any symbols and
  any length, any number of columns and every place at which the text breaks off. The invariant
  `SchemaInvariant` says that the file is the text of `written`, or that text cut short, and that
  `loaded` is what such a text is parsed as (`ParsedAs`). The argument follows the parser. The parts of
  the text stand where they were laid (`SchemaTextLaid`, `Layout`); no key is found within a
  name, because there no quote is without its backslash (`EscapedMarked`, `KeyInField`), so that a key is
  found at its own places only (`KeyPlaces`) or, behind the cut, nowhere (`TornKeys`). A name is read back
  (`NameReadBack`) or up to the end of the text (`NameCutOff`); a type is read whole, as the stub
  of a word, or not at all (`TypeFieldRead`). The columns follow by induction from the last to the
  first (`ColumnsRead`): behind a column that is cut nothing is found. The recursive functions
  of the parser run from a place towards the end of the text; that each has a
  solution is `Descent`, stated once for all of them.

The only assumptions are the named `ASSUME`s on the constants (`ValueAssumption`,
`ChunkAssumption`, `BufferAssumption`, `FilterAssumption`, `ScanAssumption`, `FileAssumption`,
`TableAssumption`, `LoadsAssumption`, `KernelAssumption`, `CodecAssumption`, `QueryAssumption`,
`SchemaAssumption`, `LineAssumption`), which the runs evaluate on their instances. That a chunk
is shorter than 2^64 (`CodecAssumption`) is what a run length needs to fit its varint; lengths
are `size_t`. The bytes of a value (`Bytes`) may be any, as many as its type has; that they
are different for different values is not needed. `TableAssumption` and `LoadsAssumption`
tell `Zero`, `Garbage` and `Partial`, which stand for what is no cell and no column, from
cells and columns, and the empty name from names. `QueryAssumption` says that a plan's configuration is one of the scan's, that an
aggregate other than COUNT names a column, and that the chunks of a row group have the same
number of rows, which is how an `ingest_csv` that does all its work leaves a table
(`IngestExact`). After one that was cut short the columns may stem from files of different
lengths: such tables are in `Scan` and `Table`, not in `Query`. `SchemaAssumption` says that no
type word is a symbol of the text's structure; names are free to be any symbols, words and keys
included. `LineAssumption` says that a line with a `source` is the text `QuotedText` makes of
it; all other lines are arbitrary.

Only model-checked:

* the liveness properties `ScanEnds`, `ReadEnds` and `QueryEnds`: fairness is beyond the
  prover. Every other property of the passing runs is a theorem.

## 5. What is not modelled

* The inside of LZ4, an external library; lengths that are no multiple of the element
  size, which `write_chunk` never passes to a codec; `compression_ratio`.
* What a damaged block decompresses to, beyond the zeroes of a torn one.
* Queries over tables whose columns are cut at different rows (`Scan` has those), the
  rounding of sums of doubles, aliases and `elapsed_ms`.
* The text of numbers: signs, ranges (`std::out_of_range`) and the special values of
  floats. They end in a value or an exception, which `Ingest` has.
* What the bytes of a column look like under another type, and what lies in memory behind a
  chunk or a block: `Garbage` and `Beyond` are any value.
* NaN and infinities, both in data (all comparisons false but `!=`) and in
  selectivity hints (no strict weak order for `std::sort`).
* Values of STRING columns, which the engine never stores nor compares.
* A data or index file that is missing when a reader is opened, in `ColumnFile`
  (in `Scan` and `Table` it makes loading throw); other processes writing the files; a
  crash of the operating system.
* An allocation that fails inside a copy, and exceptions of `std::vector`.
* An aggregate over the empty column name, except COUNT.
* Benchmarks, tests, the data generator.

## 6. Plan

Done, in this order: `Column` and `ChunkStats`, `Predicates` and `Filter`, `Scan`,
`ColumnStream` and `ColumnFile`, `Ingest`, `Aggregate` and `Query`, `Codec`; then
`SchemaFile`, `CsvLine`, `Table`, `Kernels`, `Buffers` and `AlignedBuffer`, `Answer` with
the refinement from `Query`, torn blocks in `Codec`, `Orders`, `Texts`; and the proofs listed above.

Next: queries over tables whose columns are cut at different rows, which would let `Query` drop
that part of `QueryAssumption` and `Table` take its answers from `Answer`; then the bytes
of a column read under a type of another width.
