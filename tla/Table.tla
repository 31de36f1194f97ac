-------------------------------- MODULE Table --------------------------------
(***************************************************************************)
(* A table over its life (storage.cpp, scan.cpp): create_table writes a    *)
(* schema and nothing else, ingest_csv replaces the columns the schema     *)
(* names one by one, SELECT * reads them back through the schema of that   *)
(* moment.  No step covers schema and columns together, and nothing but    *)
(* the names relates them: the files of a column outlive the schema they   *)
(* were written under.                                                     *)
(*                                                                         *)
(* The parts come from modules of their own.  SchemaFile: load_schema      *)
(* stops at a column without a name, and a create_table that is cut short  *)
(* leaves the first columns or a text that does not load.  Ingest: what is *)
(* gathered of a file, and the order of writing.  ColumnFile: a write that *)
(* is cut short, or fails without a word, leaves the first chunks, the     *)
(* last of them perhaps with zeroes at its end, or a column that a reader  *)
(* throws on.                                                              *)
(* A cell is the row and the column of the CSV file it came from, and the  *)
(* number of the ingest that read it.                                      *)
(***************************************************************************)
EXTENDS Integers, FiniteSetsExt, SequencesExt

CONSTANTS
  Names, Types, \* of columns
  NoName,       \* the empty name
  Schemas,      \* what create_table is given: sequences of records [name, type]
  CsvFiles,     \* the files, records [width, rows]: the fields of a line, the lines
  ChunkSize,    \* CHUNK_SIZE
  Unreadable,   \* a schema.json that is missing or makes load_schema throw
  NoFile,       \* no CSV file
  Zero,         \* 0: a cell behind the end of a file that was cut short, and
                \* what is shown of a STRING
  Garbage,      \* what is read behind the rows of a chunk, or of the bytes of
                \* another type
  MaxCreates, MaxIngests

ASSUME TableAssumption ==
  /\ Schemas \subseteq Seq([name : Names \cup {NoName}, type : Types])
  /\ NoName \notin Names
  /\ \A f \in CsvFiles : f.width \in Nat \ {0} /\ f.rows \in Nat
  /\ ChunkSize \in Nat \ {0} /\ MaxCreates \in Nat /\ MaxIngests \in Nat
  /\ NoFile \notin CsvFiles
  /\ \A s \in Schemas : \A n \in 0 .. Len(s) : SubSeq(s, 1, n) # Unreadable
  /\ Garbage # Zero
  /\ \A f \in CsvFiles, s \in Schemas, id \in 1 .. MaxIngests :
       \A r \in 1 .. f.rows, c \in DOMAIN s :
         [file |-> id, row |-> r, col |-> c] \notin {Zero, Garbage}

VARIABLES
  schema,       \* what load_schema yields
  files,        \* the columns' files, by name: records [type, from, chunks,
                \* whole], from being the number of the ingest that wrote them
  job,          \* the ingest that is writing: its columns and the next to write
  shown,        \* what the last query gave
  creates, ingests,
  created,      \* observer: what the last create_table was given
  base,         \* observer: the number of ingests before the last create_table
  clean,        \* observer: the file of the last ingest, if it did all its work
                \* and no create_table has been called since
  opened        \* observer: since the last create_table no column was left as it
                \* was because its files could not be opened

vars == <<schema, files, job, shown, creates, ingests, created, base, clean, opened>>

\* A column without files.
Missing == [type |-> "none", from |-> 0, chunks |-> << >>, whole |-> FALSE]

Idle    == [columns |-> << >>, next |-> 1, file |-> NoFile]
Nothing == [kind |-> "none"]
Thrown  == [kind |-> "throw"]
Endless == [kind |-> "endless"]

-----------------------------------------------------------------------------

Init ==
  /\ schema = Unreadable /\ files = [n \in Names |-> Missing]
  /\ job = Idle /\ shown = Nothing
  /\ creates = 0 /\ ingests = 0
  /\ created = Unreadable /\ base = 0 /\ clean = NoFile /\ opened = TRUE

\* The columns of s that load_schema finds again: those before the first one
\* without a name.
LeadingNamed(s) == Min({Len(s)} \cup {n - 1 : n \in {m \in DOMAIN s : s[m].name = NoName}})

\* create_table: whole, or cut short by a crash or a full disk.
CreateTable(s) ==
  /\ job = Idle /\ creates < MaxCreates
  /\ \/ schema' = SubSeq(s, 1, LeadingNamed(s)) /\ created' = s
     \/ /\ schema' \in {SubSeq(s, 1, n) : n \in 0 .. LeadingNamed(s)} \cup {Unreadable}
        /\ created' = Unreadable
  /\ creates' = creates + 1
  /\ base' = ingests /\ clean' = NoFile /\ opened' = TRUE /\ shown' = Nothing
  /\ UNCHANGED <<files, job, ingests>>

-----------------------------------------------------------------------------
(* ingest_csv.                                                             *)

\* Mutant: the chunk after the last full one is kept, empty as it may be.
ChunkedRest(cells) ==
  [k \in 1 .. (Len(cells) \div ChunkSize + 1) |->
     SubSeq(cells, ChunkSize * (k - 1) + 1, Min({ChunkSize * k, Len(cells)}))]

\* The cells of a column, in chunks.
Chunked(cells) ==
  [k \in 1 .. ((Len(cells) + ChunkSize - 1) \div ChunkSize) |->
     SubSeq(cells, ChunkSize * (k - 1) + 1, Min({ChunkSize * k, Len(cells)}))]

\* The lines with as many fields as the schema has columns; the header line
\* is not compared with it.
Accepted(f) == IF f.width = Len(schema) THEN f.rows ELSE 0

Cells(f, id, c) == [r \in 1 .. Accepted(f) |-> [file |-> id, row |-> r, col |-> c]]

\* Mutant: the type of the first column is used for all.
GatheredOneType(f, id) ==
  [c \in DOMAIN schema |->
     [type |-> schema[1].type, from |-> id, whole |-> TRUE,
      chunks |-> Chunked(Cells(f, id, c))]]

\* The columns gathered from a file, by position.
Gathered(f, id) ==
  [c \in DOMAIN schema |->
     [type |-> schema[c].type, from |-> id, whole |-> TRUE,
      chunks |-> Chunked(Cells(f, id, c))]]

\* The file is read to its end; what ends the call before that leaves the
\* table as it was.
BeginIngest(f) ==
  /\ job = Idle /\ ingests < MaxIngests /\ schema # Unreadable
  /\ ingests' = ingests + 1
  /\ job' = [columns |-> Gathered(f, ingests + 1), next |-> 1, file |-> f]
  /\ clean' = f /\ shown' = Nothing
  /\ UNCHANGED <<schema, files, creates, created, base, opened>>

Name == schema[job.next].name

\* Mutant: the file is opened without truncating it.
WriteColumnAppending ==
  /\ job # Idle /\ job.next <= Len(job.columns)
  /\ files' = [files EXCEPT ![Name] =
                 [job.columns[job.next] EXCEPT !.chunks = files[Name].chunks \o @]]
  /\ job' = [job EXCEPT !.next = @ + 1]
  /\ UNCHANGED <<schema, shown, creates, ingests, created, base, clean, opened>>

\* Mutant: the columns are written from the last to the first.
WriteColumnBackwards ==
  /\ job # Idle /\ job.next <= Len(job.columns)
  /\ LET c == Len(job.columns) + 1 - job.next
     IN  files' = [files EXCEPT ![schema[c].name] = job.columns[c]]
  /\ job' = [job EXCEPT !.next = @ + 1]
  /\ UNCHANGED <<schema, shown, creates, ingests, created, base, clean, opened>>

WriteColumn ==
  /\ job # Idle /\ job.next <= Len(job.columns)
  /\ files' = [files EXCEPT ![Name] = job.columns[job.next]]
  /\ job' = [job EXCEPT !.next = @ + 1]
  /\ UNCHANGED <<schema, shown, creates, ingests, created, base, clean, opened>>

\* What a reader may find of a column that was not written to its end.
Cuts(column) ==
  {[column EXCEPT !.whole = FALSE]}
  \cup {[column EXCEPT !.chunks = SubSeq(@, 1, n)] : n \in 0 .. Len(column.chunks)}
  \cup {[column EXCEPT !.chunks =
           Append(SubSeq(@, 1, p[1] - 1),
                  [r \in DOMAIN @[p[1]] |-> IF r < p[2] THEN @[p[1]][r] ELSE Zero])] :
          p \in {q \in (DOMAIN column.chunks) \X (1 .. ChunkSize) :
                   q[2] \in DOMAIN column.chunks[q[1]]}}

\* The streams fail, or cannot be opened at all, and nobody asks: ingest_csv
\* goes on with the next column.
WriteColumnFails ==
  /\ job # Idle /\ job.next <= Len(job.columns)
  /\ \/ /\ \E rest \in Cuts(job.columns[job.next]) : files' = [files EXCEPT ![Name] = rest]
        /\ UNCHANGED opened
     \/ opened' = FALSE /\ UNCHANGED files
  /\ job' = [job EXCEPT !.next = @ + 1]
  /\ clean' = NoFile
  /\ UNCHANGED <<schema, shown, creates, ingests, created, base>>

\* Mutant: the last column is not written.
EndIngestEarly ==
  /\ job # Idle /\ job.next >= Len(job.columns)
  /\ job' = Idle
  /\ UNCHANGED <<schema, files, shown, creates, ingests, created, base, clean, opened>>

EndIngest ==
  /\ job # Idle /\ job.next > Len(job.columns)
  /\ job' = Idle
  /\ UNCHANGED <<schema, files, shown, creates, ingests, created, base, clean, opened>>

\* The process dies between two columns or in the middle of one; or an
\* exception ends the call between two.
Crash ==
  /\ job # Idle
  /\ \/ UNCHANGED files
     \/ /\ job.next <= Len(job.columns)
        /\ \E rest \in Cuts(job.columns[job.next]) : files' = [files EXCEPT ![Name] = rest]
  /\ job' = Idle /\ clean' = NoFile
  /\ UNCHANGED <<schema, shown, creates, ingests, created, base, opened>>

-----------------------------------------------------------------------------
(* SELECT *.                                                               *)

\* column_index: the first column of that name.
TypeOf(name) == schema[Min({c \in DOMAIN schema : schema[c].name = name})].type

RowGroups == Min({Len(files[schema[c].name].chunks) : c \in DOMAIN schema})

Readable(c) == files[schema[c].name].whole

\* values()[row] of the k-th chunk of a column: the chunk has the type of the
\* schema, and nothing compares the row with its rows.
Field(c, k, r) ==
  LET column == files[schema[c].name]
      type   == TypeOf(schema[c].name)
  IN  IF type = "STRING" THEN Zero
      ELSE IF column.type = type /\ r \in DOMAIN column.chunks[k] THEN column.chunks[k][r]
      ELSE Garbage

\* The rows of the k-th batch: as many as the first column's chunk has.
Rows(k) ==
  [r \in DOMAIN files[schema[1].name].chunks[k] |-> [c \in DOMAIN schema |-> Field(c, k, r)]]

Groups == [k \in 1 .. RowGroups |-> Rows(k)]

\* Mutant: columns without files are left out.
ResultForgiving ==
  IF schema = Unreadable THEN Thrown
  ELSE IF \A c \in DOMAIN schema : ~Readable(c) THEN Endless
  ELSE IF \E c \in DOMAIN schema : ~Readable(c) THEN Thrown
  ELSE [kind |-> "rows", groups |-> Groups]

\* Without columns there is no shortest one: next_batch goes on delivering
\* batches of no column.
Result ==
  IF schema = Unreadable THEN Thrown
  ELSE IF \E c \in DOMAIN schema : ~Readable(c) THEN Thrown
  ELSE IF schema = << >> THEN Endless
  ELSE [kind |-> "rows", groups |-> Groups]

Query ==
  /\ job = Idle /\ shown = Nothing
  /\ shown' = Result
  /\ UNCHANGED <<schema, files, job, creates, ingests, created, base, clean, opened>>

Next ==
  \/ \E s \in Schemas : CreateTable(s)
  \/ \E f \in CsvFiles : BeginIngest(f)
  \/ WriteColumn \/ WriteColumnFails \/ EndIngest \/ Crash
  \/ Query

Spec == Init /\ [][Next]_vars

-----------------------------------------------------------------------------

TypeOK ==
  /\ schema = Unreadable \/ \E s \in Schemas : IsPrefix(schema, s)
  /\ \A n \in Names :
       /\ files[n].from \in 0 .. ingests
       /\ \A k \in DOMAIN files[n].chunks : Len(files[n].chunks[k]) \in 1 .. ChunkSize
  /\ shown.kind \in {"none", "throw", "endless", "rows"}
  /\ job.next \in 1 .. (Len(job.columns) + 1)
  /\ creates \in 0 .. MaxCreates /\ ingests \in 0 .. MaxIngests /\ base \in 0 .. ingests

Distinct(s) == IsInjective([c \in DOMAIN s |-> s[c].name])

\* After an ingest that did all its work SELECT * shows the rows of that file
\* and nothing else, in their order, each with its own fields and each field
\* read with the type it was written with, whatever schemas, crashes and
\* failures came before.  A file of another width leaves the table empty,
\* without an error.
CleanTableShown ==
  clean # NoFile /\ shown # Nothing /\ schema # << >> /\ Distinct(schema) =>
    /\ shown.kind = "rows"
    /\ FlattenSeq(shown.groups) =
         IF clean.width = Len(schema)
         THEN [r \in 1 .. clean.rows |->
                [c \in DOMAIN schema |->
                  IF schema[c].type = "STRING" THEN Zero
                  ELSE [file |-> ingests, row |-> r, col |-> c]]]
         ELSE << >>

\* While the schema stays, every ingest that is cut short and every one that
\* follows leave the newer files on the left: no row pairs a field with one
\* of a newer file to its right, unless a column could not be opened.
GenerationsDescend ==
  opened /\ schema # Unreadable /\ Distinct(schema) =>
    \A c, d \in DOMAIN schema :
      LET left  == files[schema[c].name]
          right == files[schema[d].name]
      IN  c < d /\ right.from > base => left.from >= right.from

\* A row that is shown holds fields of one line at most of each file: columns
\* of different files are never out of step with each other, and zeroes stand
\* for lines of the file they are missing from.  Rows go by the first column,
\* so that a field may be read behind the chunk of another: only of a column
\* that another ingest wrote, or that was written with another type.
RowsInStep ==
  shown.kind = "rows" =>
    \A k \in DOMAIN shown.groups : \A r \in DOMAIN shown.groups[k] :
      \A c \in DOMAIN schema :
        LET cell   == shown.groups[k][r][c]
            column == files[schema[c].name]
        IN  /\ cell \notin {Zero, Garbage} => cell.row = ChunkSize * (k - 1) + r
            /\ cell = Garbage => \/ column.from # files[schema[1].name].from
                                 \/ column.type # TypeOf(schema[c].name)

\* A field is read with another type than it was written only if create_table
\* has been called since, or if the schema has two columns of one name.
ReadAsWritten ==
  schema # Unreadable /\ Distinct(schema) =>
    \A c \in DOMAIN schema :
      LET column == files[schema[c].name]
      IN  column.from > base => column.type = TypeOf(schema[c].name)

\* A query goes on for ever only on a table without columns: one that was
\* created so, one whose first column has no name, or one whose create_table
\* was cut short.
EndlessOnlyWithoutColumns ==
  shown = Endless => created \in {<< >>, Unreadable} \/ created[1].name = NoName
=============================================================================
