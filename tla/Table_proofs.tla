---------------------------- MODULE Table_proofs ----------------------------
(***************************************************************************)
(* Proofs about Table: whatever is created, ingested, cut short and not    *)
(* written at all, the rows of a table stay in step, its newer files stay  *)
(* on the left, its fields are read as they were written, and an ingest    *)
(* that does all its work is shown as it is.                               *)
(*                                                                         *)
(* And about Ingest, the same call line by line: what it leaves when it is *)
(* cut short, that it loses no row and adds none, and that what it has     *)
(* gathered at the end of the file is what Table takes for it.             *)
(*                                                                         *)
(* And about the lines that call reads (CsvLine, in Texts): how each is    *)
(* split, whatever its quotes and its line end are.                        *)
(***************************************************************************)
EXTENDS Loads, Texts, Column_proofs

\* A row of a file has none of the values a reader may find in its place.
CellSet == {cell \in [file : Nat, row : Nat, col : Nat] : cell # Garbage} \cup {Zero}

\* The columns there may be, as files or in the memory of an ingest.
ColumnFiles ==
  [type : Types \cup {"none"}, from : Nat, chunks : Seq(Seq(CellSet)), whole : BOOLEAN]

\* No chunk is empty or too long, and every cell stands where its row belongs.
Placed(chunks) ==
  \A k \in DOMAIN chunks :
    /\ Len(chunks[k]) \in 1 .. ChunkSize
    /\ \A r \in DOMAIN chunks[k] :
         chunks[k][r] # Zero => chunks[k][r].row = ChunkSize * (k - 1) + r

\* Two columns are cut into chunks at the same rows, as far as both go; all
\* the chunks of x are those of y.
SameCuts(x, y) == \A k \in DOMAIN x : k \in DOMAIN y => Len(x[k]) = Len(y[k])

Within(x, y) == \A k \in DOMAIN x : k \in DOMAIN y /\ Len(x[k]) = Len(y[k])

Shape ==
  /\ schema = Unreadable \/ schema \in Seq([name : Names, type : Types])
  /\ files \in [Names -> ColumnFiles]
  /\ job \in [columns : Seq(ColumnFiles), next : Nat, file : CsvFiles \cup {NoFile}]
  /\ job.next \in 1 .. (Len(job.columns) + 1)
  /\ creates \in 0 .. MaxCreates /\ ingests \in 0 .. MaxIngests /\ base \in 0 .. ingests
  /\ opened \in BOOLEAN /\ shown.kind \in {"none", "throw", "endless", "rows"}

\* The schema is one that was created, or its first columns.
SchemaKnown == schema = Unreadable \/ \E s \in Schemas : IsPrefix(schema, s)

FilesSound == \A n \in Names : Placed(files[n].chunks) /\ files[n].from <= ingests

\* What an ingest has in memory fits the schema, which cannot change under it.
JobFits ==
  job # Idle =>
    /\ schema # Unreadable /\ Len(job.columns) = Len(schema)
    /\ \A c \in DOMAIN schema :
         /\ job.columns[c].type = schema[c].type /\ job.columns[c].from = ingests
         /\ Placed(job.columns[c].chunks)

\* The columns an ingest has come by are its own.
WrittenSoFar ==
  job # Idle /\ opened /\ Distinct(schema) =>
    \A c \in DOMAIN schema : c < job.next => files[schema[c].name].from = ingests

\* ReadAsWritten, with the position of a column for the search by its name.
TypesKept ==
  schema # Unreadable /\ Distinct(schema) =>
    \A c \in DOMAIN schema :
      files[schema[c].name].from > base => files[schema[c].name].type = schema[c].type

\* The columns that one ingest wrote, or has still to write, are cut alike.
CutAlike ==
  /\ \A m, n \in Names :
       files[m].from = files[n].from => SameCuts(files[m].chunks, files[n].chunks)
  /\ job # Idle =>
       \A c \in DOMAIN schema :
         /\ \A n \in Names :
              files[n].from = ingests => SameCuts(files[n].chunks, job.columns[c].chunks)
         /\ \A d \in DOMAIN schema : SameCuts(job.columns[d].chunks, job.columns[c].chunks)

IInv ==
  /\ Shape /\ SchemaKnown /\ FilesSound /\ JobFits /\ WrittenSoFar
  /\ TypesKept /\ GenerationsDescend /\ CutAlike

-----------------------------------------------------------------------------
(* Chunks.                                                                 *)

\* A chunk goes from one multiple of the chunk size to the next.
LEMMA ChunkEnds ==
  ASSUME NEW k \in Nat, NEW m \in Nat
  PROVE  /\ ChunkSize * k \in Nat /\ ChunkSize * (k + 1) = ChunkSize * k + ChunkSize
         /\ k <= m => ChunkSize * k <= ChunkSize * m
PROOF
  <1>1. ChunkSize \in Nat \ {0}
    BY TableAssumption
  <1>2. ASSUME k <= m PROVE ChunkSize * k <= ChunkSize * m
    <2>1. PICK d \in Nat : m = k + d
      <3>1. m - k \in Nat /\ m = k + (m - k)
        BY <1>2
      <3> QED BY <3>1
    <2>2. ChunkSize * m = ChunkSize * k + ChunkSize * d /\ ChunkSize * d >= 0
          /\ ChunkSize * k \in Int /\ ChunkSize * d \in Int
      BY <1>1, <2>1
    <2> QED BY <2>2
  <1> QED BY <1>1, <1>2

\* The sequence rows is cut into K pieces, the k-th of which ends at cut[k].
Pieces(pieces, rows, K, cut) ==
  /\ K \in Nat /\ cut \in [0 .. K -> 0 .. Len(rows)]
  /\ cut[0] = 0 /\ cut[K] = Len(rows) /\ \A k \in 1 .. K : cut[k - 1] <= cut[k]
  /\ pieces = [k \in 1 .. K |-> SubSeq(rows, cut[k - 1] + 1, cut[k])]

\* Laid end to end the pieces are the sequence again.
LEMMA FlattenPieces ==
  ASSUME NEW S, NEW rows \in Seq(S), NEW K, NEW cut, NEW pieces, Pieces(pieces, rows, K, cut)
  PROVE  FlattenSeq(pieces) = rows
PROOF
  <1>1. /\ K \in Nat /\ cut \in [0 .. K -> 0 .. Len(rows)]
        /\ cut[0] = 0 /\ cut[K] = Len(rows) /\ \A k \in 1 .. K : cut[k - 1] <= cut[k]
        /\ pieces = [k \in 1 .. K |-> SubSeq(rows, cut[k - 1] + 1, cut[k])]
    BY DEF Pieces
  <1> USE <1>1
  <1>2. Len(pieces) = K /\ DOMAIN pieces = 1 .. K /\ Len(rows) \in Nat
    <2>1. DOMAIN pieces = 1 .. K
      OBVIOUS
    <2>2. Len(pieces) = K
      BY <2>1
    <2> QED BY <2>1, <2>2
  <1>3. ASSUME NEW k \in 1 .. K PROVE pieces[k] = SubSeq(rows, cut[k - 1] + 1, cut[k])
    OBVIOUS
  <1>4. CASE K = 0
    <2>1. rows = << >> /\ pieces = << >>
      BY <1>4, EmptySeq
    <2> QED BY <1>2, <1>4, <2>1 DEF FlattenSeq
  <1>5. CASE K # 0
    <2> DEFINE Unfolds(f) == f = [k \in 1 .. K |-> IF k = 1 THEN pieces[k] ELSE f[k - 1] \o pieces[k]]
               f == CHOOSE f : Unfolds(f)
               g == [k \in 1 .. K |-> SubSeq(rows, 1, cut[k])]
    <2>1. FlattenSeq(pieces) = f[K]
      BY <1>2, <1>5 DEF FlattenSeq
    <2>2. ASSUME NEW k \in 1 .. K
          PROVE  g[k] = IF k = 1 THEN pieces[k] ELSE g[k - 1] \o pieces[k]
      <3>1. k \in Nat /\ k - 1 \in 0 .. K /\ cut[k - 1] \in Nat /\ cut[k] \in Nat
            /\ cut[k - 1] <= cut[k] /\ cut[k] <= Len(rows)
        BY <1>2
      <3>2. CASE k = 1
        <4>1. pieces[k] = SubSeq(rows, cut[k - 1] + 1, cut[k])
          BY <1>3
        <4>2. k - 1 = 0 /\ cut[k - 1] + 1 = 1
          BY <3>2
        <4>3. pieces[1] = SubSeq(rows, 1, cut[1])
          BY <4>1, <4>2, <3>2
        <4>4. g[k] = SubSeq(rows, 1, cut[1])
          BY <3>2
        <4> HIDE DEF g
        <4> QED BY <3>2, <4>3, <4>4
      <3>3. CASE k # 1
        <4>1. k - 1 \in 1 .. K
          BY <3>3
        <4>2. g[k - 1] = SubSeq(rows, 1, cut[k - 1])
          BY <4>1
        <4>3. SubSeq(rows, 1, cut[k - 1]) \o SubSeq(rows, cut[k - 1] + 1, cut[k]) = SubSeq(rows, 1, cut[k])
          <5>1. PICK a, b \in Nat : a = cut[k - 1] /\ b = cut[k] /\ a <= b /\ b <= Len(rows)
            BY <3>1
          <5>2. 1 \in 1 .. Len(rows) + 1 /\ a \in (1 - 1) .. Len(rows) /\ b \in a .. Len(rows)
            BY <1>2, <5>1
          <5>3. SubSeq(rows, 1, a) \o SubSeq(rows, a + 1, b) = SubSeq(rows, 1, b)
            BY <5>2, ConcatAdjacentSubSeq
          <5> QED BY <5>1, <5>3
        <4> QED BY <1>3, <3>3, <4>2, <4>3
      <3> QED BY <3>2, <3>3
    <2>3. Unfolds(g)
      BY <2>2, Zenon
    <2> HIDE DEF g
    <2>4. Unfolds(f)
      BY <2>3, Zenon
    <2> HIDE DEF f
    <2>5. \A k \in 1 .. K : f[k] = IF k = 1 THEN pieces[k] ELSE f[k - 1] \o pieces[k]
      BY <2>4
    <2>6. \A k \in 1 .. K : f[k] = g[k]
      <3> DEFINE Differ == {k \in 1 .. K : f[k] # g[k]}
      <3>1. ASSUME Differ # {} PROVE FALSE
        <4>1. Differ \in SUBSET Nat
          OBVIOUS
        <4> HIDE DEF Differ
        <4>2. Min(Differ) \in Differ /\ \A n \in Differ : Min(Differ) <= n
          BY <3>1, <4>1, LeastNumber
        <4>3. PICK k \in 1 .. K : f[k] # g[k] /\ \A n \in Differ : k <= n
          BY <4>2 DEF Differ
        <4>4. k # 1
          BY <2>2, <2>5, <4>3
        <4>5. k - 1 \in 1 .. K /\ ~(k <= k - 1)
          BY <4>4
        <4>6. f[k - 1] = g[k - 1]
          BY <4>3, <4>5 DEF Differ
        <4> QED BY <2>2, <2>5, <4>3, <4>4, <4>6
      <3> QED BY <3>1
    <2>7. g[K] = rows
      BY <1>2, <1>5, SubSeqFull DEF g
    <2> QED BY <1>5, <2>1, <2>6, <2>7
  <1> QED BY <1>4, <1>5

\* A function on 1 .. n is a sequence.
LEMMA MappedSeq ==
  ASSUME NEW S, NEW n \in Nat, NEW f \in [1 .. n -> S]
  PROVE  f \in Seq(S) /\ Len(f) = n
PROOF
  <1>1. f \in Seq(S)
    BY SeqDef
  <1>2. DOMAIN f = 1 .. n /\ DOMAIN f = 1 .. Len(f) /\ Len(f) \in Nat
    BY <1>1, LenProperties
  <1> QED BY <1>1, <1>2

\* The chunks of a column of n rows.
ChunksIn(n) == (n + ChunkSize - 1) \div ChunkSize

\* There are enough chunks for all the cells.
LEMMA ChunkCount ==
  ASSUME NEW n \in Nat
  PROVE  /\ ChunksIn(n) \in Nat /\ ChunkSize * ChunksIn(n) \in Nat
         /\ n <= ChunkSize * ChunksIn(n)
PROOF
  <1> DEFINE q == (n + ChunkSize - 1) \div ChunkSize
  <1>1. ChunkSize \in Nat \ {0}
    BY TableAssumption
  <1>2. q \in Int /\ n + ChunkSize - 1 < ChunkSize * (q + 1)
    BY <1>1
  <1> HIDE DEF q
  <1>3. ASSUME q < 0 PROVE FALSE
    <2>1. PICK d \in Nat : q + 1 = -d
      <3>1. -(q + 1) \in Nat /\ q + 1 = -(-(q + 1))
        BY <1>2, <1>3
      <3> QED BY <3>1
    <2>2. ChunkSize * (q + 1) = -(ChunkSize * d) /\ ChunkSize * d >= 0
      BY <1>1, <2>1
    <2> QED BY <1>1, <1>2, <2>2
  <1>4. q \in Nat
    BY <1>2, <1>3
  <1>5. ChunkSize * q \in Nat /\ ChunkSize * (q + 1) = ChunkSize * q + ChunkSize
    BY <1>4, ChunkEnds
  <1>6. n <= ChunkSize * q
    BY <1>1, <1>2, <1>5
  <1>7. ChunksIn(n) = q
    BY DEF ChunksIn, q
  <1> QED BY <1>4, <1>5, <1>6, <1>7

\* A chunk has a chunk's length and begins where the one before it ends.
LEMMA ChunkBounds ==
  ASSUME NEW n \in Nat, NEW k \in 1 .. ChunksIn(n)
  PROVE  /\ ChunkSize * (k - 1) \in Nat /\ ChunkSize * (k - 1) + 1 <= n
         /\ Min({ChunkSize * k, n}) \in Nat
         /\ Min({ChunkSize * k, n}) <= n
         /\ Min({ChunkSize * k, n}) - ChunkSize * (k - 1) \in 1 .. ChunkSize
PROOF
  <1> DEFINE q == ChunksIn(n)
  <1>1. ChunkSize \in Nat \ {0}
    BY TableAssumption
  <1>2. q \in Int /\ ChunkSize * q <= n + ChunkSize - 1
    BY <1>1 DEF ChunksIn
  <1>3. k \in Nat /\ 1 <= k /\ k <= q
    BY <1>2
  <1> HIDE DEF q
  <1>4. ChunkSize * k \in Nat /\ ChunkSize * (k - 1) \in Nat
        /\ ChunkSize * k = ChunkSize * (k - 1) + ChunkSize
    BY <1>1, <1>3
  <1>5. ChunkSize * k <= ChunkSize * q
    <2>1. \E d \in Nat : q = k + d
      <3>1. q - k \in Nat /\ q = k + (q - k)
        BY <1>2, <1>3
      <3> QED BY <3>1
    <2>2. PICK d \in Nat : q = k + d
      BY <2>1
    <2>3. ChunkSize * q = ChunkSize * k + ChunkSize * d /\ ChunkSize * d >= 0
      BY <1>1, <1>3, <2>2
    <2> QED BY <1>1, <1>2, <1>4, <2>3
  <1>6. Min({ChunkSize * k, n}) \in {ChunkSize * k, n}
        /\ Min({ChunkSize * k, n}) <= ChunkSize * k /\ Min({ChunkSize * k, n}) <= n
    BY <1>4, LeastNumber
  <1> QED BY <1>1, <1>2, <1>4, <1>5, <1>6

\* Chunk k of a column of n rows begins behind the one row and ends at the
\* other.
ChunkFrom(k) == ChunkSize * (k - 1)

ChunkTo(k, n) == Min({ChunkSize * k, n})

\* A part of a sequence, cell by cell.
LEMMA Part ==
  ASSUME NEW S, NEW s \in Seq(S), NEW a \in Nat, NEW b \in Nat, a < b, b <= Len(s)
  PROVE  /\ SubSeq(s, a + 1, b) \in Seq(S) /\ Len(SubSeq(s, a + 1, b)) = b - a
         /\ SubSeq(s, a + 1, b) = [r \in 1 .. (b - a) |-> s[a + r]]
PROOF
  <1>1. s \in [1 .. Len(s) -> S] /\ Len(s) \in Nat
    BY LenProperties
  <1>2. \A i \in (a + 1) .. b : s[i] \in S
    BY <1>1
  <1>3. PICK m \in Int : m = a + 1 /\ b - m + 1 = b - a /\ m <= b
    OBVIOUS
  <1>4. PICK t : t = SubSeq(s, m, b)
    OBVIOUS
  <1>5. /\ t \in Seq(S) /\ Len(t) = (IF m <= b THEN b - m + 1 ELSE 0)
        /\ \A r \in 1 .. (b - m + 1) : t[r] = s[m + r - 1]
    <2>1. \A i \in m .. b : s[i] \in S
      BY <1>2, <1>3
    <2>2. b \in Int
      OBVIOUS
    <2> QED BY <1>4, <2>1, <2>2, SubSeqProperties
  <1>6. Len(t) = b - a
    BY <1>3, <1>5
  <1>7. t \in [1 .. (b - a) -> S]
    BY <1>5, <1>6, LenProperties
  <1>8. ASSUME NEW r \in 1 .. (b - a) PROVE t[r] = s[a + r]
    <2>1. m + r - 1 = a + r /\ r \in 1 .. (b - m + 1)
      BY <1>3
    <2> QED BY <1>5, <2>1
  <1>9. t = [r \in 1 .. (b - a) |-> s[a + r]]
    BY <1>7, <1>8
  <1> QED BY <1>3, <1>4, <1>5, <1>6, <1>9

\* Chunked cuts a column into so many chunks.
LEMMA ChunkedLength ==
  ASSUME NEW S, NEW s \in Seq(S)
  PROVE  /\ ChunksIn(Len(s)) \in Nat
         /\ DOMAIN Chunked(s) = 1 .. ChunksIn(Len(s)) /\ Len(Chunked(s)) = ChunksIn(Len(s))
         /\ \A k \in 1 .. ChunksIn(Len(s)) :
              Chunked(s)[k] = SubSeq(s, ChunkSize * (k - 1) + 1, Min({ChunkSize * k, Len(s)}))
PROOF
  <1> DEFINE Chunk(k) == SubSeq(s, ChunkSize * (k - 1) + 1, Min({ChunkSize * k, Len(s)}))
  <1>1. ChunksIn(Len(s)) \in Nat
    BY ChunkCount, LenProperties
  <1>2. Chunked(s) = [k \in 1 .. ChunksIn(Len(s)) |-> Chunk(k)]
    BY DEF Chunked, ChunksIn
  <1> HIDE DEF Chunk
  <1>3. DOMAIN Chunked(s) = 1 .. ChunksIn(Len(s))
        /\ \A k \in 1 .. ChunksIn(Len(s)) : Chunked(s)[k] = Chunk(k)
    BY <1>2
  <1>4. Len(Chunked(s)) = ChunksIn(Len(s))
    BY <1>1, <1>2
  <1> QED BY <1>1, <1>3, <1>4 DEF Chunk

\* The chunks of a column that was gathered: row r of the file is row r of
\* the column.
LEMMA ChunkedPlaced ==
  ASSUME NEW cells \in Seq(CellSet),
         \A r \in DOMAIN cells : cells[r].row = r
  PROVE  /\ Chunked(cells) \in Seq(Seq(CellSet)) /\ Placed(Chunked(cells))
         /\ \A k \in DOMAIN Chunked(cells) :
              Len(Chunked(cells)[k]) = Min({ChunkSize * k, Len(cells)}) - ChunkSize * (k - 1)
PROOF
  <1> DEFINE Chunk(k) == SubSeq(cells, ChunkSize * (k - 1) + 1, Min({ChunkSize * k, Len(cells)}))
  <1>1. PICK n \in Nat, q \in Nat : n = Len(cells) /\ q = ChunksIn(n)
    BY ChunkCount, LenProperties
  <1>2. ASSUME NEW k \in 1 .. q
        PROVE  /\ Chunk(k) \in Seq(CellSet) /\ Len(Chunk(k)) \in 1 .. ChunkSize
               /\ \A r \in DOMAIN Chunk(k) : Chunk(k)[r].row = ChunkSize * (k - 1) + r
               /\ Len(Chunk(k)) = Min({ChunkSize * k, n}) - ChunkSize * (k - 1)
    <2>1. PICK a, b : /\ a = ChunkSize * (k - 1) /\ b = Min({ChunkSize * k, n})
                      /\ a \in Nat /\ a + 1 <= n /\ b \in Nat /\ b <= n
                      /\ b - a \in 1 .. ChunkSize
      BY <1>1, <1>2, ChunkBounds
    <2>2. DOMAIN cells = 1 .. n /\ \A i \in 1 .. n : cells[i] \in CellSet
      BY <1>1, LenProperties
    <2>3. PICK t : t = SubSeq(cells, a + 1, b)
      OBVIOUS
    <2>4. /\ t \in Seq(CellSet) /\ Len(t) = b - a
          /\ t = [r \in 1 .. (b - a) |-> cells[a + r]]
      <3>1. a \in Nat /\ b \in Nat /\ a < b /\ b <= Len(cells)
        BY <1>1, <2>1
      <3> QED BY <2>3, <3>1, Part
    <2>5. ASSUME NEW r \in DOMAIN t PROVE t[r].row = a + r
      <3>1. r \in 1 .. (b - a) /\ a + r \in 1 .. n
        BY <2>1, <2>4
      <3> QED BY <2>2, <2>4, <3>1
    <2>6. Chunk(k) = t
      BY <1>1, <2>1, <2>3
    <2> HIDE DEF Chunk
    <2> QED BY <2>1, <2>4, <2>5, <2>6
  <1>3. DOMAIN Chunked(cells) = 1 .. q /\ Len(Chunked(cells)) = q
        /\ \A k \in 1 .. q : Chunked(cells)[k] = Chunk(k)
    BY <1>1, ChunkedLength
  <1> HIDE DEF Chunk
  <1>4. Chunked(cells) \in Seq(Seq(CellSet))
    <2>1. Chunked(cells) = [k \in 1 .. q |-> Chunk(k)]
      BY <1>1, <1>3 DEF Chunked, Chunk, ChunksIn
    <2>2. [k \in 1 .. q |-> Chunk(k)] \in [1 .. q -> Seq(CellSet)]
      BY <1>2
    <2> QED BY <2>1, <2>2, SeqDef
  <1>5. Placed(Chunked(cells))
    BY <1>2, <1>3 DEF Placed
  <1>6. \A k \in DOMAIN Chunked(cells) :
          Len(Chunked(cells)[k]) = Min({ChunkSize * k, n}) - ChunkSize * (k - 1)
    BY <1>2, <1>3
  <1> QED BY <1>1, <1>4, <1>5, <1>6

\* What is left of a column that was not written to its end: its first rows,
\* in their places, from the same file and of the same type.
LEMMA CutsKeep ==
  ASSUME NEW column \in ColumnFiles, Placed(column.chunks), NEW rest \in Cuts(column)
  PROVE  /\ rest \in ColumnFiles /\ Placed(rest.chunks)
         /\ rest.from = column.from /\ rest.type = column.type
         /\ Within(rest.chunks, column.chunks)
PROOF
  <1> DEFINE chunks == column.chunks
             Torn(p) == [r \in DOMAIN chunks[p[1]] |-> IF r < p[2] THEN chunks[p[1]][r] ELSE Zero]
  <1>1. chunks \in Seq(Seq(CellSet)) /\ Len(chunks) \in Nat
        /\ \A k \in 1 .. Len(chunks) : chunks[k] \in Seq(CellSet)
    BY DEF ColumnFiles
  <1>2. CASE rest = [column EXCEPT !.whole = FALSE]
    BY <1>2 DEF ColumnFiles, Within
  <1>3. CASE \E n \in 0 .. Len(chunks) : rest = [column EXCEPT !.chunks = SubSeq(@, 1, n)]
    <2>1. PICK n \in 0 .. Len(chunks) : rest = [column EXCEPT !.chunks = SubSeq(@, 1, n)]
      BY <1>3
    <2>2. rest.chunks = SubSeq(chunks, 1, n) /\ rest.from = column.from
          /\ rest.type = column.type /\ rest.whole = column.whole
          /\ rest = [column EXCEPT !.chunks = SubSeq(chunks, 1, n)]
      BY <2>1 DEF ColumnFiles
    <2>3. /\ SubSeq(chunks, 1, n) \in Seq(Seq(CellSet))
          /\ DOMAIN SubSeq(chunks, 1, n) = 1 .. n
          /\ \A k \in 1 .. n : SubSeq(chunks, 1, n)[k] = chunks[k]
      BY <1>1
    <2>4. 1 .. n \subseteq DOMAIN chunks
      BY <1>1
    <2>5. Placed(chunks)
      OBVIOUS
    <2> HIDE DEF chunks
    <2>6. Placed(SubSeq(chunks, 1, n)) /\ Within(SubSeq(chunks, 1, n), chunks)
      BY <2>3, <2>4, <2>5 DEF Placed, Within
    <2> QED BY <2>2, <2>3, <2>6 DEF ColumnFiles, chunks
  <1>4. CASE \E p \in (DOMAIN chunks) \X (1 .. ChunkSize) :
               /\ p[2] \in DOMAIN chunks[p[1]]
               /\ rest = [column EXCEPT !.chunks = Append(SubSeq(@, 1, p[1] - 1), Torn(p))]
    <2>1. PICK p \in (DOMAIN chunks) \X (1 .. ChunkSize) :
                 /\ p[2] \in DOMAIN chunks[p[1]]
                 /\ rest = [column EXCEPT !.chunks = Append(SubSeq(@, 1, p[1] - 1), Torn(p))]
      BY <1>4
    <2> DEFINE m == p[1]
               cut == Append(SubSeq(chunks, 1, m - 1), Torn(p))
    <2>2. rest.chunks = cut /\ rest.from = column.from
          /\ rest.type = column.type /\ rest.whole = column.whole
          /\ rest = [column EXCEPT !.chunks = cut]
      BY <2>1 DEF ColumnFiles
    <2>3. m \in 1 .. Len(chunks) /\ chunks[m] \in Seq(CellSet) /\ p[2] \in 1 .. ChunkSize
      BY <1>1
    <2>4. /\ SubSeq(chunks, 1, m - 1) \in Seq(Seq(CellSet))
          /\ Len(SubSeq(chunks, 1, m - 1)) = m - 1
          /\ \A k \in 1 .. (m - 1) : SubSeq(chunks, 1, m - 1)[k] = chunks[k]
      BY <1>1, <2>3
    <2>5. /\ Torn(p) \in Seq(CellSet) /\ Len(Torn(p)) = Len(chunks[m])
          /\ \A r \in DOMAIN Torn(p) : r \in DOMAIN chunks[m] /\ Torn(p)[r] \in {chunks[m][r], Zero}
      <3>1. DOMAIN chunks[m] = 1 .. Len(chunks[m]) /\ Len(chunks[m]) \in Nat
            /\ \A r \in DOMAIN chunks[m] : chunks[m][r] \in CellSet
        BY <2>3
      <3>2. Zero \in CellSet
        BY DEF CellSet
      <3> QED BY <3>1, <3>2
    <2> HIDE DEF chunks, Torn
    <2>6. cut \in Seq(Seq(CellSet)) /\ Len(cut) = m /\ cut[m] = Torn(p)
          /\ \A k \in 1 .. (m - 1) : cut[k] = chunks[k]
      BY <2>3, <2>4, <2>5, AppendProperties
    <2>7. Placed(cut)
      <3>1. \A k \in 1 .. Len(chunks) :
              /\ Len(chunks[k]) \in 1 .. ChunkSize
              /\ \A r \in DOMAIN chunks[k] :
                   chunks[k][r] # Zero => chunks[k][r].row = ChunkSize * (k - 1) + r
        BY <1>1 DEF Placed, chunks
      <3>2. DOMAIN cut = 1 .. m
        BY <2>6
      <3>3. ASSUME NEW k \in 1 .. m, k # m
            PROVE  k \in 1 .. (m - 1) /\ k \in 1 .. Len(chunks)
        BY <2>3, <3>3, <1>1
      <3>4. \A k \in 1 .. m : k # m =>
              /\ Len(cut[k]) \in 1 .. ChunkSize
              /\ \A r \in DOMAIN cut[k] :
                   cut[k][r] # Zero => cut[k][r].row = ChunkSize * (k - 1) + r
        <4> TAKE k \in 1 .. m
        <4> HAVE k # m
        <4>1. cut[k] = chunks[k] /\ k \in 1 .. Len(chunks)
          BY <2>6, <3>3
        <4> HIDE DEF cut
        <4> QED BY <3>1, <4>1
      <3>5. /\ Len(cut[m]) \in 1 .. ChunkSize
            /\ \A r \in DOMAIN cut[m] :
                 cut[m][r] # Zero => cut[m][r].row = ChunkSize * (m - 1) + r
        <4>1. cut[m] = Torn(p) /\ m \in 1 .. Len(chunks)
          BY <2>3, <2>6
        <4>2. Len(Torn(p)) \in 1 .. ChunkSize
          BY <2>5, <3>1, <4>1
        <4>3. ASSUME NEW r \in DOMAIN Torn(p), Torn(p)[r] # Zero
              PROVE  Torn(p)[r].row = ChunkSize * (m - 1) + r
          <5>1. r \in DOMAIN chunks[m] /\ Torn(p)[r] = chunks[m][r]
            BY <2>5, <4>3
          <5> HIDE DEF m
          <5> QED BY <3>1, <4>1, <4>3, <5>1
        <4> HIDE DEF cut, m
        <4> QED BY <4>1, <4>2, <4>3
      <3> HIDE DEF cut, m
      <3> QED BY <3>2, <3>4, <3>5 DEF Placed
    <2>8. Within(cut, chunks)
      <3>1. DOMAIN cut = 1 .. m /\ DOMAIN chunks = 1 .. Len(chunks) /\ m \in Nat
        BY <1>1, <2>3, <2>6
      <3>2. \A k \in 1 .. m : k \in 1 .. Len(chunks)
        BY <1>1, <2>3
      <3>3. \A k \in 1 .. m : k = m \/ k \in 1 .. (m - 1)
        BY <2>3
      <3>4. Len(cut[m]) = Len(chunks[m]) /\ \A k \in 1 .. (m - 1) : cut[k] = chunks[k]
        BY <2>5, <2>6
      <3> HIDE DEF cut, m
      <3> QED BY <3>1, <3>2, <3>3, <3>4 DEF Within
    <2> HIDE DEF cut
    <2> QED BY <2>2, <2>6, <2>7, <2>8 DEF ColumnFiles, chunks
  <1>5. \/ rest = [column EXCEPT !.whole = FALSE]
        \/ \E n \in 0 .. Len(chunks) : rest = [column EXCEPT !.chunks = SubSeq(@, 1, n)]
        \/ \E p \in (DOMAIN chunks) \X (1 .. ChunkSize) :
               /\ p[2] \in DOMAIN chunks[p[1]]
               /\ rest = [column EXCEPT !.chunks = Append(SubSeq(@, 1, p[1] - 1), Torn(p))]
    BY DEF Cuts, ColumnFiles
  <1> QED BY <1>2, <1>3, <1>4, <1>5

\* A column of a schema has a name and a type.
LEMMA SchemaColumn ==
  ASSUME NEW s \in Seq([name : Names, type : Types])
  PROVE  \A c \in DOMAIN s : c \in Nat /\ s[c].name \in Names /\ s[c].type \in Types
PROOF
  <1> TAKE c \in DOMAIN s
  <1>1. c \in 1 .. Len(s) /\ s[c] \in [name : Names, type : Types]
    BY ElementOfSeq, LenProperties
  <1> QED BY <1>1, LenProperties

\* The cells of a line's fields carry the line's number.
LEMMA GatheredFits ==
  ASSUME Shape, SchemaKnown, schema # Unreadable, NEW f \in CsvFiles, NEW id \in 1 .. MaxIngests
  PROVE  /\ Gathered(f, id) \in Seq(ColumnFiles) /\ Len(Gathered(f, id)) = Len(schema)
         /\ \A c \in DOMAIN schema :
              /\ Gathered(f, id)[c].type = schema[c].type
              /\ Gathered(f, id)[c].from = id
              /\ Placed(Gathered(f, id)[c].chunks)
              /\ \A d \in DOMAIN schema :
                   SameCuts(Gathered(f, id)[d].chunks, Gathered(f, id)[c].chunks)
PROOF
  <1> DEFINE column(c) == [type |-> schema[c].type, from |-> id, whole |-> TRUE,
                           chunks |-> Chunked(Cells(f, id, c))]
  <1>1. schema \in Seq([name : Names, type : Types]) /\ DOMAIN schema = 1 .. Len(schema)
        /\ Len(schema) \in Nat
    BY DEF Shape
  <1>2. Accepted(f) \in Nat
    BY TableAssumption DEF Accepted
  <1>3. ASSUME NEW c \in DOMAIN schema
        PROVE  /\ Chunked(Cells(f, id, c)) \in Seq(Seq(CellSet))
               /\ Placed(Chunked(Cells(f, id, c)))
               /\ \A k \in DOMAIN Chunked(Cells(f, id, c)) :
                    Len(Chunked(Cells(f, id, c))[k]) =
                      Min({ChunkSize * k, Accepted(f)}) - ChunkSize * (k - 1)
    <2>1. c \in Nat /\ id \in Nat
      BY <1>1, <1>3, TableAssumption
    <2>2. PICK s \in Schemas : c \in DOMAIN s
      <3>1. PICK s \in Schemas : IsPrefix(schema, s)
        BY DEF SchemaKnown
      <3>2. s \in Seq([name : Names \cup {NoName}, type : Types])
        BY TableAssumption
      <3>3. Len(schema) <= Len(s) /\ Len(s) \in Nat /\ DOMAIN s = 1 .. Len(s)
        BY <3>1, <3>2 DEF IsPrefix
      <3>4. c \in DOMAIN s
        BY <1>1, <1>3, <3>3
      <3> QED BY <3>4
    <2>3. \A r \in 1 .. f.rows : [file |-> id, row |-> r, col |-> c] # Garbage
      BY <2>2, TableAssumption
    <2>4. \A r \in 1 .. Accepted(f) : r \in Nat /\ r \in 1 .. f.rows
      BY TableAssumption DEF Accepted
    <2>5. \A r \in 1 .. Accepted(f) : [file |-> id, row |-> r, col |-> c] \in CellSet
      BY <2>1, <2>3, <2>4 DEF CellSet
    <2>6. Cells(f, id, c) \in Seq(CellSet) /\ Len(Cells(f, id, c)) = Accepted(f)
          /\ \A r \in DOMAIN Cells(f, id, c) : Cells(f, id, c)[r].row = r
      BY <1>2, <2>5 DEF Cells
    <2> QED BY <2>6, ChunkedPlaced
  <1>4. \A c \in DOMAIN schema : schema[c].type \in Types
    BY <1>1, SchemaColumn
  <1>5. \A c \in DOMAIN schema : column(c) \in ColumnFiles
    BY <1>3, <1>4 DEF ColumnFiles
  <1>6. Gathered(f, id) = [c \in 1 .. Len(schema) |-> column(c)]
    BY <1>1 DEF Gathered
  <1>7. \A c \in DOMAIN schema : Gathered(f, id)[c] = column(c)
    BY <1>1, <1>6
  <1>8. \A c \in DOMAIN schema :
          column(c).type = schema[c].type /\ column(c).from = id
          /\ Placed(column(c).chunks)
    BY <1>3
  <1>9. \A c, d \in DOMAIN schema : SameCuts(column(d).chunks, column(c).chunks)
    BY <1>3 DEF SameCuts
  <1> HIDE DEF column
  <1> QED BY <1>1, <1>5, <1>6, <1>7, <1>8, <1>9

\* Where the names differ, the search for a column's type ends at the column.
LEMMA TypeByName ==
  ASSUME schema \in Seq([name : Names, type : Types]), Distinct(schema), NEW c \in DOMAIN schema
  PROVE  TypeOf(schema[c].name) = schema[c].type
PROOF
  <1>1. {d \in DOMAIN schema : schema[d].name = schema[c].name} = {c}
    BY DEF Distinct, IsInjective
  <1>2. c \in Nat
    BY SchemaColumn
  <1>3. Min({c}) = c
    <2>1. {c} \in SUBSET Nat /\ {c} # {}
      BY <1>2
    <2>2. Min({c}) \in {c}
      BY <2>1, LeastNumber
    <2> QED BY <2>2
  <1> QED BY <1>1, <1>3 DEF TypeOf

-----------------------------------------------------------------------------
(* The steps.                                                              *)

\* There is no table at first.
LEMMA InitIInv == Init => IInv
PROOF
  <1> SUFFICES ASSUME Init PROVE IInv
    OBVIOUS
  <1>1. schema = Unreadable /\ job = Idle /\ shown = Nothing
        /\ files = [n \in Names |-> Missing]
        /\ creates = 0 /\ ingests = 0 /\ base = 0 /\ opened = TRUE
    BY DEF Init
  <1>2. Missing \in ColumnFiles /\ Placed(Missing.chunks) /\ Missing.from = 0
    BY DEF Missing, ColumnFiles, Placed
  <1>3. Shape
    BY <1>1, <1>2, TableAssumption DEF Shape, Idle, Nothing
  <1>4. CutAlike
    BY <1>1 DEF CutAlike, SameCuts, Missing
  <1> QED BY <1>1, <1>2, <1>3, <1>4 DEF IInv, SchemaKnown, FilesSound, JobFits, WrittenSoFar,
                                 TypesKept, GenerationsDescend

\* The file of one column is replaced by what an ingest has for it, whole or
\* cut short, and the ingest goes on or dies.
LEMMA ReplaceKeeps ==
  ASSUME IInv, job # Idle, job.next <= Len(job.columns),
         NEW rest \in ColumnFiles, Placed(rest.chunks),
         rest.from = ingests, rest.type = schema[job.next].type,
         Within(rest.chunks, job.columns[job.next].chunks),
         files' = [files EXCEPT ![Name] = rest],
         job' = [job EXCEPT !.next = @ + 1] \/ job' = Idle,
         UNCHANGED <<schema, shown, creates, ingests, base, opened>>
  PROVE  IInv'
PROOF
  <1>1. /\ schema \in Seq([name : Names, type : Types]) /\ schema # Unreadable
        /\ files \in [Names -> ColumnFiles]
        /\ job.columns \in Seq(ColumnFiles) /\ Len(job.columns) = Len(schema)
        /\ job.next \in DOMAIN schema /\ job.next \in Nat
        /\ ingests \in Nat /\ base \in Nat /\ base <= ingests
    BY TableAssumption DEF IInv, Shape, JobFits
  <1>2. Name \in Names /\ \A c \in DOMAIN schema : schema[c].name \in Names /\ c \in Nat
    BY <1>1, SchemaColumn DEF Name
  <1>3. \A n \in Names : files'[n] = IF n = Name THEN rest ELSE files[n]
    BY <1>1
  <1>4. files' \in [Names -> ColumnFiles]
    BY <1>1, <1>2
  <1>5. /\ job' \in [columns : Seq(ColumnFiles), next : Nat, file : CsvFiles \cup {NoFile}]
        /\ job'.next \in 1 .. (Len(job'.columns) + 1)
        /\ job' # Idle => job'.columns = job.columns /\ job'.next = job.next + 1
    <2>1. CASE job' = Idle
      BY <2>1 DEF Idle
    <2>2. CASE job' = [job EXCEPT !.next = @ + 1]
      <3>1. /\ job \in [columns : Seq(ColumnFiles), next : Nat, file : CsvFiles \cup {NoFile}]
            /\ job.next \in 1 .. (Len(job.columns) + 1)
        BY DEF IInv, Shape
      <3>2. job'.columns = job.columns /\ job'.file = job.file /\ job'.next = job.next + 1
        BY <2>2, <3>1
      <3>3. Len(job.columns) \in Nat
        BY <3>1
      <3> QED BY <2>2, <3>1, <3>2, <3>3
    <2> QED BY <2>1, <2>2
  <1>6. Shape' /\ SchemaKnown'
    BY <1>4, <1>5 DEF IInv, Shape, SchemaKnown
  <1>7. FilesSound'
    BY <1>1, <1>3 DEF IInv, FilesSound
  <1>8. JobFits'
    BY <1>5 DEF IInv, JobFits
  <1>9. Distinct(schema) =>
          \A c \in DOMAIN schema :
            files'[schema[c].name] = IF c = job.next THEN rest ELSE files[schema[c].name]
    BY <1>1, <1>2, <1>3 DEF Distinct, IsInjective, Name
  <1>10. WrittenSoFar'
    BY <1>1, <1>2, <1>5, <1>9 DEF IInv, WrittenSoFar
  <1>11. TypesKept'
    BY <1>9 DEF IInv, TypesKept
  <1>12. GenerationsDescend'
    <2> SUFFICES ASSUME opened, Distinct(schema),
                        NEW c \in DOMAIN schema, NEW d \in DOMAIN schema, c < d,
                        files'[schema[d].name].from > base
                 PROVE  files'[schema[c].name].from >= files'[schema[d].name].from
      BY <1>1 DEF GenerationsDescend
    <2>1. /\ files'[schema[c].name] = IF c = job.next THEN rest ELSE files[schema[c].name]
          /\ files'[schema[d].name] = IF d = job.next THEN rest ELSE files[schema[d].name]
      BY <1>9
    <2>2. files[schema[d].name].from <= ingests /\ files[schema[d].name].from \in Nat
          /\ files[schema[c].name].from \in Nat
      BY <1>1, <1>2 DEF IInv, FilesSound, ColumnFiles
    <2>3. c < job.next => files[schema[c].name].from = ingests
      BY DEF IInv, WrittenSoFar
    <2>4. files[schema[d].name].from > base =>
            files[schema[c].name].from >= files[schema[d].name].from
      BY <1>1 DEF IInv, GenerationsDescend
    <2>5. c \in Nat /\ d \in Nat
      BY <1>2
    <2> QED BY <1>1, <2>1, <2>2, <2>3, <2>4, <2>5
  <1>13. CutAlike'
    <2> DEFINE mine(c) == job.columns[c].chunks
    <2>1. \A c, d \in DOMAIN schema : SameCuts(mine(d), mine(c))
      BY DEF IInv, CutAlike
    <2>2. \A n \in Names, c \in DOMAIN schema :
            files[n].from = ingests => SameCuts(files[n].chunks, mine(c))
      BY DEF IInv, CutAlike
    <2>3. \A m, n \in Names :
            files[m].from = files[n].from => SameCuts(files[m].chunks, files[n].chunks)
      BY DEF IInv, CutAlike
    <2>4. Within(rest.chunks, mine(job.next))
      OBVIOUS
    <2> HIDE DEF mine
    <2>5. \A c \in DOMAIN schema : SameCuts(rest.chunks, mine(c))
      BY <1>1, <2>1, <2>4 DEF SameCuts, Within
    <2>6. \A n \in Names : files[n].from = ingests =>
            SameCuts(files[n].chunks, rest.chunks) /\ SameCuts(rest.chunks, files[n].chunks)
      BY <1>1, <2>2, <2>4 DEF SameCuts, Within
    <2>7. SameCuts(rest.chunks, rest.chunks)
      BY DEF SameCuts
    <2>8. \A m, n \in Names :
            files'[m].from = files'[n].from => SameCuts(files'[m].chunks, files'[n].chunks)
      BY <1>3, <2>3, <2>6, <2>7
    <2>9. \A n \in Names, c \in DOMAIN schema :
            files'[n].from = ingests => SameCuts(files'[n].chunks, mine(c))
      BY <1>3, <2>2, <2>5
    <2> QED BY <1>5, <2>1, <2>8, <2>9 DEF CutAlike, mine
  <1> QED BY <1>6, <1>7, <1>8, <1>10, <1>11, <1>12, <1>13 DEF IInv

\* The files stay as they are: an ingest ends or dies, or could not open the
\* files of a column.
LEMMA LeaveKeeps ==
  ASSUME IInv, job # Idle, UNCHANGED <<schema, files, shown, creates, ingests, base>>,
         \/ job' = Idle /\ UNCHANGED opened
         \/ /\ job.next <= Len(job.columns) /\ job' = [job EXCEPT !.next = @ + 1]
            /\ opened' = FALSE
  PROVE  IInv'
PROOF
  <1>1. /\ job' \in [columns : Seq(ColumnFiles), next : Nat, file : CsvFiles \cup {NoFile}]
        /\ job'.next \in 1 .. (Len(job'.columns) + 1)
        /\ job' # Idle => job'.columns = job.columns /\ opened' = FALSE
    <2>1. CASE job' = Idle
      BY <2>1 DEF Idle
    <2>2. CASE /\ job.next <= Len(job.columns) /\ job' = [job EXCEPT !.next = @ + 1]
               /\ opened' = FALSE
      <3>1. /\ job \in [columns : Seq(ColumnFiles), next : Nat, file : CsvFiles \cup {NoFile}]
            /\ job.next \in 1 .. (Len(job.columns) + 1)
        BY DEF IInv, Shape
      <3>2. job'.columns = job.columns /\ job'.file = job.file /\ job'.next = job.next + 1
        BY <2>2, <3>1
      <3>3. Len(job.columns) \in Nat
        BY <3>1
      <3> QED BY <2>2, <3>1, <3>2, <3>3
    <2> QED BY <2>1, <2>2
  <1>2. opened' => opened
    BY DEF IInv, Shape
  <1>3. Shape' /\ SchemaKnown'
    BY <1>1 DEF IInv, Shape, SchemaKnown
  <1>4. FilesSound' /\ JobFits' /\ TypesKept' /\ CutAlike'
    BY <1>1 DEF IInv, FilesSound, JobFits, TypesKept, CutAlike
  <1>5. WrittenSoFar'
    BY <1>1 DEF WrittenSoFar
  <1>6. GenerationsDescend'
    BY <1>2 DEF IInv, GenerationsDescend
  <1> QED BY <1>3, <1>4, <1>5, <1>6 DEF IInv

\* No column that load_schema finds is without a name, and it stops only at one
\* that is.
LEMMA NamedColumns ==
  ASSUME NEW S, NEW s \in Seq(S)
  PROVE  /\ LeadingNamed(s) \in 0 .. Len(s)
         /\ \A i \in 1 .. LeadingNamed(s) : i \in 1 .. Len(s) /\ s[i].name # NoName
         /\ LeadingNamed(s) = Len(s) \/ s[LeadingNamed(s) + 1].name = NoName
PROOF
  <1> DEFINE stops == {Len(s)} \cup {n - 1 : n \in {m \in DOMAIN s : s[m].name = NoName}}
  <1>1. DOMAIN s = 1 .. Len(s) /\ Len(s) \in Nat
    OBVIOUS
  <1>2. \A n \in stops : n \in Nat /\ n <= Len(s)
    BY <1>1
  <1>3. stops \in SUBSET Nat /\ stops # {}
    BY <1>2
  <1>4. LeadingNamed(s) = Min(stops)
    BY DEF LeadingNamed
  <1>5. \A i \in 1 .. Len(s) : s[i].name = NoName => i - 1 \in stops
    BY <1>1
  <1>6. \A n \in stops : n = Len(s) \/ s[n + 1].name = NoName
    BY <1>1
  <1> HIDE DEF stops
  <1>7. LeadingNamed(s) \in stops /\ \A n \in stops : LeadingNamed(s) <= n
    BY <1>3, <1>4, LeastNumber
  <1>8. LeadingNamed(s) \in Nat /\ LeadingNamed(s) <= Len(s)
    BY <1>2, <1>7
  <1>9. ASSUME NEW i \in 1 .. LeadingNamed(s) PROVE i \in 1 .. Len(s) /\ s[i].name # NoName
    <2>1. i \in 1 .. Len(s)
      BY <1>1, <1>8
    <2>2. ~(LeadingNamed(s) <= i - 1)
      BY <1>8
    <2> QED BY <1>5, <1>7, <2>1, <2>2
  <1> QED BY <1>1, <1>6, <1>7, <1>8, <1>9

\* A new schema: no column is of an ingest behind it.
LEMMA CreateKeeps ==
  ASSUME IInv, NEW s \in Schemas, CreateTable(s)
  PROVE  IInv'
PROOF
  <1>1. /\ job = Idle /\ job' = Idle /\ shown' = Nothing /\ opened' = TRUE
        /\ base' = ingests /\ creates' = creates + 1 /\ creates < MaxCreates
        /\ UNCHANGED <<files, ingests>>
        /\ schema' = Unreadable \/ schema' = SubSeq(s, 1, LeadingNamed(s))
           \/ \E n \in 0 .. LeadingNamed(s) : schema' = SubSeq(s, 1, n)
    BY DEF CreateTable
  <1>2. s \in Seq([name : Names \cup {NoName}, type : Types]) /\ Len(s) \in Nat
    <2>1. s \in Seq([name : Names \cup {NoName}, type : Types])
      BY TableAssumption
    <2> QED BY <2>1, LenProperties
  <1>3. /\ LeadingNamed(s) \in 0 .. Len(s)
        /\ \A i \in 1 .. LeadingNamed(s) : i \in 1 .. Len(s) /\ s[i].name # NoName
    BY <1>2, NamedColumns
  <1>4. ASSUME schema' # Unreadable
        PROVE  /\ schema' \in Seq([name : Names, type : Types])
               /\ \E t \in Schemas : IsPrefix(schema', t)
    <2>1. PICK n \in 0 .. LeadingNamed(s) : schema' = SubSeq(s, 1, n)
      <3>1. LeadingNamed(s) \in 0 .. LeadingNamed(s)
        BY <1>3
      <3> QED BY <1>1, <1>4, <3>1
    <2>2. schema' \in Seq([name : Names, type : Types]) /\ Len(schema') = n
      <3>1. n \in Nat /\ n <= Len(s) /\ \A i \in 1 .. n : i \in 1 .. LeadingNamed(s) /\ i \in 1 .. Len(s)
        BY <1>2, <1>3
      <3>2. ASSUME NEW i \in 1 .. n PROVE s[i] \in [name : Names, type : Types]
        <4>1. s[i] \in [name : Names \cup {NoName}, type : Types] /\ s[i].name # NoName
          BY <1>2, <1>3, <3>1, ElementOfSeq
        <4> QED BY <4>1
      <3>3. schema' = [i \in 1 .. n |-> s[i]]
        BY <1>2, <2>1, <3>1
      <3> QED BY <3>1, <3>2, <3>3
    <2>3. SubSeq(schema', 1, n) = schema'
      BY <2>2, SubSeqFull
    <2>4. IsPrefix(schema', s)
      <3>1. n <= Len(s)
        BY <1>2, <1>3
      <3> QED BY <2>1, <2>2, <2>3, <3>1 DEF IsPrefix
    <2> QED BY <2>2, <2>4
  <1>5. SchemaKnown' /\ (schema' = Unreadable \/ schema' \in Seq([name : Names, type : Types]))
    BY <1>4 DEF SchemaKnown
  <1>6. Shape'
    BY <1>1, <1>5, TableAssumption DEF IInv, Shape, Nothing
  <1>7. FilesSound' /\ JobFits' /\ WrittenSoFar' /\ CutAlike'
    BY <1>1 DEF IInv, FilesSound, JobFits, WrittenSoFar, CutAlike
  <1>8. schema' # Unreadable =>
          \A c \in DOMAIN schema' : ~(files'[schema'[c].name].from > base')
    <2> SUFFICES ASSUME schema' # Unreadable, NEW c \in DOMAIN schema'
                 PROVE  ~(files'[schema'[c].name].from > base')
      OBVIOUS
    <2>1. schema'[c].name \in Names
      BY <1>5, SchemaColumn
    <2>2. files[schema'[c].name].from <= ingests /\ files[schema'[c].name].from \in Nat
          /\ ingests \in Nat
      BY <2>1, TableAssumption DEF IInv, FilesSound, Shape, ColumnFiles
    <2> QED BY <1>1, <2>2
  <1>9. TypesKept' /\ GenerationsDescend'
    BY <1>8 DEF TypesKept, GenerationsDescend
  <1> QED BY <1>5, <1>6, <1>7, <1>9 DEF IInv

\* A file is gathered: the table does not change, and nothing is written yet.
LEMMA BeginKeeps ==
  ASSUME IInv, NEW f \in CsvFiles, BeginIngest(f)
  PROVE  IInv'
PROOF
  <1>1. /\ schema # Unreadable /\ ingests < MaxIngests /\ ingests' = ingests + 1
        /\ job' = [columns |-> Gathered(f, ingests + 1), next |-> 1, file |-> f]
        /\ shown' = Nothing
        /\ UNCHANGED <<schema, files, creates, base, opened>>
    BY DEF BeginIngest
  <1>2. ingests \in Nat /\ ingests + 1 \in Nat /\ MaxIngests \in Nat
    BY TableAssumption DEF IInv, Shape
  <1>3. /\ Gathered(f, ingests + 1) \in Seq(ColumnFiles)
        /\ Len(Gathered(f, ingests + 1)) = Len(schema)
        /\ \A c \in DOMAIN schema :
             /\ Gathered(f, ingests + 1)[c].type = schema[c].type
             /\ Gathered(f, ingests + 1)[c].from = ingests + 1
             /\ Placed(Gathered(f, ingests + 1)[c].chunks)
             /\ \A d \in DOMAIN schema :
                  SameCuts(Gathered(f, ingests + 1)[d].chunks, Gathered(f, ingests + 1)[c].chunks)
    <2>1. ingests + 1 \in 1 .. MaxIngests
      BY <1>1, <1>2
    <2> QED BY <1>1, <2>1, GatheredFits DEF IInv
  <1>4. Shape'
    <2>1. Len(Gathered(f, ingests + 1)) \in Nat
      BY <1>3
    <2>2. job'.next \in 1 .. (Len(job'.columns) + 1)
          /\ job' \in [columns : Seq(ColumnFiles), next : Nat, file : CsvFiles \cup {NoFile}]
      BY <1>1, <1>3, <2>1
    <2> QED BY <1>1, <1>2, <2>2 DEF IInv, Shape, Nothing
  <1>5. SchemaKnown' /\ TypesKept' /\ GenerationsDescend'
    BY <1>1 DEF IInv, SchemaKnown, TypesKept, GenerationsDescend
  <1>6. FilesSound'
    <2>1. \A n \in Names : files[n].from \in Nat
      BY DEF IInv, Shape, ColumnFiles
    <2> QED BY <1>1, <1>2, <2>1 DEF IInv, FilesSound
  <1>7. JobFits'
    BY <1>1, <1>3 DEF JobFits
  <1>8. WrittenSoFar'
    <2>1. \A c \in DOMAIN schema : ~(c < 1)
      <3>1. schema \in Seq([name : Names, type : Types])
        BY <1>1 DEF IInv, Shape
      <3> QED BY <3>1
    <2> QED BY <1>1, <2>1 DEF WrittenSoFar
  <1>9. CutAlike'
    <2>1. \A n \in Names : files[n].from # ingests + 1
      <3>1. \A n \in Names : files[n].from \in Nat /\ files[n].from <= ingests
        BY DEF IInv, Shape, ColumnFiles, FilesSound
      <3> QED BY <1>2, <3>1
    <2>2. job'.columns = Gathered(f, ingests + 1)
      BY <1>1
    <2> QED BY <1>1, <1>3, <2>1, <2>2 DEF IInv, CutAlike
  <1> QED BY <1>4, <1>5, <1>6, <1>7, <1>8, <1>9 DEF IInv

\* A query changes nothing but what is shown.
LEMMA QueryKeeps ==
  ASSUME IInv, Query
  PROVE  IInv'
PROOF
  <1>1. shown' = Result /\ UNCHANGED <<schema, files, job, creates, ingests, base, opened>>
    BY DEF Query
  <1>2. Result.kind \in {"none", "throw", "endless", "rows"}
    BY DEF Result, Thrown, Endless
  <1> QED BY <1>1, <1>2 DEF IInv, Shape, SchemaKnown, FilesSound, JobFits, WrittenSoFar,
                            TypesKept, GenerationsDescend, CutAlike

\* Every step keeps the invariant.
LEMMA NextKeepsIInv == IInv /\ [Next]_vars => IInv'
PROOF
  <1> SUFFICES ASSUME IInv, [Next]_vars PROVE IInv'
    OBVIOUS
  <1>1. ASSUME NEW s \in Schemas, CreateTable(s) PROVE IInv'
    BY <1>1, CreateKeeps
  <1>2. ASSUME NEW f \in CsvFiles, BeginIngest(f) PROVE IInv'
    BY <1>2, BeginKeeps
  <1>3. ASSUME job # Idle, job.next <= Len(job.columns)
        PROVE  LET column == job.columns[job.next]
               IN  /\ column \in ColumnFiles /\ Placed(column.chunks)
                   /\ column.from = ingests /\ column.type = schema[job.next].type
                   /\ Within(column.chunks, column.chunks)
    <2>1. /\ job.columns \in Seq(ColumnFiles) /\ job.next \in 1 .. Len(job.columns)
          /\ schema # Unreadable /\ Len(job.columns) = Len(schema)
          /\ schema \in Seq([name : Names, type : Types])
      BY <1>3 DEF IInv, Shape, JobFits
    <2>2. job.next \in DOMAIN schema
      BY <2>1, LenProperties
    <2> QED BY <1>3, <2>1, <2>2, ElementOfSeq DEF IInv, JobFits, Within
  <1>4. ASSUME WriteColumn PROVE IInv'
    <2>1. /\ job # Idle /\ job.next <= Len(job.columns)
          /\ files' = [files EXCEPT ![Name] = job.columns[job.next]]
          /\ job' = [job EXCEPT !.next = @ + 1]
          /\ UNCHANGED <<schema, shown, creates, ingests, base, opened>>
      BY <1>4 DEF WriteColumn
    <2> QED BY <1>3, <2>1, ReplaceKeeps
  <1>5. ASSUME job # Idle, job.next <= Len(job.columns),
               NEW rest \in Cuts(job.columns[job.next]),
               files' = [files EXCEPT ![Name] = rest],
               job' = [job EXCEPT !.next = @ + 1] \/ job' = Idle,
               UNCHANGED <<schema, shown, creates, ingests, base, opened>>
        PROVE  IInv'
    <2>1. rest \in ColumnFiles /\ Placed(rest.chunks)
          /\ rest.from = ingests /\ rest.type = schema[job.next].type
          /\ Within(rest.chunks, job.columns[job.next].chunks)
      BY <1>3, <1>5, CutsKeep
    <2> QED BY <1>5, <2>1, ReplaceKeeps
  <1>6. ASSUME WriteColumnFails PROVE IInv'
    <2>1. /\ job # Idle /\ job.next <= Len(job.columns)
          /\ job' = [job EXCEPT !.next = @ + 1]
          /\ UNCHANGED <<schema, shown, creates, ingests, base>>
      BY <1>6 DEF WriteColumnFails
    <2>2. CASE /\ \E rest \in Cuts(job.columns[job.next]) : files' = [files EXCEPT ![Name] = rest]
               /\ UNCHANGED opened
      BY <1>5, <2>1, <2>2
    <2>3. CASE opened' = FALSE /\ UNCHANGED files
      BY <2>1, <2>3, LeaveKeeps
    <2> QED BY <1>6, <2>2, <2>3 DEF WriteColumnFails
  <1>7. ASSUME EndIngest PROVE IInv'
    BY <1>7, LeaveKeeps DEF EndIngest
  <1>8. ASSUME Crash PROVE IInv'
    <2>1. /\ job # Idle /\ job' = Idle
          /\ UNCHANGED <<schema, shown, creates, ingests, base, opened>>
      BY <1>8 DEF Crash
    <2>2. CASE UNCHANGED files
      BY <2>1, <2>2, LeaveKeeps
    <2>3. CASE /\ job.next <= Len(job.columns)
               /\ \E rest \in Cuts(job.columns[job.next]) : files' = [files EXCEPT ![Name] = rest]
      BY <1>5, <2>1, <2>3
    <2> QED BY <1>8, <2>2, <2>3 DEF Crash
  <1>9. ASSUME Query PROVE IInv'
    BY <1>9, QueryKeeps
  <1>10. ASSUME UNCHANGED vars PROVE IInv'
    BY <1>10 DEF IInv, vars, Shape, SchemaKnown, FilesSound, JobFits, WrittenSoFar,
                 TypesKept, GenerationsDescend, CutAlike
  <1> QED BY <1>1, <1>2, <1>4, <1>6, <1>7, <1>8, <1>9, <1>10 DEF Next

\* The invariant holds in every state of every execution.
LEMMA IInvAlways == Spec => []IInv
PROOF
  BY InitIInv, NextKeepsIInv, PTL DEF Spec

-----------------------------------------------------------------------------
(* The theorems.                                                           *)

\* The table keeps its shape: every file is of an ingest that took place, no
\* chunk is empty or longer than CHUNK_SIZE, the schema is one that was created
\* or the first columns of one.
THEOREM TypeCorrect == Spec => []TypeOK
PROOF
  <1>1. IInv => TypeOK
    <2> SUFFICES ASSUME IInv PROVE TypeOK
      OBVIOUS
    <2>1. \A n \in Names :
            /\ files[n].from \in 0 .. ingests
            /\ \A k \in DOMAIN files[n].chunks : Len(files[n].chunks[k]) \in 1 .. ChunkSize
      <3> TAKE n \in Names
      <3>1. files[n] \in ColumnFiles /\ Placed(files[n].chunks) /\ files[n].from <= ingests
        BY DEF IInv, Shape, FilesSound
      <3> QED BY <3>1, TableAssumption DEF ColumnFiles, Placed, IInv, Shape
    <2> QED BY <2>1 DEF TypeOK, IInv, Shape, SchemaKnown
  <1> QED BY <1>1, IInvAlways, PTL

\* However many ingests follow one another and wherever each of them is cut
\* short: while the schema stays, the newer files are on the left, but for a
\* column that could not be opened.
THEOREM GenerationsDescendAlways == Spec => []GenerationsDescend
PROOF
  <1>1. IInv => GenerationsDescend
    BY DEF IInv
  <1> QED BY <1>1, IInvAlways, PTL

\* A field is read with the type it was written with, while the schema under
\* which its column was written stays and its names differ.
THEOREM ReadAsWrittenAlways == Spec => []ReadAsWritten
PROOF
  <1>1. IInv => ReadAsWritten
    BY TypeByName DEF IInv, Shape, TypesKept, ReadAsWritten
  <1> QED BY <1>1, IInvAlways, PTL

-----------------------------------------------------------------------------
(* What a query shows after an ingest that did all its work.               *)

\* The columns such an ingest has come by hold what it gathered, and all of
\* them do when it is over.
CleanWritten ==
  clean # NoFile =>
    /\ clean \in CsvFiles /\ schema # Unreadable
    /\ job # Idle => job.columns = Gathered(clean, ingests)
    /\ Distinct(schema) =>
         \A c \in DOMAIN schema :
           job = Idle \/ c < job.next => files[schema[c].name] = Gathered(clean, ingests)[c]

\* What is shown is the answer of this table.
ShownFresh == shown # Nothing => job = Idle /\ shown = Result

\* A create_table that came to its end left the schema it was given, as far as
\* its columns have names.
CreatedKnown ==
  created = Unreadable \/ (created \in Schemas /\ schema = SubSeq(created, 1, LeadingNamed(created)))

Tidy == CleanWritten /\ ShownFresh /\ CreatedKnown

LEMMA InitTidy == Init => Tidy
PROOF
  BY DEF Init, Tidy, CleanWritten, ShownFresh, CreatedKnown

\* A query's answer depends on the schema and the files only.
LEMMA ResultStays ==
  ASSUME UNCHANGED <<schema, files>>
  PROVE  Result' = Result
PROOF
  BY DEF Result, Readable, Groups, Rows, Field, RowGroups, TypeOf

\* Another column is written as it was gathered.
LEMMA WriteColumnTidy ==
  ASSUME IInv, CleanWritten, WriteColumn
  PROVE  CleanWritten'
PROOF
  <1>1. /\ job # Idle /\ job.next <= Len(job.columns)
        /\ files' = [files EXCEPT ![Name] = job.columns[job.next]]
        /\ job' = [job EXCEPT !.next = @ + 1]
        /\ UNCHANGED <<schema, ingests, clean>>
    BY DEF WriteColumn
  <1>2. /\ schema # Unreadable /\ schema \in Seq([name : Names, type : Types])
        /\ Len(job.columns) = Len(schema)
        /\ job \in [columns : Seq(ColumnFiles), next : Nat, file : CsvFiles \cup {NoFile}]
        /\ job.next \in 1 .. (Len(job.columns) + 1)
        /\ files \in [Names -> ColumnFiles]
    BY <1>1 DEF IInv, Shape, JobFits
  <1>3. job.next \in DOMAIN schema /\ \A c \in DOMAIN schema : schema[c].name \in Names /\ c \in Nat
    <2>1. job.next \in DOMAIN schema
      BY <1>1, <1>2
    <2> QED BY <1>2, <2>1, SchemaColumn
  <1>4. job'.columns = job.columns /\ job'.next = job.next + 1 /\ job' # Idle
    <2>1. job'.columns = job.columns /\ job'.next = job.next + 1
      BY <1>1, <1>2
    <2> QED BY <1>2, <2>1 DEF Idle
  <1> SUFFICES ASSUME clean # NoFile
               PROVE  /\ clean \in CsvFiles
                      /\ job.columns = Gathered(clean, ingests)
                      /\ Distinct(schema) =>
                           \A c \in DOMAIN schema :
                             c < job.next + 1 =>
                               files'[schema[c].name] = Gathered(clean, ingests)[c]
    BY <1>1, <1>2, <1>4 DEF CleanWritten, Gathered, Accepted, Cells, Distinct
  <1>5. clean \in CsvFiles /\ job.columns = Gathered(clean, ingests)
    BY <1>1 DEF CleanWritten
  <1>6. ASSUME Distinct(schema), NEW c \in DOMAIN schema, c < job.next + 1
        PROVE  files'[schema[c].name] = Gathered(clean, ingests)[c]
    <2>1. CASE c = job.next
      BY <1>1, <1>2, <1>3, <1>5, <2>1 DEF Name
    <2>2. CASE c # job.next
      <3>1. c < job.next
        BY <1>2, <1>3, <1>6, <2>2
      <3>2. files[schema[c].name] = Gathered(clean, ingests)[c]
        BY <1>6, <3>1 DEF CleanWritten
      <3>3. schema[c].name # Name
        BY <1>3, <1>6, <2>2 DEF Distinct, IsInjective, Name
      <3> QED BY <1>1, <1>2, <1>3, <3>2, <3>3
    <2> QED BY <2>1, <2>2
  <1> QED BY <1>5, <1>6

\* Every step keeps them.
LEMMA NextKeepsTidy == IInv /\ Tidy /\ [Next]_vars => Tidy'
PROOF
  <1> SUFFICES ASSUME IInv, Tidy, [Next]_vars PROVE Tidy'
    OBVIOUS
  <1>1. CleanWritten /\ ShownFresh /\ CreatedKnown
    BY DEF Tidy
  <1>2. ASSUME NEW s \in Schemas, CreateTable(s) PROVE Tidy'
    <2>1. /\ clean' = NoFile /\ shown' = Nothing
          /\ \/ schema' = SubSeq(s, 1, LeadingNamed(s)) /\ created' = s
             \/ created' = Unreadable
      BY <1>2 DEF CreateTable
    <2> QED BY <2>1 DEF Tidy, CleanWritten, ShownFresh, CreatedKnown, LeadingNamed
  <1>3. ASSUME NEW f \in CsvFiles, BeginIngest(f) PROVE Tidy'
    <2>1. /\ schema # Unreadable /\ ingests' = ingests + 1
          /\ job' = [columns |-> Gathered(f, ingests + 1), next |-> 1, file |-> f]
          /\ clean' = f /\ shown' = Nothing
          /\ UNCHANGED <<schema, files, created>>
      BY <1>3 DEF BeginIngest
    <2>2. job' # Idle /\ job'.next = 1 /\ job'.columns = Gathered(f, ingests + 1)
      BY <2>1, TableAssumption DEF Idle
    <2>3. \A c \in DOMAIN schema : ~(c < 1)
      <3>1. schema \in Seq([name : Names, type : Types])
        BY <2>1 DEF IInv, Shape
      <3> QED BY <3>1
    <2>4. CleanWritten'
      BY <2>1, <2>2, <2>3 DEF CleanWritten, Gathered, Accepted, Cells
    <2> QED BY <1>1, <2>1, <2>4 DEF Tidy, ShownFresh, CreatedKnown
  <1>4. ASSUME WriteColumn PROVE Tidy'
    <2>1. job # Idle /\ UNCHANGED <<schema, shown, created>>
      BY <1>4 DEF WriteColumn
    <2> QED BY <1>1, <1>4, <2>1, WriteColumnTidy DEF Tidy, ShownFresh, CreatedKnown
  <1>5. ASSUME WriteColumnFails \/ Crash PROVE Tidy'
    <2>1. job # Idle /\ clean' = NoFile /\ UNCHANGED <<schema, shown, created>>
      BY <1>5 DEF WriteColumnFails, Crash
    <2> QED BY <1>1, <2>1 DEF Tidy, CleanWritten, ShownFresh, CreatedKnown
  <1>6. ASSUME EndIngest PROVE Tidy'
    <2>1. /\ job # Idle /\ job.next > Len(job.columns) /\ job' = Idle
          /\ UNCHANGED <<schema, files, shown, ingests, created, clean>>
      BY <1>6 DEF EndIngest
    <2>2. \A c \in DOMAIN schema : c < job.next
      <3>1. schema \in Seq([name : Names, type : Types]) /\ Len(job.columns) = Len(schema)
            /\ job.next \in Nat
        BY <2>1 DEF IInv, Shape, JobFits
      <3> QED BY <2>1, <3>1
    <2>3. CleanWritten'
      BY <1>1, <2>1, <2>2 DEF CleanWritten, Gathered, Accepted, Cells, Distinct
    <2> QED BY <1>1, <2>1, <2>3 DEF Tidy, ShownFresh, CreatedKnown
  <1>7. ASSUME Query PROVE Tidy'
    <2>1. /\ job = Idle /\ job' = job /\ shown' = Result
          /\ UNCHANGED <<schema, files, ingests, created, clean>>
      BY <1>7 DEF Query
    <2>2. CleanWritten'
      BY <1>1, <2>1 DEF CleanWritten, Gathered, Accepted, Cells, Distinct
    <2>3. ShownFresh'
      BY <2>1, ResultStays DEF ShownFresh
    <2> QED BY <1>1, <2>1, <2>2, <2>3 DEF Tidy, CreatedKnown
  <1>8. ASSUME UNCHANGED vars PROVE Tidy'
    <2>1. UNCHANGED <<schema, files, job, shown, ingests, created, clean>>
      BY <1>8 DEF vars
    <2>2. CleanWritten'
      BY <1>1, <2>1 DEF CleanWritten, Gathered, Accepted, Cells, Distinct
    <2>3. ShownFresh'
      BY <1>1, <2>1, ResultStays DEF ShownFresh
    <2> QED BY <1>1, <2>1, <2>2, <2>3 DEF Tidy, CreatedKnown
  <1> QED BY <1>2, <1>3, <1>4, <1>5, <1>6, <1>7, <1>8 DEF Next

LEMMA TidyAlways == Spec => []Tidy
PROOF
  BY InitIInv, NextKeepsIInv, InitTidy, NextKeepsTidy, PTL DEF Spec

\* The chunks of a column, laid end to end, are the column.
LEMMA FlattenChunked ==
  ASSUME NEW S, NEW cells \in Seq(S)
  PROVE  FlattenSeq(Chunked(cells)) = cells
PROOF
  <1> DEFINE n == Len(cells)
             q == ChunksIn(n)
             cut == [k \in 0 .. q |-> Min({ChunkSize * k, n})]
  <1>1. n \in Nat /\ ChunkSize \in Nat \ {0}
    BY TableAssumption
  <1>2. q \in Nat /\ n <= ChunkSize * q /\ ChunkSize * q \in Nat
    BY <1>1, ChunkCount
  <1>3. Chunked(cells) = [k \in 1 .. q |-> SubSeq(cells, ChunkSize * (k - 1) + 1, Min({ChunkSize * k, n}))]
    BY DEF Chunked, ChunksIn
  <1>4. ASSUME NEW k \in 1 .. q
        PROVE  /\ ChunkSize * (k - 1) \in Nat /\ ChunkSize * (k - 1) <= n
               /\ Min({ChunkSize * k, n}) \in Nat
               /\ Min({ChunkSize * k, n}) <= n
               /\ ChunkSize * (k - 1) <= Min({ChunkSize * k, n})
    <2>1. /\ ChunkSize * (k - 1) \in Nat /\ ChunkSize * (k - 1) + 1 <= n
          /\ Min({ChunkSize * k, n}) \in Nat
          /\ Min({ChunkSize * k, n}) <= n
          /\ Min({ChunkSize * k, n}) - ChunkSize * (k - 1) \in 1 .. ChunkSize
      BY <1>1, <1>4, ChunkBounds
    <2> QED BY <1>1, <2>1
  <1>5. ASSUME NEW a \in Nat, a <= n PROVE Min({a, n}) = a /\ Min({n}) = n
    <2>1. Min({a, n}) \in {a, n} /\ \A u \in {a, n} : Min({a, n}) <= u
      BY <1>1, LeastNumber
    <2>2. Min({n}) \in {n}
      BY <1>1, LeastNumber
    <2> QED BY <1>1, <1>5, <2>1, <2>2
  <1> HIDE DEF n, q
  <1>6. cut[0] = 0
    <2>1. ChunkSize * 0 = 0 /\ 0 \in 0 .. q /\ 0 <= n
      BY <1>1, <1>2
    <2> QED BY <1>5, <2>1
  <1>7. cut[q] = n
    <2>1. Min({ChunkSize * q, n}) \in {ChunkSize * q, n}
          /\ Min({ChunkSize * q, n}) <= n
          /\ \A u \in {ChunkSize * q, n} : Min({ChunkSize * q, n}) <= u
      BY <1>1, <1>2, LeastNumber
    <2>2. Min({ChunkSize * q, n}) = n
      BY <1>1, <1>2, <2>1
    <2> QED BY <1>2, <2>2
  <1>8. ASSUME NEW k \in 1 .. q
        PROVE  cut[k - 1] = ChunkSize * (k - 1) /\ cut[k] = Min({ChunkSize * k, n})
    <2>1. k - 1 \in 0 .. q /\ k \in 0 .. q
      BY <1>2
    <2>2. PICK a \in Nat : a = ChunkSize * (k - 1) /\ a <= n
      BY <1>4
    <2>3. cut[k - 1] = Min({a, n})
      BY <2>1, <2>2
    <2> QED BY <1>5, <2>1, <2>2, <2>3
  <1>9. cut \in [0 .. q -> 0 .. n]
    <2>1. ASSUME NEW k \in 0 .. q PROVE cut[k] \in 0 .. n
      <3>1. CASE k = 0
        BY <1>1, <1>6, <3>1
      <3>2. CASE k # 0
        <4>1. k \in 1 .. q
          BY <1>2, <3>2
        <4> QED BY <1>1, <1>4, <1>8, <4>1
      <3> QED BY <3>1, <3>2
    <2> QED BY <2>1
  <1>10. Chunked(cells) = [k \in 1 .. q |-> SubSeq(cells, cut[k - 1] + 1, cut[k])]
    BY <1>3, <1>8
  <1>11. \A k \in 1 .. q : cut[k - 1] <= cut[k]
    BY <1>4, <1>8
  <1> HIDE DEF cut
  <1>12. Pieces(Chunked(cells), cells, q, cut)
    BY <1>2, <1>6, <1>7, <1>9, <1>10, <1>11 DEF Pieces, n
  <1> QED BY <1>12, FlattenPieces

\* A chunk of a sequence that was cut: its part of it.
LEMMA ChunkOf ==
  ASSUME NEW S, NEW s \in Seq(S), NEW k \in 1 .. ChunksIn(Len(s))
  PROVE  LET a == ChunkFrom(k)
             b == ChunkTo(k, Len(s))
         IN  /\ a \in Nat /\ b \in Nat /\ a < b /\ b <= Len(s)
             /\ Chunked(s)[k] = [r \in 1 .. (b - a) |-> s[a + r]]
PROOF
  <1>1. PICK n \in Nat : n = Len(s)
    BY LenProperties
  <1> DEFINE a == ChunkFrom(k)
             b == ChunkTo(k, n)
  <1>2. a \in Nat /\ b \in Nat /\ a < b /\ b <= n
    <2>1. a \in Nat /\ a + 1 <= n /\ b \in Nat /\ b <= n /\ b - a \in 1 .. ChunkSize
      BY <1>1, ChunkBounds DEF ChunkFrom, ChunkTo
    <2> QED BY <2>1, TableAssumption
  <1>3. Chunked(s)[k] = SubSeq(s, a + 1, b)
    BY <1>1, ChunkedLength DEF ChunkFrom, ChunkTo
  <1> HIDE DEF a, b
  <1>4. SubSeq(s, a + 1, b) = [r \in 1 .. (b - a) |-> s[a + r]]
    BY <1>1, <1>2, Part
  <1> QED BY <1>1, <1>2, <1>3, <1>4 DEF a, b

\* There is a first column, and no column has fewer chunks than are paired.
LEMMA Paired ==
  ASSUME IInv, schema # Unreadable, schema # << >>
  PROVE  /\ RowGroups \in Nat /\ 1 \in DOMAIN schema
         /\ \A c \in DOMAIN schema :
              /\ schema[c].name \in Names
              /\ 1 .. RowGroups \subseteq DOMAIN files[schema[c].name].chunks
PROOF
  <1> DEFINE chunksOf(c) == files[schema[c].name].chunks
             lengths == {Len(chunksOf(c)) : c \in DOMAIN schema}
  <1>1. schema \in Seq([name : Names, type : Types])
    BY DEF IInv, Shape
  <1>2. \A c \in DOMAIN schema : schema[c].name \in Names
    BY <1>1, SchemaColumn
  <1>3. \A c \in DOMAIN schema : chunksOf(c) \in Seq(Seq(CellSet))
    BY <1>2 DEF IInv, Shape, ColumnFiles
  <1>4. 1 \in DOMAIN schema
    BY <1>1, EmptySeq, LenProperties
  <1> HIDE DEF chunksOf
  <1>5. \A c \in DOMAIN schema :
          Len(chunksOf(c)) \in Nat /\ DOMAIN chunksOf(c) = 1 .. Len(chunksOf(c))
    BY <1>3
  <1>6. lengths \in SUBSET Nat /\ lengths # {} /\ \A c \in DOMAIN schema : Len(chunksOf(c)) \in lengths
    BY <1>4, <1>5
  <1>7. RowGroups = Min(lengths)
    BY DEF RowGroups, chunksOf
  <1> HIDE DEF lengths
  <1>8. RowGroups \in Nat /\ \A c \in DOMAIN schema : RowGroups <= Len(chunksOf(c))
    BY <1>6, <1>7, LeastNumber
  <1>9. \A c \in DOMAIN schema : 1 .. RowGroups \subseteq DOMAIN chunksOf(c)
    BY <1>5, <1>8
  <1> QED BY <1>2, <1>4, <1>8, <1>9 DEF chunksOf

\* A query pairs the k-th chunks of the columns: these begin at the same row, and
\* those of one ingest end at the same.
LEMMA TidySteps == IInv /\ Tidy => RowsInStep
PROOF
  <1> SUFFICES ASSUME IInv, Tidy, shown.kind = "rows"
               PROVE  \A k \in DOMAIN shown.groups : \A r \in DOMAIN shown.groups[k] :
                        \A c \in DOMAIN schema :
                          LET cell   == shown.groups[k][r][c]
                              column == files[schema[c].name]
                          IN  /\ cell \notin {Zero, Garbage} => cell.row = ChunkSize * (k - 1) + r
                              /\ cell = Garbage => \/ column.from # files[schema[1].name].from
                                                   \/ column.type # TypeOf(schema[c].name)
    BY DEF RowsInStep
  <1>1. schema # Unreadable /\ schema # << >> /\ shown = [kind |-> "rows", groups |-> Groups]
    BY DEF Tidy, ShownFresh, Result, Nothing, Thrown, Endless
  <1>2. /\ RowGroups \in Nat /\ 1 \in DOMAIN schema
        /\ \A c \in DOMAIN schema :
             /\ schema[c].name \in Names
             /\ 1 .. RowGroups \subseteq DOMAIN files[schema[c].name].chunks
    BY <1>1, Paired
  <1> SUFFICES ASSUME NEW k \in 1 .. RowGroups,
                      NEW r \in DOMAIN files[schema[1].name].chunks[k],
                      NEW c \in DOMAIN schema
               PROVE  LET cell   == Field(c, k, r)
                          column == files[schema[c].name]
                      IN  /\ cell \notin {Zero, Garbage} => cell.row = ChunkSize * (k - 1) + r
                          /\ cell = Garbage => \/ column.from # files[schema[1].name].from
                                               \/ column.type # TypeOf(schema[c].name)
    BY <1>1 DEF Groups, Rows
  <1>3. PICK column, first, type : /\ column = files[schema[c].name]
                                   /\ first = files[schema[1].name]
                                   /\ type = TypeOf(schema[c].name)
    OBVIOUS
  <1>4. /\ column \in ColumnFiles /\ first \in ColumnFiles
        /\ Placed(column.chunks) /\ k \in DOMAIN column.chunks /\ k \in DOMAIN first.chunks
        /\ column.from = first.from => SameCuts(first.chunks, column.chunks)
    BY <1>2, <1>3 DEF IInv, Shape, FilesSound, CutAlike
  <1>5. /\ column.chunks[k] \in Seq(CellSet) /\ first.chunks[k] \in Seq(CellSet)
    BY <1>4 DEF ColumnFiles
  <1>6. \A q \in DOMAIN column.chunks[k] :
          /\ column.chunks[k][q] # Garbage
          /\ column.chunks[k][q] # Zero => column.chunks[k][q].row = ChunkSize * (k - 1) + q
    <2>1. \A q \in DOMAIN column.chunks[k] : column.chunks[k][q] \in CellSet
      BY <1>5
    <2> QED BY <1>4, <2>1, TableAssumption DEF Placed, CellSet
  <1>7. column.from = first.from => r \in DOMAIN column.chunks[k]
    <2>1. column.from = first.from => Len(first.chunks[k]) = Len(column.chunks[k])
      BY <1>4 DEF SameCuts
    <2> QED BY <1>3, <1>5, <2>1
  <1>8. Field(c, k, r) = IF type = "STRING" THEN Zero
                         ELSE IF column.type = type /\ r \in DOMAIN column.chunks[k]
                              THEN column.chunks[k][r] ELSE Garbage
    BY <1>3 DEF Field
  <1>9. Zero # Garbage
    BY TableAssumption
  <1> QED BY <1>3, <1>6, <1>7, <1>8, <1>9

\* What such an ingest has written is what a query shows.
LEMMA TidyShows == IInv /\ Tidy => CleanTableShown
PROOF
  <1> SUFFICES ASSUME IInv, Tidy, clean # NoFile, shown # Nothing, schema # << >>, Distinct(schema)
               PROVE  /\ shown.kind = "rows"
                      /\ FlattenSeq(shown.groups) =
                           IF clean.width = Len(schema)
                           THEN [r \in 1 .. clean.rows |->
                                  [c \in DOMAIN schema |->
                                    IF schema[c].type = "STRING" THEN Zero
                                    ELSE [file |-> ingests, row |-> r, col |-> c]]]
                           ELSE << >>
    BY DEF CleanTableShown
  <1>1. /\ clean \in CsvFiles /\ schema # Unreadable /\ shown = Result
        /\ \A c \in DOMAIN schema : files[schema[c].name] = Gathered(clean, ingests)[c]
    BY DEF Tidy, CleanWritten, ShownFresh
  <1>2. /\ schema \in Seq([name : Names, type : Types])
        /\ clean \in CsvFiles /\ ingests \in Nat
    BY <1>1, TableAssumption DEF IInv, Shape
  <1>3. PICK f \in CsvFiles, id \in Nat : f = clean /\ id = ingests
    BY <1>2
  <1>4. PICK N \in Nat : N = Accepted(f)
    BY TableAssumption DEF Accepted
  <1>5. PICK q \in Nat : q = ChunksIn(N)
    BY <1>4, ChunkCount
  <1> DEFINE cell(r, c) == [file |-> id, row |-> r, col |-> c]
             cells(c) == [r \in 1 .. N |-> cell(r, c)]
             row(r) == [c \in DOMAIN schema |-> IF schema[c].type = "STRING" THEN Zero ELSE cell(r, c)]
             rows == [r \in 1 .. N |-> row(r)]
  <1>6. ASSUME NEW c \in DOMAIN schema
        PROVE  /\ files[schema[c].name].whole /\ files[schema[c].name].type = schema[c].type
               /\ files[schema[c].name].chunks = Chunked(cells(c))
               /\ TypeOf(schema[c].name) = schema[c].type
    <2>1. files[schema[c].name] = Gathered(f, id)[c]
      BY <1>1, <1>6, <1>3
    <2>2. Gathered(f, id)[c] = [type |-> schema[c].type, from |-> id, whole |-> TRUE,
                                chunks |-> Chunked(Cells(f, id, c))]
      BY <1>6 DEF Gathered
    <2>3. Cells(f, id, c) = cells(c)
      BY <1>4 DEF Cells
    <2> HIDE DEF cells
    <2> QED BY <1>2, <1>6, <2>1, <2>2, <2>3, TypeByName
  <1>7. 1 \in DOMAIN schema
    BY <1>2, EmptySeq, LenProperties
  <1>8. shown = [kind |-> "rows", groups |-> Groups]
    BY <1>1, <1>6 DEF Result, Readable
  <1> HIDE DEF cell
  <1>9. \A c \in DOMAIN schema : cells(c) \in Seq({cell(r, c) : r \in 1 .. N}) /\ Len(cells(c)) = N
    <2> TAKE c \in DOMAIN schema
    <2>1. cells(c) \in [1 .. N -> {cell(r, c) : r \in 1 .. N}]
      OBVIOUS
    <2> HIDE DEF cells
    <2> QED BY <2>1, MappedSeq
  <1>10. rows \in Seq({row(r) : r \in 1 .. N}) /\ Len(rows) = N
    <2> HIDE DEF row
    <2>1. rows \in [1 .. N -> {row(r) : r \in 1 .. N}]
      OBVIOUS
    <2> HIDE DEF rows
    <2> QED BY <2>1, MappedSeq
  <1>11. \A c \in DOMAIN schema, r \in 1 .. N : cells(c)[r] = cell(r, c)
    OBVIOUS
  <1>12. \A r \in 1 .. N : rows[r] = row(r)
    OBVIOUS
  <1> HIDE DEF cells, rows
  <1>13. RowGroups = q
    <2>1. ASSUME NEW c \in DOMAIN schema PROVE Len(Chunked(cells(c))) = q
      <3>1. PICK s, S : s = cells(c) /\ S = {cell(r, c) : r \in 1 .. N}
        OBVIOUS
      <3>2. s \in Seq(S) /\ Len(s) = N
        BY <1>9, <2>1, <3>1
      <3> QED BY <1>5, <3>1, <3>2, ChunkedLength
    <2>2. {Len(files[schema[d].name].chunks) : d \in DOMAIN schema} = {q}
      BY <1>6, <1>7, <2>1
    <2>3. Min({q}) \in {q}
      BY LeastNumber
    <2> QED BY <2>2, <2>3 DEF RowGroups
  <1>14. ASSUME NEW k \in 1 .. q PROVE Rows(k) = Chunked(rows)[k]
    <2>1. PICK a, b : a = ChunkFrom(k) /\ b = ChunkTo(k, N)
      OBVIOUS
    <2>2. \A c \in DOMAIN schema :
            /\ a \in Nat /\ b \in Nat /\ a < b /\ b <= N
            /\ Chunked(cells(c))[k] = [r \in 1 .. (b - a) |-> cells(c)[a + r]]
      <3> TAKE c \in DOMAIN schema
      <3>1. PICK s, S : s = cells(c) /\ S = {cell(r, c) : r \in 1 .. N}
        OBVIOUS
      <3>2. s \in Seq(S) /\ Len(s) = N /\ k \in 1 .. ChunksIn(Len(s))
        BY <1>5, <1>9, <3>1
      <3>3. /\ a \in Nat /\ b \in Nat /\ a < b /\ b <= Len(s)
            /\ Chunked(s)[k] = [r \in 1 .. (b - a) |-> s[a + r]]
        BY <2>1, <3>2, ChunkOf
      <3> QED BY <3>1, <3>2, <3>3
    <2>3. Chunked(rows)[k] = [r \in 1 .. (b - a) |-> rows[a + r]]
      <3>1. PICK s, S : s = rows /\ S = {row(r) : r \in 1 .. N}
        OBVIOUS
      <3> HIDE DEF row
      <3>2. s \in Seq(S) /\ Len(s) = N /\ k \in 1 .. ChunksIn(Len(s))
        BY <1>5, <1>10, <3>1
      <3>3. Chunked(s)[k] = [r \in 1 .. (b - a) |-> s[a + r]]
        BY <2>1, <3>2, ChunkOf
      <3> QED BY <3>1, <3>3
    <2>4. a \in Nat /\ b \in Nat /\ a < b /\ b <= N /\ \A r \in 1 .. (b - a) : a + r \in 1 .. N
      <3>1. a \in Nat /\ b \in Nat /\ a < b /\ b <= N
        BY <1>7, <2>2
      <3> QED BY <3>1
    <2>5. ASSUME NEW c \in DOMAIN schema, NEW r \in 1 .. (b - a)
          PROVE  Field(c, k, r) = row(a + r)[c]
      <3>1. r \in DOMAIN Chunked(cells(c))[k] /\ Chunked(cells(c))[k][r] = cell(a + r, c)
        BY <1>11, <2>2, <2>4
      <3>2. Field(c, k, r) = IF schema[c].type = "STRING" THEN Zero ELSE Chunked(cells(c))[k][r]
        BY <1>6, <3>1 DEF Field
      <3> QED BY <3>1, <3>2
    <2>6. DOMAIN files[schema[1].name].chunks[k] = 1 .. (b - a)
      BY <1>6, <1>7, <2>2
    <2>7. Rows(k) = [r \in 1 .. (b - a) |-> [c \in DOMAIN schema |-> Field(c, k, r)]]
      BY <2>6 DEF Rows
    <2>8. \A r \in 1 .. (b - a) : [c \in DOMAIN schema |-> Field(c, k, r)] = row(a + r)
      <3> TAKE r \in 1 .. (b - a)
      <3>1. [c \in DOMAIN schema |-> Field(c, k, r)] = [c \in DOMAIN schema |-> row(a + r)[c]]
        BY <2>5
      <3> QED BY <3>1
    <2> HIDE DEF row
    <2>9. \A r \in 1 .. (b - a) : rows[a + r] = row(a + r)
      BY <1>12, <2>4
    <2> QED BY <2>3, <2>7, <2>8, <2>9
  <1> HIDE DEF row
  <1>15. Groups = Chunked(rows)
    <2>1. Groups = [k \in 1 .. q |-> Rows(k)]
      BY <1>13 DEF Groups
    <2>2. Chunked(rows) = [k \in 1 .. q |-> Chunked(rows)[k]]
      <3>1. DOMAIN Chunked(rows) = 1 .. q
        BY <1>5, <1>10, ChunkedLength
      <3>2. Chunked(rows) = [k \in DOMAIN Chunked(rows) |-> Chunked(rows)[k]]
        BY DEF Chunked
      <3> QED BY <3>1, <3>2
    <2>3. [k \in 1 .. q |-> Rows(k)] = [k \in 1 .. q |-> Chunked(rows)[k]]
      BY <1>14
    <2> QED BY <2>1, <2>2, <2>3
  <1>16. FlattenSeq(shown.groups) = rows
    <2>1. PICK s, S : s = rows /\ S = {row(r) : r \in 1 .. N}
      OBVIOUS
    <2>2. s \in Seq(S)
      BY <1>10, <2>1
    <2>3. FlattenSeq(Chunked(s)) = s
      BY <2>2, FlattenChunked
    <2> QED BY <1>8, <1>15, <2>1, <2>3
  <1>17. rows = IF clean.width = Len(schema)
                THEN [r \in 1 .. clean.rows |->
                       [c \in DOMAIN schema |->
                         IF schema[c].type = "STRING" THEN Zero
                         ELSE [file |-> ingests, row |-> r, col |-> c]]]
                ELSE << >>
    <2>1. CASE clean.width = Len(schema)
      <3>1. N = clean.rows
        BY <1>3, <1>4, <2>1 DEF Accepted
      <3> QED BY <1>3, <2>1, <3>1 DEF rows, row, cell
    <2>2. CASE clean.width # Len(schema)
      <3>1. N = 0
        BY <1>3, <1>4, <2>2 DEF Accepted
      <3> QED BY <2>2, <3>1 DEF rows
    <2> QED BY <2>1, <2>2
  <1> QED BY <1>8, <1>16, <1>17

\* A query goes on for ever only over the first columns of a schema that are
\* none at all.
LEMMA TidyEnds == IInv /\ Tidy => EndlessOnlyWithoutColumns
PROOF
  <1> SUFFICES ASSUME IInv, Tidy, shown = Endless
               PROVE  created \in {<< >>, Unreadable} \/ created[1].name = NoName
    BY DEF EndlessOnlyWithoutColumns
  <1>1. Endless # Nothing /\ Endless # Thrown /\ \A g : [kind |-> "rows", groups |-> g] # Endless
    <2>1. Endless.kind = "endless" /\ Nothing.kind = "none" /\ Thrown.kind = "throw"
      BY DEF Endless, Nothing, Thrown
    <2>2. \A g : [kind |-> "rows", groups |-> g].kind = "rows"
      OBVIOUS
    <2> QED BY <2>1, <2>2
  <1>2. shown = Result
    BY <1>1 DEF Tidy, ShownFresh
  <1>3. schema = << >>
    BY <1>1, <1>2 DEF Result
  <1>4. ASSUME created \in Schemas, SubSeq(created, 1, LeadingNamed(created)) = << >>
        PROVE  created = << >> \/ created[1].name = NoName
    <2>1. created \in Seq([name : Names \cup {NoName}, type : Types])
      BY <1>4, TableAssumption
    <2>2. /\ LeadingNamed(created) \in 0 .. Len(created)
          /\ LeadingNamed(created) = Len(created) \/ created[LeadingNamed(created) + 1].name = NoName
      BY <2>1, NamedColumns
    <2>3. Len(created) \in Nat /\ LeadingNamed(created) = 0
      BY <1>4, <2>1, <2>2
    <2>4. Len(created) = 0 => created = << >>
      BY <2>1
    <2> QED BY <2>2, <2>3, <2>4
  <1> QED BY <1>3, <1>4 DEF Tidy, CreatedKnown

\* After an ingest that did all its work SELECT * shows the rows of its file,
\* each field in its place and read with its type: for every history of
\* schemas, files, crashes and failures before it, and for every chunk size.
THEOREM CleanTableShownAlways == Spec => []CleanTableShown
PROOF
  BY IInvAlways, TidyAlways, TidyShows, PTL

\* Columns of different files are never out of step: row k of a query's answer
\* is made of the k-th good lines of files that were ingested, and a field is
\* read behind its chunk only beside a first column of another ingest.
THEOREM RowsInStepAlways == Spec => []RowsInStep
PROOF
  BY IInvAlways, TidyAlways, TidySteps, PTL

\* The loop of a query has no end only over a table that was created without
\* columns or with a first column without a name, or whose create_table was cut
\* short.
THEOREM EndlessOnlyWithoutColumnsAlways == Spec => []EndlessOnlyWithoutColumns
PROOF
  BY IInvAlways, TidyAlways, TidyEnds, PTL

-----------------------------------------------------------------------------
(* Ingest: one call of ingest_csv, line by line.                           *)

\* The table has one entry for each name of the schema.
LoaderShape ==
  /\ store = [name \in Range(ColumnNames) |-> store[name]]
  /\ nextCol \in Nat \ {0}
  /\ pc \in {"idle", "read", "write"}

\* Until the file is at its end no column of the table has been touched.
UntouchedWhileReading == pc = "read" => nextCol = 1 /\ store = before

\* The columns of a name.
Namesakes(c) == {d \in Loader!Cols : ColumnNames[d] = ColumnNames[c]}

\* While a call runs the column at hand has not been touched.
SoFar(c) ==
  LET name == ColumnNames[c]
      done == {d \in Namesakes(c) : d < nextCol}
  IN  /\ c \in done \ failed /\ (\A d \in Namesakes(c) : d > c => d >= nextCol) =>
           store[name] = columns[c]
      /\ (\A d \in Namesakes(c) : d >= nextCol) => store[name] = before[name]
      /\ store[name] \in {before[name], Partial} \cup {columns[d] : d \in done}
      /\ store[name] = Partial /\ before[name] # Partial => Namesakes(c) \cap failed # {}

\* What NewColumnsFirst says of one column.
FirstOf(c) ==
  LET name == ColumnNames[c]
      done == {d \in Namesakes(c) : d < nextCol}
  IN  /\ c \in done \ failed /\ (\A d \in Namesakes(c) : d > c => d > nextCol) =>
           store[name] = columns[c]
      /\ (\A d \in Namesakes(c) : d > nextCol) => store[name] = before[name]
      /\ store[name] \in {before[name], Partial} \cup {columns[d] : d \in done}
      /\ store[name] = Partial /\ before[name] # Partial =>
           Namesakes(c) \cap (failed \cup {nextCol}) # {}

ColumnsSoFar == pc # "idle" => \A c \in Loader!Cols : SoFar(c)

\* While a call runs it has not thrown.
NotThrownYet == pc # "idle" => outcome # "threw"

LoaderInv ==
  /\ LoaderShape /\ UntouchedWhileReading /\ ColumnsSoFar
  /\ NotThrownYet /\ Loader!NewColumnsFirst /\ Loader!ParseErrorKeepsTable

\* No column that was gathered looks like one that was written in part.
ColumnsWhole == pc = "write" => \A c \in Loader!Cols : columns[c] # Partial

LEMMA FirstOfEach == Loader!NewColumnsFirst <=> \A c \in Loader!Cols : FirstOf(c)
PROOF
  BY DEF Loader!NewColumnsFirst, FirstOf, Namesakes

\* Columns and names are as many, and no step changes them.
LEMMA ColumnsNamed ==
  /\ Loader!Cols = 1 .. Len(ColumnTypes) /\ Len(ColumnTypes) \in Nat
  /\ \A c \in Loader!Cols : c \in Nat \ {0} /\ c \in Namesakes(c) /\ ColumnNames[c] \in Range(ColumnNames)
PROOF
  <1>1. ColumnTypes \in Seq(STRING) /\ ColumnNames \in Seq(Names) /\ Len(ColumnNames) = Len(ColumnTypes)
    BY LoadsAssumption
  <1>2. Loader!Cols = 1 .. Len(ColumnTypes) /\ Len(ColumnTypes) \in Nat
    BY <1>1 DEF Loader!Cols
  <1>3. DOMAIN ColumnNames = Loader!Cols
    BY <1>1, <1>2
  <1> QED BY <1>2, <1>3 DEF Range, Namesakes

\* While no column has been touched there is nothing to say.
LEMMA NothingDone ==
  ASSUME nextCol = 1, store = before, NEW c \in Loader!Cols
  PROVE  SoFar(c) /\ FirstOf(c)
PROOF
  <1>1. \A d \in Namesakes(c) : ~(d < 1)
    BY ColumnsNamed DEF Namesakes
  <1> QED BY <1>1 DEF SoFar, FirstOf

\* The column at hand counts as untouched, or as the one a call ended at.
LEMMA SoFarFirst ==
  ASSUME nextCol \in Nat, NEW c \in Loader!Cols, SoFar(c)
  PROVE  FirstOf(c)
PROOF
  <1>1. \A d \in Namesakes(c) : d \in Nat /\ (d > nextCol => d >= nextCol)
    BY ColumnsNamed DEF Namesakes
  <1> QED BY <1>1 DEF SoFar, FirstOf

\* A new table is empty and no call has begun.
LEMMA LoaderInit ==
  Loader!Init => LoaderInv
PROOF
  <1> SUFFICES ASSUME Loader!Init PROVE LoaderInv
    OBVIOUS
  <1>1. store = [name \in Range(ColumnNames) |-> << >>]
        /\ before = store /\ nextCol = 1 /\ pc = "idle" /\ outcome = "none"
    BY DEF Loader!Init, Range, Loader!Range
  <1>2. Loader!NewColumnsFirst
    BY <1>1, NothingDone, FirstOfEach
  <1> QED
    BY <1>1, <1>2 DEF LoaderInv, LoaderShape, UntouchedWhileReading, ColumnsSoFar,
                      NotThrownYet, Loader!ParseErrorKeepsTable

\* What happens while the file is read changes neither the table nor which
\* column is written next, whatever becomes of the chunks.
LEMMA LineKeeps ==
  ASSUME LoaderInv, pc = "read", pc' \in {"read", "idle", "write"},
         UNCHANGED <<store, before, nextCol>>,
         pc' # "idle" => outcome' = outcome
  PROVE  LoaderInv'
PROOF
  <1>1. nextCol = 1 /\ store = before /\ LoaderShape
    BY DEF LoaderInv, UntouchedWhileReading
  <1>2. LoaderShape'
    BY <1>1 DEF LoaderShape
  <1>3. \A c \in Loader!Cols : SoFar(c)' /\ FirstOf(c)'
    <2>1. \A c \in Loader!Cols : \A d \in Namesakes(c) : ~(d < 1)
      BY ColumnsNamed DEF Namesakes
    <2> QED BY <1>1, <2>1 DEF SoFar, FirstOf, Namesakes, Loader!Cols
  <1>4. Loader!NewColumnsFirst' /\ ColumnsSoFar'
    <2>1. Loader!NewColumnsFirst' <=> \A c \in Loader!Cols' : FirstOf(c)'
      BY DEF Loader!NewColumnsFirst, FirstOf, Namesakes, Loader!Cols
    <2> QED BY <1>3, <2>1 DEF ColumnsSoFar, Loader!Cols
  <1> QED
    BY <1>1, <1>2, <1>4 DEF LoaderInv, UntouchedWhileReading,
                            NotThrownYet, Loader!ParseErrorKeepsTable

\* What becomes of the name of the column at hand, and of the other names,
\* when its turn is over: it was written, or its streams failed.
LEMMA TurnKeeps ==
  ASSUME LoaderShape, ColumnsSoFar, ColumnsWhole, NEW c \in Loader!Cols,
         pc = "write", nextCol \in Loader!Cols, nextCol' = nextCol + 1,
         UNCHANGED <<columns, before>>,
         \/ failed' = failed /\ store' = [store EXCEPT ![ColumnNames[nextCol]] = columns[nextCol]]
         \/ /\ failed' = failed \cup {nextCol}
            /\ store' = store \/ store' = [store EXCEPT ![ColumnNames[nextCol]] = Partial]
  PROVE  SoFar(c)'
PROOF
  <1> DEFINE n == nextCol
             name == ColumnNames[c]
             done == {d \in Namesakes(c) : d < n}
  <1>1. SoFar(c) /\ n \in Nat /\ name \in Range(ColumnNames) /\ ColumnNames[n] \in Range(ColumnNames)
    BY ColumnsNamed DEF ColumnsSoFar
  <1>2. \A d \in Namesakes(c) : d \in Nat
    BY ColumnsNamed DEF Namesakes
  <1>3. Namesakes(c)' = Namesakes(c)
    BY DEF Namesakes, Loader!Cols
  <1>4. c \in Namesakes(c)
    BY ColumnsNamed
  <1>5. CASE ColumnNames[n] # name
    <2>1. n \notin Namesakes(c)
      BY <1>5 DEF Namesakes
    <2>2. store'[name] = store[name]
      BY <1>1, <1>5 DEF LoaderShape
    <2>3. \A d \in Namesakes(c) : (d < n + 1 <=> d < n) /\ (d >= n + 1 <=> d >= n)
      BY <1>1, <1>2, <2>1
    <2>4. {d \in Namesakes(c) : d < n + 1} = done
      BY <2>3
    <2>5. Namesakes(c) \cap failed' = Namesakes(c) \cap failed
          /\ (c \in failed' <=> c \in failed)
      BY <1>4, <2>1
    <2> QED BY <1>1, <1>3, <2>2, <2>3, <2>4, <2>5 DEF SoFar
  <1>6. CASE ColumnNames[n] = name
    <2>1. n \in Namesakes(c)
      BY <1>6 DEF Namesakes
    <2>2. ~(\A d \in Namesakes(c) : d >= n + 1)
      BY <1>1, <2>1
    <2>3. c < n + 1 /\ (\A d \in Namesakes(c) : d > c => d >= n + 1) => c = n
      BY <1>1, <1>2, <1>4, <2>1
    <2>4. CASE failed' = failed /\ store' = [store EXCEPT ![ColumnNames[n]] = columns[n]]
      <3>1. store'[name] = columns[n]
        BY <1>1, <1>6, <2>4 DEF LoaderShape
      <3>2. columns[n] # Partial
        BY DEF ColumnsWhole
      <3>3. n \in {d \in Namesakes(c) : d < n + 1}
        BY <1>1, <2>1
      <3> QED BY <1>3, <2>2, <2>3, <3>1, <3>2, <3>3 DEF SoFar
    <2>5. CASE /\ failed' = failed \cup {n}
               /\ store' = store \/ store' = [store EXCEPT ![ColumnNames[n]] = Partial]
      <3>1. store'[name] \in {store[name], Partial}
        BY <1>1, <1>6, <2>5 DEF LoaderShape
      <3>2. c < n + 1 /\ (\A d \in Namesakes(c) : d > c => d >= n + 1) => c \in failed'
        BY <2>3, <2>5
      <3>3. n \in Namesakes(c) \cap failed'
        BY <2>1, <2>5
      <3>4. \A d \in done : d \in Namesakes(c) /\ d < n + 1
        BY <1>1, <1>2
      <3>5. store'[name] \in {before[name], Partial} \cup {columns[d] : d \in {e \in Namesakes(c) : e < n + 1}}
        BY <1>1, <3>1, <3>4 DEF SoFar
      <3> QED BY <1>3, <2>2, <3>2, <3>3, <3>5 DEF SoFar
    <2> QED BY <2>4, <2>5
  <1> QED BY <1>5, <1>6

\* The column at which the process died holds what it held, or part of it.
LEMMA CrashKeeps ==
  ASSUME LoaderShape, ColumnsSoFar, NEW c \in Loader!Cols,
         pc # "idle", nextCol' = nextCol, nextCol \in Nat,
         UNCHANGED <<columns, before, failed>>,
         \/ store' = store
         \/ nextCol \in Loader!Cols /\ store' = [store EXCEPT ![ColumnNames[nextCol]] = Partial]
  PROVE  FirstOf(c)'
PROOF
  <1> DEFINE name == ColumnNames[c]
  <1>1. SoFar(c) /\ name \in Range(ColumnNames)
    BY ColumnsNamed DEF ColumnsSoFar
  <1>2. Namesakes(c)' = Namesakes(c)
    BY DEF Namesakes, Loader!Cols
  <1>3. FirstOf(c)
    BY <1>1, SoFarFirst
  <1>4. CASE store'[name] = store[name]
    BY <1>2, <1>3, <1>4 DEF FirstOf
  <1>5. CASE store'[name] # store[name]
    <2>1. nextCol \in Namesakes(c) /\ store'[name] = Partial
      BY <1>1, <1>5 DEF LoaderShape, Namesakes
    <2>2. \A d \in Namesakes(c) : d \in Nat
      BY ColumnsNamed DEF Namesakes
    <2>3. ~(\A d \in Namesakes(c) : d > nextCol)
      BY <2>1, <2>2
    <2>4. c < nextCol => ~(\A d \in Namesakes(c) : d > c => d > nextCol)
      BY <2>1, <2>2
    <2> QED BY <1>2, <2>1, <2>3, <2>4 DEF FirstOf
  <1> QED BY <1>4, <1>5

\* Every step of ingest_csv, and every way it is cut short, keeps the
\* invariant.
LEMMA LoaderKeeps ==
  LoaderInv /\ ColumnsWhole /\ [Loader!Next]_(Loader!vars) => LoaderInv'
PROOF
  <1> SUFFICES ASSUME LoaderInv, ColumnsWhole, [Loader!Next]_(Loader!vars) PROVE LoaderInv'
    OBVIOUS
  <1>1. LoaderShape /\ Loader!NewColumnsFirst /\ Loader!ParseErrorKeepsTable /\ ColumnsSoFar
        /\ NotThrownYet /\ nextCol \in Nat \ {0}
    BY DEF LoaderInv, LoaderShape
  <1>2. Loader!Cols = 1 .. Len(ColumnTypes) /\ Len(ColumnTypes) \in Nat /\ Loader!Cols' = Loader!Cols
    BY ColumnsNamed DEF Loader!Cols
  <1>3. Loader!NewColumnsFirst' <=> \A c \in Loader!Cols : FirstOf(c)'
    BY DEF Loader!NewColumnsFirst, FirstOf, Namesakes, Loader!Cols
  <1>4. ASSUME Loader!Start PROVE LoaderInv'
    <2>1. store' = store /\ before' = store /\ nextCol' = 1 /\ pc' = "read"
          /\ outcome' = "none"
      BY <1>4 DEF Loader!Start
    <2>2. \A c \in Loader!Cols : SoFar(c)' /\ FirstOf(c)'
      <3>1. \A c \in Loader!Cols : \A d \in Namesakes(c) : ~(d < 1)
        BY ColumnsNamed DEF Namesakes
      <3> QED BY <2>1, <3>1 DEF SoFar, FirstOf, Namesakes, Loader!Cols
    <2> QED
      BY <1>1, <1>2, <1>3, <2>1, <2>2 DEF LoaderInv, LoaderShape, UntouchedWhileReading,
                              ColumnsSoFar, NotThrownYet, Loader!ParseErrorKeepsTable
  <1>5. ASSUME Loader!SkipLine \/ Loader!GoodLine \/ Loader!BadLine \/ Loader!EndOfFile PROVE LoaderInv'
    <2>1. pc = "read" /\ pc' \in {"read", "idle", "write"}
          /\ UNCHANGED <<store, before, nextCol>>
          /\ (pc' # "idle" => outcome' = outcome)
      BY <1>5 DEF Loader!SkipLine, Loader!GoodLine, Loader!BadLine, Loader!EndOfFile,
                  Loader!ReadLine
    <2> QED BY <2>1, LineKeeps
  <1>6. ASSUME Loader!WriteColumn \/ Loader!WriteColumnFails PROVE LoaderInv'
    <2>1. /\ pc = "write" /\ pc' = pc /\ nextCol \in Loader!Cols /\ nextCol' = nextCol + 1
          /\ UNCHANGED <<columns, before, outcome>>
          /\ \/ failed' = failed /\ store' = [store EXCEPT ![ColumnNames[nextCol]] = columns[nextCol]]
             \/ /\ failed' = failed \cup {nextCol}
                /\ store' = store \/ store' = [store EXCEPT ![ColumnNames[nextCol]] = Partial]
      BY <1>1, <1>2, <1>6 DEF Loader!WriteColumn, Loader!WriteColumnFails
    <2>2. \A c \in Loader!Cols : SoFar(c)'
      BY <1>1, <2>1, TurnKeeps
    <2>3. \A c \in Loader!Cols : FirstOf(c)'
      <3>1. nextCol' \in Nat
        BY <1>1, <2>1
      <3>2. \A c \in Loader!Cols : \A d \in Namesakes(c) : d \in Nat /\ (d > nextCol' => d >= nextCol')
        BY <3>1, ColumnsNamed DEF Namesakes
      <3>3. \A c : Namesakes(c)' = Namesakes(c)
        BY DEF Namesakes, Loader!Cols
      <3> QED BY <2>2, <3>2, <3>3 DEF SoFar, FirstOf
    <2>4. LoaderShape'
      BY <1>1, <2>1 DEF LoaderShape
    <2> QED
      BY <1>1, <1>2, <1>3, <2>1, <2>2, <2>3, <2>4 DEF LoaderInv, UntouchedWhileReading, ColumnsSoFar,
                              NotThrownYet, Loader!ParseErrorKeepsTable
  <1>7. ASSUME Loader!WriteThrows \/ Loader!AllWritten PROVE LoaderInv'
    <2>1. pc' = "idle" /\ outcome' # "threw" /\ UNCHANGED <<store, columns, before, failed, nextCol>>
      BY <1>7 DEF Loader!WriteThrows, Loader!AllWritten
    <2>2. Loader!NewColumnsFirst'
      BY <1>1, <2>1 DEF Loader!NewColumnsFirst, Loader!Cols
    <2> QED
      BY <1>1, <2>1, <2>2 DEF LoaderInv, LoaderShape, UntouchedWhileReading, ColumnsSoFar,
                        NotThrownYet, Loader!ParseErrorKeepsTable
  <1>8. ASSUME Loader!Crash PROVE LoaderInv'
    <2>1. /\ pc # "idle" /\ pc' = "idle" /\ outcome' # "threw"
          /\ UNCHANGED <<columns, before, failed, nextCol>>
          /\ \/ store' = store
             \/ nextCol \in Loader!Cols /\ store' = [store EXCEPT ![ColumnNames[nextCol]] = Partial]
      BY <1>1, <1>2, <1>8 DEF Loader!Crash
    <2>2. Loader!NewColumnsFirst'
      BY <1>1, <1>3, <2>1, CrashKeeps
    <2>3. LoaderShape'
      BY <1>1, <2>1 DEF LoaderShape
    <2> QED
      BY <2>1, <2>2, <2>3 DEF LoaderInv, UntouchedWhileReading, ColumnsSoFar,
                              NotThrownYet, Loader!ParseErrorKeepsTable
  <1>9. CASE UNCHANGED Loader!vars
    <2>1. UNCHANGED <<store, columns, before, failed, nextCol, pc, outcome>>
      BY <1>9 DEF Loader!vars
    <2>2. Loader!NewColumnsFirst' /\ ColumnsSoFar'
      BY <1>1, <2>1 DEF Loader!NewColumnsFirst, ColumnsSoFar, SoFar, Namesakes, Loader!Cols
    <2> QED
      BY <2>1, <2>2 DEF LoaderInv, LoaderShape, UntouchedWhileReading,
                        NotThrownYet, Loader!ParseErrorKeepsTable
  <1> QED BY <1>4, <1>5, <1>6, <1>7, <1>8, <1>9 DEF Loader!Next

\* What the buffers make of row n of the file: the values of a STRING column are not stored.
Stored(c, n) == IF ColumnTypes[c] = "STRING" THEN Garbage ELSE n

StoredRows(c) == [n \in 1 .. accepted |-> Stored(c, n)]

\* The row before which chunk k + 1 begins.
CutAfter(k) == IF ChunkSize * k <= accepted THEN ChunkSize * k ELSE accepted

\* While the file is read the chunks set aside are full and the buffer goes on where they end.
Gathering ==
  pc = "read" =>
    /\ rowInChunk \in 0 .. (ChunkSize - 1) /\ accepted \in Nat
    /\ DOMAIN columns = Loader!Cols /\ DOMAIN active = Loader!Cols
    /\ \A c \in Loader!Cols :
         /\ Len(columns[c]) \in Nat
         /\ columns[c] = [k \in 1 .. Len(columns[c]) |->
                            [r \in 1 .. ChunkSize |-> Stored(c, ChunkSize * (k - 1) + r)]]
         /\ accepted = ChunkSize * Len(columns[c]) + rowInChunk
         /\ active[c] = [r \in 1 .. ChunkSize |->
                           IF r <= rowInChunk THEN Stored(c, ChunkSize * Len(columns[c]) + r)
                           ELSE Garbage]

\* From the end of the file on the columns have the rows of it.
AllGathered ==
  pc = "write" \/ outcome = "ok" =>
    /\ accepted \in Nat
    /\ \A c \in Loader!Cols :
         /\ Len(columns[c]) \in Nat
         /\ columns[c] = [k \in 1 .. Len(columns[c]) |->
                            SubSeq(StoredRows(c), CutAfter(k - 1) + 1, CutAfter(k))]
         /\ CutAfter(Len(columns[c])) = accepted
         /\ Len(columns[c]) > 0 => ChunkSize * (Len(columns[c]) - 1) < accepted

\* A call returns when every column is written.
ReturnsAtEnd ==
  /\ pc # "idle" => outcome = "none"
  /\ outcome = "ok" => nextCol > Len(ColumnTypes)

Exactness == Gathering /\ AllGathered /\ ReturnsAtEnd

\* Rows in a row.
LEMMA RowsBetween ==
  ASSUME accepted \in Nat
  PROVE  \A c : \A a, b \in Nat :
           a <= b /\ b <= accepted =>
             SubSeq(StoredRows(c), a + 1, b) = [r \in 1 .. (b - a) |-> Stored(c, a + r)]
PROOF
  <1> SUFFICES ASSUME NEW c, NEW a \in Nat, NEW b \in Nat, a <= b, b <= accepted
               PROVE  SubSeq(StoredRows(c), a + 1, b) = [r \in 1 .. (b - a) |-> Stored(c, a + r)]
    OBVIOUS
  <1> DEFINE S == Nat \cup {Garbage}
             piece == SubSeq(StoredRows(c), a + 1, b)
  <1>1. StoredRows(c) \in Seq(S) /\ Len(StoredRows(c)) = accepted
        /\ \A n \in 1 .. accepted : StoredRows(c)[n] = Stored(c, n)
    <2>1. \A n \in 1 .. accepted : Stored(c, n) \in S
      BY DEF Stored
    <2> QED BY <2>1 DEF StoredRows
  <1>2. a + 1 \in 1 .. (accepted + 1) /\ b \in Nat
    OBVIOUS
  <1>3. \A n \in (a + 1) .. b : StoredRows(c)[n] \in S
    BY <1>1
  <1>4. /\ piece \in Seq(S) /\ Len(piece) = b - a
        /\ \A r \in 1 .. (b - a) : piece[r] = StoredRows(c)[a + 1 + r - 1]
    BY <1>1, <1>2, <1>3, SubSeqProperties
  <1>5. \A r \in 1 .. (b - a) : a + 1 + r - 1 = a + r /\ a + r \in 1 .. accepted
    OBVIOUS
  <1> HIDE DEF piece
  <1>6. \A r \in 1 .. (b - a) : piece[r] = Stored(c, a + r)
    BY <1>1, <1>4, <1>5
  <1>7. piece = [r \in 1 .. Len(piece) |-> piece[r]]
    BY <1>4
  <1> QED BY <1>4, <1>6, <1>7 DEF piece

\* A good line is one more row in the buffer, or the last of a chunk.
LEMMA GoodLineGathers ==
  ASSUME Gathering, Loader!GoodLine
  PROVE  Gathering'
PROOF
  <1>1. /\ pc = "read" /\ pc' = "read" /\ accepted' = accepted + 1
        /\ IF rowInChunk + 1 = ChunkSize
           THEN /\ columns' = [c \in Loader!Cols |-> Append(columns[c], Loader!Filled[c])]
                /\ active' = [c \in Loader!Cols |-> Loader!FreshBuffer]
                /\ rowInChunk' = 0
           ELSE /\ active' = Loader!Filled
                /\ rowInChunk' = rowInChunk + 1
                /\ UNCHANGED columns
    BY DEF Loader!GoodLine, Loader!ReadLine
  <1>2. /\ rowInChunk \in 0 .. (ChunkSize - 1) /\ accepted \in Nat /\ ChunkSize \in Nat \ {0}
        /\ DOMAIN columns = Loader!Cols /\ DOMAIN active = Loader!Cols
    BY <1>1, TableAssumption DEF Gathering
  <1>3. ASSUME NEW c \in Loader!Cols
        PROVE  Loader!Filled[c] = [r \in 1 .. ChunkSize |->
                              IF r <= rowInChunk + 1 THEN Stored(c, ChunkSize * Len(columns[c]) + r)
                              ELSE Garbage]
    <2> DEFINE offset == ChunkSize * Len(columns[c])
    <2>1. /\ accepted = offset + rowInChunk /\ offset \in Int
          /\ active[c] = [r \in 1 .. ChunkSize |->
                            IF r <= rowInChunk THEN Stored(c, offset + r) ELSE Garbage]
      <3>1. /\ Len(columns[c]) \in Nat /\ accepted = offset + rowInChunk
            /\ active[c] = [r \in 1 .. ChunkSize |->
                              IF r <= rowInChunk THEN Stored(c, offset + r) ELSE Garbage]
        BY <1>1, <1>3 DEF Gathering
      <3>2. offset \in Int
        BY <1>2, <3>1
      <3> HIDE DEF offset
      <3> QED BY <3>1, <3>2
    <2>2. Loader!Filled[c] = IF ColumnTypes[c] = "STRING" THEN active[c]
                      ELSE [active[c] EXCEPT ![rowInChunk + 1] = accepted + 1]
      BY <1>3 DEF Loader!Filled
    <2> HIDE DEF offset
    <2>3. CASE ColumnTypes[c] = "STRING"
      <3>1. \A n : Stored(c, n) = Garbage
        BY <2>3 DEF Stored
      <3> QED BY <2>1, <2>2, <2>3, <3>1 DEF offset
    <2>4. CASE ColumnTypes[c] # "STRING"
      <3>1. \A n : Stored(c, n) = n
        BY <2>4 DEF Stored
      <3>2. accepted + 1 = offset + (rowInChunk + 1)
        BY <1>2, <2>1
      <3>3. \A r \in 1 .. ChunkSize :
              r <= rowInChunk + 1 <=> (r = rowInChunk + 1 \/ r <= rowInChunk)
        BY <1>2
      <3>4. Loader!Filled[c] = [r \in 1 .. ChunkSize |->
                           IF r = rowInChunk + 1 THEN Stored(c, offset + r)
                           ELSE IF r <= rowInChunk THEN Stored(c, offset + r) ELSE Garbage]
        <4>1. Loader!Filled[c] = [r \in 1 .. ChunkSize |->
                             IF r = rowInChunk + 1 THEN accepted + 1 ELSE active[c][r]]
          BY <2>1, <2>2, <2>4
        <4>2. Stored(c, offset + (rowInChunk + 1)) = accepted + 1
          BY <3>1, <3>2
        <4>3. \A r \in 1 .. ChunkSize :
                active[c][r] = IF r <= rowInChunk THEN Stored(c, offset + r) ELSE Garbage
          BY <2>1
        <4> QED BY <4>1, <4>2, <4>3
      <3> QED BY <3>3, <3>4 DEF offset
    <2> QED BY <2>3, <2>4
  <1>4. CASE rowInChunk + 1 = ChunkSize
    <2>1. ASSUME NEW c \in Loader!Cols
          PROVE  /\ Len(columns'[c]) \in Nat
                 /\ columns'[c] = [k \in 1 .. Len(columns'[c]) |->
                                     [r \in 1 .. ChunkSize |-> Stored(c, ChunkSize * (k - 1) + r)]]
                 /\ accepted' = ChunkSize * Len(columns'[c]) + rowInChunk'
                 /\ active'[c] = [r \in 1 .. ChunkSize |->
                                   IF r <= rowInChunk' THEN Stored(c, ChunkSize * Len(columns'[c]) + r)
                                   ELSE Garbage]
      <3> DEFINE full == columns[c]
                 m == Len(full)
                 Chunk(k) == [r \in 1 .. ChunkSize |-> Stored(c, ChunkSize * (k - 1) + r)]
      <3>1. m \in Nat /\ full = [k \in 1 .. m |-> Chunk(k)] /\ accepted = ChunkSize * m + rowInChunk
        BY <1>1, <2>1 DEF Gathering
      <3>2. Loader!Filled[c] = Chunk(m + 1)
        <4>1. ChunkSize * (m + 1 - 1) = ChunkSize * m
          BY <1>2, <3>1
        <4>2. \A r \in 1 .. ChunkSize : r <= rowInChunk + 1
          BY <1>2, <1>4
        <4> QED BY <1>3, <2>1, <4>1, <4>2
      <3>3. columns'[c] = Append(full, Chunk(m + 1))
        BY <1>1, <1>4, <2>1, <3>2
      <3> HIDE DEF Chunk, full, m
      <3>4. Append(full, Chunk(m + 1)) = [k \in 1 .. (m + 1) |-> Chunk(k)]
        BY <3>1
      <3>5. Len(columns'[c]) = m + 1
        BY <3>1, <3>3, <3>4
      <3>6. accepted + 1 = ChunkSize * (m + 1) + 0
        BY <1>2, <1>4, <3>1
      <3>7. active'[c] = [r \in 1 .. ChunkSize |-> Garbage] /\ rowInChunk' = 0
        BY <1>1, <1>4, <2>1 DEF Loader!FreshBuffer
      <3>8. \A r \in 1 .. ChunkSize : ~(r <= 0)
        BY <1>2
      <3> QED BY <1>1, <3>1, <3>3, <3>4, <3>5, <3>6, <3>7, <3>8 DEF Chunk
    <2>2. rowInChunk' \in 0 .. (ChunkSize - 1) /\ accepted' \in Nat
          /\ DOMAIN columns' = Loader!Cols /\ DOMAIN active' = Loader!Cols /\ Loader!Cols' = Loader!Cols
      BY <1>1, <1>2, <1>4 DEF Loader!Cols
    <2> QED BY <1>1, <2>1, <2>2 DEF Gathering, Stored
  <1>5. CASE rowInChunk + 1 # ChunkSize
    <2>1. active' = Loader!Filled /\ rowInChunk' = rowInChunk + 1 /\ columns' = columns
      BY <1>1, <1>5
    <2>2. rowInChunk' \in 0 .. (ChunkSize - 1) /\ accepted' \in Nat
          /\ DOMAIN columns' = Loader!Cols /\ DOMAIN active' = Loader!Cols /\ Loader!Cols' = Loader!Cols
      BY <1>1, <1>2, <1>5, <2>1 DEF Loader!Cols, Loader!Filled
    <2>3. ASSUME NEW c \in Loader!Cols
          PROVE  /\ Len(columns[c]) \in Nat
                 /\ columns[c] = [k \in 1 .. Len(columns[c]) |->
                                    [r \in 1 .. ChunkSize |-> Stored(c, ChunkSize * (k - 1) + r)]]
                 /\ accepted + 1 = ChunkSize * Len(columns[c]) + (rowInChunk + 1)
      <3>1. /\ Len(columns[c]) \in Nat
            /\ columns[c] = [k \in 1 .. Len(columns[c]) |->
                               [r \in 1 .. ChunkSize |-> Stored(c, ChunkSize * (k - 1) + r)]]
            /\ accepted = ChunkSize * Len(columns[c]) + rowInChunk
        BY <1>1, <2>3 DEF Gathering
      <3>2. PICK b \in Int : b = ChunkSize * Len(columns[c])
        BY <1>2, <3>1
      <3>3. accepted + 1 = b + (rowInChunk + 1)
        BY <1>2, <3>1, <3>2
      <3> QED BY <3>1, <3>2, <3>3
    <2> QED BY <1>1, <1>3, <2>1, <2>2, <2>3 DEF Gathering, Stored
  <1> QED BY <1>4, <1>5

\* At the end of the file the rest becomes a chunk, if there is one, and the
\* chunks together are the rows that were accepted.
LEMMA EndOfFileGathered ==
  ASSUME Gathering, Loader!EndOfFile, NEW c \in Loader!Cols
  PROVE  /\ accepted \in Nat /\ Len(columns'[c]) \in Nat
         /\ columns'[c] = [k \in 1 .. Len(columns'[c]) |->
                             SubSeq(StoredRows(c), CutAfter(k - 1) + 1, CutAfter(k))]
         /\ CutAfter(Len(columns'[c])) = accepted
         /\ Len(columns'[c]) > 0 => ChunkSize * (Len(columns'[c]) - 1) < accepted
PROOF
  <1> DEFINE full == columns[c]
             Piece(k) == SubSeq(StoredRows(c), CutAfter(k - 1) + 1, CutAfter(k))
  <1>1. /\ pc = "read"
        /\ columns' = [d \in Loader!Cols |-> IF rowInChunk = 0 THEN columns[d]
                                      ELSE Append(columns[d], SubSeq(active[d], 1, rowInChunk))]
    BY DEF Loader!EndOfFile
  <1>2. /\ rowInChunk \in 0 .. (ChunkSize - 1) /\ accepted \in Nat /\ ChunkSize \in Nat \ {0}
    BY <1>1, TableAssumption DEF Gathering
  <1>3. \A a, b \in Nat :
          a <= b /\ b <= accepted =>
            SubSeq(StoredRows(c), a + 1, b) = [r \in 1 .. (b - a) |-> Stored(c, a + r)]
    <2>1. accepted \in Nat
      BY <1>2
    <2> QED BY <2>1, RowsBetween, Zenon
  <1>4. PICK m : m = Len(full)
    OBVIOUS
  <1>5. /\ m \in Nat /\ accepted = ChunkSize * m + rowInChunk
        /\ full = [k \in 1 .. m |-> [r \in 1 .. ChunkSize |-> Stored(c, ChunkSize * (k - 1) + r)]]
        /\ active[c] = [r \in 1 .. ChunkSize |->
                          IF r <= rowInChunk THEN Stored(c, ChunkSize * m + r) ELSE Garbage]
    BY <1>1, <1>4 DEF Gathering
  <1>6. columns'[c] = IF rowInChunk = 0 THEN full ELSE Append(full, SubSeq(active[c], 1, rowInChunk))
    BY <1>1
  <1> HIDE DEF full
  <1>7. /\ ChunkSize * m \in Nat /\ ChunkSize * m <= accepted
        /\ ChunkSize * (m + 1) = ChunkSize * m + ChunkSize
        /\ CutAfter(m) = ChunkSize * m
    <2>1. ChunkSize * m \in Nat /\ ChunkSize * (m + 1) = ChunkSize * m + ChunkSize
      BY <1>5, ChunkEnds
    <2> QED BY <1>2, <1>5, <2>1 DEF CutAfter
  <1>8. ASSUME NEW k \in 1 .. m
        PROVE  full[k] = Piece(k)
    <2>1. k \in Nat /\ k - 1 \in Nat /\ k <= m /\ k - 1 <= m /\ k - 1 + 1 = k
      BY <1>5
    <2>2. /\ ChunkSize * k \in Nat /\ ChunkSize * (k - 1) \in Nat
          /\ ChunkSize * k = ChunkSize * (k - 1) + ChunkSize
          /\ ChunkSize * k <= ChunkSize * m /\ ChunkSize * (k - 1) <= ChunkSize * m
      BY <1>5, <2>1, ChunkEnds
    <2>3. CutAfter(k) = ChunkSize * k /\ CutAfter(k - 1) = ChunkSize * (k - 1)
      BY <1>2, <1>7, <2>2 DEF CutAfter
    <2>4. Piece(k) = [r \in 1 .. (ChunkSize * k - ChunkSize * (k - 1)) |->
                        Stored(c, ChunkSize * (k - 1) + r)]
      <3>1. PICK a, b \in Nat : a = ChunkSize * (k - 1) /\ b = ChunkSize * k
        BY <2>2
      <3>2. a <= b /\ b <= accepted
        BY <1>2, <1>7, <2>2, <3>1
      <3>3. SubSeq(StoredRows(c), a + 1, b) = [r \in 1 .. (b - a) |-> Stored(c, a + r)]
        BY <1>3, <3>2
      <3> QED BY <2>3, <3>1, <3>3
    <2>5. ChunkSize * k - ChunkSize * (k - 1) = ChunkSize
      BY <1>2, <2>2
    <2>6. full[k] = [r \in 1 .. ChunkSize |-> Stored(c, ChunkSize * (k - 1) + r)]
      BY <1>5
    <2> QED BY <2>4, <2>5, <2>6
  <1>9. full = [k \in 1 .. m |-> Piece(k)]
    <2>1. full = [k \in 1 .. m |-> full[k]]
      BY <1>5
    <2> HIDE DEF Piece
    <2> QED BY <1>8, <2>1
  <1>10. CASE rowInChunk = 0
    <2>1. columns'[c] = full /\ Len(columns'[c]) = m
      BY <1>6, <1>10, <1>4
    <2>2. CutAfter(m) = accepted
      BY <1>2, <1>5, <1>7, <1>10
    <2>3. m > 0 => ChunkSize * (m - 1) < accepted
      <3>1. SUFFICES ASSUME m > 0 PROVE ChunkSize * (m - 1) < accepted
        OBVIOUS
      <3>2. m - 1 \in Nat /\ m - 1 + 1 = m
        BY <1>5, <3>1
      <3>3. ChunkSize * m = ChunkSize * (m - 1) + ChunkSize /\ ChunkSize * (m - 1) \in Nat
        BY <3>2, ChunkEnds
      <3> QED BY <1>2, <1>7, <3>3
    <2> QED BY <1>2, <1>5, <1>9, <2>1, <2>2, <2>3
  <1>11. CASE rowInChunk # 0
    <2>1. rowInChunk \in 1 .. ChunkSize
      BY <1>2, <1>11
    <2>2. PICK n \in Nat : n = m + 1
      BY <1>5
    <2>3. n - 1 = m /\ ~(ChunkSize * n <= accepted) /\ CutAfter(n) = accepted
      <3>1. n - 1 = m /\ ChunkSize * n = ChunkSize * m + ChunkSize
        BY <1>5, <1>7, <2>2
      <3>2. ~(ChunkSize * n <= accepted)
        BY <1>2, <1>5, <1>7, <3>1
      <3> QED BY <3>1, <3>2 DEF CutAfter
    <2>4. SubSeq(active[c], 1, rowInChunk) = [r \in 1 .. rowInChunk |-> Stored(c, ChunkSize * m + r)]
      <3>1. \A r \in 1 .. rowInChunk : r \in 1 .. ChunkSize /\ r <= rowInChunk
        BY <1>2
      <3>2. SubSeq(active[c], 1, rowInChunk) = [r \in 1 .. rowInChunk |-> active[c][r]]
        BY <1>2, <1>5, <2>1
      <3> QED BY <1>5, <3>1, <3>2
    <2>5. Piece(n) = [r \in 1 .. rowInChunk |-> Stored(c, ChunkSize * m + r)]
      <3>1. PICK a, b \in Nat : a = ChunkSize * m /\ b = accepted
        BY <1>2, <1>7
      <3>2. accepted = ChunkSize * m + rowInChunk /\ rowInChunk \in Nat
        BY <1>2, <1>5
      <3>3. a <= b /\ b <= accepted
        BY <3>1, <3>2
      <3>4. b - a = rowInChunk
        BY <3>1, <3>2
      <3>5. SubSeq(StoredRows(c), a + 1, b) = [r \in 1 .. (b - a) |-> Stored(c, a + r)]
        BY <1>3, <3>3
      <3>6. Piece(n) = SubSeq(StoredRows(c), a + 1, b)
        BY <1>7, <2>3, <3>1
      <3> HIDE DEF Piece
      <3> QED BY <3>1, <3>4, <3>5, <3>6
    <2>6. columns'[c] = Append(full, Piece(n))
      BY <1>6, <1>11, <2>4, <2>5
    <2> HIDE DEF Piece
    <2>7. m \in Nat
      BY <1>5
    <2>8. Append(full, Piece(n)) = [k \in 1 .. n |-> Piece(k)]
      BY <1>9, <2>2, <2>7
    <2>9. columns'[c] = [k \in 1 .. n |-> Piece(k)]
      BY <2>6, <2>8
    <2>10. Len(columns'[c]) = n
      BY <2>2, <2>9
    <2>11. ChunkSize * (n - 1) < accepted
      BY <1>2, <1>5, <1>7, <1>11, <2>3
    <2> QED BY <1>2, <2>2, <2>3, <2>9, <2>10, <2>11 DEF Piece
  <1> QED BY <1>10, <1>11

\* The first line finds nothing gathered.
LEMMA StartGathers ==
  ASSUME Loader!Start
  PROVE  Gathering'
PROOF
  <1>1. columns' = [c \in Loader!Cols |-> << >>] /\ active' = [c \in Loader!Cols |-> Loader!FreshBuffer]
        /\ rowInChunk' = 0 /\ accepted' = 0 /\ Loader!Cols' = Loader!Cols
    BY DEF Loader!Start, Loader!Cols
  <1>2. ChunkSize \in Nat \ {0}
    BY TableAssumption, LoadsAssumption
  <1>3. ASSUME NEW c \in Loader!Cols
        PROVE  /\ Len(columns'[c]) = 0 /\ columns'[c] = << >>
               /\ active'[c] = [r \in 1 .. ChunkSize |-> Garbage]
    BY <1>1, <1>3 DEF Loader!FreshBuffer
  <1>4. ChunkSize * 0 + 0 = 0 /\ \A r \in 1 .. ChunkSize : ~(r <= 0)
    BY <1>2
  <1>5. \A c \in Loader!Cols : << >> = [k \in 1 .. 0 |->
                                   [r \in 1 .. ChunkSize |-> Stored(c, ChunkSize * (k - 1) + r)]]
    OBVIOUS
  <1>6. 0 \in 0 .. (ChunkSize - 1) /\ 0 \in Nat
    BY <1>2
  <1> QED BY <1>1, <1>3, <1>4, <1>5, <1>6 DEF Gathering, Stored

\* Every step keeps what is known of the rows.
LEMMA NextKeepsExactness ==
  Exactness /\ [Loader!Next]_(Loader!vars) => Exactness'
PROOF
  <1> SUFFICES ASSUME Exactness, [Loader!Next]_(Loader!vars) PROVE Exactness'
    OBVIOUS
  <1>1. Gathering /\ AllGathered /\ ReturnsAtEnd
    BY DEF Exactness
  <1>2. CASE Loader!Start
    <2>1. Gathering'
      BY <1>2, StartGathers
    <2>2. AllGathered' /\ ReturnsAtEnd'
      BY <1>2 DEF Loader!Start, AllGathered, ReturnsAtEnd
    <2> QED BY <2>1, <2>2 DEF Exactness
  <1>3. CASE Loader!GoodLine
    <2>1. Gathering'
      BY <1>1, <1>3, GoodLineGathers
    <2>2. AllGathered' /\ ReturnsAtEnd'
      BY <1>1, <1>3 DEF Loader!GoodLine, Loader!ReadLine, AllGathered, ReturnsAtEnd
    <2> QED BY <2>1, <2>2 DEF Exactness
  <1>4. CASE Loader!EndOfFile
    <2>1. /\ pc = "read" /\ pc' = "write" /\ UNCHANGED <<accepted, outcome, nextCol>>
      BY <1>4 DEF Loader!EndOfFile
    <2>2. accepted \in Nat
      BY <1>1, <2>1 DEF Gathering
    <2>3. AllGathered'
      BY <1>1, <1>4, <2>1, <2>2, EndOfFileGathered DEF AllGathered, Loader!Cols, CutAfter,
            StoredRows, Stored
    <2>4. Gathering' /\ ReturnsAtEnd'
      BY <1>1, <2>1 DEF Gathering, ReturnsAtEnd
    <2> QED BY <2>3, <2>4 DEF Exactness
  <1>5. ASSUME \/ Loader!SkipLine \/ Loader!BadLine \/ Loader!WriteColumn
               \/ Loader!WriteColumnFails \/ Loader!WriteThrows \/ Loader!AllWritten \/ Loader!Crash
               \/ UNCHANGED Loader!vars
        PROVE  Exactness'
    <2>1. /\ UNCHANGED <<columns, active, rowInChunk, accepted>>
          /\ pc' = "read" => pc = "read"
          /\ pc' = "write" \/ outcome' = "ok" => pc = "write" \/ outcome = "ok"
      BY <1>1, <1>5 DEF Loader!SkipLine, Loader!ReadLine, Loader!BadLine,
                        Loader!WriteColumn, Loader!WriteColumnFails, Loader!WriteThrows,
                        Loader!AllWritten, Loader!Crash, Loader!vars
    <2>2. Gathering'
      BY <1>1, <2>1 DEF Gathering, Loader!Cols, Stored
    <2>3. AllGathered'
      BY <1>1, <2>1 DEF AllGathered, Loader!Cols, CutAfter, StoredRows, Stored
    <2>4. ReturnsAtEnd'
      BY <1>1, <1>5 DEF ReturnsAtEnd, Loader!SkipLine, Loader!ReadLine, Loader!BadLine,
                        Loader!WriteColumn, Loader!WriteColumnFails, Loader!WriteThrows,
                        Loader!AllWritten, Loader!Crash, Loader!vars
    <2> QED BY <2>2, <2>3, <2>4 DEF Exactness
  <1> QED BY <1>2, <1>3, <1>4, <1>5 DEF Loader!Next

\* The rows of a file are values, and what is made of values is whole.
LEMMA GatheredWhole == AllGathered => ColumnsWhole
PROOF
  <1> SUFFICES ASSUME AllGathered, pc = "write", NEW c \in Loader!Cols
               PROVE  columns[c] # Partial
    BY DEF ColumnsWhole
  <1> DEFINE S == Nat \cup {Garbage}
  <1>1. /\ accepted \in Nat /\ Len(columns[c]) \in Nat
        /\ columns[c] = [k \in 1 .. Len(columns[c]) |->
                           SubSeq(StoredRows(c), CutAfter(k - 1) + 1, CutAfter(k))]
    BY DEF AllGathered
  <1>2. ASSUME NEW k \in 1 .. Len(columns[c])
        PROVE  SubSeq(StoredRows(c), CutAfter(k - 1) + 1, CutAfter(k)) \in Seq(S)
    <2>1. k \in Nat /\ k - 1 \in Nat /\ ChunkSize \in Nat
      BY <1>1, TableAssumption
    <2>2. ChunkSize * k \in Nat /\ ChunkSize * (k - 1) \in Nat
      BY <2>1, ChunkEnds
    <2>3. PICK a, b \in 0 .. accepted : a = CutAfter(k - 1) /\ b = CutAfter(k)
      <3>1. CutAfter(k) \in 0 .. accepted
        BY <1>1, <2>2 DEF CutAfter
      <3>2. CutAfter(k - 1) \in 0 .. accepted
        BY <1>1, <2>2 DEF CutAfter
      <3> QED BY <3>1, <3>2
    <2>4. \A n \in (a + 1) .. b : StoredRows(c)[n] \in S
      BY <1>1, <2>3 DEF StoredRows, Stored
    <2>5. StoredRows(c) \in Seq(S) /\ Len(StoredRows(c)) = accepted
      <3>1. \A n \in 1 .. accepted : Stored(c, n) \in S
        BY DEF Stored
      <3> QED BY <1>1, <3>1 DEF StoredRows
    <2>6. a + 1 \in 1 .. (Len(StoredRows(c)) + 1) /\ b \in Nat
      <3>1. a \in Nat /\ b \in Nat /\ a <= accepted
        BY <1>1, <2>3
      <3>2. a + 1 \in 1 .. (accepted + 1)
        BY <1>1, <3>1
      <3> QED BY <2>5, <3>1, <3>2
    <2>7. SubSeq(StoredRows(c), a + 1, b) \in Seq(S)
      BY <2>4, <2>5, <2>6, SubSeqProperties
    <2> QED BY <2>3, <2>7
  <1>3. columns[c] \in Seq(Seq(S))
    <2>1. PICK K \in Nat : K = Len(columns[c])
      BY <1>1
    <2>2. columns[c] \in [1 .. K -> Seq(S)]
      BY <1>1, <1>2, <2>1
    <2> QED BY <2>1, <2>2
  <1> QED BY <1>3, LoadsAssumption

\* However and whenever ingest_csv is cut short, and whichever streams fail
\* without a word, the columns it replaced are the first of the schema, only
\* those that failed and the one it ended at are left in part, and the others
\* are as they were: for every schema, repeated names too, every chunk size and
\* file.
THEOREM NewColumnsFirstAlways ==
  Loader!Spec => []NewColumnsFirst
PROOF
  <1>1. Loader!Init => Exactness
    BY DEF Loader!Init, Exactness, Gathering, AllGathered, ReturnsAtEnd
  <1>2. LoaderInv => NewColumnsFirst
    BY DEF LoaderInv, NewColumnsFirst
  <1>3. Exactness => ColumnsWhole
    BY GatheredWhole DEF Exactness
  <1> QED
    BY <1>1, <1>2, <1>3, LoaderInit, LoaderKeeps, NextKeepsExactness, PTL DEF Loader!Spec

\* A field that does not parse leaves the whole table as it was, however many
\* chunks the call had filled.
THEOREM ParseErrorKeepsTableAlways ==
  Loader!Spec => []ParseErrorKeepsTable
PROOF
  <1>1. Loader!Init => Exactness
    BY DEF Loader!Init, Exactness, Gathering, AllGathered, ReturnsAtEnd
  <1>2. LoaderInv => ParseErrorKeepsTable
    BY DEF LoaderInv, ParseErrorKeepsTable
  <1>3. Exactness => ColumnsWhole
    BY GatheredWhole DEF Exactness
  <1> QED
    BY <1>1, <1>2, <1>3, LoaderInit, LoaderKeeps, NextKeepsExactness, PTL DEF Loader!Spec

\* The instance's operators on sequences are the library's.
LEMMA SameSequences ==
  ASSUME NEW s
  PROVE  Loader!FlattenSeq(s) = FlattenSeq(s) /\ Loader!Last(s) = Last(s)
PROOF
  <1>1. Loader!FlattenSeq(s) = FlattenSeq(s)
    BY DEF FlattenSeq, Loader!FlattenSeq
  <1>2. Loader!Last(s) = Last(s)
    BY DEF Last, Loader!Last
  <1> QED BY <1>1, <1>2

\* A column whose chunks are the rows, cut at every ChunkSize-th, is exact.
LEMMA GatheredIsExact ==
  LoaderInv /\ Exactness => IngestExact
PROOF
  <1> SUFFICES ASSUME LoaderInv, Exactness, outcome = "ok",
                      NEW c \in Loader!Cols, c \notin failed, Loader!LastOfName(c)
               PROVE  LET column == store[ColumnNames[c]]
                      IN  /\ ColumnTypes[c] # "STRING" => FlattenSeq(column) = Loader!RowsInOrder
                          /\ Len(FlattenSeq(column)) = accepted
                          /\ \A n \in DOMAIN column :
                               Len(column[n]) = IF n < Len(column) THEN ChunkSize
                                                ELSE accepted - ChunkSize * (n - 1)
                          /\ Len(column) > 0 => Len(Last(column)) > 0
    BY SameSequences DEF IngestExact, Loader!IngestExact
  <1>1. store[ColumnNames[c]] = columns[c]
    <2>1. Loader!Cols = 1 .. Len(ColumnTypes) /\ Len(ColumnTypes) \in Nat
      BY ColumnsNamed
    <2>2. nextCol > Len(ColumnTypes) /\ nextCol \in Nat
      BY DEF Exactness, ReturnsAtEnd, LoaderInv, LoaderShape
    <2>3. c < nextCol
      BY <2>1, <2>2
    <2>4. \A d \in Namesakes(c) : ~(d > c)
      BY DEF Namesakes, Loader!LastOfName
    <2>5. FirstOf(c) /\ c \in Namesakes(c)
      BY FirstOfEach, ColumnsNamed DEF LoaderInv
    <2> QED BY <2>3, <2>4, <2>5 DEF FirstOf
  <1>2. PICK K, n : K = Len(columns[c]) /\ n = accepted
    OBVIOUS
  <1> DEFINE rows == StoredRows(c)
             cut == [k \in 0 .. K |-> CutAfter(k)]
  <1>3. /\ n \in Nat /\ K \in Nat
        /\ columns[c] = [k \in 1 .. K |-> SubSeq(rows, CutAfter(k - 1) + 1, CutAfter(k))]
        /\ CutAfter(K) = n
        /\ K > 0 => ChunkSize * (K - 1) < n
    BY <1>2 DEF Exactness, AllGathered
  <1>4. ChunkSize \in Nat \ {0}
    BY TableAssumption, LoadsAssumption
  <1>5. ASSUME NEW k \in Nat
        PROVE  /\ CutAfter(k) \in 0 .. n
               /\ k < K => CutAfter(k) = ChunkSize * k
    <2>1. ChunkSize * k \in Nat
      BY <1>3, <1>5, ChunkEnds
    <2>2. CutAfter(k) \in 0 .. n
      BY <1>2, <1>3, <1>4, <2>1 DEF CutAfter
    <2>3. ASSUME k < K PROVE ChunkSize * k <= n
      <3>1. K - 1 \in Nat /\ k <= K - 1
        BY <1>3, <1>5, <2>3
      <3>2. ChunkSize * k <= ChunkSize * (K - 1) /\ ChunkSize * (K - 1) \in Nat
        BY <1>5, <3>1, ChunkEnds
      <3>3. ChunkSize * (K - 1) < n
        BY <1>3, <2>3
      <3> QED BY <1>3, <2>1, <3>2, <3>3
    <2> QED BY <1>2, <2>2, <2>3 DEF CutAfter
  <1>6. ASSUME NEW k \in 1 .. K
        PROVE  /\ k \in Nat /\ k - 1 \in Nat
               /\ CutAfter(k - 1) = ChunkSize * (k - 1)
               /\ CutAfter(k) = IF k < K THEN ChunkSize * (k - 1) + ChunkSize ELSE n
               /\ CutAfter(k - 1) < CutAfter(k)
    <2>1. PICK j \in Nat : j = k - 1
      BY <1>3
    <2>2. k \in Nat /\ j < K /\ k = j + 1 /\ (k < K \/ k = K) /\ j \in 0 .. K
      BY <1>3, <2>1
    <2>3. CutAfter(j) = ChunkSize * j /\ ChunkSize * j \in Nat
          /\ ChunkSize * k = ChunkSize * j + ChunkSize
      BY <1>5, <2>2, ChunkEnds
    <2>4. CutAfter(k) = IF k < K THEN ChunkSize * j + ChunkSize ELSE n
      <3>1. CASE k < K
        BY <1>5, <2>2, <2>3, <3>1
      <3>2. CASE k = K
        BY <1>3, <3>2
      <3> QED BY <2>2, <3>1, <3>2
    <2>5. CutAfter(j) < CutAfter(k)
      <3>1. CASE k < K
        BY <1>4, <2>3, <2>4, <3>1
      <3>2. CASE k = K
        <4>1. ChunkSize * (K - 1) < n
          BY <1>3, <2>2, <3>2
        <4> QED BY <1>3, <2>1, <2>3, <3>2, <4>1
      <3> QED BY <2>2, <3>1, <3>2
    <2> QED BY <2>1, <2>2, <2>3, <2>4, <2>5
  <1>7. rows \in Seq(Nat \cup {Garbage}) /\ Len(rows) = n
    <2>1. \A r \in 1 .. n : Stored(c, r) \in Nat \cup {Garbage}
      BY <1>3 DEF Stored
    <2> QED BY <1>2, <1>3, <2>1 DEF StoredRows
  <1> HIDE DEF rows
  <1>8. FlattenSeq(columns[c]) = rows
    <2>1. cut \in [0 .. K -> 0 .. Len(rows)]
      <3>1. \A k \in 0 .. K : CutAfter(k) \in 0 .. Len(rows)
        <4>1. \A k \in 0 .. K : k \in Nat
          BY <1>3
        <4> QED BY <1>5, <1>7, <4>1
      <3> QED BY <3>1
    <2>2. cut[0] = 0 /\ cut[K] = Len(rows)
      <3>1. ChunkSize * 0 = 0
        BY <1>4
      <3>2. CutAfter(0) = 0
        BY <1>2, <1>3, <3>1 DEF CutAfter
      <3> QED BY <1>3, <1>7, <3>2
    <2>3. \A k \in 1 .. K : cut[k - 1] = CutAfter(k - 1) /\ cut[k] = CutAfter(k)
      <3>1. \A k \in 1 .. K : k - 1 \in 0 .. K /\ k \in 0 .. K
        BY <1>3
      <3> QED BY <3>1
    <2>4. PICK g, s : g = cut /\ s = rows
      OBVIOUS
    <2>5. \A k \in 1 .. K : g[k - 1] <= g[k]
      <3>1. TAKE k \in 1 .. K
      <3>2. PICK a, b \in Nat : a = CutAfter(k - 1) /\ b = CutAfter(k) /\ a < b
        BY <1>5, <1>6
      <3>3. g[k - 1] = a /\ g[k] = b
        BY <2>3, <2>4, <3>2
      <3> QED BY <3>2, <3>3
    <2>6. columns[c] = [k \in 1 .. K |-> SubSeq(s, g[k - 1] + 1, g[k])]
      BY <1>3, <2>3, <2>4
    <2> HIDE DEF cut
    <2>7. s \in Seq(Nat \cup {Garbage}) /\ g \in [0 .. K -> 0 .. Len(s)] /\ g[0] = 0 /\ g[K] = Len(s)
      BY <1>7, <2>1, <2>2, <2>4
    <2>8. PICK chunks : chunks = columns[c]
      OBVIOUS
    <2>9. FlattenSeq(chunks) = s
      <3>1. chunks = [k \in 1 .. K |-> SubSeq(s, g[k - 1] + 1, g[k])]
        BY <1>3, <2>6, <2>8
      <3>2. K \in Nat
        BY <1>3
      <3>3. Pieces(chunks, s, K, g)
        BY <2>5, <2>7, <3>1, <3>2 DEF Pieces
      <3> QED BY <2>7, <3>3, FlattenPieces
    <2> QED BY <2>4, <2>8, <2>9
  <1>9. ColumnTypes[c] # "STRING" => rows = Loader!RowsInOrder
    BY <1>2 DEF rows, StoredRows, Stored, Loader!RowsInOrder
  <1>10. DOMAIN columns[c] = 1 .. K /\ Len(columns[c]) = K
    <2>1. DOMAIN columns[c] = 1 .. K
      BY <1>3
    <2> QED BY <1>2, <2>1
  <1>11. ASSUME NEW k \in 1 .. K
         PROVE  Len(columns[c][k]) = CutAfter(k) - CutAfter(k - 1)
    <2>1. PICK a, b \in Nat : a = CutAfter(k - 1) /\ b = CutAfter(k)
      BY <1>5, <1>6
    <2>2. a < b /\ b <= n
      BY <1>5, <1>6, <2>1
    <2>3. columns[c][k] = SubSeq(rows, a + 1, b)
      BY <1>3, <2>1
    <2>4. Len(SubSeq(rows, a + 1, b)) = b - a
      <3>1. \A i \in (a + 1) .. b : rows[i] \in Nat \cup {Garbage}
        BY <1>3, <1>7, <2>2
      <3>2. Len(SubSeq(rows, a + 1, b)) = IF a + 1 <= b THEN b - (a + 1) + 1 ELSE 0
        BY <1>7, <3>1, SubSeqProperties
      <3> QED BY <2>2, <3>2
    <2> QED BY <2>1, <2>3, <2>4
  <1>12. \A k \in 1 .. K :
           Len(columns[c][k]) = IF k < K THEN ChunkSize ELSE n - ChunkSize * (k - 1)
    <2> TAKE k \in 1 .. K
    <2>1. ChunkSize * (k - 1) \in Int
      BY <1>4
    <2>2. Len(columns[c][k]) = CutAfter(k) - CutAfter(k - 1)
      BY <1>11
    <2>3. PICK a, b \in Nat : a = CutAfter(k - 1) /\ b = CutAfter(k)
      BY <1>5, <1>6
    <2>4. a = ChunkSize * (k - 1) /\ b = (IF k < K THEN ChunkSize * (k - 1) + ChunkSize ELSE n)
      BY <1>6, <2>3
    <2>5. Len(columns[c][k]) = b - a
      BY <2>2, <2>3
    <2>6. b - a = IF k < K THEN ChunkSize ELSE n - ChunkSize * (k - 1)
      <3>1. PICK q \in Int : q = ChunkSize * (k - 1)
        BY <2>1
      <3>2. a = q /\ b = (IF k < K THEN q + ChunkSize ELSE n)
        BY <2>4, <3>1
      <3>3. b - a = IF k < K THEN ChunkSize ELSE n - q
        BY <1>4, <3>2
      <3> QED BY <3>1, <3>3
    <2> QED BY <2>5, <2>6
  <1>13. K > 0 => Len(Last(columns[c])) > 0
    <2> SUFFICES ASSUME K > 0 PROVE Len(Last(columns[c])) > 0
      OBVIOUS
    <2>1. K \in 1 .. K
      BY <1>3
    <2>2. Last(columns[c]) = columns[c][K]
      BY <1>10 DEF Last
    <2>3. PICK a, b \in Nat : a = CutAfter(K - 1) /\ b = CutAfter(K) /\ a < b
      BY <1>5, <1>6, <2>1
    <2>4. Len(columns[c][K]) = b - a
      BY <1>11, <2>1, <2>3
    <2> QED BY <2>2, <2>3, <2>4
  <1> QED BY <1>1, <1>2, <1>7, <1>8, <1>9, <1>10, <1>12, <1>13

\* What Table takes for the columns gathered from a file.
ChunkedAtEnd ==
  pc = "write" => \A c \in Loader!Cols : columns[c] = Chunked(StoredRows(c))

LEMMA GatheredChunked == AllGathered => ChunkedAtEnd
PROOF
  <1> SUFFICES ASSUME AllGathered, pc = "write", NEW c \in Loader!Cols
               PROVE  columns[c] = Chunked(StoredRows(c))
    BY DEF ChunkedAtEnd
  <1>1. PICK K, n : K = Len(columns[c]) /\ n = accepted
    OBVIOUS
  <1>2. /\ n \in Nat /\ K \in Nat
        /\ columns[c] = [k \in 1 .. K |-> SubSeq(StoredRows(c), CutAfter(k - 1) + 1, CutAfter(k))]
        /\ CutAfter(K) = n
        /\ K > 0 => ChunkSize * (K - 1) < n
    BY <1>1 DEF AllGathered
  <1>3. ChunkSize \in Nat \ {0}
    BY TableAssumption, LoadsAssumption
  <1>4. PICK q : q = ChunksIn(n)
    OBVIOUS
  <1>5. /\ q \in Nat /\ ChunkSize * q \in Nat
        /\ n <= ChunkSize * q /\ ChunkSize * q <= n + ChunkSize - 1
    <2>1. ChunkSize * q <= n + ChunkSize - 1
      BY <1>2, <1>3, <1>4 DEF ChunksIn
    <2> QED BY <1>2, <1>4, <2>1, ChunkCount
  <1>6. ChunkSize * K \in Nat /\ n <= ChunkSize * K
    <2>1. ChunkSize * K \in Nat
      BY <1>2, ChunkEnds
    <2> QED BY <1>1, <1>2, <2>1 DEF CutAfter
  <1>7. K = q
    <2>1. ASSUME K < q PROVE FALSE
      <3>1. PICK p \in Nat : q = p + 1 /\ K <= p
        <4>1. q - 1 \in Nat /\ q = (q - 1) + 1 /\ K <= q - 1
          BY <1>2, <1>5, <2>1
        <4> QED BY <4>1
      <3>2. ChunkSize * q = ChunkSize * p + ChunkSize /\ ChunkSize * K <= ChunkSize * p
            /\ ChunkSize * p \in Nat
        BY <1>2, <3>1, ChunkEnds
      <3>3. PICK x, y \in Int : x = ChunkSize * K /\ y = ChunkSize * p
        BY <1>6, <3>2
      <3>4. n <= x /\ x <= y /\ y + ChunkSize <= n + ChunkSize - 1
        BY <1>5, <1>6, <3>2, <3>3
      <3>5. n \in Int /\ ChunkSize \in Int
        BY <1>2, <1>3
      <3> QED BY <3>3, <3>4, <3>5
    <2>2. ASSUME q < K PROVE FALSE
      <3>1. PICK p \in Nat : p = K - 1 /\ q <= p
        <4>1. K - 1 \in Nat /\ q <= K - 1
          BY <1>2, <1>5, <2>2
        <4> QED BY <4>1
      <3>2. ChunkSize * q <= ChunkSize * p /\ ChunkSize * p \in Nat /\ ChunkSize * p < n
        <4>1. K > 0
          BY <1>2, <1>5, <2>2
        <4> QED BY <1>2, <1>5, <3>1, <4>1, ChunkEnds
      <3> QED BY <1>2, <1>5, <3>2
    <2> QED BY <1>2, <1>5, <2>1, <2>2
  <1>8. ASSUME NEW k \in 1 .. q
        PROVE  CutAfter(k - 1) = ChunkSize * (k - 1) /\ CutAfter(k) = Min({ChunkSize * k, n})
    <2>1. ChunkSize * (k - 1) \in Nat /\ ChunkSize * (k - 1) + 1 <= n
      BY <1>2, <1>4, <1>8, ChunkBounds
    <2>2. PICK a, b \in Nat : a = ChunkSize * (k - 1) /\ b = ChunkSize * k
      <3>1. k \in Nat
        BY <1>5
      <3>2. ChunkSize * k \in Nat
        BY <3>1, ChunkEnds
      <3> QED BY <2>1, <3>2
    <2>3. CutAfter(k - 1) = a
      BY <1>1, <1>2, <2>1, <2>2 DEF CutAfter
    <2>4. CutAfter(k) = IF b <= n THEN b ELSE n
      BY <1>1, <2>2 DEF CutAfter
    <2>5. Min({b, n}) \in {b, n} /\ Min({b, n}) <= b /\ Min({b, n}) <= n
      BY <1>2, LeastNumber
    <2>6. CutAfter(k) = Min({b, n})
      BY <1>2, <2>2, <2>4, <2>5
    <2>7. CutAfter(k - 1) = ChunkSize * (k - 1)
      BY <2>2, <2>3
    <2>8. CutAfter(k) = Min({ChunkSize * k, n})
      BY <2>2, <2>6, Zenon
    <2> QED BY <2>7, <2>8, Zenon
  <1>9. Len(StoredRows(c)) = n
    BY <1>1, <1>2 DEF StoredRows
  <1>10. Chunked(StoredRows(c)) =
           [k \in 1 .. q |-> SubSeq(StoredRows(c), ChunkSize * (k - 1) + 1, Min({ChunkSize * k, n}))]
    <2>1. (Len(StoredRows(c)) + ChunkSize - 1) \div ChunkSize = q
      BY <1>4, <1>9, Zenon DEF ChunksIn
    <2> QED BY <1>9, <2>1, Zenon DEF Chunked
  <1> QED BY <1>2, <1>7, <1>8, <1>10

\* However many lines are good and wherever the chunks end, a call that returns
\* has replaced every column whose streams did not fail by the good lines of its
\* file: each once, in order, in full chunks but for the last, the same ones in
\* every column.
THEOREM IngestExactAlways ==
  Loader!Spec => []IngestExact
PROOF
  <1>1. Loader!Init => Exactness
    BY DEF Loader!Init, Exactness, Gathering, AllGathered, ReturnsAtEnd
  <1>2. Exactness => ColumnsWhole
    BY GatheredWhole DEF Exactness
  <1> QED
    BY <1>1, <1>2, LoaderInit, LoaderKeeps, NextKeepsExactness, GatheredIsExact, PTL DEF Loader!Spec

\* Table may take the reading of a file for one step: before the first column is
\* written every column has the chunks Table's Gathered gives it, for any file.
THEOREM GatheredAsTableTakesIt ==
  Loader!Spec => []ChunkedAtEnd
PROOF
  <1>1. Loader!Init => Exactness
    BY DEF Loader!Init, Exactness, Gathering, AllGathered, ReturnsAtEnd
  <1>2. Exactness => ChunkedAtEnd
    BY GatheredChunked DEF Exactness
  <1> QED BY <1>1, <1>2, NextKeepsExactness, PTL DEF Loader!Spec

-----------------------------------------------------------------------------
(* Lines: how the fields of a text grow with it.                           *)

\* The number of quotes in front of a place of a text.
QuotesBefore(t, k) == Cardinality({q \in 1 .. (k - 1) : t[q] = Csv!Quote})

\* A text in which no quote is open.
Closed(t) == QuotesBefore(t, Len(t) + 1) % 2 = 0

SeparatorsBefore(t, k) == Cardinality({s \in Csv!Separators(t) : s < k})

\* The operators of CsvLine are those of the libraries.
LEMMA LineOperators ==
  /\ \A S : Csv!Cardinality(S) = Cardinality(S)
  /\ \A S : Csv!Min(S) = Min(S)
  /\ \A s : Csv!FlattenSeq(s) = FlattenSeq(s)
  /\ \A s : Csv!Last(s) = Last(s)
  /\ \A s, S : Csv!ElementsAt(s, S) = ElementsAt(s, S)
PROOF
  <1>1. \A S : Csv!Cardinality(S) = Cardinality(S)
    BY Zenon DEF Csv!Cardinality, Cardinality
  <1>2. \A S : Csv!Min(S) = Min(S)
    BY Zenon DEF Csv!Min, Min
  <1>3. \A s : Csv!FlattenSeq(s) = FlattenSeq(s)
    BY Zenon DEF Csv!FlattenSeq, FlattenSeq
  <1>4. \A s : Csv!Last(s) = Last(s)
    BY Zenon DEF Csv!Last, Last
  <1>6. \A S : Csv!Ascending(S) = Ascending(S)
    BY Zenon DEF Csv!Ascending, Ascending, Csv!Rank, Rank, Csv!Cardinality, Cardinality
  <1>7. \A s, S : Csv!ElementsAt(s, S) = ElementsAt(s, S)
    BY <1>6, Zenon DEF Csv!ElementsAt, ElementsAt
  <1> QED BY <1>1, <1>2, <1>3, <1>4, <1>7

\* The reference definitions of CsvLine, in those operators.
LEMMA LineDefinitions ==
  ASSUME NEW t
  PROVE  /\ Csv!Separators(t) = {k \in DOMAIN t : t[k] = Csv!Comma /\ QuotesBefore(t, k) % 2 = 0}
         /\ \A f : Csv!Places(t, f) =
              {k \in DOMAIN t \ Csv!Separators(t) : t[k] # Csv!Quote /\ SeparatorsBefore(t, k) = f - 1}
         /\ Csv!FieldsOf(t) =
              [f \in 1 .. (Cardinality(Csv!Separators(t)) + 1) |-> ElementsAt(t, Csv!Places(t, f))]
         /\ Csv!Unquoted(t) = ElementsAt(t, {k \in DOMAIN t : t[k] # Csv!Quote})
PROOF
  <1>1. Csv!Separators(t) = {k \in DOMAIN t : t[k] = Csv!Comma /\ QuotesBefore(t, k) % 2 = 0}
    BY LineOperators, Zenon DEF Csv!Separators, QuotesBefore
  <1>2. \A f : Csv!Places(t, f) =
              {k \in DOMAIN t \ Csv!Separators(t) : t[k] # Csv!Quote /\ SeparatorsBefore(t, k) = f - 1}
    BY LineOperators, Zenon DEF Csv!Places, SeparatorsBefore
  <1>3. Csv!FieldsOf(t) =
              [f \in 1 .. (Cardinality(Csv!Separators(t)) + 1) |-> ElementsAt(t, Csv!Places(t, f))]
    BY LineOperators, Zenon DEF Csv!FieldsOf
  <1>4. Csv!Unquoted(t) = ElementsAt(t, {k \in DOMAIN t : t[k] # Csv!Quote})
    BY LineOperators, Zenon DEF Csv!Unquoted
  <1> QED BY <1>1, <1>2, <1>3, <1>4

\* The separators of a text are places in it.
LEMMA SeparatorPlaces ==
  ASSUME NEW A, NEW t \in Seq(A)
  PROVE  /\ Csv!Separators(t) \in SUBSET (1 .. Len(t)) /\ IsFiniteSet(Csv!Separators(t))
         /\ Cardinality(Csv!Separators(t)) \in Nat
         /\ \A k : SeparatorsBefore(t, k) \in 0 .. Cardinality(Csv!Separators(t))
         /\ \A k \in Nat : QuotesBefore(t, k) \in Nat /\ IsFiniteSet({q \in 1 .. (k - 1) : t[q] = Csv!Quote})
PROOF
  <1>1. Len(t) \in Nat /\ DOMAIN t = 1 .. Len(t) /\ IsFiniteSet(1 .. Len(t))
    BY FS_Interval
  <1>2. Csv!Separators(t) \in SUBSET (1 .. Len(t)) /\ IsFiniteSet(Csv!Separators(t))
    BY <1>1, LineDefinitions, FS_Subset
  <1>3. Cardinality(Csv!Separators(t)) \in Nat
    BY <1>2, FS_CardinalityType
  <1>4. ASSUME NEW k PROVE SeparatorsBefore(t, k) \in 0 .. Cardinality(Csv!Separators(t))
    <2> DEFINE B == {s \in Csv!Separators(t) : s < k}
    <2>1. B \in SUBSET Csv!Separators(t)
      OBVIOUS
    <2>2. IsFiniteSet(B) /\ Cardinality(B) <= Cardinality(Csv!Separators(t))
      BY <1>2, <2>1, FS_Subset
    <2>3. Cardinality(B) \in Nat
      BY <2>2, FS_CardinalityType
    <2>4. SeparatorsBefore(t, k) = Cardinality(B)
      BY DEF SeparatorsBefore
    <2> QED BY <1>3, <2>2, <2>3, <2>4
  <1>5. ASSUME NEW k \in Nat
        PROVE  QuotesBefore(t, k) \in Nat /\ IsFiniteSet({q \in 1 .. (k - 1) : t[q] = Csv!Quote})
    <2> DEFINE Q == {q \in 1 .. (k - 1) : t[q] = Csv!Quote}
    <2>1. IsFiniteSet(1 .. (k - 1)) /\ Q \in SUBSET (1 .. (k - 1))
      BY FS_Interval
    <2>2. IsFiniteSet(Q)
      BY <2>1, FS_Subset
    <2> QED BY <2>2, FS_CardinalityType DEF QuotesBefore
  <1> QED BY <1>2, <1>3, <1>4, <1>5

\* The fields of a text are texts, one more than it has separators.
LEMMA FieldsAreTexts ==
  ASSUME NEW A, NEW t \in Seq(A)
  PROVE  /\ Csv!FieldsOf(t) \in Seq(Seq(A))
         /\ Len(Csv!FieldsOf(t)) = Cardinality(Csv!Separators(t)) + 1
         /\ \A f \in 1 .. (Cardinality(Csv!Separators(t)) + 1) :
              /\ Csv!Places(t, f) \in SUBSET (1 .. Len(t))
              /\ Csv!FieldsOf(t)[f] = ElementsAt(t, Csv!Places(t, f))
PROOF
  <1> DEFINE n == Cardinality(Csv!Separators(t)) + 1
             F == Csv!FieldsOf(t)
  <1>1. n \in Nat /\ DOMAIN t = 1 .. Len(t)
    BY SeparatorPlaces
  <1>2. F = [f \in 1 .. n |-> ElementsAt(t, Csv!Places(t, f))]
    BY LineDefinitions
  <1>3. ASSUME NEW f \in 1 .. n
        PROVE  Csv!Places(t, f) \in SUBSET (1 .. Len(t)) /\ F[f] = ElementsAt(t, Csv!Places(t, f))
               /\ F[f] \in Seq(A)
    <2>1. Csv!Places(t, f) \in SUBSET DOMAIN t
      BY LineDefinitions
    <2>2. F[f] = ElementsAt(t, Csv!Places(t, f))
      BY <1>2
    <2> QED BY <1>1, <2>1, <2>2, ElementsAtPlaces
  <1>4. F \in [1 .. n -> Seq(A)]
    <2> HIDE DEF n
    <2> QED BY <1>2, <1>3
  <1>5. F \in Seq(Seq(A)) /\ Len(F) = n
    <2> HIDE DEF n, F
    <2> QED BY <1>1, <1>4
  <1> QED BY <1>3, <1>5

\* The elements at some places of a text that has grown by one symbol.
LEMMA ElementsGrow ==
  ASSUME NEW A, NEW t \in Seq(A), NEW c \in A, NEW P \in SUBSET (1 .. Len(t))
  PROVE  /\ ElementsAt(Append(t, c), P) = ElementsAt(t, P)
         /\ ElementsAt(Append(t, c), P \cup {Len(t) + 1}) = Append(ElementsAt(t, P), c)
PROOF
  <1> DEFINE u == Append(t, c)
             n == Len(t)
             a == Ascending(P)
  <1>1. /\ n \in Nat /\ DOMAIN t = 1 .. n /\ u \in Seq(A) /\ Len(u) = n + 1 /\ u[n + 1] = c
        /\ \A k \in 1 .. n : u[k] = t[k]
    BY AppendProperties
  <1> HIDE DEF u, n
  <1>2. P \in SUBSET (1 .. n) /\ P \in SUBSET Nat /\ IsFiniteSet(P)
    <2>1. P \in SUBSET (1 .. n)
      BY Zenon DEF n
    <2>2. IsFiniteSet(1 .. n) /\ (1 .. n) \subseteq Nat
      BY <1>1, FS_Interval
    <2> QED BY <2>1, <2>2, FS_Subset
  <1>3. /\ DOMAIN a = 1 .. Len(a) /\ Len(a) \in Nat /\ \A m \in DOMAIN a : a[m] \in P
        /\ a \in Seq(Nat)
    BY <1>2, AscendingMembers, AscendingRanks
  <1>4. ElementsAt(u, P) = ElementsAt(t, P)
    BY <1>1, <1>2, <1>3, Zenon DEF ElementsAt
  <1>5. Ascending(P \cup {n + 1}) = Append(a, n + 1)
    <2> DEFINE b == Ascending({n + 1})
    <2>1. {n + 1} \in SUBSET Nat /\ IsFiniteSet({n + 1}) /\ Cardinality({n + 1}) = 1
      <3>1. n + 1 \in Nat
        BY <1>1
      <3>2. IsFiniteSet({n + 1}) /\ Cardinality({n + 1}) = 1
        BY FS_Singleton, Zenon
      <3> QED BY <3>1, <3>2
    <2>2. \A x \in P, y \in {n + 1} : x < y
      <3> TAKE x \in P, y \in {n + 1}
      <3>1. x \in 1 .. n /\ y = n + 1
        BY <1>2
      <3> QED BY <1>1, <3>1
    <2>3. Ascending(P \cup {n + 1}) = a \o b
      BY <1>2, <2>1, <2>2, AscendingJoin
    <2>4. b \in Seq(Nat) /\ Len(b) = 1 /\ b[1] = n + 1
      <3>1. b \in Seq(Nat) /\ Len(b) = 1 /\ \A m \in 1 .. 1 : \E r \in {n + 1} : b[m] = r
        BY <2>1, AscendingRanks
      <3>2. \E r \in {n + 1} : b[1] = r
        BY <3>1
      <3> QED BY <3>1, <3>2
    <2>5. b = <<n + 1>>
      <3> HIDE DEF b
      <3>1. n + 1 \in Nat /\ <<n + 1>> \in Seq(Nat) /\ Len(<<n + 1>>) = 1
        BY <1>1
      <3> QED BY <2>4, <3>1, SeqEqual
    <2>6. n + 1 \in Nat
      BY <1>1
    <2> HIDE DEF a, b
    <2> QED BY <1>3, <2>3, <2>5, <2>6, AppendIsConcat
  <1>6. ElementsAt(u, P \cup {n + 1}) = Append(ElementsAt(t, P), c)
    <2> DEFINE b == Append(a, n + 1)
               e == ElementsAt(t, P)
    <2>1. b \in Seq(Nat) /\ Len(b) = Len(a) + 1 /\ DOMAIN b = 1 .. (Len(a) + 1)
          /\ b[Len(a) + 1] = n + 1 /\ \A m \in 1 .. Len(a) : b[m] = a[m]
      <3>1. n + 1 \in Nat
        BY <1>1
      <3> HIDE DEF a
      <3> QED BY <1>3, <3>1, AppendProperties
    <2>2. e = [m \in 1 .. Len(a) |-> t[a[m]]]
      BY <1>3, Zenon DEF ElementsAt
    <2>3. e \in Seq(A) /\ Len(e) = Len(a)
      <3>1. \A m \in 1 .. Len(a) : t[a[m]] \in A
        BY <1>1, <1>2, <1>3, ElementOfSeq
      <3> HIDE DEF a, e
      <3>2. e \in [1 .. Len(a) -> A]
        BY <2>2, <3>1
      <3> QED BY <1>3, <3>2, SMTT(30)
    <2>4. ElementsAt(u, P \cup {n + 1}) = [m \in 1 .. (Len(a) + 1) |-> u[b[m]]]
      BY <1>5, <2>1, Zenon DEF ElementsAt
    <2>5. /\ Append(e, c) \in Seq(A) /\ Len(Append(e, c)) = Len(a) + 1
          /\ Append(e, c)[Len(a) + 1] = c /\ \A m \in 1 .. Len(a) : Append(e, c)[m] = e[m]
      <3> HIDE DEF a, e
      <3> QED BY <2>3, AppendProperties
    <2>6. \A m \in 1 .. (Len(a) + 1) : u[b[m]] = Append(e, c)[m]
      <3> TAKE m \in 1 .. (Len(a) + 1)
      <3>1. CASE m = Len(a) + 1
        BY <1>1, <2>1, <2>5, <3>1
      <3>2. CASE m # Len(a) + 1
        <4>1. m \in 1 .. Len(a)
          BY <1>3, <3>2
        <4>2. b[m] = a[m] /\ a[m] \in 1 .. n /\ e[m] = t[a[m]]
          BY <1>2, <1>3, <2>1, <2>2, <4>1
        <4> HIDE DEF a, b, e
        <4> QED BY <1>1, <2>5, <4>1, <4>2
      <3> HIDE DEF a, b, e
      <3> QED BY <3>1, <3>2
    <2> DEFINE w == [m \in 1 .. (Len(a) + 1) |-> u[b[m]]]
    <2>7. w = Append(e, c)
      <3> HIDE DEF a, b, e
      <3>1. \A m \in 1 .. (Len(a) + 1) : u[b[m]] \in A
        BY <1>3, <2>5, <2>6
      <3>2. w \in Seq(A) /\ Len(w) = Len(a) + 1
        BY <1>3, <3>1
      <3>3. \A m \in 1 .. Len(w) : w[m] = Append(e, c)[m]
        BY <2>6, <3>2
      <3> HIDE DEF w
      <3> QED BY <2>5, <3>2, <3>3, SeqEqual
    <2> QED BY <2>4, <2>7
  <1> QED BY <1>4, <1>6 DEF u, n

\* Whether a quote is open behind a symbol, and where a new one separates.
LEMMA SeparatorsGrow ==
  ASSUME NEW A, NEW t \in Seq(A), NEW c \in A
  PROVE  /\ \A k \in 1 .. (Len(t) + 1) : QuotesBefore(Append(t, c), k) = QuotesBefore(t, k)
         /\ Closed(Append(t, c)) <=> IF c = Csv!Quote THEN ~Closed(t) ELSE Closed(t)
         /\ Csv!Separators(Append(t, c)) =
              Csv!Separators(t) \cup IF c = Csv!Comma /\ Closed(t) THEN {Len(t) + 1} ELSE {}
PROOF
  <1> DEFINE u == Append(t, c)
             n == Len(t)
  <1>1. /\ n \in Nat /\ DOMAIN t = 1 .. n /\ u \in Seq(A) /\ Len(u) = n + 1 /\ u[n + 1] = c
        /\ \A k \in 1 .. n : u[k] = t[k]
    BY AppendProperties
  <1>2. DOMAIN u = 1 .. (n + 1)
    BY <1>1
  <1> HIDE DEF u
  <1>3. ASSUME NEW k \in 1 .. (n + 1) PROVE QuotesBefore(u, k) = QuotesBefore(t, k)
    <2>1. \A q \in 1 .. (k - 1) : u[q] = t[q]
      BY <1>1
    <2>2. {q \in 1 .. (k - 1) : u[q] = Csv!Quote} = {q \in 1 .. (k - 1) : t[q] = Csv!Quote}
      BY <2>1
    <2> QED BY <2>2 DEF QuotesBefore
  <1>4. QuotesBefore(u, n + 2) = QuotesBefore(t, n + 1) + IF c = Csv!Quote THEN 1 ELSE 0
    <2> DEFINE Q == {q \in 1 .. n : t[q] = Csv!Quote}
    <2>1. QuotesBefore(t, n + 1) = Cardinality(Q) /\ IsFiniteSet(Q) /\ Cardinality(Q) \in Nat
      <3>1. (n + 1) - 1 = n /\ n + 1 \in Nat
        BY <1>1
      <3>2. QuotesBefore(t, n + 1) = Cardinality({q \in 1 .. ((n + 1) - 1) : t[q] = Csv!Quote})
        BY DEF QuotesBefore
      <3>3. QuotesBefore(t, n + 1) \in Nat /\ IsFiniteSet({q \in 1 .. ((n + 1) - 1) : t[q] = Csv!Quote})
        BY <3>1, SeparatorPlaces
      <3> HIDE DEF n
      <3> QED BY <3>1, <3>2, <3>3
    <2>2. QuotesBefore(u, n + 2) = Cardinality({q \in 1 .. (n + 1) : u[q] = Csv!Quote})
      <3>1. (n + 2) - 1 = n + 1
        BY <1>1
      <3>2. QuotesBefore(u, n + 2) = Cardinality({q \in 1 .. ((n + 2) - 1) : u[q] = Csv!Quote})
        BY DEF QuotesBefore
      <3> HIDE DEF n
      <3> QED BY <3>1, <3>2
    <2>3. \A q \in 1 .. (n + 1) : u[q] = IF q = n + 1 THEN c ELSE t[q]
      BY <1>1
    <2>4. CASE c = Csv!Quote
      <3>1. {q \in 1 .. (n + 1) : u[q] = Csv!Quote} = Q \cup {n + 1} /\ n + 1 \notin Q
        BY <1>1, <2>3, <2>4
      <3>2. Cardinality(Q \cup {n + 1}) = Cardinality(Q) + 1
        <4> HIDE DEF Q, n
        <4> QED BY <2>1, <3>1, FS_AddElement
      <3> QED BY <2>1, <2>2, <2>4, <3>1, <3>2
    <2>5. CASE c # Csv!Quote
      <3>1. {q \in 1 .. (n + 1) : u[q] = Csv!Quote} = Q
        BY <1>1, <2>3, <2>5
      <3>2. QuotesBefore(u, n + 2) = Cardinality(Q)
        BY <2>2, <3>1, Zenon
      <3> HIDE DEF Q, n
      <3> QED BY <2>1, <2>5, <3>2
    <2> QED BY <2>4, <2>5
  <1>5. Closed(u) <=> IF c = Csv!Quote THEN ~Closed(t) ELSE Closed(t)
    <2>1. PICK m \in Nat : m = QuotesBefore(t, n + 1)
      <3>1. n + 1 \in Nat
        BY <1>1
      <3> QED BY <3>1, SeparatorPlaces
    <2>2. Len(u) + 1 = n + 2
      BY <1>1
    <2>3. Closed(t) <=> m % 2 = 0
      BY <2>1 DEF Closed
    <2>4. Closed(u) <=> (m + IF c = Csv!Quote THEN 1 ELSE 0) % 2 = 0
      BY <1>4, <2>1, <2>2 DEF Closed
    <2>5. m % 2 \in {0, 1} /\ (m + 1) % 2 = 1 - (m % 2)
      OBVIOUS
    <2> QED BY <2>3, <2>4, <2>5
  <1>6. Csv!Separators(u) = Csv!Separators(t) \cup IF c = Csv!Comma /\ Closed(t) THEN {n + 1} ELSE {}
    <2>1. Csv!Separators(u) = {k \in 1 .. (n + 1) : u[k] = Csv!Comma /\ QuotesBefore(u, k) % 2 = 0}
      BY <1>2, LineDefinitions
    <2>2. Csv!Separators(t) = {k \in 1 .. n : t[k] = Csv!Comma /\ QuotesBefore(t, k) % 2 = 0}
      BY <1>1, LineDefinitions
    <2>3. ASSUME NEW k \in 1 .. n PROVE k \in Csv!Separators(u) <=> k \in Csv!Separators(t)
      <3>1. k \in 1 .. (n + 1) /\ u[k] = t[k]
        BY <1>1
      <3>2. QuotesBefore(u, k) = QuotesBefore(t, k)
        BY <1>3, <3>1
      <3> QED BY <2>1, <2>2, <3>1, <3>2
    <2>4. n + 1 \in Csv!Separators(u) <=> c = Csv!Comma /\ Closed(t)
      <3>1. n + 1 \in 1 .. (n + 1)
        BY <1>1
      <3>2. QuotesBefore(u, n + 1) = QuotesBefore(t, n + 1)
        BY <1>3, <3>1
      <3> QED BY <1>1, <2>1, <3>1, <3>2 DEF Closed
    <2>5. Csv!Separators(u) \subseteq 1 .. (n + 1) /\ Csv!Separators(t) \subseteq 1 .. n
      BY <2>1, <2>2
    <2>6. \A k \in 1 .. (n + 1) : k \in 1 .. n \/ k = n + 1
      BY <1>1
    <2>7. n + 1 \notin 1 .. n
      BY <1>1
    <2> QED BY <2>3, <2>4, <2>5, <2>6, <2>7
  <1>7. \A k \in 1 .. (Len(t) + 1) : QuotesBefore(Append(t, c), k) = QuotesBefore(t, k)
    BY <1>3, Zenon DEF u
  <1>8. Closed(Append(t, c)) <=> IF c = Csv!Quote THEN ~Closed(t) ELSE Closed(t)
    BY <1>5, Zenon DEF u
  <1> QED BY <1>6, <1>7, <1>8 DEF u

\* Where the characters of the fields stand in a text that has grown.
LEMMA PlacesGrow ==
  ASSUME NEW A, NEW t \in Seq(A), NEW c \in A
  PROVE  LET u == Append(t, c)
             n == Len(t)
             m == Cardinality(Csv!Separators(t)) + 1
         IN  /\ \A f \in 1 .. m :
                  Csv!Places(u, f) = Csv!Places(t, f)
                    \cup IF f = m /\ c # Csv!Quote /\ ~(c = Csv!Comma /\ Closed(t)) THEN {n + 1} ELSE {}
             /\ Csv!Places(u, m + 1) = {}
PROOF
  <1> DEFINE u == Append(t, c)
             n == Len(t)
             St == Csv!Separators(t)
             Su == Csv!Separators(u)
             m == Cardinality(St) + 1
  <1>1. /\ n \in Nat /\ DOMAIN t = 1 .. n /\ DOMAIN u = 1 .. (n + 1) /\ u[n + 1] = c
        /\ \A k \in 1 .. n : u[k] = t[k]
    BY AppendProperties
  <1>2. St \subseteq 1 .. n /\ Cardinality(St) \in Nat
        /\ \A k : SeparatorsBefore(t, k) \in 0 .. Cardinality(St)
    BY SeparatorPlaces, Zenon
  <1>3. Su = St \cup IF c = Csv!Comma /\ Closed(t) THEN {n + 1} ELSE {}
    BY SeparatorsGrow
  <1> HIDE DEF u, n, St, Su
  <1>4. ASSUME NEW k \in 1 .. (n + 1) PROVE SeparatorsBefore(u, k) = SeparatorsBefore(t, k)
    <2>1. {s \in Su : s < k} = {s \in St : s < k}
      <3>1. ~(n + 1 < k)
        BY <1>1
      <3> QED BY <1>3, <3>1
    <2> QED BY <2>1 DEF SeparatorsBefore, Su, St
  <1>5. SeparatorsBefore(t, n + 1) = Cardinality(St)
    <2>1. {s \in St : s < n + 1} = St
      <3>1. \A s \in 1 .. n : s < n + 1
        BY <1>1
      <3> QED BY <1>2, <3>1
    <2> QED BY <2>1 DEF SeparatorsBefore, St
  <1>6. \A f : Csv!Places(u, f) =
              {k \in 1 .. (n + 1) : k \notin Su /\ u[k] # Csv!Quote /\ SeparatorsBefore(u, k) = f - 1}
    <2> TAKE f
    <2>1. Csv!Places(u, f) = {k \in DOMAIN u \ Su : u[k] # Csv!Quote /\ SeparatorsBefore(u, k) = f - 1}
      BY LineDefinitions, ZenonT(60) DEF Su
    <2> QED BY <1>1, <2>1
  <1>7. \A f : Csv!Places(t, f) =
              {k \in 1 .. n : k \notin St /\ t[k] # Csv!Quote /\ SeparatorsBefore(t, k) = f - 1}
    <2> TAKE f
    <2>1. Csv!Places(t, f) = {k \in DOMAIN t \ St : t[k] # Csv!Quote /\ SeparatorsBefore(t, k) = f - 1}
      BY LineDefinitions, ZenonT(60) DEF St
    <2> QED BY <1>1, <2>1
  <1>8. \A k \in 1 .. (n + 1) : k \in 1 .. n \/ k = n + 1
    BY <1>1
  <1>9. n + 1 \notin 1 .. n /\ n + 1 \in 1 .. (n + 1) /\ 1 .. n \subseteq 1 .. (n + 1)
    BY <1>1
  <1>10. ASSUME NEW f, NEW k \in 1 .. n PROVE k \in Csv!Places(u, f) <=> k \in Csv!Places(t, f)
    <2>1. k \in 1 .. (n + 1) /\ u[k] = t[k] /\ SeparatorsBefore(u, k) = SeparatorsBefore(t, k)
      BY <1>1, <1>4, <1>9
    <2>2. k \in Su <=> k \in St
      BY <1>3, <1>9
    <2> QED BY <1>6, <1>7, <2>1, <2>2
  <1>11. ASSUME NEW f
         PROVE  n + 1 \in Csv!Places(u, f) <=>
                  ~(c = Csv!Comma /\ Closed(t)) /\ c # Csv!Quote /\ Cardinality(St) = f - 1
    <2>1. n + 1 \in Su <=> c = Csv!Comma /\ Closed(t)
      BY <1>2, <1>3, <1>9
    <2>2. SeparatorsBefore(u, n + 1) = Cardinality(St)
      BY <1>4, <1>5, <1>9
    <2> QED BY <1>1, <1>6, <1>9, <2>1, <2>2
  <1>12. ASSUME NEW f \in 1 .. m
         PROVE  Csv!Places(u, f) = Csv!Places(t, f)
                    \cup IF f = m /\ c # Csv!Quote /\ ~(c = Csv!Comma /\ Closed(t)) THEN {n + 1} ELSE {}
    <2>1. Cardinality(St) = f - 1 <=> f = m
      BY <1>2
    <2>2. Csv!Places(u, f) \subseteq 1 .. (n + 1) /\ Csv!Places(t, f) \subseteq 1 .. n
      BY <1>6, <1>7
    <2> QED BY <1>8, <1>9, <1>10, <1>11, <2>1, <2>2
  <1>13. Csv!Places(u, m + 1) = {}
    <2>1. ASSUME NEW k \in Csv!Places(u, m + 1) PROVE FALSE
      <3>1. k \in 1 .. (n + 1) /\ SeparatorsBefore(u, k) = (m + 1) - 1
        BY <1>6
      <3>2. SeparatorsBefore(t, k) \in 0 .. Cardinality(St) /\ (m + 1) - 1 = Cardinality(St) + 1
        BY <1>2
      <3> QED BY <1>2, <1>4, <3>1, <3>2
    <2> QED BY <2>1
  <1>14. \A f \in 1 .. m :
           Csv!Places(u, f) = Csv!Places(t, f)
             \cup IF f = m /\ c # Csv!Quote /\ ~(c = Csv!Comma /\ Closed(t)) THEN {n + 1} ELSE {}
    BY <1>12
  <1> QED BY <1>13, <1>14, Zenon DEF u, n, m, St

\* A quote opens or closes, a comma outside quotes begins a field, and any
\* other symbol becomes part of the last field.
LEMMA FieldsGrow ==
  ASSUME NEW A, NEW t \in Seq(A), NEW c \in A
  PROVE  LET fs == Csv!FieldsOf(t)
         IN  Csv!FieldsOf(Append(t, c)) =
               IF c = Csv!Quote THEN fs
               ELSE IF c = Csv!Comma /\ Closed(t) THEN Append(fs, << >>)
               ELSE [fs EXCEPT ![Len(fs)] = Append(fs[Len(fs)], c)]
PROOF
  <1> DEFINE u == Append(t, c)
             n == Len(t)
             fs == Csv!FieldsOf(t)
             gs == Csv!FieldsOf(u)
             m == Len(fs)
             grown == IF c = Csv!Quote THEN fs
                      ELSE IF c = Csv!Comma /\ Closed(t) THEN Append(fs, << >>)
                      ELSE [fs EXCEPT ![m] = Append(fs[m], c)]
  <1>1. /\ fs \in Seq(Seq(A)) /\ m = Cardinality(Csv!Separators(t)) + 1
        /\ \A f \in 1 .. m : Csv!Places(t, f) \in SUBSET (1 .. n) /\ fs[f] = ElementsAt(t, Csv!Places(t, f))
    BY FieldsAreTexts, Zenon
  <1>2. m \in Nat \ {0} /\ n \in Nat
    <2>1. Cardinality(Csv!Separators(t)) \in Nat
      BY SeparatorPlaces
    <2> QED BY <1>1, <2>1
  <1>3. u \in Seq(A)
    BY AppendProperties
  <1>4. /\ gs \in Seq(Seq(A)) /\ Len(gs) = Cardinality(Csv!Separators(u)) + 1
        /\ \A f \in 1 .. Len(gs) : gs[f] = ElementsAt(u, Csv!Places(u, f))
    BY <1>3, FieldsAreTexts, Zenon
  <1>5. Len(gs) = IF c = Csv!Comma /\ Closed(t) THEN m + 1 ELSE m
    <2>1. /\ Csv!Separators(u) = Csv!Separators(t) \cup IF c = Csv!Comma /\ Closed(t) THEN {n + 1} ELSE {}
          /\ IsFiniteSet(Csv!Separators(t)) /\ Csv!Separators(t) \subseteq 1 .. n
          /\ Cardinality(Csv!Separators(t)) \in Nat
      BY SeparatorsGrow, SeparatorPlaces, Zenon
    <2>2. n + 1 \notin Csv!Separators(t)
      BY <1>2, <2>1
    <2>3. CASE c = Csv!Comma /\ Closed(t)
      <3>1. Cardinality(Csv!Separators(u)) = Cardinality(Csv!Separators(t)) + 1
        BY <2>1, <2>2, <2>3, FS_AddElement, Zenon
      <3> QED BY <1>1, <1>4, <2>1, <2>3, <3>1
    <2>4. CASE ~(c = Csv!Comma /\ Closed(t))
      <3>1. Csv!Separators(u) = Csv!Separators(t)
        BY <2>1, <2>4
      <3> QED BY <1>1, <1>4, <2>4, <3>1
    <2> QED BY <2>3, <2>4
  <1>6. /\ \A f \in 1 .. m :
             Csv!Places(u, f) = Csv!Places(t, f)
                \cup IF f = m /\ c # Csv!Quote /\ ~(c = Csv!Comma /\ Closed(t)) THEN {n + 1} ELSE {}
        /\ Csv!Places(u, m + 1) = {}
    <2> DEFINE k == Cardinality(Csv!Separators(t)) + 1
    <2>1. /\ \A f \in 1 .. k :
               Csv!Places(u, f) = Csv!Places(t, f)
                  \cup IF f = k /\ c # Csv!Quote /\ ~(c = Csv!Comma /\ Closed(t)) THEN {n + 1} ELSE {}
          /\ Csv!Places(u, k + 1) = {}
      BY PlacesGrow
    <2>2. k = m
      BY <1>1
    <2> HIDE DEF k, m, u, n
    <2> QED BY <2>1, <2>2
  <1>7. ASSUME NEW P \in SUBSET (1 .. n)
         PROVE  ElementsAt(u, P) = ElementsAt(t, P) /\ ElementsAt(u, P \cup {n + 1}) = Append(ElementsAt(t, P), c)
    BY ElementsGrow
  <1>8. ASSUME NEW f \in 1 .. m
        PROVE  gs[f] = IF f = m /\ c # Csv!Quote /\ ~(c = Csv!Comma /\ Closed(t))
                       THEN Append(fs[f], c) ELSE fs[f]
    <2>1. f \in 1 .. Len(gs)
      BY <1>2, <1>5
    <2>2. gs[f] = ElementsAt(u, Csv!Places(u, f))
      BY <1>4, <2>1
    <2>3. Csv!Places(t, f) \in SUBSET (1 .. n) /\ fs[f] = ElementsAt(t, Csv!Places(t, f))
      BY <1>1
    <2>4. /\ ElementsAt(u, Csv!Places(t, f)) = ElementsAt(t, Csv!Places(t, f))
          /\ ElementsAt(u, Csv!Places(t, f) \cup {n + 1}) = Append(ElementsAt(t, Csv!Places(t, f)), c)
      BY <1>7, <2>3, Zenon
    <2>5. CASE f = m /\ c # Csv!Quote /\ ~(c = Csv!Comma /\ Closed(t))
      <3>1. Csv!Places(u, f) = Csv!Places(t, f) \cup {n + 1}
        BY <1>6, <2>5
      <3> HIDE DEF u, fs, gs
      <3> QED BY <2>2, <2>3, <2>4, <2>5, <3>1
    <2>6. CASE ~(f = m /\ c # Csv!Quote /\ ~(c = Csv!Comma /\ Closed(t)))
      <3>1. Csv!Places(u, f) = Csv!Places(t, f)
        <4> HIDE DEF u, m
        <4> QED BY <1>6, <2>6
      <3> HIDE DEF u, fs, gs
      <3> QED BY <2>2, <2>3, <2>4, <2>6, <3>1
    <2> QED BY <2>5, <2>6
  <1>9. c = Csv!Comma /\ Closed(t) => gs[m + 1] = << >>
    <2> HAVE c = Csv!Comma /\ Closed(t)
    <2>1. m + 1 \in 1 .. Len(gs)
      BY <1>2, <1>5
    <2>2. gs[m + 1] = ElementsAt(u, {})
      BY <1>4, <1>6, <2>1
    <2>3. {} \in SUBSET Nat /\ IsFiniteSet({}) /\ Cardinality({}) = 0
      BY FS_EmptySet
    <2>4. Ascending({}) \in Seq(Nat) /\ Len(Ascending({})) = 0
      BY <2>3, AscendingRanks
    <2>5. Ascending({}) = << >>
      BY <2>4
    <2>6. ElementsAt(u, {}) = << >>
      BY <2>5 DEF ElementsAt
    <2> QED BY <2>2, <2>6
  <1>10. grown \in Seq(Seq(A)) /\ Len(grown) = Len(gs) /\ \A f \in 1 .. Len(gs) : grown[f] = gs[f]
    <2> HIDE DEF fs, gs, u
    <2>0. Csv!Comma # Csv!Quote
      BY DEF Csv!Comma, Csv!Quote
    <2>1. CASE c = Csv!Quote
      <3>1. grown = fs /\ Len(gs) = m
        BY <1>5, <2>0, <2>1
      <3> QED BY <1>1, <1>8, <2>1, <3>1
    <2>2. CASE c = Csv!Comma /\ Closed(t)
      <3>1. grown = Append(fs, << >>) /\ Len(gs) = m + 1
        BY <1>5, <2>0, <2>2
      <3>2. << >> \in Seq(A)
        OBVIOUS
      <3>3. /\ grown \in Seq(Seq(A)) /\ Len(grown) = m + 1 /\ grown[m + 1] = << >>
            /\ \A f \in 1 .. m : grown[f] = fs[f]
        BY <1>1, <3>1, <3>2, AppendProperties
      <3>4. \A f \in 1 .. (m + 1) : f \in 1 .. m \/ f = m + 1
        BY <1>2
      <3> HIDE DEF grown
      <3> QED BY <1>8, <1>9, <2>2, <3>1, <3>3, <3>4
    <2>3. CASE c # Csv!Quote /\ ~(c = Csv!Comma /\ Closed(t))
      <3>1. grown = [fs EXCEPT ![m] = Append(fs[m], c)] /\ Len(gs) = m
        BY <1>5, <2>3
      <3>2. m \in 1 .. Len(fs) /\ fs[m] \in Seq(A)
        BY <1>1, <1>2
      <3>3. Append(fs[m], c) \in Seq(A)
        BY <3>2, AppendProperties
      <3>4. /\ grown \in Seq(Seq(A)) /\ Len(grown) = m
            /\ \A f \in 1 .. m : grown[f] = IF f = m THEN Append(fs[m], c) ELSE fs[f]
        BY <1>1, <3>1, <3>2, <3>3, ExceptSeq
      <3> HIDE DEF grown
      <3> QED BY <1>8, <2>3, <3>1, <3>4
    <2> QED BY <2>1, <2>2, <2>3
  <1>11. grown = gs
    <2> HIDE DEF grown, gs
    <2> QED BY <1>4, <1>10, SeqEqual
  <1> QED BY <1>11, Zenon DEF grown, gs, u, fs, m

\* The empty text has one field, which is empty.
LEMMA FieldsOfNothing ==
  Closed(<< >>) /\ Csv!FieldsOf(<< >>) = << << >> >>
PROOF
  <1>1. << >> \in Seq({}) /\ Len(<< >>) = 0
    OBVIOUS
  <1>2. Csv!Separators(<< >>) = {} /\ Cardinality({}) = 0
    <2>1. Csv!Separators(<< >>) \in SUBSET (1 .. 0)
      BY <1>1, SeparatorPlaces
    <2> QED BY <2>1, FS_EmptySet
  <1>3. /\ Csv!FieldsOf(<< >>) \in Seq(Seq({})) /\ Len(Csv!FieldsOf(<< >>)) = 1
    <2>1. /\ Csv!FieldsOf(<< >>) \in Seq(Seq({}))
          /\ Len(Csv!FieldsOf(<< >>)) = Cardinality(Csv!Separators(<< >>)) + 1
      BY <1>1, FieldsAreTexts
    <2>2. Cardinality(Csv!Separators(<< >>)) = 0
      BY <1>2, Zenon
    <2>3. 0 + 1 = 1
      OBVIOUS
    <2> QED BY <2>1, <2>2, <2>3, Zenon
  <1>4. Csv!FieldsOf(<< >>)[1] \in Seq({})
    BY <1>3
  <1>5. Csv!FieldsOf(<< >>)[1] = << >>
    BY <1>4, EmptySeq, ElementOfSeq
  <1>6. QuotesBefore(<< >>, 1) = 0
    <2>1. {q \in 1 .. (1 - 1) : << >>[q] = Csv!Quote} = {}
      OBVIOUS
    <2> QED BY <2>1, FS_EmptySet DEF QuotesBefore
  <1>7. Closed(<< >>)
    BY <1>1, <1>6 DEF Closed
  <1> QED BY <1>3, <1>5, <1>7

-----------------------------------------------------------------------------
(* Reading a line.                                                         *)

Characters == Range(line.text)

Prefix == SubSeq(line.text, 1, position)

\* What the loop has split is what the places of commas and quotes say, and
\* in_quotes tells whether a quote is open; behind the loop the outcome is
\* that of all the fields.
LineInv ==
  lineOutcome.kind # "rest" =>
    /\ line \in Lines /\ types \in LineTypes /\ position \in 0 .. Len(line.text)
    /\ field \in Seq(Characters) /\ fields \in Seq(Seq(Characters))
    /\ lineOutcome.kind = "reading" =>
         /\ inQuotes = ~Closed(Prefix)
         /\ Append(fields, field) = Csv!FieldsOf(Prefix)
    /\ lineOutcome.kind # "reading" =>
         IF line.text = << >> THEN lineOutcome = [kind |-> "skipped"]
         ELSE fields = Csv!FieldsOf(line.text) /\ lineOutcome = Csv!OutcomeOf(fields)

Resting == line.text = << >> /\ line.source = << >> /\ lineOutcome.kind = "rest"

LineInvariant == LineInv /\ (lineOutcome.kind = "rest" => Resting)

\* The last of a sequence may be exchanged.
LEMMA AppendExcept ==
  ASSUME NEW A, NEW s \in Seq(A), NEW x \in A, NEW y \in A
  PROVE  LET t == Append(s, x)
         IN  t[Len(t)] = x /\ [t EXCEPT ![Len(t)] = y] = Append(s, y)
PROOF
  <1> DEFINE t == Append(s, x)
             u == Append(s, y)
             v == [t EXCEPT ![Len(t)] = y]
  <1>1. /\ t \in Seq(A) /\ Len(t) = Len(s) + 1 /\ t[Len(s) + 1] = x /\ Len(s) \in Nat
        /\ \A k \in 1 .. Len(s) : t[k] = s[k]
        /\ u \in Seq(A) /\ Len(u) = Len(s) + 1 /\ u[Len(s) + 1] = y
        /\ \A k \in 1 .. Len(s) : u[k] = s[k]
    BY AppendProperties
  <1> HIDE DEF t, u
  <1>2. Len(t) \in 1 .. Len(t)
    BY <1>1
  <1>3. /\ v \in Seq(A) /\ Len(v) = Len(t)
        /\ \A k \in 1 .. Len(t) : v[k] = IF k = Len(t) THEN y ELSE t[k]
    BY <1>1, <1>2, ExceptSeq
  <1>4. \A k \in 1 .. Len(t) : v[k] = u[k]
    <2> HIDE DEF v
    <2> TAKE k \in 1 .. Len(t)
    <2>1. k = Len(t) \/ k \in 1 .. Len(s)
      BY <1>1
    <2> QED BY <1>1, <1>3, <2>1
  <1>5. v = u
    <2> HIDE DEF v
    <2> QED BY <1>1, <1>3, <1>4, SeqEqual
  <1> QED BY <1>1, <1>5, Zenon DEF t, u, v

\* The characters of a line, and its text as far as it has been read.
LEMMA LineTyped ==
  ASSUME line \in Lines, position \in 0 .. Len(line.text)
  PROVE  /\ line.text \in Seq(Characters) /\ Len(line.text) \in Nat
         /\ Prefix \in Seq(Characters) /\ Len(Prefix) = position
         /\ position < Len(line.text) =>
              /\ line.text[position + 1] \in Characters
              /\ SubSeq(line.text, 1, position + 1) = Append(Prefix, line.text[position + 1])
         /\ position = Len(line.text) => Prefix = line.text
PROOF
  <1> DEFINE A == Characters
             t == line.text
  <1>1. t \in Seq(A) /\ Len(t) \in Nat
    <2>1. t \in Seq(A)
      BY LineAssumption, Zenon DEF Characters
    <2> HIDE DEF A, t
    <2> QED BY <2>1
  <1> HIDE DEF A, t
  <1>2. position \in 0 .. Len(t)
    BY DEF t
  <1>3. SubSeq(t, 1, position) \in Seq(A) /\ Len(SubSeq(t, 1, position)) = position
    BY <1>1, <1>2, SubSeqProperties
  <1>4. ASSUME position < Len(t)
        PROVE  t[position + 1] \in A /\ SubSeq(t, 1, position + 1) = Append(SubSeq(t, 1, position), t[position + 1])
    <2>1. position + 1 \in 1 .. Len(t) /\ 1 \in 1 .. Len(t) /\ (position + 1) - 1 = position
          /\ position + 1 \in 1 .. Len(t)
      BY <1>1, <1>2, <1>4
    <2>2. t[position + 1] \in A
      BY <1>1, <2>1
    <2>3. SubSeq(t, 1, position + 1) = SubSeq(t, 1, (position + 1) - 1) \o <<t[position + 1]>>
      BY <1>1, <2>1, SubSeqRecursiveSecond
    <2>4. Append(SubSeq(t, 1, position), t[position + 1]) = SubSeq(t, 1, position) \o <<t[position + 1]>>
      BY <1>3, <2>2, AppendIsConcat
    <2> QED BY <2>1, <2>2, <2>3, <2>4
  <1>5. position = Len(t) => SubSeq(t, 1, position) = t
    BY <1>1, SubSeqFull
  <1> QED BY <1>1, <1>3, <1>4, <1>5, Zenon DEF A, t, Prefix

\* An outcome is never that the line is still read, or rests.
LEMMA OutcomeKinds ==
  ASSUME NEW fs
  PROVE  Csv!OutcomeOf(fs).kind \in {"skipped", "throws", "stored"}
PROOF
  BY DEF Csv!OutcomeOf

\* A step of the loop.
LEMMA LineSteps ==
  ASSUME LineInvariant, Csv!Next
  PROVE  LineInvariant'
PROOF
  <1>1. lineOutcome.kind = "reading"
    BY Zenon DEF Csv!Next, Csv!BlankLine, Csv!ReadQuote, Csv!ReadSeparator, Csv!ReadCharacter, Csv!EndOfLine,
             Csv!Reading
  <1>2. /\ line \in Lines /\ types \in LineTypes /\ position \in 0 .. Len(line.text)
        /\ field \in Seq(Characters) /\ fields \in Seq(Seq(Characters))
        /\ inQuotes = ~Closed(Prefix) /\ Append(fields, field) = Csv!FieldsOf(Prefix)
    BY <1>1 DEF LineInvariant, LineInv
  <1>3. line' = line /\ types' = types /\ Characters' = Characters
    BY DEF Csv!Next, Csv!BlankLine, Csv!ReadQuote, Csv!ReadSeparator, Csv!ReadCharacter, Csv!EndOfLine,
           Characters
  <1>4. /\ line.text \in Seq(Characters) /\ Len(line.text) \in Nat
        /\ Prefix \in Seq(Characters)
        /\ position < Len(line.text) =>
              /\ line.text[position + 1] \in Characters
              /\ SubSeq(line.text, 1, position + 1) = Append(Prefix, line.text[position + 1])
        /\ position = Len(line.text) => Prefix = line.text
    BY <1>2, LineTyped
  <1>5. ASSUME position' = position + 1, lineOutcome' = lineOutcome, position < Len(line.text),
               field' \in Seq(Characters), fields' \in Seq(Seq(Characters)),
               inQuotes' = ~Closed(Append(Prefix, line.text[position + 1])),
               Append(fields', field') = Csv!FieldsOf(Append(Prefix, line.text[position + 1]))
        PROVE  LineInvariant'
    <2>1. Prefix' = Append(Prefix, line.text[position + 1])
      BY <1>3, <1>4, <1>5 DEF Prefix
    <2>2. position' \in 0 .. Len(line.text)
      BY <1>2, <1>4, <1>5
    <2>3. lineOutcome'.kind = "reading"
      BY <1>1, <1>5
    <2> QED BY <1>2, <1>3, <1>5, <2>1, <2>2, <2>3, Zenon DEF LineInvariant, LineInv
  <1>6. CASE Csv!BlankLine
    <2>1. line.text = << >> /\ lineOutcome' = [kind |-> "skipped"]
          /\ position' = position /\ field' = field /\ fields' = fields
      BY <1>6 DEF Csv!BlankLine
    <2>2. lineOutcome'.kind = "skipped"
      BY <2>1
    <2>3. lineOutcome'.kind # "rest" /\ lineOutcome'.kind # "reading"
      BY <2>2
    <2> QED BY <1>2, <1>3, <2>1, <2>3, Zenon DEF LineInvariant, LineInv
  <1>7. ASSUME Csv!Reading PROVE position < Len(line.text) /\ Csv!Char = line.text[position + 1]
    BY <1>7 DEF Csv!Reading, Csv!Char
  <1> DEFINE c == line.text[position + 1]
  <1>8. CASE Csv!ReadQuote
    <2>1. /\ Csv!Reading /\ c = Csv!Quote /\ inQuotes' = ~inQuotes /\ position' = position + 1
          /\ field' = field /\ fields' = fields /\ lineOutcome' = lineOutcome
      BY <1>8 DEF Csv!ReadQuote, Csv!Char
    <2>2. c \in Characters /\ position < Len(line.text)
      BY <1>4, <1>7, <2>1
    <2> HIDE DEF c
    <2>3. Csv!FieldsOf(Append(Prefix, c)) = Csv!FieldsOf(Prefix)
      BY <1>4, <2>1, <2>2, FieldsGrow
    <2>4. Closed(Append(Prefix, c)) <=> ~Closed(Prefix)
      BY <1>4, <2>1, <2>2, SeparatorsGrow
    <2> QED BY <1>2, <1>5, <2>1, <2>2, <2>3, <2>4, Zenon DEF c
  <1>9. CASE Csv!ReadSeparator
    <2>1. /\ Csv!Reading /\ c = Csv!Comma /\ ~inQuotes /\ inQuotes' = inQuotes /\ position' = position + 1
          /\ field' = << >> /\ fields' = Append(fields, field) /\ lineOutcome' = lineOutcome
      BY <1>9 DEF Csv!ReadSeparator, Csv!Separates, Csv!Char
    <2>2. c \in Characters /\ position < Len(line.text)
      BY <1>4, <1>7, <2>1
    <2>3. Csv!Comma # Csv!Quote
      BY DEF Csv!Comma, Csv!Quote
    <2> HIDE DEF c
    <2>4. Csv!FieldsOf(Append(Prefix, c)) = Append(Csv!FieldsOf(Prefix), << >>)
      BY <1>2, <1>4, <2>1, <2>2, <2>3, FieldsGrow
    <2>5. Closed(Append(Prefix, c)) <=> Closed(Prefix)
      BY <1>4, <2>1, <2>2, <2>3, SeparatorsGrow
    <2>6. field' \in Seq(Characters) /\ fields' \in Seq(Seq(Characters))
      <3> DEFINE B == Seq(Characters)
      <3>1. field' \in B
        BY <2>1
      <3>2. fields \in Seq(B) /\ field \in B
        BY <1>2
      <3> HIDE DEF B
      <3>3. fields' \in Seq(B)
        BY <2>1, <3>2, AppendProperties
      <3> QED BY <3>1, <3>3 DEF B
    <2> QED BY <1>2, <1>5, <2>1, <2>2, <2>4, <2>5, <2>6, Zenon DEF c
  <1>10. CASE Csv!ReadCharacter
    <2>1. /\ Csv!Reading /\ c # Csv!Quote /\ ~(c = Csv!Comma /\ ~inQuotes)
          /\ inQuotes' = inQuotes /\ position' = position + 1
          /\ field' = Append(field, c) /\ fields' = fields /\ lineOutcome' = lineOutcome
      BY <1>10 DEF Csv!ReadCharacter, Csv!Separates, Csv!Char
    <2>2. c \in Characters /\ position < Len(line.text)
      BY <1>4, <1>7, <2>1
    <2> HIDE DEF c
    <2> DEFINE fs == Csv!FieldsOf(Prefix)
    <2>3. Csv!FieldsOf(Append(Prefix, c)) = [fs EXCEPT ![Len(fs)] = Append(fs[Len(fs)], c)]
      <3>1. c # Csv!Quote /\ ~(c = Csv!Comma /\ Closed(Prefix))
        BY <1>2, <2>1
      <3> QED BY <1>4, <2>2, <3>1, FieldsGrow, Zenon
    <2>4. Closed(Append(Prefix, c)) <=> Closed(Prefix)
      BY <1>4, <2>1, <2>2, SeparatorsGrow
    <2>5. field' \in Seq(Characters) /\ fields' \in Seq(Seq(Characters))
      BY <1>2, <2>1, <2>2, AppendProperties
    <2>6. fs[Len(fs)] = field /\ [fs EXCEPT ![Len(fs)] = Append(field, c)] = Append(fields, Append(field, c))
      <3> DEFINE B == Seq(Characters)
      <3>1. fs = Append(fields, field) /\ Append(field, c) \in B
        BY <1>2, <2>1, <2>5
      <3>2. fields \in Seq(B) /\ field \in B
        BY <1>2
      <3> DEFINE d == Append(field, c)
                 t == Append(fields, field)
      <3>5. d \in B
        BY <3>1
      <3> HIDE DEF B, d
      <3>3. t[Len(t)] = field /\ [t EXCEPT ![Len(t)] = d] = Append(fields, d)
        BY <3>2, <3>5, AppendExcept
      <3> HIDE DEF t
      <3>4. fs = t
        BY <3>1 DEF t
      <3> QED BY <3>3, <3>4, Zenon DEF d
    <2>7. Append(fields', field') = Csv!FieldsOf(Append(Prefix, c))
      BY <2>1, <2>3, <2>6
    <2> QED BY <1>2, <1>5, <2>1, <2>2, <2>4, <2>5, <2>7, Zenon DEF c
  <1>11. CASE Csv!EndOfLine
    <2>1. /\ line.text # << >> /\ position = Len(line.text) /\ fields' = Append(fields, field)
          /\ lineOutcome' = Csv!OutcomeOf(fields') /\ position' = position /\ field' = field
      BY <1>11, Zenon DEF Csv!EndOfLine
    <2>2. fields' = Csv!FieldsOf(line.text)
      BY <1>2, <1>4, <2>1
    <2>3. fields' \in Seq(Seq(Characters))
      <3> DEFINE B == Seq(Characters)
      <3>1. fields \in Seq(B) /\ field \in B
        BY <1>2
      <3> HIDE DEF B
      <3>2. fields' \in Seq(B)
        BY <2>1, <3>1, AppendProperties
      <3> QED BY <3>2 DEF B
    <2>4. Csv!OutcomeOf(fields)' = Csv!OutcomeOf(fields')
      BY <1>3, Zenon DEF Csv!OutcomeOf
    <2>5. lineOutcome'.kind # "rest" /\ lineOutcome'.kind # "reading"
      <3>1. lineOutcome'.kind \in {"skipped", "throws", "stored"}
        BY <2>1, OutcomeKinds
      <3> QED BY <3>1
    <2> QED BY <1>2, <1>3, <2>1, <2>2, <2>3, <2>4, <2>5, Zenon DEF LineInvariant, LineInv
  <1> QED BY <1>6, <1>8, <1>9, <1>10, <1>11, Zenon DEF Csv!Next

-----------------------------------------------------------------------------
(* A carriage return.                                                      *)

\* Digits, with where they start and end named.
LEMMA DigitsBetween ==
  ASSUME NEW A, NEW f \in Seq(A), NEW start \in Nat, NEW end \in Nat,
         start \in {k \in 1 .. Len(f) : f[k] # Csv!CR} \cup {Len(f) + 1},
         \A k \in 1 .. Len(f) : f[k] # Csv!CR => start <= k,
         end \in {k \in start .. Len(f) : f[k] # Csv!Digit} \cup {Len(f) + 1},
         \A k \in start .. Len(f) : f[k] # Csv!Digit => end <= k
  PROVE  Csv!Digits(f) = SubSeq(f, start, end - 1) /\ start \in 1 .. (Len(f) + 1) /\ end \in start .. (Len(f) + 1)
PROOF
  <1> DEFINE S == {k \in DOMAIN f : f[k] # Csv!CR} \cup {Len(f) + 1}
             E == {k \in start .. Len(f) : f[k] # Csv!Digit} \cup {Len(f) + 1}
  <1>1. Len(f) \in Nat /\ DOMAIN f = 1 .. Len(f)
    OBVIOUS
  <1>2. start \in 1 .. (Len(f) + 1)
    BY <1>1
  <1>3. end \in start .. (Len(f) + 1)
    BY <1>1, <1>2
  <1>4. Min(S) = start
    <2>1. S \in SUBSET Nat /\ start \in S
      BY <1>1
    <2>2. \A k \in S : start <= k
      BY <1>1, <1>2
    <2> HIDE DEF S
    <2> QED BY <2>1, <2>2, MinIs
  <1>5. Min(E) = end
    <2>1. E \in SUBSET Nat /\ end \in E
      BY <1>1
    <2>2. \A k \in E : end <= k
      BY <1>1, <1>3
    <2> HIDE DEF E
    <2> QED BY <2>1, <2>2, MinIs
  <1>6. Csv!Digits(f) = SubSeq(f, start, end - 1)
    <2>1. Csv!Min(S) = start /\ Csv!Min(E) = end
      BY <1>4, <1>5, LineOperators, Zenon
    <2> QED BY <2>1, Zenon DEF Csv!Digits
  <1> QED BY <1>2, <1>3, <1>6

\* What std::stoi reads is the same with a carriage return behind it.
LEMMA DigitsBeforeReturn ==
  ASSUME NEW A, NEW f \in Seq(A), Csv!CR \in A
  PROVE  Csv!Digits(Append(f, Csv!CR)) = Csv!Digits(f)
PROOF
  <1> DEFINE g == Append(f, Csv!CR)
             n == Len(f)
             S == {k \in 1 .. n : f[k] # Csv!CR}
             start == Min(S \cup {n + 1})
             E == {k \in start .. n : f[k] # Csv!Digit}
             end == Min(E \cup {n + 1})
  <1>1. /\ n \in Nat /\ g \in Seq(A) /\ Len(g) = n + 1 /\ g[n + 1] = Csv!CR
        /\ \A k \in 1 .. n : g[k] = f[k]
    BY AppendProperties
  <1> HIDE DEF g
  <1>2. start \in S \cup {n + 1} /\ start \in Nat /\ \A k \in S : start <= k
    <2>1. S \cup {n + 1} \in SUBSET Nat /\ S \cup {n + 1} # {}
      BY <1>1
    <2>2. start \in S \cup {n + 1} /\ \A k \in S \cup {n + 1} : start <= k
      <3> HIDE DEF S
      <3> QED BY <2>1, LeastNumber
    <2> HIDE DEF start, S
    <2> QED BY <2>1, <2>2
  <1> HIDE DEF start
  <1>3. end \in E \cup {n + 1} /\ end \in Nat /\ \A k \in E : end <= k
    <2>1. E \cup {n + 1} \in SUBSET Nat /\ E \cup {n + 1} # {}
      BY <1>1, <1>2
    <2>2. end \in E \cup {n + 1} /\ \A k \in E \cup {n + 1} : end <= k
      <3> HIDE DEF E
      <3> QED BY <2>1, LeastNumber
    <2> HIDE DEF end, E
    <2> QED BY <2>1, <2>2
  <1> HIDE DEF end
  <1>4. Csv!Digits(f) = SubSeq(f, start, end - 1) /\ start \in 1 .. (n + 1) /\ end \in start .. (n + 1)
    <2>1. \A k \in 1 .. n : f[k] # Csv!CR => start <= k
      BY <1>2
    <2>2. \A k \in start .. n : f[k] # Csv!Digit => end <= k
      BY <1>3
    <2>3. start \in {k \in 1 .. n : f[k] # Csv!CR} \cup {n + 1}
          /\ end \in {k \in start .. n : f[k] # Csv!Digit} \cup {n + 1}
      BY <1>2, <1>3
    <2> QED BY <1>2, <1>3, <2>1, <2>2, <2>3, DigitsBetween
  <1>5. Csv!CR # Csv!Digit
    BY DEF Csv!CR, Csv!Digit
  <1>6. CASE start <= n
    <2>1. start \in 1 .. n /\ f[start] # Csv!CR
      BY <1>1, <1>2, <1>4, <1>6
    <2>2. start \in {k \in 1 .. Len(g) : g[k] # Csv!CR} \cup {Len(g) + 1}
          /\ \A k \in 1 .. Len(g) : g[k] # Csv!CR => start <= k
      <3>1. start \in 1 .. Len(g) /\ g[start] # Csv!CR
        BY <1>1, <2>1
      <3>2. ASSUME NEW k \in 1 .. Len(g), g[k] # Csv!CR PROVE start <= k
        <4>1. k \in 1 .. n /\ f[k] # Csv!CR
          BY <1>1, <3>2
        <4> QED BY <1>2, <4>1
      <3> QED BY <3>1, <3>2
    <2>3. end \in {k \in start .. Len(g) : g[k] # Csv!Digit} \cup {Len(g) + 1}
      <3>1. end \in start .. Len(g)
        BY <1>1, <1>4
      <3>2. CASE end = n + 1
        BY <1>1, <1>5, <3>1, <3>2
      <3>3. CASE end # n + 1
        <4>1. end \in start .. n /\ f[end] # Csv!Digit /\ end \in 1 .. n
          BY <1>1, <1>3, <1>4, <3>3
        <4> QED BY <1>1, <3>1, <4>1
      <3> QED BY <3>2, <3>3
    <2>4. ASSUME NEW k \in start .. Len(g), g[k] # Csv!Digit PROVE end <= k
      <3>1. CASE k = n + 1
        BY <1>1, <1>4, <3>1
      <3>2. CASE k # n + 1
        <4>1. k \in start .. n /\ k \in 1 .. n
          BY <1>1, <1>4, <3>2
        <4>2. f[k] # Csv!Digit
          BY <1>1, <2>4, <4>1
        <4> QED BY <1>3, <4>1, <4>2
      <3> QED BY <3>1, <3>2
    <2>5. Csv!Digits(g) = SubSeq(g, start, end - 1)
      BY <1>1, <1>2, <1>3, <2>2, <2>3, <2>4, DigitsBetween
    <2>6. SubSeq(g, start, end - 1) = SubSeq(f, start, end - 1)
      <3>1. start \in Nat /\ end - 1 \in Nat /\ start >= 1 /\ end - 1 <= n
        BY <1>1, <1>4
      <3>2. SubSeq(g, start, end - 1) = [k \in 1 .. ((end - 1) - start + 1) |-> g[start + k - 1]]
        BY <1>1, <3>1
      <3>3. SubSeq(f, start, end - 1) = [k \in 1 .. ((end - 1) - start + 1) |-> f[start + k - 1]]
        BY <1>1, <3>1
      <3>4. \A k \in 1 .. ((end - 1) - start + 1) : g[start + k - 1] = f[start + k - 1]
        <4> TAKE k \in 1 .. ((end - 1) - start + 1)
        <4>1. start + k - 1 \in 1 .. n
          BY <1>1, <3>1
        <4> QED BY <1>1, <4>1
      <3> QED BY <3>2, <3>3, <3>4
    <2> QED BY <1>4, <2>5, <2>6 DEF g
  <1>7. CASE ~(start <= n)
    <2>1. start = n + 1 /\ end = n + 1
      BY <1>1, <1>2, <1>4, <1>7
    <2>2. \A k \in 1 .. n : f[k] = Csv!CR
      BY <1>1, <1>2, <2>1
    <2>3. \A k \in 1 .. Len(g) : g[k] = Csv!CR
      <3> TAKE k \in 1 .. Len(g)
      <3>1. k \in 1 .. n \/ k = n + 1
        BY <1>1
      <3> QED BY <1>1, <2>2, <3>1
    <2>4. Csv!Digits(g) = SubSeq(g, n + 2, (n + 2) - 1)
      <3>1. n + 2 \in Nat /\ Len(g) + 1 = n + 2
        BY <1>1
      <3>2. n + 2 \in {k \in 1 .. Len(g) : g[k] # Csv!CR} \cup {Len(g) + 1}
            /\ n + 2 \in {k \in (n + 2) .. Len(g) : g[k] # Csv!Digit} \cup {Len(g) + 1}
        BY <3>1
      <3>3. \A k \in 1 .. Len(g) : g[k] # Csv!CR => n + 2 <= k
        BY <2>3
      <3>4. \A k \in (n + 2) .. Len(g) : g[k] # Csv!Digit => n + 2 <= k
        BY <1>1
      <3> QED BY <1>1, <3>1, <3>2, <3>3, <3>4, DigitsBetween
    <2>5. SubSeq(g, n + 2, (n + 2) - 1) = << >> /\ SubSeq(f, n + 1, (n + 1) - 1) = << >>
      BY <1>1, SubSeqEmpty
    <2> QED BY <1>4, <2>1, <2>4, <2>5 DEF g
  <1> QED BY <1>1, <1>2, <1>6, <1>7

\* A line with a carriage return at its end has the outcome of the line
\* without it.
LEMMA ReturnHarmless ==
  ASSUME NEW A, NEW bare \in Seq(A), Csv!CR \in A, types \in LineTypes
  PROVE  /\ bare # << >> =>
              Csv!OutcomeOf(Csv!FieldsOf(Append(bare, Csv!CR))) = Csv!OutcomeOf(Csv!FieldsOf(bare))
         /\ bare = << >> =>
              Csv!OutcomeOf(Csv!FieldsOf(Append(bare, Csv!CR))).kind =
                IF Len(types) # 1 THEN "skipped" ELSE IF types[1] = "STRING" THEN "stored" ELSE "throws"
PROOF
  <1> DEFINE fs == Csv!FieldsOf(bare)
             gs == Csv!FieldsOf(Append(bare, Csv!CR))
  <1>1. fs \in Seq(Seq(A)) /\ Len(fs) \in Nat \ {0}
    <2>1. Cardinality(Csv!Separators(bare)) \in Nat
      BY SeparatorPlaces
    <2> QED BY <2>1, FieldsAreTexts
  <1>2. Csv!CR # Csv!Quote /\ Csv!CR # Csv!Comma
    BY DEF Csv!CR, Csv!Quote, Csv!Comma
  <1>3. gs = [fs EXCEPT ![Len(fs)] = Append(fs[Len(fs)], Csv!CR)]
    BY <1>2, FieldsGrow
  <1>4. DOMAIN types = 1 .. Len(types) /\ Len(types) \in Nat
    BY LineAssumption
  <1> HIDE DEF fs, gs
  <1>5. Len(gs) = Len(fs)
    BY <1>1, <1>3
  <1>6. ASSUME NEW c \in 1 .. Len(fs) PROVE Csv!Digits(gs[c]) = Csv!Digits(fs[c])
    <2>1. fs[c] \in Seq(A)
      BY <1>1
    <2>2. Csv!Digits(Append(fs[c], Csv!CR)) = Csv!Digits(fs[c])
      BY <2>1, DigitsBeforeReturn
    <2>3. gs[c] = IF c = Len(fs) THEN Append(fs[c], Csv!CR) ELSE fs[c]
      BY <1>1, <1>3
    <2> QED BY <2>2, <2>3
  <1>7. Csv!OutcomeOf(gs) = Csv!OutcomeOf(fs)
    <2>1. CASE Len(fs) # Len(types)
      BY <1>5, <2>1 DEF Csv!OutcomeOf
    <2>2. CASE Len(fs) = Len(types)
      <3>1. \A c \in DOMAIN types : Csv!Digits(gs[c]) = Csv!Digits(fs[c])
        BY <1>4, <1>6, <2>2
      <3>2. \A c \in DOMAIN types : Csv!Parses(gs[c]) <=> Csv!Parses(fs[c])
        BY <3>1, Zenon DEF Csv!Parses
      <3>3. (\E c \in DOMAIN types : types[c] # "STRING" /\ ~Csv!Parses(gs[c]))
            <=> (\E c \in DOMAIN types : types[c] # "STRING" /\ ~Csv!Parses(fs[c]))
        BY <3>2, Zenon
      <3>4. [c \in DOMAIN types |-> IF types[c] = "STRING" THEN << >> ELSE Csv!Digits(gs[c])] =
            [c \in DOMAIN types |-> IF types[c] = "STRING" THEN << >> ELSE Csv!Digits(fs[c])]
        BY <3>1
      <3> QED BY <1>5, <2>2, <3>3, <3>4, Zenon DEF Csv!OutcomeOf
    <2> QED BY <2>1, <2>2
  <1>8. ASSUME bare = << >>
        PROVE  Csv!OutcomeOf(gs).kind =
                 IF Len(types) # 1 THEN "skipped" ELSE IF types[1] = "STRING" THEN "stored" ELSE "throws"
    <2>1. fs = << << >> >> /\ Len(fs) = 1 /\ fs[1] = << >>
      BY <1>8, FieldsOfNothing DEF fs
    <2>2. Csv!Digits(<< >>) = << >>
      <3>1. << >> \in Seq(A) /\ Len(<< >>) = 0
        OBVIOUS
      <3>2. Csv!Digits(<< >>) = SubSeq(<< >>, 1, 1 - 1)
        <4> DEFINE f == << >>
        <4>1. f \in Seq(A) /\ Len(f) = 0
          BY <3>1
        <4> HIDE DEF f
        <4>3. 1 \in {k \in 1 .. Len(f) : f[k] # Csv!CR} \cup {Len(f) + 1}
              /\ 1 \in {k \in 1 .. Len(f) : f[k] # Csv!Digit} \cup {Len(f) + 1}
          BY <4>1
        <4>4. (\A k \in 1 .. Len(f) : f[k] # Csv!CR => 1 <= k)
              /\ (\A k \in 1 .. Len(f) : f[k] # Csv!Digit => 1 <= k)
          BY <4>1
        <4>2. Csv!Digits(f) = SubSeq(f, 1, 1 - 1)
          BY <4>1, <4>3, <4>4, DigitsBetween
        <4> QED BY <4>2, Zenon DEF f
      <3>3. SubSeq(<< >>, 1, 1 - 1) = << >>
        BY SubSeqEmpty
      <3> QED BY <3>2, <3>3
    <2>3. ~Csv!Parses(fs[1])
      BY <2>1, <2>2 DEF Csv!Parses
    <2>4. CASE Len(types) # 1
      BY <1>7, <2>1, <2>4 DEF Csv!OutcomeOf
    <2>5. CASE Len(types) = 1
      <3>1. DOMAIN types = {1}
        BY <1>4, <2>5
      <3>2. (\E c \in DOMAIN types : types[c] # "STRING" /\ ~Csv!Parses(fs[c])) <=> types[1] # "STRING"
        BY <2>3, <3>1
      <3> QED BY <1>7, <2>1, <2>5, <3>2 DEF Csv!OutcomeOf
    <2> QED BY <2>4, <2>5
  <1> QED BY <1>7, <1>8, Zenon DEF gs, fs

\* What the invariant says of a line that has been read, and of its line end.
LEMMA LineInvariantImplies ==
  ASSUME LineInvariant
  PROVE  SplitExact /\ CarriageReturnHarmless
PROOF
  <1>1. SplitExact
    BY Zenon DEF SplitExact, Csv!SplitExact, LineInvariant, LineInv, Prefix
  <1>2. CarriageReturnHarmless
    <2> SUFFICES ASSUME lineOutcome.kind # "reading", line.text # << >>, Last(line.text) = Csv!CR
                 PROVE  LET bare == SubSeq(line.text, 1, Len(line.text) - 1)
                        IN  IF bare # << >> THEN lineOutcome = Csv!OutcomeOf(Csv!FieldsOf(bare))
                            ELSE lineOutcome.kind = IF Len(types) # 1 THEN "skipped"
                                                    ELSE IF types[1] = "STRING" THEN "stored" ELSE "throws"
      BY LineOperators, Zenon DEF CarriageReturnHarmless, Csv!CarriageReturnHarmless
    <2> DEFINE bare == SubSeq(line.text, 1, Len(line.text) - 1)
    <2>1. lineOutcome.kind # "rest"
      BY DEF LineInvariant, Resting
    <2>2. /\ line \in Lines /\ types \in LineTypes
          /\ lineOutcome = Csv!OutcomeOf(Csv!FieldsOf(line.text))
      BY <2>1 DEF LineInvariant, LineInv
    <2>3. line.text \in Seq(Characters) /\ Len(line.text) \in Nat \ {0}
      <3>1. line.text \in Seq(Characters)
        BY <2>2, LineAssumption, Zenon DEF Characters
      <3> QED BY <3>1, EmptySeq
    <2>4. /\ bare \in Seq(Characters) /\ line.text[Len(line.text)] = Csv!CR /\ Csv!CR \in Characters
          /\ line.text = Append(bare, Csv!CR)
      <3>1. line.text[Len(line.text)] = Csv!CR
        BY DEF Last
      <3>2. Csv!CR \in Characters
        BY <2>3, <3>1
      <3>3. 1 \in 1 .. Len(line.text) /\ Len(line.text) \in 1 .. Len(line.text)
        BY <2>3
      <3>4. SubSeq(line.text, 1, Len(line.text)) = bare \o <<line.text[Len(line.text)]>>
        BY <2>3, <3>3, SubSeqRecursiveSecond
      <3>5. SubSeq(line.text, 1, Len(line.text)) = line.text
        BY <2>3, SubSeqFull
      <3>6. bare \in Seq(Characters)
        BY <2>3, SubSeqProperties
      <3>7. Append(bare, Csv!CR) = bare \o <<Csv!CR>>
        BY <3>2, <3>6, AppendIsConcat
      <3> QED BY <3>1, <3>2, <3>4, <3>5, <3>6, <3>7, Zenon
    <2> HIDE DEF bare
    <2>5. CASE bare # << >>
      BY <2>2, <2>4, <2>5, ReturnHarmless, Zenon DEF bare
    <2>6. CASE bare = << >>
      <3>1. Csv!OutcomeOf(Csv!FieldsOf(Append(bare, Csv!CR))).kind =
                IF Len(types) # 1 THEN "skipped" ELSE IF types[1] = "STRING" THEN "stored" ELSE "throws"
        BY <2>2, <2>4, <2>6, ReturnHarmless, Zenon
      <3> QED BY <2>2, <2>4, <2>6, <3>1, Zenon DEF bare
    <2> QED BY <2>5, <2>6
  <1> QED BY <1>1, <1>2

-----------------------------------------------------------------------------
(* Fields within quotes.                                                   *)

\* A text whose last field is e, behind the fields of head.
Ends(t, head, e) == Csv!FieldsOf(t) = Append(head, e)

\* What becomes of the last field when a text grows by one symbol.
LEMMA EndsGrow ==
  ASSUME NEW A, NEW t \in Seq(A), NEW c \in A,
         NEW head \in Seq(Seq(A)), NEW e \in Seq(A), Ends(t, head, e)
  PROVE  /\ c = Csv!Quote => Ends(Append(t, c), head, e)
         /\ c = Csv!Comma /\ Closed(t) => Ends(Append(t, c), Append(head, e), << >>)
         /\ c # Csv!Quote /\ ~(c = Csv!Comma /\ Closed(t)) => Ends(Append(t, c), head, Append(e, c))
PROOF
  <1> DEFINE fs == Csv!FieldsOf(t)
             B == Seq(A)
             d == Append(e, c)
             w == Append(head, e)
  <1>1. Csv!FieldsOf(Append(t, c)) =
          IF c = Csv!Quote THEN fs
          ELSE IF c = Csv!Comma /\ Closed(t) THEN Append(fs, << >>)
          ELSE [fs EXCEPT ![Len(fs)] = Append(fs[Len(fs)], c)]
    BY FieldsGrow
  <1>2. fs = w
    BY Zenon DEF Ends
  <1>3. head \in Seq(B) /\ e \in B /\ d \in B
    BY AppendProperties
  <1>4. Csv!Comma # Csv!Quote
    BY DEF Csv!Comma, Csv!Quote
  <1> HIDE DEF B, d, fs
  <1>5. w[Len(w)] = e /\ [w EXCEPT ![Len(w)] = d] = Append(head, d)
    BY <1>3, AppendExcept
  <1> HIDE DEF w
  <1>6. c = Csv!Quote => Csv!FieldsOf(Append(t, c)) = w
    BY <1>1, <1>2, Zenon
  <1>7. c = Csv!Comma /\ Closed(t) => Csv!FieldsOf(Append(t, c)) = Append(w, << >>)
    BY <1>1, <1>2, <1>4, Zenon
  <1>8. c # Csv!Quote /\ ~(c = Csv!Comma /\ Closed(t)) => Csv!FieldsOf(Append(t, c)) = Append(head, d)
    BY <1>1, <1>2, <1>5, Zenon DEF d
  <1> QED BY <1>6, <1>7, <1>8, Zenon DEF Ends, w, d

\* The symbols of a field but for its quotes.
LEMMA UnquotedGrows ==
  ASSUME NEW A, NEW s \in Seq(A), NEW c \in A
  PROVE  /\ Csv!Unquoted(s) \in Seq(A) /\ Csv!Unquoted(<< >>) = << >>
         /\ Csv!Unquoted(Append(s, c)) =
              IF c = Csv!Quote THEN Csv!Unquoted(s) ELSE Append(Csv!Unquoted(s), c)
PROOF
  <1> DEFINE P == {k \in DOMAIN s : s[k] # Csv!Quote}
             u == Append(s, c)
             n == Len(s)
             Q == {k \in DOMAIN u : u[k] # Csv!Quote}
  <1>1. /\ n \in Nat /\ DOMAIN s = 1 .. n /\ DOMAIN u = 1 .. (n + 1) /\ u[n + 1] = c
        /\ \A k \in 1 .. n : u[k] = s[k]
    BY AppendProperties
  <1>2. Csv!Unquoted(s) = ElementsAt(s, P) /\ Csv!Unquoted(u) = ElementsAt(u, Q)
    BY LineDefinitions
  <1>3. P \in SUBSET (1 .. n) /\ P \in SUBSET DOMAIN s
    BY <1>1
  <1>4. Csv!Unquoted(s) \in Seq(A)
    <2> HIDE DEF P
    <2> QED BY <1>2, <1>3, ElementsAtPlaces
  <1>5. Q = P \cup IF c = Csv!Quote THEN {} ELSE {n + 1}
    <2> HIDE DEF u, n
    <2>1. \A k \in 1 .. (n + 1) : k \in 1 .. n \/ k = n + 1
      BY <1>1
    <2>2. 1 .. n \subseteq 1 .. (n + 1) /\ n + 1 \in 1 .. (n + 1)
      BY <1>1
    <2> QED BY <1>1, <2>1, <2>2
  <1>6. ElementsAt(u, P) = ElementsAt(s, P) /\ ElementsAt(u, P \cup {n + 1}) = Append(ElementsAt(s, P), c)
    <2> HIDE DEF P
    <2> QED BY <1>3, ElementsGrow
  <1>7. Csv!Unquoted(u) = IF c = Csv!Quote THEN Csv!Unquoted(s) ELSE Append(Csv!Unquoted(s), c)
    <2>1. P \cup {} = P
      OBVIOUS
    <2> HIDE DEF P, Q, u, n
    <2> QED BY <1>2, <1>5, <1>6, <2>1
  <1>8. Csv!Unquoted(<< >>) = << >>
    <2>1. Csv!Unquoted(<< >>) = ElementsAt(<< >>, {k \in DOMAIN << >> : << >>[k] # Csv!Quote})
      BY LineDefinitions, Zenon
    <2>2. {k \in DOMAIN << >> : << >>[k] # Csv!Quote} = {}
      OBVIOUS
    <2>3. Ascending({}) \in Seq(Nat) /\ Len(Ascending({})) = 0
      <3>1. {} \in SUBSET Nat /\ IsFiniteSet({}) /\ Cardinality({}) = 0
        BY FS_EmptySet
      <3> QED BY <3>1, AscendingRanks
    <2>4. Ascending({}) = << >>
      BY <2>3
    <2>5. ElementsAt(<< >>, {}) = << >>
      BY <2>4 DEF ElementsAt
    <2> QED BY <2>1, <2>2, <2>5
  <1> QED BY <1>4, <1>7, <1>8, Zenon DEF u

\* Texts one behind the other, under a name so that the provers take its
\* associativity for what it is.
Joined(x, y) == x \o y

\* Three texts may be joined in any order.
LEMMA JoinedAssociative ==
  ASSUME NEW A
  PROVE  \A x, y, z \in Seq(A) : Joined(Joined(x, y), z) = Joined(x, Joined(y, z))
PROOF
  <1>1. ASSUME NEW x \in Seq(A), NEW y \in Seq(A), NEW z \in Seq(A)
        PROVE  (x \o y) \o z = x \o (y \o z)
    BY ConcatAssociative
  <1> QED BY <1>1 DEF Joined

\* A field written within quotes adds its symbols, but for the quotes, to the
\* last field of a text, and leaves no quote open.
LEMMA DoubledRead ==
  ASSUME NEW A, NEW t \in Seq(A), NEW f \in Seq(A), Csv!Quote \in A,
         NEW head \in Seq(Seq(A)), Closed(t), Ends(t, head, << >>)
  PROVE  /\ Csv!Doubled(f) \in Seq(A) /\ t \o Csv!Doubled(f) \in Seq(A)
         /\ Closed(t \o Csv!Doubled(f))
         /\ Ends(t \o Csv!Doubled(f), head, Csv!Unquoted(f))
PROOF
  <1> DEFINE N == Len(f)
             p == [k \in DOMAIN f |-> IF f[k] = Csv!Quote THEN <<Csv!Quote, Csv!Quote>> ELSE <<f[k]>>]
             q == <<Csv!Quote>>
             v == Append(t, Csv!Quote)
  <1>1. N \in Nat /\ DOMAIN f = 1 .. N /\ q \in Seq(A)
    OBVIOUS
  <1>2. ASSUME NEW k \in 1 .. N PROVE p[k] \in Seq(A) /\ f[k] \in A
    <2>1. f[k] \in A
      OBVIOUS
    <2>2. p[k] = IF f[k] = Csv!Quote THEN <<Csv!Quote, Csv!Quote>> ELSE <<f[k]>>
      BY <1>1
    <2> QED BY <2>1, <2>2
  <1>3. p = [k \in 1 .. N |-> p[k]]
    BY <1>1
  <1> HIDE DEF p
  <1>4. PICK g : LaidInSteps(g, A, N, p)
    BY <1>1, <1>2, FlattenSteps
  <1>5. /\ g[0] = << >> /\ \A n \in 1 .. N : g[n] = g[n - 1] \o p[n]
        /\ \A n \in 0 .. N : g[n] \in Seq(A)
    BY <1>4 DEF LaidInSteps
  <1>6. Csv!Doubled(f) = (q \o g[N]) \o q
    <2>1. N \in 0 .. N
      BY <1>1
    <2>2. FirstLaid(p, N) = g[N]
      BY <1>4, <2>1 DEF LaidInSteps
    <2>3. FlattenSeq(p) = g[N]
      BY <1>3, <2>2 DEF FirstLaid
    <2> QED BY <2>3, LineOperators, Zenon DEF Csv!Doubled, p
  <1>7. v \in Seq(A) /\ v = t \o q
    BY AppendProperties, AppendIsConcat
  <1> DEFINE sofar(n) == v \o g[n]
             Read(n) == /\ sofar(n) \in Seq(A) /\ ~Closed(sofar(n))
                        /\ Ends(sofar(n), head, Csv!Unquoted(SubSeq(f, 1, n)))
             Unread == {n \in 0 .. N : ~Read(n)}
  <1>8. Read(0)
    <2>1. sofar(0) = v
      BY <1>5, <1>7, ConcatEmptySeq
    <2>2. ~Closed(v)
      BY SeparatorsGrow
    <2>3. Ends(v, head, << >>)
      <3>1. << >> \in Seq(A)
        OBVIOUS
      <3> QED BY <3>1, EndsGrow
    <2>4. SubSeq(f, 1, 0) = << >> /\ Csv!Unquoted(<< >>) = << >>
      BY SubSeqEmpty, UnquotedGrows
    <2> HIDE DEF v
    <2> QED BY <1>7, <2>1, <2>2, <2>3, <2>4
  <1>9. ASSUME NEW n \in 1 .. N, Read(n - 1) PROVE Read(n)
    <2> DEFINE w == sofar(n - 1)
               s == SubSeq(f, 1, n - 1)
               e == Csv!Unquoted(s)
               c == f[n]
    <2>1. w \in Seq(A) /\ ~Closed(w) /\ Ends(w, head, e)
      BY <1>9
    <2>2. n - 1 \in 0 .. N /\ n \in 0 .. N /\ n \in Nat /\ n - 1 \in Nat
      BY <1>1
    <2>3. sofar(n) = w \o p[n]
      <3>1. g[n] = g[n - 1] \o p[n] /\ g[n - 1] \in Seq(A) /\ p[n] \in Seq(A)
        BY <1>2, <1>5, <2>2
      <3> HIDE DEF v
      <3>4. v \in Seq(A)
        BY <1>7
      <3>2. v \o (g[n - 1] \o p[n]) = (v \o g[n - 1]) \o p[n]
        <4>1. Joined(Joined(v, g[n - 1]), p[n]) = Joined(v, Joined(g[n - 1], p[n]))
          BY <3>1, <3>4, JoinedAssociative
        <4> QED BY <4>1, Zenon DEF Joined
      <3> QED BY <3>1, <3>2, Zenon
    <2>4. s \in Seq(A) /\ c \in A /\ SubSeq(f, 1, n) = Append(s, c)
      <3>1. c \in A
        BY <1>2
      <3>2. s \in Seq(A)
        BY <1>1, <2>2, SubSeqProperties
      <3>3. 1 \in 1 .. Len(f) /\ n \in 1 .. Len(f)
        BY <1>1
      <3>4. SubSeq(f, 1, n) = s \o <<c>>
        BY <3>3, SubSeqRecursiveSecond
      <3> HIDE DEF s, c
      <3> QED BY <3>1, <3>2, <3>4, AppendIsConcat
    <2>5. e \in Seq(A)
      BY <2>4, UnquotedGrows
    <2> HIDE DEF w, s, sofar, v
    <2>6. CASE c = Csv!Quote
      <3>1. p[n] = <<Csv!Quote, Csv!Quote>>
        BY <1>1, <2>6 DEF p
      <3> DEFINE x == Append(w, Csv!Quote)
      <3>2. x \in Seq(A) /\ Closed(x) /\ Ends(x, head, e)
        <4>1. x \in Seq(A)
          BY <2>1, AppendProperties
        <4>2. Closed(x)
          BY <2>1, SeparatorsGrow
        <4>3. Ends(x, head, e)
          BY <2>1, <2>5, EndsGrow
        <4> QED BY <4>1, <4>2, <4>3
      <3>3. sofar(n) = Append(x, Csv!Quote)
        <4>1. p[n] = q \o q
          BY <3>1
        <4>2. x = w \o q
          BY <2>1, AppendIsConcat
        <4> HIDE DEF x
        <4>3. Append(x, Csv!Quote) = x \o q
          BY <3>2, AppendIsConcat
        <4> HIDE DEF q
        <4>5. w \in Seq(A) /\ q \in Seq(A)
          BY <1>1, <2>1
        <4>6. Joined(Joined(w, q), q) = Joined(w, Joined(q, q))
          BY <4>5, JoinedAssociative
        <4>4. w \o (q \o q) = (w \o q) \o q
          BY <4>6, Zenon DEF Joined
        <4> QED BY <2>3, <4>1, <4>2, <4>3, <4>4, Zenon
      <3> HIDE DEF x
      <3>4. sofar(n) \in Seq(A) /\ ~Closed(sofar(n)) /\ Ends(sofar(n), head, e)
        <4>1. sofar(n) \in Seq(A)
          BY <3>2, <3>3, AppendProperties
        <4>2. ~Closed(sofar(n))
          BY <3>2, <3>3, SeparatorsGrow
        <4>3. Ends(sofar(n), head, e)
          BY <2>5, <3>2, <3>3, EndsGrow
        <4> QED BY <4>1, <4>2, <4>3
      <3>5. Csv!Unquoted(SubSeq(f, 1, n)) = e
        BY <2>4, <2>6, UnquotedGrows
      <3> QED BY <3>4, <3>5
    <2>7. CASE c # Csv!Quote
      <3>1. p[n] = <<c>>
        BY <1>1, <2>7 DEF p
      <3>2. sofar(n) = Append(w, c)
        BY <2>1, <2>3, <2>4, <3>1, AppendIsConcat
      <3>3. sofar(n) \in Seq(A)
        BY <2>1, <2>4, <3>2, AppendProperties
      <3>4. ~Closed(sofar(n))
        BY <2>1, <2>4, <2>7, <3>2, SeparatorsGrow
      <3>5. Ends(sofar(n), head, Append(e, c))
        BY <2>1, <2>4, <2>5, <2>7, <3>2, EndsGrow
      <3>6. Csv!Unquoted(SubSeq(f, 1, n)) = Append(e, c)
        BY <2>4, <2>7, UnquotedGrows
      <3> QED BY <3>3, <3>4, <3>5, <3>6
    <2> QED BY <2>6, <2>7
  <1> HIDE DEF Read
  <1>10. Unread = {}
    <2>1. SUFFICES ASSUME Unread # {} PROVE FALSE
      OBVIOUS
    <2>2. Unread \in SUBSET Nat
      BY <1>1
    <2>3. PICK n \in Unread : \A m \in Unread : n <= m
      <3> HIDE DEF Unread
      <3> QED BY <2>1, <2>2, LeastNumber
    <2>4. n \in 0 .. N /\ ~Read(n)
      OBVIOUS
    <2>5. n # 0
      BY <1>8, <2>4
    <2>6. n \in 1 .. N /\ n - 1 \in 0 .. N /\ ~(n <= n - 1)
      BY <1>1, <2>4, <2>5
    <2>7. Read(n - 1)
      BY <2>3, <2>6
    <2> QED BY <1>9, <2>4, <2>6, <2>7
  <1>11. Read(N)
    <2>1. N \in 0 .. N
      BY <1>1
    <2> QED BY <1>10, <2>1
  <1>12. /\ sofar(N) \in Seq(A) /\ ~Closed(sofar(N)) /\ Ends(sofar(N), head, Csv!Unquoted(f))
    BY <1>11, SubSeqFull DEF Read
  <1>13. g[N] \in Seq(A)
    <2>1. N \in 0 .. N
      BY <1>1
    <2> QED BY <1>5, <2>1
  <1>14. t \o Csv!Doubled(f) = Append(sofar(N), Csv!Quote)
    <2>1. sofar(N) = (t \o q) \o g[N]
      BY <1>7
    <2>2. Append(sofar(N), Csv!Quote) = sofar(N) \o q
      BY <1>12, AppendIsConcat
    <2> HIDE DEF q, sofar
    <2>3. (t \o q) \o g[N] = t \o (q \o g[N]) /\ q \o g[N] \in Seq(A)
      <3>2. Joined(Joined(t, q), g[N]) = Joined(t, Joined(q, g[N]))
        BY <1>1, <1>13, JoinedAssociative
      <3>1. (t \o q) \o g[N] = t \o (q \o g[N])
        BY <3>2, Zenon DEF Joined
      <3> QED BY <1>1, <1>13, <3>1, ConcatProperties
    <2>4. (t \o (q \o g[N])) \o q = t \o ((q \o g[N]) \o q)
      <3> DEFINE z == q \o g[N]
      <3>1. z \in Seq(A) /\ q \in Seq(A)
        BY <1>1, <2>3
      <3> HIDE DEF z
      <3>2. Joined(Joined(t, z), q) = Joined(t, Joined(z, q))
        BY <3>1, JoinedAssociative
      <3> QED BY <3>2, Zenon DEF Joined, z
    <2> QED BY <1>6, <2>1, <2>2, <2>3, <2>4
  <1>15. Csv!Doubled(f) \in Seq(A)
    <2> HIDE DEF q
    <2> QED BY <1>1, <1>6, <1>13, ConcatProperties
  <1>16. Csv!Unquoted(f) \in Seq(A)
    BY UnquotedGrows
  <1> HIDE DEF sofar
  <1>17. Append(sofar(N), Csv!Quote) \in Seq(A)
    BY <1>12, AppendProperties
  <1>18. Closed(Append(sofar(N), Csv!Quote))
    BY <1>12, SeparatorsGrow
  <1>19. Ends(Append(sofar(N), Csv!Quote), head, Csv!Unquoted(f))
    BY <1>12, <1>16, EndsGrow
  <1> QED BY <1>14, <1>15, <1>17, <1>18, <1>19

\* The fields of a text that was written with quotes are those that were meant.
LEMMA QuotedTextRead ==
  ASSUME NEW source, source \in Seq(Range(source)), source # << >>,
         \A f \in Range(source) : f \in Seq(Range(f))
  PROVE  Csv!FieldsOf(Csv!QuotedText(source)) = [f \in DOMAIN source |-> Csv!Unquoted(source[f])]
PROOF
  <1> DEFINE N == Len(source)
             U == UNION {Range(f) : f \in Range(source)}
             A == U \cup {Csv!Quote, Csv!Comma}
             p == [f \in DOMAIN source |->
                     IF f = 1 THEN Csv!Doubled(source[f]) ELSE <<Csv!Comma>> \o Csv!Doubled(source[f])]
             head(n) == [f \in 1 .. n |-> Csv!Unquoted(source[f])]
  <1>1. N \in Nat \ {0} /\ DOMAIN source = 1 .. N
    BY EmptySeq
  <1>2. Csv!Quote \in A /\ Csv!Comma \in A
    <2> HIDE DEF U
    <2> QED OBVIOUS
  <1>3. ASSUME NEW f \in 1 .. N PROVE source[f] \in Seq(A)
    <2>1. source[f] \in Range(source)
      BY <1>1 DEF Range
    <2>2. source[f] \in Seq(Range(source[f])) /\ Range(source[f]) \subseteq A
      BY <2>1
    <2> HIDE DEF A
    <2> QED BY <2>2, SeqMonotonic
  <1> HIDE DEF A
  <1>4. << >> \in Seq(A) /\ << >> \in Seq(Seq(A)) /\ Closed(<< >>) /\ Ends(<< >>, << >>, << >>)
    <2>1. << >> \in Seq(A) /\ << >> \in Seq(Seq(A))
      OBVIOUS
    <2>2. Append(<< >>, << >>) = << << >> >>
      OBVIOUS
    <2> QED BY <2>1, <2>2, FieldsOfNothing, Zenon DEF Ends
  <1>5. ASSUME NEW n \in 0 .. N
        PROVE  /\ head(n) \in Seq(Seq(A))
               /\ n # 0 => head(n) = Append(head(n - 1), Csv!Unquoted(source[n]))
    <2>1. \A f \in 1 .. N : Csv!Unquoted(source[f]) \in Seq(A)
      BY <1>3, UnquotedGrows, SMTT(30)
    <2>2. \A m \in 0 .. N : head(m) \in Seq(Seq(A)) /\ Len(head(m)) = m
      <3> TAKE m \in 0 .. N
      <3>1. \A f \in 1 .. m : Csv!Unquoted(source[f]) \in Seq(A)
        BY <1>1, <2>1
      <3>2. m \in Nat
        BY <1>1
      <3> QED BY <3>1, <3>2
    <2>3. ASSUME n # 0 PROVE head(n) = Append(head(n - 1), Csv!Unquoted(source[n]))
      <3> DEFINE B == Seq(A)
                 a == head(n)
                 b == head(n - 1)
                 e == Csv!Unquoted(source[n])
      <3>1. n - 1 \in 0 .. N /\ n \in 1 .. N
        BY <1>1, <2>3
      <3>2. a \in Seq(B) /\ Len(a) = n /\ b \in Seq(B) /\ Len(b) = n - 1 /\ e \in B
        BY <2>1, <2>2, <3>1
      <3>3. /\ \A f \in 1 .. n : a[f] = Csv!Unquoted(source[f])
            /\ \A f \in 1 .. (n - 1) : b[f] = Csv!Unquoted(source[f])
        OBVIOUS
      <3> HIDE DEF a, b, B
      <3>4. /\ Append(b, e) \in Seq(B) /\ Len(Append(b, e)) = (n - 1) + 1
            /\ \A f \in 1 .. (n - 1) : Append(b, e)[f] = b[f]
            /\ Append(b, e)[(n - 1) + 1] = e
        BY <3>2, AppendProperties
      <3>5. (n - 1) + 1 = n /\ \A f \in 1 .. n : f \in 1 .. (n - 1) \/ f = n
        BY <3>1
      <3>6. \A f \in 1 .. n : a[f] = Append(b, e)[f]
        BY <3>3, <3>4, <3>5
      <3>7. a = Append(b, e)
        <4> HIDE DEF e
        <4> QED BY <3>2, <3>4, <3>5, <3>6, SeqEqual
      <3> QED BY <3>7, Zenon DEF a, b, e
    <2> QED BY <2>2, <2>3
  <1>6. ASSUME NEW n \in 1 .. N
        PROVE  /\ p[n] = IF n = 1 THEN Csv!Doubled(source[n]) ELSE <<Csv!Comma>> \o Csv!Doubled(source[n])
               /\ Csv!Doubled(source[n]) \in Seq(A) /\ p[n] \in Seq(A)
    <2>1. p[n] = IF n = 1 THEN Csv!Doubled(source[n]) ELSE <<Csv!Comma>> \o Csv!Doubled(source[n])
      BY <1>1
    <2>2. Csv!Doubled(source[n]) \in Seq(A)
      BY <1>2, <1>3, <1>4, DoubledRead
    <2>3. <<Csv!Comma>> \in Seq(A)
      BY <1>2
    <2> HIDE DEF p
    <2> QED BY <2>1, <2>2, <2>3, ConcatProperties
  <1>7. p = [k \in 1 .. N |-> p[k]]
    BY <1>1
  <1> HIDE DEF p, head
  <1>8. PICK g : LaidInSteps(g, A, N, p)
    BY <1>1, <1>6, FlattenSteps
  <1>9. /\ g[0] = << >> /\ \A n \in 1 .. N : g[n] = g[n - 1] \o p[n]
        /\ \A n \in 0 .. N : g[n] \in Seq(A)
    BY <1>8 DEF LaidInSteps
  <1>10. Csv!QuotedText(source) = g[N]
    <2>1. N \in 0 .. N
      BY <1>1
    <2>2. FirstLaid(p, N) = g[N]
      BY <1>8, <2>1 DEF LaidInSteps
    <2>3. FlattenSeq(p) = g[N]
      BY <1>7, <2>2 DEF FirstLaid
    <2> QED BY <2>3, LineOperators, Zenon DEF Csv!QuotedText, p
  <1> DEFINE Read(n) == n # 0 => Closed(g[n]) /\ Ends(g[n], head(n - 1), Csv!Unquoted(source[n]))
             Unread == {n \in 0 .. N : ~Read(n)}
  <1>11. ASSUME NEW n \in 1 .. N, Read(n - 1) PROVE Read(n)
    <2>1. n - 1 \in 0 .. N /\ n \in 0 .. N
      BY <1>1
    <2>2. g[n] = g[n - 1] \o p[n] /\ g[n - 1] \in Seq(A) /\ head(n - 1) \in Seq(Seq(A))
      BY <1>5, <1>9, <2>1
    <2>3. CASE n = 1
      <3>1. n - 1 = 0 /\ g[n - 1] = << >> /\ head(n - 1) = << >>
        BY <1>9, <2>3 DEF head
      <3>2. g[n] = << >> \o Csv!Doubled(source[n])
        BY <1>6, <2>2, <2>3, <3>1
      <3> DEFINE f == source[n]
                 t == << >>
      <3>3. Closed(t \o Csv!Doubled(f)) /\ Ends(t \o Csv!Doubled(f), << >>, Csv!Unquoted(f))
        <4>1. f \in Seq(A) /\ t \in Seq(A) /\ Closed(t) /\ Ends(t, << >>, << >>)
          BY <1>3, <1>4
        <4> HIDE DEF t, f
        <4> QED BY <1>2, <1>4, <4>1, DoubledRead
      <3> QED BY <3>1, <3>2, <3>3, Zenon
    <2>4. CASE n # 1
      <3>1. n - 1 \in 1 .. N /\ n - 1 # 0
        BY <1>1, <2>4
      <3> DEFINE w == g[n - 1]
                 q == <<Csv!Comma>>
                 d == Csv!Doubled(source[n])
                 e == Csv!Unquoted(source[n - 1])
                 x == Append(w, Csv!Comma)
      <3>2. w \in Seq(A) /\ Closed(w) /\ Ends(w, head((n - 1) - 1), e) /\ e \in Seq(A)
        <4>1. source[n - 1] \in Seq(A)
          BY <1>3, <3>1
        <4>2. e \in Seq(A)
          BY <4>1, UnquotedGrows, SMTT(30)
        <4> QED BY <1>11, <2>2, <3>1, <4>2, Zenon
      <3>3. head((n - 1) - 1) \in Seq(Seq(A)) /\ head(n - 1) = Append(head((n - 1) - 1), e)
        <4>1. (n - 1) - 1 \in 0 .. N
          BY <1>1, <3>1
        <4> QED BY <1>5, <2>1, <3>1, <4>1
      <3>4. Csv!Comma # Csv!Quote
        BY DEF Csv!Comma, Csv!Quote
      <3>5. x \in Seq(A) /\ Closed(x) /\ Ends(x, head(n - 1), << >>)
        <4> HIDE DEF w, e
        <4>1. x \in Seq(A)
          BY <1>2, <3>2, AppendProperties
        <4>2. Closed(x)
          BY <1>2, <3>2, <3>4, SeparatorsGrow
        <4>3. Ends(x, Append(head((n - 1) - 1), e), << >>)
          BY <1>2, <3>2, <3>3, EndsGrow
        <4> QED BY <3>3, <4>1, <4>2, <4>3
      <3>6. g[n] = x \o d
        <4>1. p[n] = q \o d /\ d \in Seq(A) /\ q \in Seq(A)
          <5>1. p[n] = q \o d /\ d \in Seq(A)
            BY <1>6, <2>4
          <5>2. q \in Seq(A)
            BY <1>2
          <5> QED BY <5>1, <5>2, Zenon
        <4>2. x = w \o q
          BY <1>2, <3>2, AppendIsConcat
        <4>3. Joined(Joined(w, q), d) = Joined(w, Joined(q, d))
          <5> HIDE DEF w, q, d
          <5> QED BY <3>2, <4>1, JoinedAssociative
        <4>4. (w \o q) \o d = w \o (q \o d)
          BY <4>3, Zenon DEF Joined
        <4> HIDE DEF x, d, q
        <4> QED BY <2>2, <4>1, <4>2, <4>4, Zenon
      <3> HIDE DEF x
      <3>7. Closed(x \o d) /\ Ends(x \o d, head(n - 1), Csv!Unquoted(source[n]))
        BY <1>2, <1>3, <2>2, <3>5, DoubledRead
      <3> QED BY <3>6, <3>7, Zenon
    <2> QED BY <2>3, <2>4
  <1>12. Read(0)
    OBVIOUS
  <1> HIDE DEF Read
  <1>13. Unread = {}
    <2>1. SUFFICES ASSUME Unread # {} PROVE FALSE
      OBVIOUS
    <2>2. Unread \in SUBSET Nat
      BY <1>1
    <2>3. PICK n \in Unread : \A m \in Unread : n <= m
      <3> HIDE DEF Unread
      <3> QED BY <2>1, <2>2, LeastNumber
    <2>4. n \in 0 .. N /\ ~Read(n)
      OBVIOUS
    <2>5. n # 0
      BY <1>12, <2>4
    <2>6. n \in 1 .. N /\ n - 1 \in 0 .. N /\ ~(n <= n - 1)
      BY <1>1, <2>4, <2>5
    <2>7. Read(n - 1)
      BY <2>3, <2>6
    <2> QED BY <1>11, <2>4, <2>6, <2>7
  <1>14. N \in 0 .. N /\ N # 0
    BY <1>1
  <1>15. Read(N)
    BY <1>13, <1>14
  <1>16. Csv!FieldsOf(g[N]) = Append(head(N - 1), Csv!Unquoted(source[N]))
    BY <1>14, <1>15, Zenon DEF Read, Ends
  <1>17. Csv!FieldsOf(g[N]) = head(N)
    BY <1>5, <1>14, <1>16
  <1> QED BY <1>1, <1>10, <1>17, Zenon DEF head

\* What the invariant says of a line whose fields were written within quotes.
LEMMA QuotedKept ==
  ASSUME LineInvariant
  PROVE  QuotedFieldsKept
PROOF
  <1> SUFFICES ASSUME lineOutcome.kind # "reading", line.source # << >>, line.text # << >>
               PROVE  fields = [f \in DOMAIN line.source |-> Csv!Unquoted(line.source[f])]
    BY Zenon DEF QuotedFieldsKept, Csv!QuotedFieldsKept
  <1>1. lineOutcome.kind # "rest"
    BY DEF LineInvariant, Resting
  <1>2. line \in Lines /\ fields = Csv!FieldsOf(line.text)
    BY <1>1 DEF LineInvariant, LineInv
  <1>3. /\ line.source \in Seq(Range(line.source))
        /\ \A f \in Range(line.source) : f \in Seq(Range(f))
        /\ line.text = Csv!QuotedText(line.source)
    BY <1>2, LineAssumption, Zenon
  <1>4. Csv!FieldsOf(Csv!QuotedText(line.source)) =
          [f \in DOMAIN line.source |-> Csv!Unquoted(line.source[f])]
    BY <1>3, QuotedTextRead
  <1> QED BY <1>2, <1>3, <1>4, Zenon

\* The first line, or none.
LEMMA LineInit ==
  ASSUME TextInit
  PROVE  LineInvariant
PROOF
  <1>1. CASE NoLine
    BY <1>1 DEF NoLine, LineInvariant, LineInv, Resting
  <1>2. CASE Csv!Init
    <2>1. /\ line \in Lines /\ types \in LineTypes /\ position = 0 /\ inQuotes = FALSE
          /\ field = << >> /\ fields = << >> /\ lineOutcome.kind = "reading"
      BY <1>2 DEF Csv!Init
    <2>2. line.text \in Seq(Characters) /\ Len(line.text) \in Nat
      <3>1. line.text \in Seq(Characters)
        BY <2>1, LineAssumption, Zenon DEF Characters
      <3> QED BY <3>1, EmptySeq
    <2>3. position \in 0 .. Len(line.text)
      BY <2>1, <2>2
    <2>4. Prefix = << >>
      BY <2>1, SubSeqEmpty DEF Prefix
    <2>5. Append(fields, field) = << << >> >>
      BY <2>1
    <2>6. field \in Seq(Characters) /\ fields \in Seq(Seq(Characters))
      BY <2>1
    <2>7. inQuotes = ~Closed(Prefix) /\ Append(fields, field) = Csv!FieldsOf(Prefix)
      BY <2>1, <2>4, <2>5, FieldsOfNothing, Zenon
    <2>8. lineOutcome.kind # "rest"
      BY <2>1
    <2> QED BY <2>1, <2>3, <2>6, <2>7, <2>8, Zenon DEF LineInvariant, LineInv
  <1> QED BY <1>1, <1>2 DEF TextInit

\* The invariant of the line holds, whatever happens to schema.json.
LEMMA LineKept ==
  TextSpec => []LineInvariant
PROOF
  <1>1. TextInit => LineInvariant
    BY LineInit
  <1>2. LineInvariant /\ [TextNext]_<<jsonVars, lineVars>> => LineInvariant'
    <2> SUFFICES ASSUME LineInvariant, [TextNext]_<<jsonVars, lineVars>> PROVE LineInvariant'
      OBVIOUS
    <2>1. CASE UNCHANGED lineVars
      BY <2>1 DEF lineVars, LineInvariant, LineInv, Resting, Characters, Prefix, Csv!OutcomeOf
    <2>2. CASE Csv!Next
      BY <2>2, LineSteps
    <2>3. UNCHANGED lineVars \/ Csv!Next
      BY Zenon DEF TextNext
    <2> QED BY <2>1, <2>2, <2>3
  <1> QED BY <1>1, <1>2, PTL DEF TextSpec

\* However far a line has been read, its fields are the ones its commas and
\* quotes tell: a quote opens or closes wherever it stands, and no comma
\* within quotes separates.
THEOREM SplitExactAlways ==
  TextSpec => []SplitExact
PROOF
  BY LineKept, LineInvariantImplies, PTL

\* The line end of a DOS file changes the outcome of no line but a blank one.
THEOREM CarriageReturnHarmlessAlways ==
  TextSpec => []CarriageReturnHarmless
PROOF
  BY LineKept, LineInvariantImplies, PTL

\* Fields that were written within quotes come back as they were meant, with
\* their commas, but for the quotes in them.
THEOREM QuotedFieldsKeptAlways ==
  TextSpec => []QuotedFieldsKept
PROOF
  BY LineKept, QuotedKept, PTL
=============================================================================
