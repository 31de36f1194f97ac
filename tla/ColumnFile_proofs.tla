------------------------- MODULE ColumnFile_proofs --------------------------
(***************************************************************************)
(* Proofs about ColumnFile: however a write is cut short, an index entry   *)
(* points at the header of its chunk or at nothing; a torn chunk is the    *)
(* last one a reader delivers; and the two files with their reader         *)
(* implement ColumnStream.                                                 *)
(*                                                                         *)
(* And about the third file of a table, schema.json (SchemaFile, in        *)
(* Texts): a schema is loaded as it was created, or, of a torn file, its   *)
(* first columns.                                                          *)
(***************************************************************************)
EXTENDS ColumnFile, Texts, Column_proofs

Readers ==
  [open : BOOLEAN, index : Seq(Int), next : Nat, exhausted : BOOLEAN,
   failed : BOOLEAN, stale : BOOLEAN, torn : BOOLEAN, last : Results]

FilesTyped ==
  /\ col \in Seq(Cell) /\ idx \in Seq(Int)
  /\ colBad \in BOOLEAN /\ idxBad \in BOOLEAN
  /\ packed \in BOOLEAN /\ threw \in BOOLEAN

WriterTyped ==
  /\ pc \in {"idle", "open", "chunks", "close"}
  /\ nextChunk \in Nat \ {0}
  /\ ver \in 0 .. MaxWrites /\ content \in Seq(Nat)
  /\ condition \in {"intact", "damaged", "mixed"}

TypeOK ==
  /\ FilesTyped /\ WriterTyped
  /\ rd \in Readers
  /\ opens \in Nat /\ faults \in Nat

Header(i) ==
  [ver |-> ver, chunk |-> i, part |-> 0, parts |-> content[i], packed |-> packed]

\* Entry i is the offset of chunk i, as far as the file goes.
PointsAtHeader(i) == idx[i] \in Nat /\ (idx[i] < Len(col) => col[idx[i] + 1] = Header(i))

\* The chunk of entry i is in the file to its end.
Whole(i) == idx[i] \in Nat /\ idx[i] + content[i] < Len(col)

\* Every offset that was taken from a good stream is right, although the
\* files may have been cut since, each at a place of its own.
IndexFits ==
  condition # "mixed" =>
    /\ Len(idx) <= Len(content)
    /\ \A i \in 1 .. Len(idx) : idx[i] # BadOffset => PointsAtHeader(i)

WholeWhenIntact ==
  condition = "intact" => Len(idx) = Len(content) /\ \A i \in 1 .. Len(idx) : Whole(i)

\* While chunks are written, both files have begun anew unless the index has
\* failed; a stream that has not failed is complete up to the chunk at hand.
WriterFollows ==
  /\ pc # "idle" => condition # "intact"
  /\ pc = "open" => condition = "mixed" /\ nextChunk = 1 /\ ~threw
  /\ pc = "chunks" => ~threw
  /\ pc \in {"chunks", "close"} =>
       /\ condition = "mixed" => idxBad
       /\ nextChunk <= Len(content) + 1
       /\ pc = "close" /\ ~threw => nextChunk = Len(content) + 1
       /\ ~idxBad => Len(idx) = nextChunk - 1
       /\ ~colBad /\ condition # "mixed" => \A i \in 1 .. Len(idx) : Whole(i)

\* A reader nothing was written under has the index of the file.
ReaderFollows ==
  /\ rd.open /\ ~rd.stale => pc = "idle" /\ rd.index = idx /\ rd.next <= Len(idx)
  /\ rd.open /\ rd.exhausted => rd.next >= Len(rd.index)
  /\ rd.torn => rd.failed

FilesInv == IndexFits /\ WholeWhenIntact /\ WriterFollows

IInv == TypeOK /\ FilesInv /\ ReaderFollows

-----------------------------------------------------------------------------

\* A stream that fails leaves the beginning of what it was given.
LEMMA PrefixOf ==
  ASSUME NEW S, NEW s \in Seq(S), NEW t \in Prefixes(s)
  PROVE  /\ t \in Seq(S) /\ Len(t) \in Nat /\ Len(s) \in Nat
         /\ Len(t) <= Len(s)
         /\ \A i \in 1 .. Len(t) : t[i] = s[i]
PROOF
  <1>1. PICK n \in 0 .. Len(s) : t = SubSeq(s, 1, n)
    BY DEF Prefixes
  <1>2. Len(s) \in Nat /\ \A i \in 1 .. n : s[i] \in S
    BY LenProperties, ElementOfSeq
  <1>3. t \in Seq(S) /\ Len(t) = n /\ \A i \in 1 .. n : t[i] = s[i]
    BY <1>1, <1>2, SubSeqProperties
  <1> QED BY <1>2, <1>3

\* Cutting the two files, each where it may, leaves the entries that are left
\* right: they point at their headers or beyond the data.
LEMMA CutKeepsIndexFits ==
  ASSUME TypeOK, IndexFits,
         col' = col \/ col' \in Prefixes(col),
         idx' = idx \/ idx' \in Prefixes(idx),
         UNCHANGED <<ver, content, packed, condition>>
  PROVE  IndexFits' /\ col' \in Seq(Cell) /\ idx' \in Seq(Int)
PROOF
  <1>1. /\ col' \in Seq(Cell) /\ Len(col') \in Nat /\ Len(col) \in Nat /\ Len(col') <= Len(col)
        /\ \A i \in 1 .. Len(col') : col'[i] = col[i]
    BY PrefixOf, LenProperties DEF TypeOK, FilesTyped
  <1>2. /\ idx' \in Seq(Int) /\ Len(idx') \in Nat /\ Len(idx) \in Nat /\ Len(idx') <= Len(idx)
        /\ \A i \in 1 .. Len(idx') : idx'[i] = idx[i]
    BY PrefixOf, LenProperties DEF TypeOK, FilesTyped
  <1>3. Len(content) \in Nat
    BY LenProperties DEF TypeOK, WriterTyped
  <1>4. ASSUME NEW i \in 1 .. Len(idx'), condition # "mixed", idx'[i] # BadOffset
        PROVE  PointsAtHeader(i)'
    <2>1. PointsAtHeader(i)
      BY <1>2, <1>4 DEF IndexFits
    <2> QED BY <1>1, <1>2, <2>1, SMTT(30) DEF PointsAtHeader, Header
  <1> QED BY <1>1, <1>2, <1>3, <1>4, SMTT(30) DEF IndexFits

LEMMA InitIInv == Init => IInv
PROOF
  <1> SUFFICES ASSUME Init PROVE IInv
    OBVIOUS
  <1>1. NoReader \in Readers
    BY EmptySeq DEF NoReader, Readers, Results
  <1>2. FilesTyped
    BY EmptySeq DEF Init, FilesTyped
  <1>3. WriterTyped
    BY EmptySeq, FileAssumption DEF Init, WriterTyped
  <1>4. TypeOK
    BY <1>1, <1>2, <1>3 DEF Init, TypeOK
  <1>5. FilesInv
    BY EmptySeq DEF Init, FilesInv, IndexFits, WholeWhenIntact, WriterFollows
  <1>6. ReaderFollows
    BY DEF Init, ReaderFollows, NoReader
  <1> QED BY <1>4, <1>5, <1>6 DEF IInv

\* Nothing is known of the files until both have begun anew, and the readers
\* that are open have lost their claim.
LEMMA OpenColKeeps ==
  ASSUME IInv, NEW fails \in BOOLEAN, OpenCol(fails)
  PROVE  IInv'
PROOF
  <1>1. TypeOK /\ FilesTyped /\ WriterTyped /\ ReaderFollows
    BY DEF IInv, TypeOK
  <1>2. FilesTyped'
    BY <1>1, EmptySeq DEF OpenCol, FilesTyped
  <1>3. content' \in Seq(Nat) /\ ver' \in 0 .. MaxWrites
    BY <1>1, FileAssumption DEF OpenCol, WriterTyped
  <1>4. WriterTyped'
    BY <1>3 DEF OpenCol, WriterTyped
  <1>5. rd' \in Readers
    BY <1>1 DEF OpenCol, TypeOK, Readers, Results
  <1>6. TypeOK'
    BY <1>1, <1>2, <1>4, <1>5 DEF OpenCol, TypeOK
  <1>7. FilesInv'
    BY DEF OpenCol, FilesInv, IndexFits, WholeWhenIntact, WriterFollows
  <1>8. ReaderFollows'
    BY <1>1 DEF OpenCol, ReaderFollows, TypeOK, Readers
  <1> QED BY <1>6, <1>7, <1>8 DEF IInv

LEMMA OpenIdxKeeps ==
  ASSUME IInv, NEW fails \in BOOLEAN, OpenIdx(fails)
  PROVE  IInv'
PROOF
  <1>1. TypeOK /\ FilesTyped /\ WriterTyped /\ ReaderFollows /\ WriterFollows
    BY DEF IInv, FilesInv, TypeOK
  <1>2. FilesTyped'
    BY <1>1, EmptySeq DEF OpenIdx, FilesTyped
  <1>3. WriterTyped' /\ Len(content) \in Nat
    BY <1>1, LenProperties DEF OpenIdx, WriterTyped
  <1>4. TypeOK'
    BY <1>1, <1>2, <1>3 DEF OpenIdx, TypeOK
  <1>5. nextChunk = 1 /\ ~threw /\ condition = "mixed" /\ pc' = "chunks"
    BY <1>1 DEF OpenIdx, WriterFollows
  <1>6. ~fails => idx' = << >> /\ Len(idx') = 0 /\ condition' = "damaged"
    BY EmptySeq DEF OpenIdx
  <1>7. FilesInv'
    BY <1>3, <1>5, <1>6 DEF OpenIdx, FilesInv, IndexFits, WholeWhenIntact, WriterFollows
  <1>8. ReaderFollows'
    BY <1>1 DEF OpenIdx, ReaderFollows
  <1> QED BY <1>4, <1>7, <1>8 DEF IInv

\* What write_chunk appends: a header and the cells it announces.
LEMMA ChunkCellsAre ==
  ASSUME TypeOK, NEW n \in 1 .. Len(content)
  PROVE  /\ ChunkCells(n) \in Seq(Cell)
         /\ content[n] \in Nat /\ Len(ChunkCells(n)) = content[n] + 1
         /\ ChunkCells(n)[1] = Header(n)
PROOF
  <1>1. content[n] \in Nat /\ n \in Nat /\ ver \in 0 .. MaxWrites
    BY ElementOfSeq, LenProperties DEF TypeOK, WriterTyped
  <1>2. packed \in BOOLEAN
    BY DEF TypeOK, FilesTyped
  <1>3. PICK m \in Nat : m = content[n] + 1
    BY <1>1
  <1>4. \A i \in 1 .. m :
          [ver |-> ver, chunk |-> n, part |-> i - 1, parts |-> content[n], packed |-> packed]
            \in Cell
    BY <1>1, <1>2, <1>3 DEF Cell
  <1>5. ChunkCells(n) \in [1 .. m -> Cell]
    BY <1>3, <1>4 DEF ChunkCells
  <1>6. ChunkCells(n) \in Seq(Cell)
    BY <1>5, SeqDef
  <1>7. Len(ChunkCells(n)) = m
    BY <1>5, <1>6, LenProperties
  <1>8. ChunkCells(n)[1] = Header(n)
    BY <1>1, <1>3 DEF ChunkCells, Header
  <1> QED BY <1>1, <1>3, <1>6, <1>7, <1>8

\* The offset is taken at the end of all the chunks before, so it is where
\* the header comes to stand; older entries keep what they point at.
LEMMA WriteChunkKeeps ==
  ASSUME IInv, WriteChunk
  PROVE  IInv'
PROOF
  <1>1. /\ TypeOK /\ FilesTyped /\ WriterTyped /\ ReaderFollows
        /\ WriterFollows /\ IndexFits
    BY DEF IInv, FilesInv, TypeOK
  <1>2. /\ pc = "chunks" /\ pc' = pc /\ nextChunk \in 1 .. Len(content) /\ nextChunk' = nextChunk + 1
        /\ UNCHANGED <<colBad, idxBad, packed, threw, ver, content, condition, rd, opens, faults>>
        /\ Len(content) \in Nat
    BY <1>1, LenProperties DEF WriteChunk, WriterTyped
  <1>3. /\ Len(col) \in Nat /\ Len(idx) \in Nat
        /\ \A i \in 1 .. Len(idx) : idx[i] \in Int
    BY <1>1, LenProperties, ElementOfSeq DEF FilesTyped
  <1>4. /\ ChunkCells(nextChunk) \in Seq(Cell)
        /\ content[nextChunk] \in Nat /\ Len(ChunkCells(nextChunk)) = content[nextChunk] + 1
        /\ ChunkCells(nextChunk)[1] = Header(nextChunk)
    BY <1>1, <1>2, ChunkCellsAre
  <1>5. PICK offset \in Int : offset = IF colBad THEN BadOffset ELSE Len(col)
    BY <1>3 DEF BadOffset
  <1>6. /\ Append(idx, offset) \in Seq(Int)
        /\ Len(Append(idx, offset)) = Len(idx) + 1
        /\ \A i \in 1 .. Len(idx) : Append(idx, offset)[i] = idx[i]
        /\ Append(idx, offset)[Len(idx) + 1] = offset
    BY <1>1, AppendProperties DEF FilesTyped
  <1>7. /\ idx' \in Seq(Int)
        /\ Len(idx') = IF idxBad THEN Len(idx) ELSE Len(idx) + 1
        /\ \A i \in 1 .. Len(idx) : idx'[i] = idx[i]
        /\ ~idxBad => idx'[Len(idx) + 1] = offset
    BY <1>1, <1>5, <1>6 DEF WriteChunk, FilesTyped
  <1>8. /\ col \o ChunkCells(nextChunk) \in Seq(Cell)
        /\ Len(col \o ChunkCells(nextChunk)) = Len(col) + (content[nextChunk] + 1)
        /\ \A i \in 1 .. Len(col) : (col \o ChunkCells(nextChunk))[i] = col[i]
        /\ (col \o ChunkCells(nextChunk))[Len(col) + 1] = Header(nextChunk)
    <2>1. /\ col \o ChunkCells(nextChunk) \in Seq(Cell)
          /\ Len(col \o ChunkCells(nextChunk)) = Len(col) + Len(ChunkCells(nextChunk))
          /\ \A i \in 1 .. Len(col) + Len(ChunkCells(nextChunk)) :
               (col \o ChunkCells(nextChunk))[i] =
                 IF i <= Len(col) THEN col[i] ELSE ChunkCells(nextChunk)[i - Len(col)]
      BY <1>1, <1>4, ConcatProperties DEF FilesTyped
    <2>2. PICK m \in Nat : m = Len(ChunkCells(nextChunk)) /\ m > 0
      BY <1>4
    <2>3. Len(col) + 1 \in 1 .. Len(col) + m /\ (Len(col) + 1) - Len(col) = 1
          /\ ~(Len(col) + 1 <= Len(col))
      BY <1>3, <2>2
    <2>4. (col \o ChunkCells(nextChunk))[Len(col) + 1] = Header(nextChunk)
      BY <1>4, <2>1, <2>2, <2>3
    <2>5. \A i \in 1 .. Len(col) : i \in 1 .. Len(col) + m
      BY <1>3, <2>2
    <2> QED BY <1>4, <2>1, <2>2, <2>4, <2>5
  <1>9. /\ col' \in Seq(Cell)
        /\ Len(col') = IF colBad THEN Len(col) ELSE Len(col) + (content[nextChunk] + 1)
        /\ \A i \in 1 .. Len(col) : col'[i] = col[i]
        /\ ~colBad => col'[Len(col) + 1] = Header(nextChunk)
    BY <1>1, <1>8 DEF WriteChunk, FilesTyped
  <1>10. TypeOK'
    <2>1. FilesTyped'
      BY <1>1, <1>2, <1>7, <1>9 DEF FilesTyped
    <2>2. WriterTyped'
      BY <1>1, <1>2 DEF WriterTyped
    <2> QED BY <1>1, <1>2, <2>1, <2>2 DEF TypeOK
  <1>11. ~idxBad => Len(idx) = nextChunk - 1
    BY <1>1, <1>2 DEF WriterFollows
  <1>12. ASSUME ~colBad, condition # "mixed", NEW i \in 1 .. Len(idx')
         PROVE  Whole(i)'
    <2>1. CASE i <= Len(idx)
      <3>1. Whole(i) /\ i \in 1 .. Len(content)
        BY <1>1, <1>2, <1>3, <1>7, <1>12, <2>1 DEF WriterFollows, IndexFits
      <3>2. content[i] \in Nat
        BY <1>1, <3>1, ElementOfSeq DEF WriterTyped
      <3>3. idx'[i] = idx[i] /\ idx[i] \in Nat /\ idx[i] + content[i] < Len(col)
        BY <1>3, <1>7, <1>12, <2>1, <3>1 DEF Whole
      <3>4. Len(col') = Len(col) + (content[nextChunk] + 1)
        BY <1>9, <1>12
      <3>5. idx[i] + content[i] < Len(col')
        BY <1>3, <1>4, <3>2, <3>3, <3>4
      <3> QED BY <1>2, <3>3, <3>5, SMTT(30) DEF Whole
    <2>2. CASE i = Len(idx) + 1
      <3>1. ~idxBad /\ i = nextChunk /\ idx'[i] = Len(col)
        BY <1>2, <1>3, <1>5, <1>7, <1>11, <1>12, <2>2
      <3> QED BY <1>2, <1>3, <1>4, <1>9, <1>12, <3>1, SMTT(30) DEF Whole
    <2> QED BY <1>3, <1>7, <2>1, <2>2
  <1>13. ASSUME condition # "mixed", NEW i \in 1 .. Len(idx'), idx'[i] # BadOffset
         PROVE  PointsAtHeader(i)'
    <2>1. CASE i <= Len(idx)
      <3>1. PointsAtHeader(i) /\ idx'[i] = idx[i] /\ i \in 1 .. Len(content)
        BY <1>1, <1>2, <1>3, <1>7, <1>13, <2>1 DEF IndexFits
      <3>2. ~colBad => idx[i] < Len(col)
        <4>1. content[i] \in Nat
          BY <1>1, <3>1, ElementOfSeq DEF WriterTyped
        <4> QED BY <1>1, <1>2, <1>3, <1>13, <2>1, <3>1, <4>1 DEF WriterFollows, Whole
      <3>3. idx[i] \in Nat /\ (idx[i] < Len(col) => col[idx[i] + 1] = Header(i))
        BY <3>1, <1>7, <1>13 DEF PointsAtHeader
      <3>4. Header(i)' = Header(i)
        BY <1>2 DEF Header
      <3>5. idx[i] < Len(col') => idx[i] < Len(col)
        BY <1>9, <3>2
      <3>6. idx[i] < Len(col) => col'[idx[i] + 1] = col[idx[i] + 1]
        <4>1. \A j \in 1 .. Len(col) : col'[j] = col[j]
          BY <1>9
        <4>2. idx[i] < Len(col) => idx[i] + 1 \in 1 .. Len(col)
          BY <1>3, <3>3
        <4> QED BY <4>1, <4>2
      <3> QED BY <3>1, <3>3, <3>4, <3>5, <3>6 DEF PointsAtHeader
    <2>2. CASE i = Len(idx) + 1
      <3>1. ~idxBad /\ i = nextChunk /\ ~colBad /\ idx'[i] = Len(col)
        BY <1>2, <1>3, <1>5, <1>7, <1>11, <1>13, <2>2 DEF BadOffset
      <3> QED BY <1>2, <1>3, <1>9, <3>1 DEF PointsAtHeader, Header
    <2> QED BY <1>3, <1>7, <2>1, <2>2
  <1>14. condition # "mixed" => Len(idx') <= Len(content)
    BY <1>1, <1>2, <1>3, <1>7, <1>11 DEF IndexFits
  <1>15. IndexFits'
    BY <1>2, <1>13, <1>14 DEF IndexFits
  <1>16. WriterFollows' /\ WholeWhenIntact'
    <2>1. condition # "intact"
      BY <1>1, <1>2 DEF WriterFollows
    <2>2. ~idxBad => Len(idx') = nextChunk' - 1
      BY <1>2, <1>3, <1>7, <1>11
    <2>3. (condition = "mixed" => idxBad) /\ ~threw
      BY <1>1, <1>2 DEF WriterFollows
    <2> QED BY <1>2, <1>12, <2>1, <2>2, <2>3 DEF WriterFollows, WholeWhenIntact
  <1>17. ReaderFollows'
    BY <1>1, <1>2 DEF ReaderFollows
  <1> QED BY <1>10, <1>15, <1>16, <1>17 DEF IInv, FilesInv

\* Leaving the loop over the chunks.
LEMMA StopWritingKeeps ==
  ASSUME IInv, CompressThrows \/ AllWritten
  PROVE  IInv'
PROOF
  <1>1. /\ TypeOK /\ FilesTyped /\ WriterTyped /\ ReaderFollows
        /\ WriterFollows /\ IndexFits /\ WholeWhenIntact
    BY DEF IInv, FilesInv, TypeOK
  <1>2. /\ pc = "chunks" /\ pc' = "close" /\ Len(content) \in Nat
        /\ UNCHANGED <<col, idx, colBad, idxBad, nextChunk, packed, ver, content, condition, rd, opens, faults>>
        /\ threw' \in BOOLEAN
        /\ threw' \/ nextChunk > Len(content)
    BY <1>1, LenProperties
       DEF CompressThrows, AllWritten, fileVars, FilesTyped, WriterTyped
  <1>3. FilesTyped' /\ WriterTyped'
    BY <1>1, <1>2 DEF FilesTyped, WriterTyped
  <1>4. TypeOK'
    BY <1>1, <1>2, <1>3 DEF TypeOK
  <1>5. IndexFits' /\ WholeWhenIntact'
    BY <1>1, <1>2 DEF IndexFits, WholeWhenIntact, PointsAtHeader, Whole, Header
  <1>6. ~threw' => nextChunk = Len(content) + 1
    BY <1>1, <1>2 DEF WriterFollows, WriterTyped
  <1>7. WriterFollows'
    BY <1>1, <1>2, <1>6 DEF WriterFollows, Whole
  <1>8. ReaderFollows'
    BY <1>1, <1>2 DEF ReaderFollows
  <1> QED BY <1>4, <1>5, <1>7, <1>8 DEF IInv, FilesInv

\* What fails or is lost in one of the two streams leaves what is known of
\* the other.
LEMMA StreamFailsKeeps ==
  ASSUME IInv, ColStreamFails \/ IdxStreamFails
  PROVE  IInv'
PROOF
  <1>1. /\ TypeOK /\ FilesTyped /\ WriterTyped /\ ReaderFollows
        /\ WriterFollows /\ IndexFits /\ WholeWhenIntact
    BY DEF IInv, FilesInv, TypeOK
  <1>2. /\ pc \in {"chunks", "close"}
        /\ UNCHANGED <<pc, nextChunk, packed, threw, ver, content, condition, rd, opens>>
        /\ faults' \in Nat
    BY <1>1 DEF ColStreamFails, IdxStreamFails, writerVars, TypeOK
  <1>3. \/ /\ col' \in Prefixes(col) /\ colBad' = TRUE /\ idx' = idx /\ idxBad' = idxBad
        \/ /\ idx' \in Prefixes(idx) /\ idxBad' = TRUE /\ col' = col /\ colBad' = colBad
    BY DEF ColStreamFails, IdxStreamFails
  <1>4. IndexFits' /\ col' \in Seq(Cell) /\ idx' \in Seq(Int)
    BY <1>1, <1>2, <1>3, CutKeepsIndexFits
  <1>5. FilesTyped' /\ WriterTyped'
    BY <1>1, <1>2, <1>3, <1>4 DEF FilesTyped, WriterTyped
  <1>6. TypeOK'
    BY <1>1, <1>2, <1>5 DEF TypeOK
  <1>7. ASSUME ~colBad', condition # "mixed", NEW i \in 1 .. Len(idx') PROVE Whole(i)'
    <2>1. col' = col /\ idx' \in Prefixes(idx) /\ ~colBad
      BY <1>3, <1>7
    <2>2. i \in 1 .. Len(idx) /\ idx'[i] = idx[i]
      BY <1>1, <1>7, <2>1, PrefixOf DEF FilesTyped
    <2>3. Whole(i)
      BY <1>1, <1>2, <1>7, <2>1, <2>2 DEF WriterFollows
    <2> QED BY <1>2, <2>1, <2>2, <2>3 DEF Whole
  <1>8. condition # "intact" /\ (idxBad => idxBad') /\ (~idxBad' => idx' = idx /\ ~idxBad)
    BY <1>1, <1>2, <1>3 DEF WriterFollows
  <1>9. WriterFollows' /\ WholeWhenIntact'
    <2>1. (condition = "mixed" => idxBad') /\ (~idxBad' => Len(idx') = nextChunk - 1)
      BY <1>1, <1>2, <1>8 DEF WriterFollows
    <2> QED BY <1>1, <1>2, <1>7, <1>8, <2>1 DEF WriterFollows, WholeWhenIntact
  <1>10. ReaderFollows'
    <2>1. rd.open => rd.stale
      BY <1>1, <1>2 DEF ReaderFollows
    <2> QED BY <1>1, <1>2, <2>1 DEF ReaderFollows
  <1> QED BY <1>4, <1>6, <1>9, <1>10 DEF IInv, FilesInv

\* A write that nobody can call failed has put every chunk into the data and
\* every offset into the index.
LEMMA CloseFilesKeeps ==
  ASSUME IInv, CloseFiles
  PROVE  IInv'
PROOF
  <1>1. /\ TypeOK /\ FilesTyped /\ WriterTyped /\ ReaderFollows
        /\ WriterFollows /\ IndexFits
    BY DEF IInv, FilesInv, TypeOK
  <1>2. /\ pc = "close" /\ pc' = "idle" /\ colBad' = FALSE /\ idxBad' = FALSE
        /\ UNCHANGED <<col, idx, nextChunk, packed, threw, ver, content, rd, opens, faults>>
        /\ condition' = IF threw \/ colBad \/ idxBad THEN condition ELSE "intact"
        /\ Len(content) \in Nat
    BY <1>1, LenProperties DEF CloseFiles, WriterTyped
  <1>3. FilesTyped'
    BY <1>1, <1>2 DEF FilesTyped
  <1>4. WriterTyped'
    BY <1>1, <1>2 DEF WriterTyped
  <1>5. TypeOK'
    BY <1>1, <1>2, <1>3, <1>4 DEF TypeOK
  <1>6. CASE threw \/ colBad \/ idxBad
    <2>1. condition' = condition /\ condition # "intact"
      BY <1>1, <1>2, <1>6 DEF WriterFollows
    <2> QED BY <1>1, <1>2, <1>5, <2>1
            DEF IInv, FilesInv, IndexFits, WholeWhenIntact, WriterFollows, ReaderFollows,
                PointsAtHeader, Whole, Header
  <1>7. CASE ~(threw \/ colBad \/ idxBad)
    <2>1. condition # "mixed" /\ condition' = "intact" /\ nextChunk = Len(content) + 1
          /\ Len(idx) = nextChunk - 1 /\ \A i \in 1 .. Len(idx) : Whole(i)
      BY <1>1, <1>2, <1>7 DEF WriterFollows
    <2>2. Len(idx) = Len(content)
      BY <1>2, <2>1
    <2>3. WholeWhenIntact'
      BY <1>2, <2>1, <2>2 DEF WholeWhenIntact, Whole
    <2>4. IndexFits'
      BY <1>1, <1>2, <2>1 DEF IndexFits, PointsAtHeader, Header
    <2>5. WriterFollows' /\ ReaderFollows'
      BY <1>1, <1>2 DEF WriterFollows, ReaderFollows
    <2> QED BY <1>5, <2>3, <2>4, <2>5 DEF IInv, FilesInv
  <1> QED BY <1>6, <1>7

\* A crash takes the reader with it and cuts the files.
LEMMA CrashKeeps ==
  ASSUME IInv, Crash
  PROVE  IInv'
PROOF
  <1>1. /\ TypeOK /\ FilesTyped /\ WriterTyped /\ WriterFollows /\ IndexFits
    BY DEF IInv, FilesInv, TypeOK
  <1>2. /\ pc # "idle" /\ pc' = "idle" /\ colBad' = FALSE /\ idxBad' = FALSE
        /\ UNCHANGED <<nextChunk, packed, threw, ver, content, condition, opens>>
        /\ rd' = NoReader /\ faults' \in Nat
        /\ col' = col \/ col' \in Prefixes(col)
        /\ idx' = idx \/ idx' \in Prefixes(idx)
    BY <1>1 DEF Crash, TypeOK
  <1>3. IndexFits' /\ col' \in Seq(Cell) /\ idx' \in Seq(Int)
    BY <1>1, <1>2, CutKeepsIndexFits
  <1>4. NoReader \in Readers
    BY EmptySeq DEF NoReader, Readers, Results
  <1>5. FilesTyped'
    BY <1>1, <1>2, <1>3 DEF FilesTyped
  <1>6. WriterTyped'
    BY <1>1, <1>2 DEF WriterTyped
  <1>7. TypeOK'
    BY <1>1, <1>2, <1>4, <1>5, <1>6 DEF TypeOK
  <1>8. WriterFollows' /\ WholeWhenIntact' /\ ReaderFollows'
    BY <1>1, <1>2 DEF WriterFollows, WholeWhenIntact, ReaderFollows, NoReader
  <1> QED BY <1>3, <1>7, <1>8 DEF IInv, FilesInv

-----------------------------------------------------------------------------

\* Opening, closing and reading change nothing but the reader.
LEMMA ReaderOnly ==
  ASSUME IInv, UNCHANGED <<fileVars, writerVars, faults>>,
         rd' \in Readers, opens' \in Nat, ReaderFollows'
  PROVE  IInv'
PROOF
  <1>1. /\ TypeOK /\ FilesTyped /\ WriterTyped
        /\ WriterFollows /\ IndexFits /\ WholeWhenIntact
    BY DEF IInv, FilesInv, TypeOK
  <1>2. UNCHANGED <<col, idx, colBad, idxBad, pc, nextChunk, packed, threw, ver, content, condition>>
    BY DEF fileVars, writerVars
  <1>3. FilesTyped'
    BY <1>1, <1>2 DEF FilesTyped
  <1>4. WriterTyped'
    BY <1>1, <1>2 DEF WriterTyped
  <1>5. TypeOK'
    BY <1>1, <1>3, <1>4 DEF TypeOK
  <1>6. IndexFits' /\ WholeWhenIntact'
    BY <1>1, <1>2 DEF IndexFits, WholeWhenIntact, PointsAtHeader, Whole, Header
  <1>7. WriterFollows'
    BY <1>1, <1>2 DEF WriterFollows, Whole
  <1> QED BY <1>5, <1>6, <1>7 DEF IInv, FilesInv

\* A delivered chunk is named by the header it was read from.
LEMMA DeliveredIs ==
  ASSUME TypeOK, Reading, IsHeader,
         NEW kind \in {"chunk", "torn"}, NEW failed \in BOOLEAN
  PROVE  LET new == Delivered(kind, failed)
             at  == col[Offset + 1]
         IN  /\ new \in Readers
             /\ new.open = rd.open /\ new.index = rd.index /\ new.stale = rd.stale
             /\ new.next = rd.next + 1 /\ new.failed = failed
             /\ new.exhausted <=> rd.next + 1 >= Len(rd.index)
             /\ new.torn <=> rd.torn \/ kind = "torn"
             /\ new.last = [kind |-> kind, chunk |-> [ver |-> at.ver, chunk |-> at.chunk]]
             /\ at \in Cell /\ rd.next + 1 \in 1 .. Len(rd.index)
PROOF
  <1> DEFINE at == col[Offset + 1]
             c  == [ver |-> at.ver, chunk |-> at.chunk]
  <1>1. rd \in Readers /\ rd.next \in Nat /\ rd.index \in Seq(Int)
    BY DEF TypeOK, Readers
  <1>2. Len(rd.index) \in Nat /\ rd.next < Len(rd.index)
    BY <1>1, LenProperties DEF Reading, AtEnd
  <1>3. Len(col) \in Nat /\ Offset \in 0 .. (Len(col) - 1)
    BY LenProperties DEF TypeOK, FilesTyped, IsHeader, InFile
  <1>4. Offset + 1 \in 1 .. Len(col)
    BY <1>3
  <1>5. at \in Cell
    BY <1>4, ElementOfSeq DEF TypeOK, FilesTyped
  <1>6. c \in ChunkIds
    BY <1>5 DEF Cell, ChunkIds
  <1>7. [kind |-> kind, chunk |-> c] \in Results
    BY <1>6 DEF Results
  <1>8. PICK n \in Nat : n = rd.next + 1
    BY <1>1
  <1>9. PICK atEnd \in BOOLEAN : atEnd = (n >= Len(rd.index))
    <2>1. (n >= Len(rd.index)) \in BOOLEAN
      BY <1>2
    <2> QED BY <2>1
  <1>10. PICK torn \in BOOLEAN : torn = (rd.torn \/ kind = "torn")
    BY Zenon
  <1>11. PICK result \in Results : result = [kind |-> kind, chunk |-> c]
    BY <1>7
  <1>12. Delivered(kind, failed) =
           [rd EXCEPT !.next = n, !.exhausted = atEnd, !.failed = failed,
                      !.torn = torn, !.last = result]
    BY <1>8, <1>9, <1>10, <1>11, Zenon DEF Delivered
  <1> HIDE DEF c, at
  <1>13. /\ Delivered(kind, failed) \in Readers
         /\ Delivered(kind, failed).open = rd.open
         /\ Delivered(kind, failed).index = rd.index
         /\ Delivered(kind, failed).stale = rd.stale
         /\ Delivered(kind, failed).next = n
         /\ Delivered(kind, failed).failed = failed
         /\ Delivered(kind, failed).exhausted = atEnd
         /\ Delivered(kind, failed).torn = torn
         /\ Delivered(kind, failed).last = result
    BY <1>1, <1>12 DEF Readers
  <1>14. n \in 1 .. Len(rd.index)
    BY <1>1, <1>2, <1>8
  <1> QED BY <1>5, <1>8, <1>9, <1>10, <1>11, <1>13, <1>14, Zenon DEF c, at

LEMMA ReadKeeps ==
  ASSUME IInv, OpenReader \/ CloseReader \/ ReadNext
  PROVE  IInv'
PROOF
  <1>1. /\ TypeOK /\ ReaderFollows /\ rd \in Readers /\ opens \in Nat
        /\ idx \in Seq(Int) /\ Len(idx) \in Nat
    BY LenProperties DEF IInv, TypeOK, FilesTyped
  <1>2. UNCHANGED <<fileVars, writerVars, faults>> /\ opens' \in Nat
    <2>1. UNCHANGED <<fileVars, writerVars, faults>> /\ (opens' = opens \/ opens' = opens + 1)
      BY DEF OpenReader, CloseReader, ReadNext, ReadEnd, ReadThrows, ReadChunk, ReadTorn
    <2> QED BY <1>1, <2>1
  <1>3. UNCHANGED <<col, idx, pc>>
    BY <1>2 DEF fileVars, writerVars
  <1>4. rd' \in Readers /\ ReaderFollows'
    <2>1. CASE OpenReader
      <3>1. rd' \in Readers /\ rd'.index = idx /\ rd'.next = 0 /\ ~rd'.torn /\ pc = "idle"
            /\ (rd'.exhausted => idx = << >>)
        BY <1>1, <2>1 DEF OpenReader, NoReader, Readers, Results
      <3>2. idx = << >> => Len(idx) = 0
        BY EmptySeq
      <3> QED BY <1>1, <1>3, <3>1, <3>2 DEF ReaderFollows
    <2>2. CASE CloseReader
      BY <2>2, EmptySeq DEF CloseReader, NoReader, Readers, Results, ReaderFollows
    <2>3. CASE ReadEnd
      <3>1. AtEnd /\ rd' = [rd EXCEPT !.exhausted = TRUE, !.last = [kind |-> "end"]]
        BY <2>3 DEF ReadEnd
      <3>2. rd' \in Readers /\ rd'.index = rd.index /\ rd'.next = rd.next /\ rd'.open = rd.open
            /\ rd'.stale = rd.stale /\ rd'.torn = rd.torn /\ rd'.failed = rd.failed
        BY <1>1, <3>1 DEF Readers, Results
      <3>3. rd.open => rd.next >= Len(rd.index)
        <4>1. rd.next \in Nat /\ Len(rd.index) \in Nat
          BY <1>1, LenProperties DEF Readers
        <4> QED BY <1>1, <3>1, <4>1 DEF AtEnd, ReaderFollows
      <3> QED BY <1>1, <1>3, <3>2, <3>3 DEF ReaderFollows
    <2>4. CASE ReadThrows
      <3>1. PICK short \in BOOLEAN :
              rd' = [rd EXCEPT !.failed = @ \/ short, !.last = [kind |-> "throw"]]
        BY <2>4 DEF ReadThrows
      <3>2. rd' \in Readers /\ rd'.index = rd.index /\ rd'.next = rd.next /\ rd'.open = rd.open
            /\ rd'.stale = rd.stale /\ rd'.torn = rd.torn /\ (rd.failed => rd'.failed)
            /\ rd'.exhausted = rd.exhausted
        BY <1>1, <3>1 DEF Readers, Results
      <3> QED BY <1>1, <1>3, <3>2 DEF ReaderFollows
    <2>5. ASSUME NEW kind \in {"chunk", "torn"}, NEW failed \in BOOLEAN,
                 Reading, IsHeader, rd' = Delivered(kind, failed), kind = "torn" => failed
          PROVE  rd' \in Readers /\ ReaderFollows'
      <3>1. /\ rd' \in Readers
            /\ rd'.open = rd.open /\ rd'.index = rd.index /\ rd'.stale = rd.stale
            /\ rd'.next = rd.next + 1 /\ rd'.failed = failed
            /\ rd'.exhausted <=> rd.next + 1 >= Len(rd.index)
            /\ rd'.torn <=> rd.torn \/ kind = "torn"
            /\ rd.next + 1 \in 1 .. Len(rd.index)
        BY <1>1, <2>5, DeliveredIs
      <3>2. ~rd.torn
        BY <1>1, <2>5 DEF ReaderFollows, IsHeader, InFile
      <3>3. rd.open /\ ~rd.stale => rd.index = idx /\ rd'.next <= Len(idx)
        BY <1>1, <3>1 DEF ReaderFollows
      <3> QED BY <1>1, <1>3, <2>5, <3>1, <3>2, <3>3 DEF ReaderFollows
    <2>6. CASE ReadChunk
      BY <2>5, <2>6 DEF ReadChunk, WholeChunk
    <2>7. CASE ReadTorn
      <3>1. Reading /\ IsHeader
        BY <2>7 DEF ReadTorn
      <3>2. CASE rd' = Delivered("torn", TRUE)
        BY <2>5, <3>1, <3>2
      <3>3. CASE rd' = [rd EXCEPT !.failed = TRUE, !.last = [kind |-> "throw"]]
        <4>1. rd' \in Readers /\ rd'.index = rd.index /\ rd'.next = rd.next /\ rd'.open = rd.open
              /\ rd'.stale = rd.stale /\ rd'.torn = rd.torn /\ rd'.failed
              /\ rd'.exhausted = rd.exhausted
          BY <1>1, <3>3 DEF Readers, Results
        <4> QED BY <1>1, <1>3, <4>1 DEF ReaderFollows
      <3> QED BY <2>7, <3>2, <3>3 DEF ReadTorn
    <2> QED BY <2>1, <2>2, <2>3, <2>4, <2>6, <2>7 DEF ReadNext
  <1> QED BY <1>2, <1>4, ReaderOnly

LEMMA NextKeepsIInv == IInv /\ [Next]_vars => IInv'
PROOF
  <1> SUFFICES ASSUME IInv, [Next]_vars PROVE IInv'
    OBVIOUS
  <1>1. ASSUME NEW fails \in BOOLEAN, OpenCol(fails) \/ OpenIdx(fails) PROVE IInv'
    BY <1>1, OpenColKeeps, OpenIdxKeeps
  <1>2. ASSUME WriteChunk \/ CompressThrows \/ AllWritten PROVE IInv'
    BY <1>2, WriteChunkKeeps, StopWritingKeeps
  <1>3. ASSUME ColStreamFails \/ IdxStreamFails \/ CloseFiles \/ Crash PROVE IInv'
    BY <1>3, StreamFailsKeeps, CloseFilesKeeps, CrashKeeps
  <1>4. ASSUME OpenReader \/ CloseReader \/ ReadNext PROVE IInv'
    BY <1>4, ReadKeeps
  <1>5. CASE UNCHANGED vars
    <2>1. UNCHANGED <<fileVars, writerVars, faults>> /\ UNCHANGED <<rd, opens, idx, pc>>
      BY <1>5 DEF vars, fileVars, writerVars
    <2>2. rd' \in Readers /\ opens' \in Nat /\ ReaderFollows'
      BY <2>1 DEF IInv, TypeOK, ReaderFollows
    <2> QED BY <2>1, <2>2, ReaderOnly
  <1> QED BY <1>1, <1>2, <1>3, <1>4, <1>5 DEF Next

LEMMA IInvAlways == Spec => []IInv
PROOF
  BY InitIInv, NextKeepsIInv, PTL DEF Spec

\* However a write is cut short, and wherever each of its two files is, an
\* entry of the index points at the header of its own chunk, at the end of
\* the data, beyond it, or nowhere: for any contents, and any number of
\* writes, failures and crashes.
THEOREM IndexPointsAtHeadersAlways == Spec => []IndexPointsAtHeaders
PROOF
  <1>1. IInv => IndexPointsAtHeaders
    <2> SUFFICES ASSUME IInv, condition # "mixed", NEW i \in DOMAIN idx,
                        idx[i] \in DOMAIN col \cup {0}, idx[i] < Len(col)
                 PROVE  col[idx[i] + 1].part = 0 /\ col[idx[i] + 1].chunk = i
      BY DEF IndexPointsAtHeaders
    <2>1. i \in 1 .. Len(idx) /\ DOMAIN col = 1 .. Len(col)
      BY LenProperties DEF IInv, TypeOK, FilesTyped
    <2>2. idx[i] # BadOffset
      BY <2>1 DEF BadOffset
    <2>3. col[idx[i] + 1] = Header(i)
      BY <2>1, <2>2 DEF IInv, FilesInv, IndexFits, PointsAtHeader
    <2> QED BY <2>3 DEF Header
  <1> QED BY IInvAlways, <1>1, PTL

\* After a torn chunk a reader delivers nothing more: its stream has failed,
\* and neither its position nor the failure is ever reset.
THEOREM TornIsLastAlways == Spec => TornIsLast
PROOF
  <1>1. IInv /\ [Next]_vars => [rd.torn /\ rd'.torn /\ rd.open => rd'.next = rd.next]_vars
    <2> SUFFICES ASSUME IInv, Next, rd.torn, rd'.torn, rd.open PROVE rd'.next = rd.next
      OBVIOUS
    <2>1. rd.failed /\ rd \in Readers
      BY DEF IInv, ReaderFollows, TypeOK
    <2>2. ASSUME NEW fails \in BOOLEAN, OpenCol(fails) PROVE rd'.next = rd.next
      BY <2>1, <2>2 DEF OpenCol, Readers
    <2>3. ASSUME NEW fails \in BOOLEAN, OpenIdx(fails) PROVE rd' = rd
      BY <2>3 DEF OpenIdx
    <2>4. CASE \/ WriteChunk \/ CompressThrows \/ AllWritten
               \/ ColStreamFails \/ IdxStreamFails \/ CloseFiles
      BY <2>4 DEF WriteChunk, CompressThrows, AllWritten, ColStreamFails, IdxStreamFails,
                  CloseFiles
    <2>5. ~Crash /\ ~OpenReader /\ ~CloseReader
      <3>1. Crash \/ CloseReader => ~rd'.torn
        BY DEF Crash, CloseReader, NoReader
      <3>2. OpenReader => ~rd'.torn
        BY DEF OpenReader, NoReader
      <3> QED BY <3>1, <3>2
    <2>6. CASE ReadEnd \/ ReadThrows
      BY <2>1, <2>6 DEF ReadEnd, ReadThrows, Readers
    <2>7. ~ReadChunk /\ ~ReadTorn
      BY <2>1 DEF ReadChunk, ReadTorn, WholeChunk, IsHeader, InFile
    <2> QED BY <2>2, <2>3, <2>4, <2>5, <2>6, <2>7 DEF Next, ReadNext
  <1> QED BY IInvAlways, <1>1, PTL DEF Spec, TornIsLast

-----------------------------------------------------------------------------
(* The refinement of ColumnStream.                                         *)

Value == [i \in 1 .. Len(content) |-> ChunkId(i)]

Cursor == IF Mode = "live" THEN rd.next ELSE 0

\* The abstract state is what ColumnFile's mapping makes of the two files.
StreamVars == <<Value, pc # "idle", condition, Mode, Cursor, rd.last>>

LEMMA StreamVarsAre == Stream!vars = StreamVars /\ Stream!vars' = StreamVars'
PROOF
  BY DEF Stream!vars, StreamVars, Value, Cursor

\* A step inside a write that begins neither file shows nothing.
LEMMA HiddenStep ==
  ASSUME UNCHANGED <<ver, content, condition, rd>>, pc # "idle", pc' # "idle"
  PROVE  UNCHANGED StreamVars
PROOF
  <1>1. Value' = Value
    BY DEF Value, ChunkId
  <1>2. Mode' = Mode
    BY DEF Mode
  <1>3. Cursor' = Cursor
    BY <1>2 DEF Cursor
  <1> QED BY <1>1, <1>2, <1>3 DEF StreamVars

\* During a write no reader has a claim.
LEMMA WritingMode ==
  ASSUME IInv, pc # "idle"
  PROVE  Mode \in {"none", "stale"} /\ Cursor = 0 /\ (rd.open => rd.stale)
PROOF
  BY DEF IInv, ReaderFollows, Mode, Cursor

LEMMA OpenColImplements ==
  ASSUME IInv, NEW fails \in BOOLEAN, OpenCol(fails)
  PROVE  Stream!BeginWrite
PROOF
  <1>1. rd \in Readers /\ ver \in 0 .. MaxWrites
    BY DEF IInv, TypeOK, WriterTyped
  <1>2. pc = "idle" /\ pc' # "idle" /\ condition' = "mixed" /\ content' \in Contents
        /\ ver' = ver + 1 /\ ver < MaxWrites
        /\ rd' = [rd EXCEPT !.stale = rd.open, !.last = [kind |-> "none"]]
    BY DEF OpenCol
  <1>3. ver' \in 1 .. MaxWrites
    BY <1>1, <1>2, FileAssumption
  <1>4. Value' \in {[i \in 1 .. Len(c) |-> [ver |-> v, chunk |-> i]] :
                       c \in Contents, v \in 1 .. MaxWrites}
    BY <1>2, <1>3 DEF Value, ChunkId
  <1>5. rd'.open = rd.open /\ rd'.stale = rd.open /\ rd'.last = [kind |-> "none"]
    BY <1>1, <1>2 DEF Readers
  <1>6. Mode' = IF Mode = "none" THEN "none" ELSE "stale"
    BY <1>2, <1>5 DEF Mode
  <1>7. Cursor' = 0
    BY <1>6 DEF Cursor
  <1> QED BY <1>2, <1>4, <1>5, <1>6, <1>7
          DEF Stream!BeginWrite, Stream!Result, Value, Cursor

\* The other steps of the writer: most show nothing, an index that begins
\* anew makes the column damaged, and the end of the call makes it intact or
\* leaves it damaged or mixed.
LEMMA WriterImplements ==
  ASSUME IInv,
         \/ \E fails \in BOOLEAN : OpenIdx(fails)
         \/ WriteChunk \/ CompressThrows \/ AllWritten
         \/ ColStreamFails \/ IdxStreamFails \/ CloseFiles \/ Crash
  PROVE  Stream!BothBegun \/ Stream!CompleteWrite \/ Stream!FailWrite \/ UNCHANGED StreamVars
PROOF
  <1>1. WriterFollows
    BY DEF IInv, FilesInv
  <1>2. CASE \/ WriteChunk \/ CompressThrows \/ AllWritten
             \/ ColStreamFails \/ IdxStreamFails
    <2>1. UNCHANGED <<ver, content, condition, rd>> /\ pc # "idle" /\ pc' # "idle"
      BY <1>2 DEF WriteChunk, CompressThrows, AllWritten, ColStreamFails, IdxStreamFails,
                  writerVars
    <2> QED BY <2>1, HiddenStep
  <1>3. ASSUME NEW fails \in BOOLEAN, OpenIdx(fails)
        PROVE  Stream!BothBegun \/ UNCHANGED StreamVars
    <2>1. /\ UNCHANGED <<ver, content, rd>> /\ pc # "idle" /\ pc' # "idle"
          /\ condition' = IF fails THEN condition ELSE "damaged"
      BY <1>3 DEF OpenIdx
    <2>2. CASE fails
      BY <2>1, <2>2, HiddenStep
    <2>3. CASE ~fails
      <3>1. Value' = Value
        BY <2>1 DEF Value, ChunkId
      <3>2. Mode \in {"none", "stale"} /\ Cursor = 0 /\ (rd.open => rd.stale)
        BY <2>1, WritingMode
      <3>3. Mode' = Mode /\ Cursor' = Cursor
        BY <2>1, <3>2 DEF Mode, Cursor
      <3> QED BY <2>1, <2>3, <3>1, <3>3 DEF Stream!BothBegun, Value, Cursor
    <2> QED BY <2>2, <2>3
  <1>4. CASE CloseFiles
    <2>1. /\ pc = "close" /\ pc' = "idle" /\ UNCHANGED <<ver, content, rd>>
          /\ condition' = IF threw \/ colBad \/ idxBad THEN condition ELSE "intact"
      BY <1>4 DEF CloseFiles
    <2>2. Value' = Value
      BY <2>1 DEF Value, ChunkId
    <2>3. Mode \in {"none", "stale"} /\ Cursor = 0 /\ (rd.open => rd.stale)
      BY <2>1, WritingMode
    <2>4. Mode' = Mode /\ Cursor' = Cursor
      BY <2>1, <2>3 DEF Mode, Cursor
    <2>5. CASE threw \/ colBad \/ idxBad
      BY <2>1, <2>2, <2>4, <2>5 DEF Stream!FailWrite, Value, Cursor
    <2>6. CASE ~(threw \/ colBad \/ idxBad)
      <3>1. condition = "damaged"
        BY <1>1, <2>1, <2>6 DEF WriterFollows, IInv, TypeOK, WriterTyped
      <3> QED BY <2>1, <2>2, <2>4, <2>6, <3>1 DEF Stream!CompleteWrite, Value, Cursor
    <2> QED BY <2>5, <2>6
  <1>5. CASE Crash
    <2>1. pc # "idle" /\ pc' = "idle" /\ UNCHANGED <<ver, content, condition>> /\ rd' = NoReader
      BY <1>5 DEF Crash
    <2>2. Value' = Value
      BY <2>1 DEF Value, ChunkId
    <2>3. Mode' = "none" /\ Cursor' = 0 /\ rd'.last = [kind |-> "none"]
      BY <2>1 DEF Mode, Cursor, NoReader
    <2> QED BY <2>1, <2>2, <2>3 DEF Stream!FailWrite, Stream!Result, Value, Cursor
  <1> QED BY <1>2, <1>3, <1>4, <1>5

LEMMA OpenCloseImplements ==
  ASSUME OpenReader \/ CloseReader
  PROVE  Stream!OpenReader \/ Stream!CloseReader
PROOF
  <1>1. UNCHANGED <<ver, content, condition, pc>>
    BY DEF OpenReader, CloseReader, writerVars
  <1>2. Value' = Value
    BY <1>1 DEF Value, ChunkId
  <1>3. CASE OpenReader
    <2>1. pc = "idle" /\ rd'.open /\ ~rd'.stale /\ ~rd'.failed /\ rd'.next = 0
          /\ rd'.last = [kind |-> "none"]
      BY <1>3 DEF OpenReader, NoReader
    <2>2. Mode' = (IF condition = "mixed" THEN "stale" ELSE "live") /\ Cursor' = 0
      BY <1>1, <2>1 DEF Mode, Cursor
    <2> QED BY <1>1, <1>2, <2>1, <2>2 DEF Stream!OpenReader, Stream!Result, Value, Cursor
  <1>4. CASE CloseReader
    <2>1. rd' = NoReader
      BY <1>4 DEF CloseReader
    <2>2. Mode' = "none" /\ Cursor' = 0 /\ rd'.last = [kind |-> "none"]
      BY <2>1 DEF Mode, Cursor, NoReader
    <2> QED BY <1>1, <1>2, <2>2 DEF Stream!CloseReader, Stream!Result, Value, Cursor
  <1> QED BY <1>3, <1>4

\* A live reader has the index of the files, which stem from one write.
LEMMA LiveReader ==
  ASSUME IInv, Mode = "live"
  PROVE  /\ rd.open /\ ~rd.stale /\ ~rd.failed /\ condition \in {"intact", "damaged"}
         /\ rd.index = idx /\ rd.next \in 0 .. Len(idx)
         /\ Len(idx) \in Nat /\ Len(content) \in Nat /\ Len(idx) <= Len(content)
         /\ condition = "intact" => Len(idx) = Len(content)
         /\ Len(Value) = Len(content) /\ Cursor = rd.next
PROOF
  <1>1. /\ rd.open /\ ~rd.stale /\ ~rd.failed /\ condition # "mixed"
    BY DEF Mode
  <1>2. condition \in {"intact", "damaged"} /\ rd.next \in Nat
        /\ Len(idx) \in Nat /\ Len(content) \in Nat
    BY <1>1, LenProperties DEF IInv, TypeOK, FilesTyped, WriterTyped, Readers
  <1>3. rd.index = idx /\ rd.next <= Len(idx)
    BY <1>1 DEF IInv, ReaderFollows
  <1>4. Len(idx) <= Len(content) /\ (condition = "intact" => Len(idx) = Len(content))
    BY <1>1 DEF IInv, FilesInv, IndexFits, WholeWhenIntact
  <1>5. Len(Value) = Len(content)
    BY <1>2 DEF Value
  <1> QED BY <1>1, <1>2, <1>3, <1>4, <1>5 DEF Cursor

\* What a live reader finds where its next entry points: the header of the
\* next chunk, or nothing; and the whole chunk if the column is intact.
LEMMA LiveEntry ==
  ASSUME IInv, Mode = "live", Reading
  PROVE  /\ rd.next + 1 \in 1 .. Len(content)
         /\ InFile => /\ IsHeader
                      /\ col[Offset + 1].ver = ver /\ col[Offset + 1].chunk = rd.next + 1
         /\ condition = "intact" => WholeChunk
PROOF
  <1>1. /\ ~rd.failed /\ rd.index = idx /\ rd.next \in 0 .. Len(idx) /\ condition # "mixed"
        /\ Len(idx) \in Nat /\ Len(content) \in Nat /\ Len(idx) <= Len(content)
    BY LiveReader
  <1>2. PICK i \in Nat : i = rd.next + 1
    BY <1>1
  <1>3. i \in 1 .. Len(idx) /\ i \in 1 .. Len(content) /\ Offset = idx[i]
    BY <1>1, <1>2 DEF Reading, AtEnd, Offset
  <1>4. Len(col) \in Nat /\ content[i] \in Nat
    BY <1>3, LenProperties, ElementOfSeq DEF IInv, TypeOK, FilesTyped, WriterTyped
  <1>5. idx[i] # BadOffset => PointsAtHeader(i)
    BY <1>1, <1>3 DEF IInv, FilesInv, IndexFits
  <1>6. ASSUME InFile
        PROVE  IsHeader /\ col[Offset + 1] = Header(i)
    <2>1. Offset \in 0 .. (Len(col) - 1)
      BY <1>6 DEF InFile
    <2>2. idx[i] # BadOffset /\ idx[i] < Len(col)
      BY <1>3, <1>4, <2>1 DEF BadOffset
    <2>3. col[Offset + 1] = Header(i)
      BY <1>3, <1>5, <2>2 DEF PointsAtHeader
    <2> QED BY <1>6, <2>3 DEF IsHeader, Header
  <1>7. ASSUME condition = "intact"
        PROVE  WholeChunk
    <2>1. idx[i] \in Nat /\ idx[i] + content[i] < Len(col)
      BY <1>3, <1>7 DEF IInv, FilesInv, WholeWhenIntact, Whole
    <2>2. InFile
      BY <1>1, <1>3, <1>4, <2>1 DEF InFile
    <2>3. IsHeader /\ col[Offset + 1].parts = content[i]
      BY <1>6, <2>2 DEF Header
    <2>4. Offset + 1 + content[i] <= Len(col)
      BY <1>3, <1>4, <2>1
    <2> QED BY <2>3, <2>4 DEF WholeChunk
  <1> QED BY <1>2, <1>3, <1>6, <1>7 DEF Header

\* Every call of read_next_chunk is a read of the stream.
LEMMA ReadImplements ==
  ASSUME IInv, ReadNext
  PROVE  Stream!Read
PROOF
  <1>1. UNCHANGED <<ver, content, condition, pc>> /\ pc = "idle" /\ rd.open /\ rd \in Readers
    BY DEF ReadNext, ReadEnd, ReadThrows, ReadChunk, ReadTorn, Reading, writerVars, IInv, TypeOK
  <1>2. Value' = Value
    BY <1>1 DEF Value, ChunkId
  <1>3. Mode \in {"live", "stale", "dead"}
    BY <1>1 DEF Mode
  \* It is enough to find the kind of read.
  <1>4. SUFFICES \/ Stream!ReadChunk \/ Stream!ReadTorn \/ Stream!ReadThrows
                 \/ Stream!ReadEnd \/ Stream!ReadStale
    BY <1>1, <1>2 DEF Stream!Read, Value
  <1>5. CASE ReadEnd
    <2>1. AtEnd /\ rd' = [rd EXCEPT !.exhausted = TRUE, !.last = [kind |-> "end"]]
      BY <1>5 DEF ReadEnd
    <2>2. rd'.open = rd.open /\ rd'.stale = rd.stale /\ rd'.failed = rd.failed
          /\ rd'.next = rd.next /\ rd'.last = [kind |-> "end"]
      BY <1>1, <2>1 DEF Readers
    <2>3. Mode' = Mode /\ Cursor' = Cursor
      BY <1>1, <2>2 DEF Mode, Cursor
    <2>4. CASE Mode = "stale"
      BY <2>2, <2>3, <2>4 DEF Stream!ReadStale, Results, Cursor
    <2>5. CASE Mode = "dead"
      BY <2>2, <2>3, <2>5 DEF Stream!ReadEnd, Stream!Result, Cursor
    <2>6. CASE Mode = "live"
      <3>1. condition = "damaged" \/ Cursor = Len(Value)
        <4>1. rd.next >= Len(rd.index)
          BY <1>1, <2>1 DEF AtEnd, IInv, ReaderFollows
        <4> QED BY <2>6, <4>1, LiveReader
      <3> QED BY <2>2, <2>3, <2>6, <3>1 DEF Stream!ReadEnd, Stream!Result, Value, Cursor
    <2> QED BY <1>3, <2>4, <2>5, <2>6
  <1>6. ASSUME rd'.open, rd'.stale = rd.stale, rd'.failed, rd'.last = [kind |-> "throw"],
               Mode = "live" => condition = "damaged"
        PROVE  Stream!ReadThrows \/ Stream!ReadStale
    <2>1. CASE Mode = "stale"
      <3>1. Mode' = Mode /\ Cursor' = Cursor
        BY <1>1, <1>6, <2>1 DEF Mode, Cursor
      <3> QED BY <1>6, <2>1, <3>1 DEF Stream!ReadStale, Results, Cursor
    <2>2. CASE Mode # "stale"
      <3>1. Mode' = "dead" /\ Cursor' = 0
        BY <1>1, <1>6, <2>2 DEF Mode, Cursor
      <3> QED BY <1>3, <1>6, <2>2, <3>1 DEF Stream!ReadThrows, Stream!Result, Cursor
    <2> QED BY <2>1, <2>2
  <1>7. CASE ReadThrows
    <2>1. PICK short \in BOOLEAN :
            /\ ~InFile => short
            /\ rd' = [rd EXCEPT !.failed = @ \/ short, !.last = [kind |-> "throw"]]
      BY <1>7 DEF ReadThrows
    <2>2. /\ rd'.open /\ rd'.stale = rd.stale /\ rd'.last = [kind |-> "throw"]
          /\ rd'.failed = (rd.failed \/ short)
      BY <1>1, <2>1, Zenon DEF Readers
    <2>3. Reading /\ ~IsHeader
      BY <1>7 DEF ReadThrows
    <2>4. CASE Mode = "live"
      <3>1. ~InFile /\ condition # "intact"
        BY <2>3, <2>4, LiveEntry DEF WholeChunk
      <3>2. condition = "damaged"
        BY <2>4, <3>1, LiveReader
      <3> QED BY <1>6, <2>1, <2>2, <3>1, <3>2
    <2>5. CASE Mode = "dead"
      <3>1. rd.failed
        BY <2>5 DEF Mode
      <3> QED BY <1>6, <2>2, <2>5, <3>1
    <2>6. CASE Mode = "stale"
      <3>1. Mode' = Mode /\ Cursor' = Cursor
        BY <1>1, <2>2, <2>6 DEF Mode, Cursor
      <3> QED BY <2>2, <2>6, <3>1 DEF Stream!ReadStale, Results, Cursor
    <2> QED BY <1>3, <2>4, <2>5, <2>6
  <1>8. ASSUME NEW kind \in {"chunk", "torn"}, NEW failed \in BOOLEAN,
               Reading, IsHeader, rd' = Delivered(kind, failed),
               failed <=> kind = "torn",
               Mode = "live" /\ kind = "torn" => condition = "damaged"
        PROVE  Stream!ReadChunk \/ Stream!ReadTorn \/ Stream!ReadStale
    <2> DEFINE at == col[Offset + 1]
               c  == [ver |-> at.ver, chunk |-> at.chunk]
    <2>1. /\ rd'.open = rd.open /\ rd'.stale = rd.stale
          /\ rd'.next = rd.next + 1 /\ rd'.failed = failed
          /\ rd'.last = [kind |-> kind, chunk |-> c]
          /\ at \in Cell
      BY <1>8, DeliveredIs DEF IInv
    <2>2. ~rd.failed /\ InFile
      BY <1>8 DEF IsHeader, InFile
    <2>3. CASE Mode = "stale"
      <3>1. Mode' = Mode /\ Cursor' = Cursor
        BY <1>1, <2>1, <2>3 DEF Mode, Cursor
      <3>2. c \in ChunkIds
        BY <2>1 DEF Cell, ChunkIds
      <3>3. rd'.last \in Results
        BY <2>1, <3>2 DEF Results
      <3> QED BY <2>3, <3>1, <3>3 DEF Stream!ReadStale, Cursor
    <2>4. CASE Mode = "live"
      <3>1. rd.next + 1 \in 1 .. Len(content) /\ at.ver = ver /\ at.chunk = rd.next + 1
        BY <1>8, <2>2, <2>4, LiveEntry
      <3>2. Value[rd.next + 1] = c
        BY <3>1 DEF Value, ChunkId
      <3>3. Cursor = rd.next /\ Cursor < Len(Value)
        <4>1. Cursor = rd.next /\ Len(Value) = Len(content) /\ rd.next \in Int
          BY <2>4, LiveReader
        <4> QED BY <3>1, <4>1
      <3>4. CASE kind = "chunk"
        <4>1. Mode' = "live" /\ Cursor' = Cursor + 1
          BY <1>1, <1>8, <2>1, <2>4, <3>3, <3>4 DEF Mode, Cursor
        <4>2. rd'.last = [kind |-> "chunk", chunk |-> Value[Cursor + 1]]
          BY <2>1, <3>2, <3>3, <3>4
        <4> QED BY <2>4, <3>3, <4>1, <4>2 DEF Stream!ReadChunk, Stream!More, Value, Cursor
      <3>5. CASE kind = "torn"
        <4>1. Mode' = "dead" /\ Cursor' = 0
          BY <1>1, <1>8, <2>1, <2>4, <3>5 DEF Mode, Cursor
        <4>2. rd'.last = [kind |-> "torn", chunk |-> Value[Cursor + 1]]
          BY <2>1, <3>2, <3>3, <3>5
        <4> QED BY <1>8, <2>4, <3>3, <3>5, <4>1, <4>2
                DEF Stream!ReadTorn, Stream!More, Value, Cursor
      <3> QED BY <3>4, <3>5
    <2>5. Mode # "dead"
      BY <2>2 DEF Mode
    <2> QED BY <1>3, <2>3, <2>4, <2>5
  <1>9. CASE ReadChunk
    BY <1>8, <1>9 DEF ReadChunk, WholeChunk
  <1>10. CASE ReadTorn
    <2>1. Reading /\ IsHeader /\ ~WholeChunk
      BY <1>10 DEF ReadTorn
    <2>2. Mode = "live" => condition = "damaged"
      BY <2>1, LiveReader, LiveEntry
    <2>3. CASE rd' = Delivered("torn", TRUE)
      BY <1>8, <2>1, <2>2, <2>3
    <2>4. CASE rd' = [rd EXCEPT !.failed = TRUE, !.last = [kind |-> "throw"]]
      <3>1. rd'.open /\ rd'.stale = rd.stale /\ rd'.failed /\ rd'.last = [kind |-> "throw"]
        BY <1>1, <2>4 DEF Readers
      <3> QED BY <1>6, <2>2, <3>1
    <2> QED BY <1>10, <2>3, <2>4 DEF ReadTorn
  <1> QED BY <1>5, <1>7, <1>9, <1>10 DEF ReadNext

LEMMA StepImplements == IInv /\ [Next]_vars => [Stream!Next]_(Stream!vars)
PROOF
  <1> SUFFICES ASSUME IInv, [Next]_vars PROVE Stream!Next \/ StreamVars' = StreamVars
    BY StreamVarsAre
  <1>1. ASSUME NEW fails \in BOOLEAN, OpenCol(fails) PROVE Stream!Next
    BY <1>1, OpenColImplements DEF Stream!Next
  <1>2. CASE \/ \E fails \in BOOLEAN : OpenIdx(fails)
             \/ WriteChunk \/ CompressThrows \/ AllWritten
             \/ ColStreamFails \/ IdxStreamFails \/ CloseFiles \/ Crash
    BY <1>2, WriterImplements DEF Stream!Next
  <1>3. CASE OpenReader \/ CloseReader
    BY <1>3, OpenCloseImplements DEF Stream!Next
  <1>4. CASE ReadNext
    BY <1>4, ReadImplements DEF Stream!Next
  <1>5. CASE UNCHANGED vars
    BY <1>5 DEF vars, fileVars, writerVars, StreamVars, Value, ChunkId, Mode, Cursor
  <1> QED BY <1>1, <1>2, <1>3, <1>4, <1>5 DEF Next

\* ColumnFile implements ColumnStream: a write that ends well is read back
\* whole and in order, a damaged column as a prefix of it with at most its
\* last chunk torn.
THEOREM ImplementsStreamAlways == Spec => ImplementsStream
PROOF
  <1>1. Init => Stream!Init
    <2> SUFFICES ASSUME Init PROVE Stream!Init
      OBVIOUS
    <2>1. Value = << >> /\ Mode = "none" /\ Cursor = 0 /\ rd.last = [kind |-> "none"]
      BY DEF Init, Value, Mode, Cursor, NoReader
    <2> QED BY <2>1 DEF Init, Stream!Init, Stream!Result, Value, Cursor
  <1> QED BY <1>1, IInvAlways, StepImplements, PTL DEF Spec, ImplementsStream, Stream!Spec

-----------------------------------------------------------------------------
(* Recursion from the end of a text.                                       *)

\* What holds of a place when it holds of those behind it holds of all.
LEMMA Downwards ==
  ASSUME NEW lo \in Nat, NEW hi \in Nat, NEW S,
         \A q \in lo .. hi : (\A k \in lo .. hi : q < k => k \in S) => q \in S
  PROVE  \A q \in lo .. hi : q \in S
PROOF
  <1> DEFINE Out == {m \in 0 .. hi : hi - m \in lo .. hi /\ hi - m \notin S}
  <1>1. Out = {}
    <2> SUFFICES ASSUME Out # {} PROVE FALSE
      OBVIOUS
    <2>1. Out \in SUBSET Nat
      OBVIOUS
    <2>2. PICK m \in Out : \A k \in Out : m <= k
      <3> HIDE DEF Out
      <3> QED BY <2>1, LeastNumber
    <2>3. m \in 0 .. hi /\ hi - m \in lo .. hi /\ hi - m \notin S
      OBVIOUS
    <2>4. ASSUME NEW k \in lo .. hi, hi - m < k PROVE k \in S
      <3>1. hi - k \in 0 .. hi /\ ~(m <= hi - k) /\ hi - (hi - k) = k
        BY <2>3, <2>4
      <3> QED BY <2>2, <3>1
    <2> QED BY <2>3, <2>4
  <1> TAKE q \in lo .. hi
  <1>2. hi - q \in 0 .. hi /\ hi - (hi - q) = q
    OBVIOUS
  <1>3. hi - q \notin Out
    BY <1>1
  <1> QED BY <1>2, <1>3

\* What f says of q, when it looks at the place next[q] behind q, or none.
Descends(f, q, stop, next, base, comb) ==
  f[q] = IF q \in stop THEN base[q] ELSE comb[q][f[next[q]]]

\* A function that looks at places behind its argument exists.
LEMMA Descent ==
  ASSUME NEW lo \in Nat, NEW hi \in Nat, NEW R, NEW stop, NEW next, NEW base, NEW comb,
         \A q \in lo .. hi : q \in stop => base[q] \in R,
         \A q \in lo .. hi : q \notin stop => next[q] \in (q + 1) .. hi,
         \A q \in lo .. hi : q \notin stop => \A r \in R : comb[q][r] \in R
  PROVE  \E f \in [lo .. hi -> R] : \A q \in lo .. hi : Descends(f, q, stop, next, base, comb)
PROOF
  <1> DEFINE From(f, k) == f \in [k .. hi -> R] /\ \A q \in k .. hi : Descends(f, q, stop, next, base, comb)
             Without == {n \in 0 .. (hi + 1) : hi + 1 - n >= lo /\ ~\E f : From(f, hi + 1 - n)}
  <1>1. ASSUME NEW k \in lo .. hi, NEW f, From(f, k + 1) PROVE \E h : From(h, k)
    <2> DEFINE v == IF k \in stop THEN base[k] ELSE comb[k][f[next[k]]]
               h == [q \in k .. hi |-> IF q = k THEN v ELSE f[q]]
    <2>1. f \in [(k + 1) .. hi -> R] /\ \A q \in (k + 1) .. hi : Descends(f, q, stop, next, base, comb)
      BY <1>1
    <2>2. v \in R
      <3>1. k \notin stop => next[k] \in (k + 1) .. hi
        OBVIOUS
      <3> QED BY <2>1, <3>1
    <2> HIDE DEF v
    <2>3. h \in [k .. hi -> R]
      <3>1. \A q \in k .. hi : q = k \/ q \in (k + 1) .. hi
        OBVIOUS
      <3> QED BY <2>1, <2>2, <3>1
    <2>4. /\ h[k] = v /\ \A q \in (k + 1) .. hi : h[q] = f[q]
      OBVIOUS
    <2>5. ASSUME NEW q \in k .. hi PROVE Descends(h, q, stop, next, base, comb)
      <3>1. q \in lo .. hi
        OBVIOUS
      <3>2. q \notin stop => next[q] \in (k + 1) .. hi
        BY <3>1
      <3>3. q \notin stop => h[next[q]] = f[next[q]]
        BY <2>4, <3>2
      <3> HIDE DEF h
      <3>4. CASE q = k
        BY <2>4, <3>3, <3>4 DEF Descends, v
      <3>5. CASE q # k
        <4>1. q \in (k + 1) .. hi
          BY <3>5
        <4>2. f[q] = IF q \in stop THEN base[q] ELSE comb[q][f[next[q]]]
          BY <2>1, <4>1 DEF Descends
        <4>3. h[q] = f[q]
          BY <2>4, <4>1
        <4> QED BY <3>3, <4>2, <4>3, Zenon DEF Descends
      <3> QED BY <3>4, <3>5
    <2> HIDE DEF h
    <2> QED BY <2>3, <2>5
  <1>2. \E f : From(f, hi + 1)
    <2>1. [q \in (hi + 1) .. hi |-> base[q]] \in [(hi + 1) .. hi -> R]
      OBVIOUS
    <2>2. \A q \in (hi + 1) .. hi : FALSE
      OBVIOUS
    <2> QED BY <2>1, <2>2
  <1> HIDE DEF From
  <1>3. Without = {}
    <2> SUFFICES ASSUME Without # {} PROVE FALSE
      OBVIOUS
    <2>1. Without \in SUBSET Nat
      OBVIOUS
    <2>2. PICK n \in Without : \A m \in Without : n <= m
      <3> HIDE DEF Without
      <3> QED BY <2>1, LeastNumber
    <2>3. n \in 0 .. (hi + 1) /\ hi + 1 - n >= lo /\ ~\E f : From(f, hi + 1 - n)
      OBVIOUS
    <2>4. n # 0
      <3>1. hi + 1 - 0 = hi + 1
        OBVIOUS
      <3> QED BY <1>2, <2>3, <3>1
    <2>5. n - 1 \in 0 .. (hi + 1) /\ hi + 1 - (n - 1) >= lo /\ ~(n <= n - 1)
      BY <2>3, <2>4
    <2>6. PICK f : From(f, hi + 1 - (n - 1))
      BY <2>2, <2>5
    <2>7. hi + 1 - n \in lo .. hi /\ hi + 1 - (n - 1) = (hi + 1 - n) + 1
      BY <2>3, <2>4
    <2> QED BY <1>1, <2>3, <2>6, <2>7
  <1>4. CASE lo <= hi + 1
    <2>1. hi + 1 - lo \in 0 .. (hi + 1) /\ hi + 1 - (hi + 1 - lo) = lo
      BY <1>4
    <2> DEFINE n == hi + 1 - lo
    <2>3. n \in 0 .. (hi + 1) /\ hi + 1 - n = lo /\ hi + 1 - n >= lo
      BY <2>1
    <2> HIDE DEF n
    <2>4. \E f : From(f, hi + 1 - n)
      BY <1>3, <2>3
    <2>2. \E f : From(f, lo)
      BY <2>3, <2>4
    <2> QED BY <2>2 DEF From
  <1>5. CASE ~(lo <= hi + 1)
    <2>1. [q \in lo .. hi |-> base[q]] \in [lo .. hi -> R]
      BY <1>5
    <2>2. \A q \in lo .. hi : FALSE
      BY <1>5
    <2> QED BY <2>1, <2>2
  <1> QED BY <1>4, <1>5

-----------------------------------------------------------------------------
(* Strings within quotes.                                                  *)

\* What Quoted returns: a text and the place behind it.
Strings(A) == [value : Seq(A), pos : Nat]

\* The place of the symbol that the string has for the one at q.
Meant(text, q) == IF text[q] = Json!Backslash /\ q < Len(text) THEN q + 1 ELSE q

\* The string from q on, by the string from the next symbol on.
ReadsString(read, text, q) ==
  read[q] = IF q > Len(text) THEN [value |-> << >>, pos |-> q]
            ELSE IF text[q] = Json!Quote THEN [value |-> << >>, pos |-> q + 1]
            ELSE [value |-> <<text[Meant(text, q)]>> \o read[Meant(text, q) + 1].value,
                  pos   |-> read[Meant(text, q) + 1].pos]

\* A quoted string is read symbol by symbol.
LEMMA QuotedUnfolds ==
  ASSUME NEW A, NEW text \in Seq(A), NEW pos \in 1 .. (Len(text) + 1)
  PROVE  \E read \in [pos .. (Len(text) + 1) -> Strings(A)] :
           /\ Json!Quoted(text, pos) = read[pos]
           /\ \A q \in pos .. (Len(text) + 1) : ReadsString(read, text, q)
PROOF
  <1> DEFINE n == Len(text)
             hi == n + 1
             D == pos .. hi
             R == Strings(A)
             stop == {q \in D : q > n \/ text[q] = Json!Quote}
             next == [q \in D |-> Meant(text, q) + 1]
             base == [q \in D |-> IF q > n THEN [value |-> << >>, pos |-> q]
                                  ELSE [value |-> << >>, pos |-> q + 1]]
             comb == [q \in D |-> [r \in R |-> [value |-> <<text[Meant(text, q)]>> \o r.value, pos |-> r.pos]]]
             Body(read) ==
               [q \in pos .. (Len(text) + 1) |->
                  IF q > Len(text) THEN [value |-> << >>, pos |-> q]
                  ELSE IF text[q] = Json!Quote THEN [value |-> << >>, pos |-> q + 1]
                  ELSE LET last == IF text[q] = Json!Backslash /\ q < Len(text) THEN q + 1 ELSE q
                       IN  [value |-> <<text[last]>> \o read[last + 1].value,
                            pos   |-> read[last + 1].pos]]
             read == CHOOSE read : read = Body(read)
  <1>1. n \in Nat /\ pos \in Nat /\ hi \in Nat /\ \A k \in 1 .. n : text[k] \in A
    OBVIOUS
  <1>2. ASSUME NEW q \in D, q \notin stop
        PROVE  /\ q \in 1 .. n /\ Meant(text, q) \in q .. n /\ text[Meant(text, q)] \in A
               /\ next[q] = Meant(text, q) + 1 /\ next[q] \in (q + 1) .. hi
    <2>1. q \in 1 .. n
      BY <1>1, <1>2
    <2>2. Meant(text, q) \in q .. n
      BY <1>1, <2>1 DEF Meant
    <2>3. text[Meant(text, q)] \in A
      BY <1>1, <2>1, <2>2
    <2>4. next[q] = Meant(text, q) + 1
      OBVIOUS
    <2> QED BY <1>1, <2>1, <2>2, <2>3, <2>4
  <1>3. ASSUME NEW q \in D, q \in stop PROVE base[q] \in R
    <2>1. << >> \in Seq(A) /\ q \in Nat
      BY <1>1
    <2>2. base[q] = [value |-> << >>, pos |-> IF q > n THEN q ELSE q + 1]
      OBVIOUS
    <2>3. (IF q > n THEN q ELSE q + 1) \in Nat
      BY <1>1, <2>1
    <2> QED BY <2>1, <2>2, <2>3 DEF Strings
  <1>4. ASSUME NEW q \in D, q \notin stop, NEW r \in R
        PROVE  /\ comb[q][r] = [value |-> <<text[Meant(text, q)]>> \o r.value, pos |-> r.pos]
               /\ comb[q][r] \in R
    <2>1. comb[q][r] = [value |-> <<text[Meant(text, q)]>> \o r.value, pos |-> r.pos]
      BY Zenon
    <2>2. r.value \in Seq(A) /\ r.pos \in Nat
      BY DEF Strings
    <2>3. <<text[Meant(text, q)]>> \in Seq(A)
      BY <1>2, <1>4
    <2>4. <<text[Meant(text, q)]>> \o r.value \in Seq(A)
      BY <2>2, <2>3, ConcatProperties
    <2> HIDE DEF comb
    <2> QED BY <2>1, <2>2, <2>4 DEF Strings
  <1>5. PICK f \in [D -> R] : \A q \in D : Descends(f, q, stop, next, base, comb)
    <2> HIDE DEF stop, next, base, comb, R, hi, n
    <2> QED BY <1>1, <1>2, <1>3, <1>4, Descent
  <1>6. ASSUME NEW q \in D PROVE ReadsString(f, text, q) /\ f[q] = Body(f)[q]
    <2>1. CASE q \in stop
      <3>1. f[q] = base[q]
        BY <1>5, <2>1 DEF Descends
      <3> QED BY <2>1, <3>1 DEF ReadsString
    <2>2. CASE q \notin stop
      <3>1. f[q] = comb[q][f[next[q]]]
        BY <1>5, <2>2, Zenon DEF Descends
      <3>2. next[q] = Meant(text, q) + 1 /\ next[q] \in D /\ q \in 1 .. n
        BY <1>1, <1>2, <2>2
      <3>3. f[next[q]] \in R
        BY <3>2
      <3>4. f[q] = [value |-> <<text[Meant(text, q)]>> \o f[Meant(text, q) + 1].value,
                    pos |-> f[Meant(text, q) + 1].pos]
        <4> DEFINE r == f[next[q]]
        <4>1. r \in R
          BY <3>3
        <4> HIDE DEF comb, next, R, stop, r
        <4>2. comb[q][r] = [value |-> <<text[Meant(text, q)]>> \o r.value, pos |-> r.pos]
          BY <1>4, <2>2, <4>1
        <4>3. r = f[Meant(text, q) + 1]
          BY <3>2, Zenon DEF r
        <4>4. f[q] = comb[q][r]
          BY <3>1, Zenon DEF r
        <4> QED BY <4>2, <4>3, <4>4, Zenon
      <3>5. ~(q > Len(text)) /\ text[q] # Json!Quote
        BY <2>2, <3>2
      <3>6. Body(f)[q] = [value |-> <<text[Meant(text, q)]>> \o f[Meant(text, q) + 1].value,
                          pos |-> f[Meant(text, q) + 1].pos]
        BY <3>5, Zenon DEF Meant
      <3> HIDE DEF Body
      <3> QED BY <3>4, <3>5, <3>6, Zenon DEF ReadsString
    <2> QED BY <2>1, <2>2
  <1>7. f = Body(f)
    <2>1. f = [q \in D |-> f[q]] /\ Body(f) = [q \in D |-> Body(f)[q]]
      <3> HIDE DEF R
      <3> QED BY ZenonT(60)
    <2> HIDE DEF Body
    <2> QED BY <1>6, <2>1, Zenon
  <1>8. read = Body(read)
    <2> HIDE DEF Body
    <2> QED BY <1>7
  <1>9. Json!Quoted(text, pos) = read[pos]
    BY Zenon DEF Json!Quoted
  <1>10. ASSUME NEW q \in D, \A k \in D : q < k => read[k] = f[k] PROVE read[q] = f[q]
    <2>1. read[q] = Body(read)[q]
      <3> HIDE DEF read, Body
      <3> QED BY <1>8, Zenon
    <2>2. CASE q \in stop
      <3>1. Body(read)[q] = Body(f)[q]
        <4> HIDE DEF read
        <4> QED BY <2>2
      <3> HIDE DEF read, Body
      <3> QED BY <1>6, <2>1, <3>1
    <2>3. CASE q \notin stop
      <3>1. next[q] = Meant(text, q) + 1 /\ next[q] \in D /\ q < next[q] /\ q \in 1 .. n
        BY <1>1, <1>2, <2>3
      <3>2. read[Meant(text, q) + 1] = f[Meant(text, q) + 1]
        <4> HIDE DEF read, next
        <4> QED BY <1>10, <3>1
      <3>3. ~(q > Len(text)) /\ text[q] # Json!Quote
        BY <2>3, <3>1
      <3>4. Body(f)[q] = [value |-> <<text[Meant(text, q)]>> \o f[Meant(text, q) + 1].value,
                          pos |-> f[Meant(text, q) + 1].pos]
        BY <3>3, Zenon DEF Meant
      <3>5. Body(read)[q] = [value |-> <<text[Meant(text, q)]>> \o read[Meant(text, q) + 1].value,
                             pos |-> read[Meant(text, q) + 1].pos]
        <4> HIDE DEF read
        <4> QED BY <3>3, Zenon DEF Meant
      <3> HIDE DEF read, Body
      <3> QED BY <1>6, <2>1, <3>2, <3>4, <3>5, Zenon
    <2> QED BY <2>2, <2>3
  <1> HIDE DEF read, Body
  <1> DEFINE Same == {q \in D : read[q] = f[q]}
  <1>11. \A q \in D : (\A k \in D : q < k => k \in Same) => q \in Same
    BY <1>10
  <1>12. \A q \in D : read[q] = f[q]
    <2>1. \A q \in D : q \in Same
      <3> HIDE DEF Same, n, stop
      <3> QED BY <1>1, <1>11, Downwards
    <2> QED BY <2>1
  <1>13. pos \in D
    BY <1>1
  <1> HIDE DEF D, R
  <1> QED BY <1>5, <1>6, <1>9, <1>12, <1>13 DEF D, R

\* Where the reading of a string ends.
LEMMA QuotedEnds ==
  ASSUME NEW A, NEW text \in Seq(A), NEW pos \in 1 .. (Len(text) + 1)
  PROVE  /\ Json!Quoted(text, pos) \in Strings(A)
         /\ Json!Quoted(text, pos).pos \in pos .. (Len(text) + 1)
PROOF
  <1> DEFINE n == Len(text)
             D == pos .. (n + 1)
  <1>1. PICK read \in [D -> Strings(A)] :
           Json!Quoted(text, pos) = read[pos] /\ \A q \in D : ReadsString(read, text, q)
    BY QuotedUnfolds
  <1>2. n \in Nat /\ pos \in Nat /\ n + 1 \in Nat /\ pos \in D
    OBVIOUS
  <1> DEFINE S == {q \in D : read[q].pos \in q .. (n + 1)}
  <1>3. ASSUME NEW q \in D, \A k \in D : q < k => k \in S PROVE q \in S
    <2>1. CASE q > n \/ text[q] = Json!Quote
      <3>1. q = n + 1 \/ q \in 1 .. n
        BY <1>2
      <3>2. read[q] = IF q > n THEN [value |-> << >>, pos |-> q] ELSE [value |-> << >>, pos |-> q + 1]
        BY <1>1, <2>1, Zenon DEF ReadsString
      <3>3. read[q].pos = IF q > n THEN q ELSE q + 1
        BY <3>2
      <3> HIDE DEF D
      <3> QED BY <1>2, <3>1, <3>3
    <2>2. CASE ~(q > n \/ text[q] = Json!Quote)
      <3> DEFINE k == Meant(text, q) + 1
      <3>1. k \in D /\ q < k
        BY <1>2, <2>2 DEF Meant
      <3>2. read[q].pos = read[k].pos
        <4>1. read[q] = [value |-> <<text[Meant(text, q)]>> \o read[k].value, pos |-> read[k].pos]
          BY <1>1, <2>2, Zenon DEF ReadsString
        <4> QED BY <4>1
      <3> HIDE DEF k
      <3>3. read[k].pos \in k .. (n + 1)
        BY <1>3, <3>1
      <3> QED BY <1>2, <3>1, <3>2, <3>3
    <2> QED BY <2>1, <2>2
  <1>4. pos \in S
    <2>1. \A q \in pos .. (n + 1) : q \in S
      <3> HIDE DEF S
      <3> QED BY <1>2, <1>3, Downwards
    <2> QED BY <1>2, <2>1
  <1> QED BY <1>1, <1>2, <1>4

\* The key with its quotes and colon stands at p.
KeyAt(text, key, p) ==
  /\ p \in Nat \ {0} /\ p + 3 <= Len(text)
  /\ text[p] = Json!Quote /\ text[p + 1] = key /\ text[p + 2] = Json!Quote /\ text[p + 3] = Json!Colon

\* extract_string_field, by the first place of the key.
LEMMA FieldFound ==
  ASSUME NEW A, NEW text \in Seq(A), NEW key, NEW pos \in Nat \ {0}
  PROVE  /\ (\A p \in Nat : pos <= p => ~KeyAt(text, key, p)) =>
              Json!Field(text, key, pos) = [value |-> << >>, pos |-> Len(text) + 1]
         /\ \A p \in Nat :
              pos <= p /\ KeyAt(text, key, p) /\ (\A q \in Nat : pos <= q /\ KeyAt(text, key, q) => p <= q) =>
                Json!Field(text, key, pos) =
                  IF p + 4 > Len(text) THEN [value |-> << >>, pos |-> Len(text) + 1]
                  ELSE IF text[p + 4] # Json!Quote THEN [value |-> << >>, pos |-> p + 4]
                  ELSE Json!Quoted(text, p + 5)
PROOF
  <1> DEFINE n == Len(text)
             needle == <<Json!Quote, key, Json!Quote, Json!Colon>>
             found == {p \in pos .. (n - 3) : SubSeq(text, p, p + 3) = needle}
             value == Min(found) + 4
  <1>1. n \in Nat /\ DOMAIN text = 1 .. n
    OBVIOUS
  <1>2. ASSUME NEW p \in Nat PROVE p \in found <=> pos <= p /\ KeyAt(text, key, p)
    <2>1. p \in pos .. (n - 3) <=> pos <= p /\ p \in Nat \ {0} /\ p + 3 <= n
      BY <1>1
    <2>2. ASSUME p \in pos .. (n - 3)
          PROVE  SubSeq(text, p, p + 3) = needle <=>
                   /\ text[p] = Json!Quote /\ text[p + 1] = key
                   /\ text[p + 2] = Json!Quote /\ text[p + 3] = Json!Colon
      <3>1. p \in 1 .. n /\ p + 3 \in 1 .. n /\ (p + 3) - p + 1 = 4
        BY <1>1, <2>2
      <3>2. SubSeq(text, p, p + 3) = [k \in 1 .. 4 |-> text[p + k - 1]]
        BY <1>1, <3>1
      <3>3. needle = [k \in 1 .. 4 |-> needle[k]]
        OBVIOUS
      <3>4. SubSeq(text, p, p + 3) = needle <=> \A k \in 1 .. 4 : text[p + k - 1] = needle[k]
        <4> HIDE DEF needle
        <4> QED BY <3>2, <3>3
      <3>5. 1 .. 4 = {1, 2, 3, 4}
        OBVIOUS
      <3>6. p + 1 - 1 = p /\ p + 2 - 1 = p + 1 /\ p + 3 - 1 = p + 2 /\ p + 4 - 1 = p + 3
        OBVIOUS
      <3>7. needle[1] = Json!Quote /\ needle[2] = key /\ needle[3] = Json!Quote /\ needle[4] = Json!Colon
        OBVIOUS
      <3> HIDE DEF needle
      <3> QED BY <3>4, <3>5, <3>6, <3>7
    <2> QED BY <2>1, <2>2 DEF KeyAt
  <1>3. found \in SUBSET Nat
    BY <1>1
  <1>4. Json!Min(found) = Min(found)
    BY Zenon DEF Json!Min, Min
  <1>5. Json!Field(text, key, pos) =
          IF found = {} \/ value \notin DOMAIN text THEN [value |-> << >>, pos |-> n + 1]
          ELSE IF text[value] # Json!Quote THEN [value |-> << >>, pos |-> value]
          ELSE Json!Quoted(text, value + 1)
    BY <1>4, Zenon DEF Json!Field
  <1> HIDE DEF found
  <1>6. ASSUME \A p \in Nat : pos <= p => ~KeyAt(text, key, p)
        PROVE  Json!Field(text, key, pos) = [value |-> << >>, pos |-> n + 1]
    <2>1. found = {}
      BY <1>2, <1>3, <1>6
    <2> QED BY <1>5, <2>1, Zenon
  <1>7. ASSUME NEW p \in Nat, pos <= p, KeyAt(text, key, p),
               \A q \in Nat : pos <= q /\ KeyAt(text, key, q) => p <= q
        PROVE  Json!Field(text, key, pos) =
                  IF p + 4 > Len(text) THEN [value |-> << >>, pos |-> Len(text) + 1]
                  ELSE IF text[p + 4] # Json!Quote THEN [value |-> << >>, pos |-> p + 4]
                  ELSE Json!Quoted(text, p + 5)
    <2>1. p \in found
      BY <1>2, <1>7
    <2>2. \A q \in found : p <= q
      BY <1>2, <1>3, <1>7
    <2>3. Min(found) = p
      BY <1>3, <2>1, <2>2, MinIs
    <2>4. value = p + 4 /\ value + 1 = p + 5 /\ found # {}
      BY <2>1, <2>3
    <2>5. p + 4 \notin DOMAIN text <=> p + 4 > Len(text)
      BY <1>1
    <2> HIDE DEF value
    <2> QED BY <1>5, <2>4, <2>5, Zenon
  <1> QED BY <1>6, <1>7

-----------------------------------------------------------------------------
(* Names as they are escaped, and read back.                               *)

\* What is escaped.
Special(x) == x \in {Json!Quote, Json!Backslash}

\* The symbols of a name stand in the escaped one at the marks m.
Marked(m, name, e) ==
  /\ m \in [0 .. Len(name) -> Nat] /\ m[0] = 0 /\ m[Len(name)] = Len(e)
  /\ \A n \in 0 .. (Len(name) - 1) :
       /\ m[n + 1] = m[n] + (IF Special(name[n + 1]) THEN 2 ELSE 1) /\ m[n + 1] <= Len(e)
       /\ IF Special(name[n + 1])
          THEN e[m[n] + 1] = Json!Backslash /\ e[m[n] + 2] = name[n + 1]
          ELSE e[m[n] + 1] = name[n + 1]

\* A quote stands behind a backslash.
QuotesEscaped(e) ==
  \A j \in 1 .. Len(e) : e[j] = Json!Quote => j >= 2 /\ e[j - 1] = Json!Backslash

\* The symbols of a name can be found in the escaped one.
LEMMA EscapedMarked ==
  ASSUME NEW A, NEW name \in Seq(A), Json!Backslash \in A
  PROVE  /\ Json!Escaped(name) \in Seq(A) /\ QuotesEscaped(Json!Escaped(name))
         /\ \E m : Marked(m, name, Json!Escaped(name))
PROOF
  <1> DEFINE N == Len(name)
             p == [k \in DOMAIN name |->
                     IF name[k] \in {Json!Quote, Json!Backslash} THEN <<Json!Backslash, name[k]>>
                     ELSE <<name[k]>>]
             e == Json!Escaped(name)
  <1>1. N \in Nat /\ DOMAIN name = 1 .. N /\ \A k \in 1 .. N : name[k] \in A
    OBVIOUS
  <1>2. \A k \in 1 .. N : p[k] = IF Special(name[k]) THEN <<Json!Backslash, name[k]>> ELSE <<name[k]>>
    BY <1>1 DEF Special
  <1>3. \A k \in 1 .. N : p[k] \in Seq(A)
    BY <1>1, <1>2
  <1>4. \A s : Json!FlattenSeq(s) = FlattenSeq(s)
    BY Zenon DEF Json!FlattenSeq, FlattenSeq
  <1>5. e = FlattenSeq(p)
    BY <1>4, Zenon DEF Json!Escaped
  <1>6. [k \in 1 .. N |-> p[k]] = p
    BY <1>1
  <1>7. FirstLaid(p, N) = e
    BY <1>5, <1>6, Zenon DEF FirstLaid
  <1> HIDE DEF p, e
  <1>8. PICK g : LaidInSteps(g, A, N, p)
    BY <1>1, <1>3, FlattenSteps
  <1>9. /\ g[0] = << >> /\ \A n \in 1 .. N : g[n] = g[n - 1] \o p[n]
        /\ \A n \in 0 .. N : g[n] \in Seq(A)
        /\ g[N] = e
    <2>1. N \in 0 .. N
      BY <1>1
    <2> QED BY <1>7, <1>8, <2>1, Zenon DEF LaidInSteps
  <1> DEFINE m == [n \in 0 .. N |-> Len(g[n])]
  <1>10. e \in Seq(A) /\ m \in [0 .. N -> Nat] /\ m[0] = 0 /\ m[N] = Len(e)
    BY <1>1, <1>9
  <1>11. ASSUME NEW n \in 1 .. N
         PROVE  /\ m[n] = m[n - 1] + Len(p[n]) /\ n - 1 \in 0 .. N
                /\ \A j \in 1 .. m[n - 1] : g[n][j] = g[n - 1][j]
                /\ \A j \in 1 .. Len(p[n]) : g[n][m[n - 1] + j] = p[n][j]
    <2>1. n - 1 \in 0 .. N /\ n \in 0 .. N
      BY <1>1
    <2> DEFINE x == g[n - 1]
               y == p[n]
    <2>2. x \in Seq(A) /\ y \in Seq(A) /\ g[n] = x \o y /\ m[n - 1] = Len(x) /\ m[n] = Len(g[n])
      BY <1>3, <1>9, <2>1
    <2> HIDE DEF x, y, m
    <2>3. Len(x) \in Nat /\ Len(y) \in Nat
      BY <2>2
    <2>4. /\ Len(x \o y) = Len(x) + Len(y)
          /\ \A j \in 1 .. (Len(x) + Len(y)) : (x \o y)[j] = IF j <= Len(x) THEN x[j] ELSE y[j - Len(x)]
      BY <2>2, ConcatProperties
    <2>5. \A j \in 1 .. Len(x) : (x \o y)[j] = x[j]
      BY <2>3, <2>4
    <2>6. ASSUME NEW j \in 1 .. Len(y) PROVE (x \o y)[Len(x) + j] = y[j]
      <3>1. Len(x) + j \in 1 .. (Len(x) + Len(y)) /\ ~(Len(x) + j <= Len(x)) /\ Len(x) + j - Len(x) = j
        BY <2>3
      <3> QED BY <2>4, <3>1
    <2> QED BY <2>1, <2>2, <2>4, <2>5, <2>6 DEF x, y
  <1> DEFINE Agrees(n) == m[n] <= m[N] /\ \A j \in 1 .. m[n] : g[n][j] = e[j]
             S == {n \in 0 .. N : Agrees(n)}
  <1>12. \A n \in 0 .. N : Agrees(n)
    <2>1. ASSUME NEW n \in 0 .. N, \A k \in 0 .. N : n < k => k \in S PROVE n \in S
      <3>1. CASE n = N
        BY <1>9, <1>10, <3>1
      <3>2. CASE n # N
        <4> HIDE DEF m, S, N
        <4>1. n + 1 \in 1 .. N /\ n + 1 \in 0 .. N /\ n < n + 1 /\ (n + 1) - 1 = n
          BY <1>1, <3>2
        <4>2. Agrees(n + 1)
          BY <2>1, <4>1 DEF S
        <4>3. m[n + 1] = m[n] + Len(p[n + 1]) /\ \A j \in 1 .. m[n] : g[n + 1][j] = g[n][j]
          BY <1>11, <4>1
        <4>4. Len(p[n + 1]) \in Nat /\ m[n] \in Nat /\ m[n + 1] \in Nat /\ m[N] \in Nat
          BY <1>1, <1>3, <1>10, <4>1
        <4>5. m[n] <= m[n + 1]
          BY <4>3, <4>4
        <4>6. Agrees(n)
          BY <4>2, <4>3, <4>4, <4>5
        <4> QED BY <4>6 DEF S
      <3> QED BY <3>1, <3>2
    <2>2. \A n \in 0 .. N : n \in S
      <3> HIDE DEF S
      <3>1. 0 \in Nat
        OBVIOUS
      <3> QED BY <1>1, <2>1, <3>1, Downwards
    <2> QED BY <2>2
  <1> HIDE DEF m
  <1>13. ASSUME NEW n \in 1 .. N
         PROVE  /\ n - 1 \in 0 .. N /\ m[n - 1] \in Nat
                /\ m[n] = m[n - 1] + (IF Special(name[n]) THEN 2 ELSE 1) /\ m[n] <= Len(e)
                /\ IF Special(name[n])
                   THEN e[m[n - 1] + 1] = Json!Backslash /\ e[m[n - 1] + 2] = name[n]
                   ELSE e[m[n - 1] + 1] = name[n]
    <2>1. /\ m[n] = m[n - 1] + Len(p[n]) /\ n - 1 \in 0 .. N /\ n \in 0 .. N
          /\ \A j \in 1 .. Len(p[n]) : g[n][m[n - 1] + j] = p[n][j]
      BY <1>1, <1>11
    <2>2. m[n - 1] \in Nat /\ m[n] \in Nat /\ m[N] = Len(e)
      BY <1>10, <2>1
    <2>3. m[n] <= Len(e) /\ \A j \in 1 .. m[n] : g[n][j] = e[j]
      BY <1>12, <2>1, <2>2
    <2>4. CASE Special(name[n])
      <3>1. p[n] = <<Json!Backslash, name[n]>>
        BY <1>2, <2>4
      <3>2. Len(p[n]) = 2 /\ p[n][1] = Json!Backslash /\ p[n][2] = name[n]
        BY <3>1
      <3>3. 1 \in 1 .. Len(p[n]) /\ 2 \in 1 .. Len(p[n]) /\ m[n] = m[n - 1] + 2
            /\ m[n - 1] + 1 \in 1 .. m[n] /\ m[n - 1] + 2 \in 1 .. m[n]
        BY <2>1, <2>2, <3>2, SMTT(30)
      <3>4. e[m[n - 1] + 1] = p[n][1] /\ e[m[n - 1] + 2] = p[n][2]
        BY <2>1, <2>3, <3>3
      <3> QED BY <2>1, <2>2, <2>3, <2>4, <3>2, <3>3, <3>4
    <2>5. CASE ~Special(name[n])
      <3>1. p[n] = <<name[n]>>
        BY <1>2, <2>5
      <3>2. Len(p[n]) = 1 /\ p[n][1] = name[n]
        BY <3>1
      <3>3. 1 \in 1 .. Len(p[n]) /\ m[n] = m[n - 1] + 1 /\ m[n - 1] + 1 \in 1 .. m[n]
        BY <2>1, <2>2, <3>2
      <3>4. e[m[n - 1] + 1] = p[n][1]
        BY <2>1, <2>3, <3>3
      <3> QED BY <2>1, <2>2, <2>3, <2>5, <3>2, <3>3, <3>4
    <2> QED BY <2>4, <2>5
  <1>14. Marked(m, name, e)
    <2>1. ASSUME NEW n \in 0 .. (N - 1)
          PROVE  /\ m[n + 1] = m[n] + (IF Special(name[n + 1]) THEN 2 ELSE 1) /\ m[n + 1] <= Len(e)
                 /\ IF Special(name[n + 1])
                    THEN e[m[n] + 1] = Json!Backslash /\ e[m[n] + 2] = name[n + 1]
                    ELSE e[m[n] + 1] = name[n + 1]
      <3>1. n + 1 \in 1 .. N /\ (n + 1) - 1 = n
        BY <1>1
      <3> DEFINE k == n + 1
      <3>2. k \in 1 .. N /\ k - 1 = n
        BY <3>1
      <3> HIDE DEF k
      <3>3. /\ m[k] = m[n] + (IF Special(name[k]) THEN 2 ELSE 1) /\ m[k] <= Len(e)
            /\ IF Special(name[k])
               THEN e[m[n] + 1] = Json!Backslash /\ e[m[n] + 2] = name[k]
               ELSE e[m[n] + 1] = name[k]
        BY <1>13, <3>2, Zenon
      <3> QED BY <3>3 DEF k
    <2> HIDE DEF N
    <2>2. m \in [0 .. N -> Nat] /\ m[0] = 0 /\ m[N] = Len(e)
      BY <1>10 DEF m
    <2> QED BY <2>1, <2>2, Zenon DEF Marked, N
  <1>15. QuotesEscaped(e)
    <2> SUFFICES ASSUME NEW j \in 1 .. Len(e), e[j] = Json!Quote
                 PROVE  j >= 2 /\ e[j - 1] = Json!Backslash
      BY DEF QuotesEscaped
    <2> DEFINE Reached == {n \in 0 .. N : j <= m[n]}
    <2>1. N \in Reached /\ Reached \in SUBSET Nat
      BY <1>1, <1>10
    <2>2. PICK n \in Reached : \A k \in Reached : n <= k
      <3> HIDE DEF Reached
      <3> QED BY <2>1, LeastNumber
    <2>3. n # 0
      BY <1>10
    <2>4. n \in 1 .. N /\ n - 1 \in 0 .. N /\ n - 1 \notin Reached
      BY <1>1, <2>2, <2>3
    <2>5. m[n - 1] \in Nat /\ m[n - 1] < j /\ j <= m[n]
      BY <1>10, <2>4
    <2>6. /\ m[n] = m[n - 1] + (IF Special(name[n]) THEN 2 ELSE 1)
          /\ IF Special(name[n])
             THEN e[m[n - 1] + 1] = Json!Backslash /\ e[m[n - 1] + 2] = name[n]
             ELSE e[m[n - 1] + 1] = name[n]
      BY <1>13, <2>4
    <2> HIDE DEF Reached
    <2>7. Json!Quote # Json!Backslash
      BY DEF Json!Quote, Json!Backslash
    <2>8. CASE j = m[n - 1] + 1
      BY <2>6, <2>7, <2>8 DEF Special
    <2>9. CASE j # m[n - 1] + 1
      <3>1. Special(name[n]) /\ j = m[n - 1] + 2 /\ j - 1 = m[n - 1] + 1
        BY <2>5, <2>6, <2>9
      <3> QED BY <2>5, <2>6, <3>1
    <2> QED BY <2>8, <2>9
  <1> QED BY <1>10, <1>14, <1>15 DEF e

\* A text x stands in t from the place a on, as far as t goes: its last word
\* may be cut.
Stands(t, a, x) ==
  \A j \in 1 .. Len(x) :
    a + j - 1 <= Len(t) => t[a + j - 1] = x[j] \/ (a + j - 1 = Len(t) /\ t[a + j - 1] = Json!Stub)

\* An escaped name with its closing quote is read back.
LEMMA NameReadBack ==
  ASSUME NEW A, NEW name \in Seq(A), Json!Backslash \in A,
         NEW t \in Seq(A), NEW a \in Nat \ {0}, Stands(t, a, Json!Escaped(name)),
         a + Len(Json!Escaped(name)) <= Len(t), t[a + Len(Json!Escaped(name))] = Json!Quote
  PROVE  Json!Quoted(t, a) = [value |-> name, pos |-> a + Len(Json!Escaped(name)) + 1]
PROOF
  <1> DEFINE N == Len(name)
             e == Json!Escaped(name)
             L == Len(e)
             Read(n) == [value |-> SubSeq(name, n + 1, N), pos |-> a + L + 1]
  <1>1. e \in Seq(A) /\ \E m : Marked(m, name, e)
    BY EscapedMarked
  <1> HIDE DEF e
  <1>2. N \in Nat /\ L \in Nat /\ Len(t) \in Nat /\ a \in 1 .. (Len(t) + 1) /\ a + L <= Len(t)
    BY <1>1 DEF e
  <1>3. PICK m : Marked(m, name, e)
    BY <1>1
  <1>4. PICK read \in [a .. (Len(t) + 1) -> Strings(A)] :
           /\ Json!Quoted(t, a) = read[a]
           /\ \A q \in a .. (Len(t) + 1) : ReadsString(read, t, q)
    BY <1>2, QuotedUnfolds
  <1>5. /\ m \in [0 .. N -> Nat] /\ m[0] = 0 /\ m[N] = L
        /\ \A n \in 0 .. (N - 1) :
             /\ m[n + 1] = m[n] + (IF Special(name[n + 1]) THEN 2 ELSE 1) /\ m[n + 1] <= L
             /\ IF Special(name[n + 1])
                THEN e[m[n] + 1] = Json!Backslash /\ e[m[n] + 2] = name[n + 1]
                ELSE e[m[n] + 1] = name[n + 1]
    BY <1>3, Zenon DEF Marked
  <1>6. \A j \in 1 .. L : t[a + j - 1] = e[j]
    BY <1>2 DEF Stands, e
  <1>7. t[a + L] = Json!Quote
    BY DEF e
  <1> HIDE DEF L, N
  <1> DEFINE S == {n \in 0 .. N : read[a + m[n]] = Read(n)}
  <1>8. ASSUME NEW n \in 0 .. N, \A k \in 0 .. N : n < k => k \in S PROVE n \in S
    <2>1. CASE n = N
      <3> DEFINE q == a + m[n]
      <3>1. q \in a .. (Len(t) + 1) /\ ~(q > Len(t)) /\ t[q] = Json!Quote /\ q + 1 = a + L + 1
        BY <1>2, <1>5, <1>7, <2>1
      <3>2. read[q] = [value |-> << >>, pos |-> q + 1]
        BY <1>4, <3>1, Zenon DEF ReadsString
      <3>3. SubSeq(name, n + 1, N) = << >>
        BY <1>2, <2>1, SubSeqEmpty
      <3> QED BY <3>1, <3>2, <3>3
    <2>2. CASE n # N
      <3> DEFINE u == m[n]
                 v == m[n + 1]
                 x == name[n + 1]
                 r == read[a + v]
                 q == a + u
      <3>1. n \in 0 .. (N - 1) /\ n + 1 \in 1 .. N /\ n + 1 \in 0 .. N /\ n < n + 1
        BY <1>2, <2>2
      <3>2. /\ u \in Nat /\ v \in Nat
            /\ v = u + (IF Special(x) THEN 2 ELSE 1) /\ v <= L
            /\ IF Special(x) THEN e[u + 1] = Json!Backslash /\ e[u + 2] = x
               ELSE e[u + 1] = x
        BY <1>5, <3>1
      <3>3. r = Read(n + 1)
        BY <1>8, <3>1
      <3> HIDE DEF u, v, x, r
      <3>4. q \in a .. (Len(t) + 1) /\ q \in 1 .. Len(t) /\ u + 1 \in 1 .. L /\ a + (u + 1) - 1 = q
        BY <1>2, <3>2
      <3>5. t[q] = e[u + 1]
        BY <1>6, <3>4
      <3>6. Json!Quote # Json!Backslash
        BY DEF Json!Quote, Json!Backslash
      <3>7. t[q] # Json!Quote /\ Meant(t, q) + 1 = a + v /\ t[Meant(t, q)] = x
        <4>1. CASE Special(x)
          <5>1. u + 2 \in 1 .. L /\ a + (u + 2) - 1 = q + 1 /\ q < Len(t) /\ q + 1 + 1 = a + v
            BY <1>2, <3>2, <4>1
          <5>2. t[q + 1] = x
            BY <1>6, <3>2, <4>1, <5>1
          <5>3. t[q] = Json!Backslash
            BY <3>2, <3>5, <4>1
          <5> QED BY <3>6, <5>1, <5>2, <5>3 DEF Meant
        <4>2. CASE ~Special(x)
          <5>1. t[q] = x /\ t[q] # Json!Backslash /\ t[q] # Json!Quote
            BY <3>2, <3>5, <4>2 DEF Special
          <5>2. q + 1 = a + v
            BY <1>2, <3>2, <4>2
          <5>3. Meant(t, q) = q
            BY <5>1 DEF Meant
          <5> QED BY <5>1, <5>2, <5>3
        <4> QED BY <4>1, <4>2
      <3> HIDE DEF q
      <3>8. ~(q > Len(t)) /\ ReadsString(read, t, q)
        BY <1>2, <1>4, <3>4
      <3>9. read[q] = [value |-> <<x>> \o r.value, pos |-> r.pos]
        BY <3>7, <3>8, Zenon DEF ReadsString, r
      <3>10. r.value = SubSeq(name, n + 1 + 1, N) /\ r.pos = a + L + 1
        BY <3>3
      <3>11. SubSeq(name, n + 1, N) = <<x>> \o SubSeq(name, n + 1 + 1, N)
        BY <1>2, <3>1, SubSeqRecursiveFirst DEF x, N
      <3>12. read[q] = Read(n)
        BY <3>9, <3>10, <3>11
      <3> QED BY <3>12 DEF q, u
    <2> QED BY <2>1, <2>2
  <1>9. 0 \in S
    <2>1. \A n \in 0 .. N : n \in S
      <3> HIDE DEF S
      <3>1. 0 \in Nat
        OBVIOUS
      <3> QED BY <1>2, <1>8, <3>1, Downwards
    <2>2. 0 \in 0 .. N
      BY <1>2
    <2> QED BY <2>1, <2>2
  <1>10. SubSeq(name, 0 + 1, N) = name
    BY SubSeqFull DEF N
  <1>11. a + m[0] = a
    BY <1>2, <1>5
  <1> QED BY <1>4, <1>9, <1>10, <1>11 DEF L, e

\* Of a name whose closing quote is missing, everything is read.
LEMMA NameCutOff ==
  ASSUME NEW A, NEW name \in Seq(A), Json!Backslash \in A,
         NEW t \in Seq(A), NEW a \in 1 .. (Len(t) + 1), Stands(t, a, Json!Escaped(name)),
         a + Len(Json!Escaped(name)) > Len(t)
  PROVE  Json!Quoted(t, a).pos = Len(t) + 1
PROOF
  <1> DEFINE N == Len(name)
             e == Json!Escaped(name)
             L == Len(e)
             hi == Len(t) + 1
  <1>1. e \in Seq(A) /\ \E m : Marked(m, name, e)
    BY EscapedMarked
  <1> HIDE DEF e
  <1>2. N \in Nat /\ L \in Nat /\ Len(t) \in Nat /\ a \in Nat \ {0} /\ hi \in Nat /\ a + L >= hi
    BY <1>1 DEF e
  <1>3. PICK m : Marked(m, name, e)
    BY <1>1
  <1>4. PICK read \in [a .. hi -> Strings(A)] :
           /\ Json!Quoted(t, a) = read[a]
           /\ \A q \in a .. hi : ReadsString(read, t, q)
    BY QuotedUnfolds
  <1>5. /\ m \in [0 .. N -> Nat] /\ m[0] = 0 /\ m[N] = L
        /\ \A n \in 0 .. (N - 1) :
             /\ m[n + 1] = m[n] + (IF Special(name[n + 1]) THEN 2 ELSE 1) /\ m[n + 1] <= L
             /\ IF Special(name[n + 1])
                THEN e[m[n] + 1] = Json!Backslash /\ e[m[n] + 2] = name[n + 1]
                ELSE e[m[n] + 1] = name[n + 1]
    BY <1>3, Zenon DEF Marked
  <1>6. \A j \in 1 .. L : a + j - 1 <= Len(t) =>
          t[a + j - 1] = e[j] \/ (a + j - 1 = Len(t) /\ t[a + j - 1] = Json!Stub)
    BY DEF Stands, e
  <1> HIDE DEF L, N
  <1>7. read[hi].pos = hi
    <2>1. hi \in a .. hi /\ hi > Len(t)
      BY <1>2
    <2>2. read[hi] = [value |-> << >>, pos |-> hi]
      BY <1>4, <2>1, Zenon DEF ReadsString
    <2> QED BY <2>2
  <1> DEFINE S == {n \in 0 .. N : a + m[n] <= hi => read[a + m[n]].pos = hi}
  <1>8. ASSUME NEW n \in 0 .. N, \A k \in 0 .. N : n < k => k \in S PROVE n \in S
    <2> DEFINE u == m[n]
               q == a + u
    <2>0. u \in Nat
      BY <1>5
    <2> SUFFICES ASSUME q <= hi PROVE read[q].pos = hi
      OBVIOUS
    <2> HIDE DEF S
    <2>1. CASE q = hi
      BY <1>7, <2>1
    <2>2. CASE q # hi
      <3>1. q \in a .. hi /\ q \in 1 .. Len(t) /\ ~(q > Len(t))
        <4>1. q \in Int /\ a <= q /\ q <= hi /\ q # hi
          <5> HIDE DEF u, hi
          <5> QED BY <1>2, <2>0, <2>2
        <4> HIDE DEF q
        <4> QED BY <1>2, <4>1
      <3>2. n # N
        <4>1. u # L
          BY <1>2, <2>0, <3>1
        <4> QED BY <1>5, <4>1
      <3>3. n \in 0 .. (N - 1) /\ n + 1 \in 1 .. N /\ n + 1 \in 0 .. N /\ n < n + 1
        BY <1>2, <3>2
      <3> DEFINE v == m[n + 1]
                 x == name[n + 1]
                 k == Meant(t, q) + 1
      <3>4. /\ v \in Nat
            /\ v = u + (IF Special(x) THEN 2 ELSE 1) /\ v <= L
            /\ IF Special(x) THEN e[u + 1] = Json!Backslash ELSE e[u + 1] = x
        BY <1>5, <3>3
      <3> HIDE DEF u, v, x
      <3>5. u + 1 \in 1 .. L /\ a + (u + 1) - 1 = q
        BY <1>2, <2>0, <3>4
      <3>6. t[q] = e[u + 1] \/ (q = Len(t) /\ t[q] = Json!Stub)
        BY <1>6, <3>1, <3>5
      <3>7. /\ Json!Quote # Json!Backslash /\ Json!Stub # Json!Quote /\ Json!Stub # Json!Backslash
        BY DEF Json!Quote, Json!Backslash, Json!Stub
      <3>8. t[q] # Json!Quote
        BY <3>4, <3>6, <3>7 DEF Special
      <3>9. k = hi \/ (k = a + v /\ k <= hi)
        <4>1. CASE q = Len(t)
          <5>1. Meant(t, q) = q
            BY <1>2, <4>1 DEF Meant
          <5> QED BY <4>1, <5>1
        <4>2. CASE q # Len(t)
          <5>1. q < Len(t) /\ t[q] = e[u + 1]
            BY <1>2, <3>1, <3>6, <4>2
          <5>2. CASE Special(x)
            <6>1. Meant(t, q) = q + 1
              BY <3>4, <5>1, <5>2 DEF Meant
            <6> QED BY <1>2, <2>0, <3>4, <5>1, <5>2, <6>1
          <5>3. CASE ~Special(x)
            <6>1. t[q] # Json!Backslash
              BY <3>4, <5>1, <5>3 DEF Special
            <6>2. Meant(t, q) = q
              BY <6>1 DEF Meant
            <6> QED BY <1>2, <2>0, <3>4, <5>1, <5>3, <6>2
          <5> QED BY <5>2, <5>3
        <4> QED BY <4>1, <4>2
      <3> HIDE DEF q, k
      <3>10. read[k].pos = hi
        <4>1. CASE k = hi
          BY <1>7, <4>1
        <4>2. CASE k = a + v /\ k <= hi
          BY <1>8, <3>3, <4>2 DEF S, v
        <4> QED BY <3>9, <4>1, <4>2
      <3>11. read[q] = [value |-> <<t[Meant(t, q)]>> \o read[k].value, pos |-> read[k].pos]
        BY <1>4, <3>1, <3>8, Zenon DEF ReadsString, k
      <3> QED BY <3>10, <3>11
    <2> QED BY <2>1, <2>2
  <1>9. 0 \in S
    <2>1. \A n \in 0 .. N : n \in S
      <3> HIDE DEF S
      <3>1. 0 \in Nat
        OBVIOUS
      <3> QED BY <1>2, <1>8, <3>1, Downwards
    <2>2. 0 \in 0 .. N
      BY <1>2
    <2> QED BY <2>1, <2>2
  <1>10. a + m[0] = a /\ a <= hi
    BY <1>2, <1>5
  <1> QED BY <1>4, <1>9, <1>10

-----------------------------------------------------------------------------
(* Fields and columns.                                                     *)

\* What a field is when its key is found first at p.
FieldAt(text, p) ==
  IF p + 4 > Len(text) THEN [value |-> << >>, pos |-> Len(text) + 1]
  ELSE IF text[p + 4] # Json!Quote THEN [value |-> << >>, pos |-> p + 4]
  ELSE Json!Quoted(text, p + 5)

\* The key stands at p, and from pos on not before p.
FirstKey(text, key, pos, p) ==
  /\ p \in Nat /\ pos <= p /\ KeyAt(text, key, p)
  /\ \A q \in Nat : pos <= q /\ KeyAt(text, key, q) => p <= q

\* A field has its key, or nothing of it is found.
LEMMA FieldCases ==
  ASSUME NEW A, NEW text \in Seq(A), NEW key, NEW pos \in Nat \ {0}
  PROVE  \/ /\ \A p \in Nat : pos <= p => ~KeyAt(text, key, p)
            /\ Json!Field(text, key, pos) = [value |-> << >>, pos |-> Len(text) + 1]
         \/ \E p \in Nat : FirstKey(text, key, pos, p) /\ Json!Field(text, key, pos) = FieldAt(text, p)
PROOF
  <1> DEFINE S == {p \in Nat : pos <= p /\ KeyAt(text, key, p)}
  <1>1. CASE S = {}
    <2>1. \A p \in Nat : pos <= p => ~KeyAt(text, key, p)
      BY <1>1
    <2> QED BY <2>1, FieldFound
  <1>2. CASE S # {}
    <2>1. S \in SUBSET Nat
      OBVIOUS
    <2>2. PICK p \in S : \A q \in S : p <= q
      <3> HIDE DEF S
      <3> QED BY <1>2, <2>1, LeastNumber
    <2>3. p \in Nat /\ FirstKey(text, key, pos, p)
      BY <2>2 DEF FirstKey
    <2>4. Json!Field(text, key, pos) = FieldAt(text, p)
      BY <2>3, FieldFound, Zenon DEF FirstKey, FieldAt
    <2> QED BY <2>3, <2>4
  <1> QED BY <1>1, <1>2

\* A field ends behind its beginning, if it has a value.
LEMMA FieldEnds ==
  ASSUME NEW A, NEW text \in Seq(A), NEW key, NEW pos \in 1 .. (Len(text) + 1)
  PROVE  /\ Json!Field(text, key, pos) \in Strings(A)
         /\ Json!Field(text, key, pos).pos \in pos .. (Len(text) + 1)
         /\ Json!Field(text, key, pos).value # << >> => pos < Json!Field(text, key, pos).pos
PROOF
  <1> DEFINE got == Json!Field(text, key, pos)
  <1>1. Len(text) \in Nat /\ pos \in Nat \ {0} /\ << >> \in Seq(A)
    OBVIOUS
  <1>2. \/ got = [value |-> << >>, pos |-> Len(text) + 1]
        \/ \E p \in Nat : FirstKey(text, key, pos, p) /\ got = FieldAt(text, p)
    BY <1>1, FieldCases, Zenon
  <1> HIDE DEF got
  <1>3. ASSUME NEW p \in Nat, FirstKey(text, key, pos, p), got = FieldAt(text, p)
        PROVE  got \in Strings(A) /\ got.pos \in pos .. (Len(text) + 1) /\ pos < got.pos
    <2>1. pos <= p /\ p + 3 <= Len(text)
      BY <1>3 DEF FirstKey, KeyAt
    <2>2. CASE p + 4 > Len(text)
      <3>1. got = [value |-> << >>, pos |-> Len(text) + 1]
        BY <1>3, <2>2 DEF FieldAt
      <3> QED BY <1>1, <2>1, <3>1 DEF Strings
    <2>3. CASE ~(p + 4 > Len(text)) /\ text[p + 4] # Json!Quote
      <3>1. got = [value |-> << >>, pos |-> p + 4]
        BY <1>3, <2>3 DEF FieldAt
      <3> QED BY <1>1, <2>1, <2>3, <3>1 DEF Strings
    <2>4. CASE ~(p + 4 > Len(text)) /\ text[p + 4] = Json!Quote
      <3>1. got = Json!Quoted(text, p + 5)
        BY <1>3, <2>4 DEF FieldAt
      <3> DEFINE q == p + 5
      <3>2. q \in 1 .. (Len(text) + 1) /\ pos < q
        BY <1>1, <2>1, <2>4
      <3>3. got = Json!Quoted(text, q)
        BY <3>1
      <3> HIDE DEF q
      <3>4. got \in Strings(A) /\ got.pos \in q .. (Len(text) + 1)
        BY <3>2, <3>3, QuotedEnds
      <3>5. \A x \in q .. (Len(text) + 1) : x \in pos .. (Len(text) + 1) /\ pos < x
        BY <1>1, <3>2
      <3> QED BY <3>4, <3>5
    <2> QED BY <2>2, <2>3, <2>4
  <1>4. got \in Strings(A) /\ got.pos \in pos .. (Len(text) + 1) /\ (got.value # << >> => pos < got.pos)
    <2>1. CASE got = [value |-> << >>, pos |-> Len(text) + 1]
      BY <1>1, <2>1 DEF Strings
    <2> QED BY <1>2, <1>3, <2>1
  <1> QED BY <1>4 DEF got

\* The next name and the type behind it.
NameFrom(text, pos) == Json!Field(text, "name", pos)
TypeFrom(text, pos) == Json!Field(text, "type", NameFrom(text, pos).pos)

\* The list of columns ends here.
Ended(text, pos) == NameFrom(text, pos).value = << >> \/ TypeFrom(text, pos).value = << >>

ColumnFrom(text, pos) == [name |-> NameFrom(text, pos).value, type |-> TypeFrom(text, pos).value]

\* The columns from pos on, by those behind the next one.
ReadsColumns(columns, text, pos) ==
  columns[pos] = IF Ended(text, pos) THEN << >>
                 ELSE <<ColumnFrom(text, pos)>> \o columns[TypeFrom(text, pos).pos]

\* The columns are read one by one.
LEMMA ColumnsUnfold ==
  ASSUME NEW A, NEW text \in Seq(A), NEW start \in 1 .. (Len(text) + 1)
  PROVE  \E columns : /\ Json!ColumnsFrom(text, start) = columns[start]
                      /\ \A pos \in start .. (Len(text) + 1) : ReadsColumns(columns, text, pos)
PROOF
  <1> DEFINE hi == Len(text) + 1
             D == start .. hi
             C == [name : Seq(A), type : Seq(A)]
             R == Seq(C)
             stop == {q \in D : Ended(text, q)}
             next == [q \in D |-> TypeFrom(text, q).pos]
             base == [q \in D |-> << >>]
             comb == [q \in D |-> [r \in R |-> <<ColumnFrom(text, q)>> \o r]]
             Body(columns) ==
               [pos \in start .. (Len(text) + 1) |->
                  LET name == Json!Field(text, "name", pos)
                      type == Json!Field(text, "type", name.pos)
                  IN  IF name.value = << >> \/ type.value = << >> THEN << >>
                      ELSE <<[name |-> name.value, type |-> type.value]>> \o columns[type.pos]]
             columns == CHOOSE columns : columns = Body(columns)
  <1>1. hi \in Nat /\ start \in Nat \ {0}
    OBVIOUS
  <1>2. ASSUME NEW q \in D, q \notin stop
        PROVE  next[q] \in (q + 1) .. hi /\ ColumnFrom(text, q) \in C
    <2>1. q \in 1 .. (Len(text) + 1)
      BY <1>1
    <2>2. NameFrom(text, q).value # << >> /\ TypeFrom(text, q).value # << >>
      BY <1>2, Zenon DEF Ended
    <2> DEFINE k == NameFrom(text, q).pos
    <2>3. NameFrom(text, q) \in Strings(A) /\ k \in q .. hi /\ q < k
      BY <2>1, <2>2, FieldEnds DEF NameFrom
    <2>4. k \in 1 .. (Len(text) + 1)
      <3> HIDE DEF k
      <3> QED BY <2>1, <2>3
    <2>5. TypeFrom(text, q) = Json!Field(text, "type", k)
      BY Zenon DEF TypeFrom
    <2> HIDE DEF k
    <2>6. TypeFrom(text, q) \in Strings(A) /\ TypeFrom(text, q).pos \in k .. hi
      BY <2>4, <2>5, FieldEnds
    <2>7. \A x \in k .. hi : x \in (q + 1) .. hi
      BY <1>1, <2>1, <2>3
    <2>8. next[q] = TypeFrom(text, q).pos
      BY Zenon
    <2>9. ColumnFrom(text, q) \in C
      BY <2>3, <2>6 DEF ColumnFrom, Strings
    <2> HIDE DEF next
    <2> QED BY <2>6, <2>7, <2>8, <2>9
  <1>3. \A q \in D : q \in stop => base[q] \in R
    OBVIOUS
  <1>4. ASSUME NEW q \in D, q \notin stop, NEW r \in R
        PROVE  comb[q][r] = <<ColumnFrom(text, q)>> \o r /\ comb[q][r] \in R
    <2>1. comb[q][r] = <<ColumnFrom(text, q)>> \o r
      BY Zenon
    <2> HIDE DEF C, comb
    <2>2. <<ColumnFrom(text, q)>> \in Seq(C)
      BY <1>2, <1>4
    <2>3. <<ColumnFrom(text, q)>> \o r \in Seq(C)
      BY <2>2, ConcatProperties
    <2> QED BY <2>1, <2>3
  <1>5. PICK f \in [D -> R] : \A q \in D : Descends(f, q, stop, next, base, comb)
    <2> HIDE DEF stop, next, base, comb, R, hi, C
    <2> QED BY <1>1, <1>2, <1>3, <1>4, Descent
  <1>6. ASSUME NEW q \in D PROVE f[q] = Body(f)[q]
    <2>1. Body(f)[q] = IF Ended(text, q) THEN << >> ELSE <<ColumnFrom(text, q)>> \o f[TypeFrom(text, q).pos]
      BY Zenon DEF Ended, ColumnFrom, NameFrom, TypeFrom
    <2> HIDE DEF Body
    <2>2. CASE q \in stop
      <3>1. f[q] = base[q]
        BY <1>5, <2>2 DEF Descends
      <3> QED BY <2>1, <2>2, <3>1
    <2>3. CASE q \notin stop
      <3>1. f[q] = comb[q][f[next[q]]]
        BY <1>5, <2>3, Zenon DEF Descends
      <3>2. next[q] \in D /\ next[q] = TypeFrom(text, q).pos
        BY <1>1, <1>2, <2>3
      <3> DEFINE r == f[next[q]]
      <3>3. r \in R
        BY <3>2
      <3>4. r = f[TypeFrom(text, q).pos] /\ f[q] = comb[q][r]
        BY <3>1, <3>2, Zenon
      <3> HIDE DEF r, comb, next, R
      <3>5. comb[q][r] = <<ColumnFrom(text, q)>> \o r
        BY <1>4, <2>3, <3>3
      <3>6. ~Ended(text, q)
        BY <2>3
      <3> HIDE DEF stop
      <3> QED BY <2>1, <3>4, <3>5, <3>6, Zenon
    <2> QED BY <2>2, <2>3
  <1>7. f = Body(f)
    <2>1. f = [q \in D |-> f[q]] /\ Body(f) = [q \in D |-> Body(f)[q]]
      <3> HIDE DEF R
      <3> QED BY ZenonT(60)
    <2> HIDE DEF Body
    <2> QED BY <1>6, <2>1, Zenon
  <1>8. columns = Body(columns)
    <2> HIDE DEF Body
    <2> QED BY <1>7
  <1>9. Json!ColumnsFrom(text, start) = columns[start]
    BY Zenon DEF Json!ColumnsFrom
  <1> HIDE DEF columns
  <1>10. ASSUME NEW q \in D PROVE ReadsColumns(columns, text, q)
    <2>1. Body(columns)[q] =
             IF Ended(text, q) THEN << >> ELSE <<ColumnFrom(text, q)>> \o columns[TypeFrom(text, q).pos]
      BY Zenon DEF Ended, ColumnFrom, NameFrom, TypeFrom
    <2> HIDE DEF Body
    <2> QED BY <1>8, <2>1, Zenon DEF ReadsColumns
  <1> QED BY <1>9, <1>10

-----------------------------------------------------------------------------
(* Where the parts of a schema's text stand.                               *)

\* The text x stands in u from a on.
Part(u, a, x) == \A j \in 1 .. Len(x) : u[a + j - 1] = x[j]

\* Of two texts one behind the other, each has its place.
LEMMA PartOfTwo ==
  ASSUME NEW A, NEW x \in Seq(A), NEW y \in Seq(A), NEW u, NEW a \in Nat, Part(u, a, x \o y)
  PROVE  Part(u, a, x) /\ Part(u, a + Len(x), y)
PROOF
  <1>1. Len(x) \in Nat /\ Len(y) \in Nat
    OBVIOUS
  <1>2. /\ Len(x \o y) = Len(x) + Len(y)
        /\ \A j \in 1 .. (Len(x) + Len(y)) : (x \o y)[j] = IF j <= Len(x) THEN x[j] ELSE y[j - Len(x)]
    BY ConcatProperties
  <1> DEFINE z == x \o y
  <1>3. \A j \in 1 .. (Len(x) + Len(y)) : u[a + j - 1] = IF j <= Len(x) THEN x[j] ELSE y[j - Len(x)]
    <2> TAKE j \in 1 .. (Len(x) + Len(y))
    <2>1. j \in 1 .. Len(z)
      BY <1>2
    <2>2. u[a + j - 1] = z[j]
      <3> HIDE DEF z
      <3>1. Part(u, a, z)
        BY DEF z
      <3> QED BY <2>1, <3>1 DEF Part
    <2> QED BY <1>2, <2>2
  <1>4. ASSUME NEW j \in 1 .. Len(x) PROVE u[a + j - 1] = x[j]
    <2>1. j \in 1 .. (Len(x) + Len(y)) /\ j <= Len(x)
      BY <1>1
    <2> QED BY <1>3, <2>1
  <1>5. ASSUME NEW j \in 1 .. Len(y) PROVE u[a + Len(x) + j - 1] = y[j]
    <2> DEFINE k == Len(x) + j
    <2>1. k \in 1 .. (Len(x) + Len(y)) /\ ~(k <= Len(x)) /\ k - Len(x) = j /\ a + k - 1 = a + Len(x) + j - 1
      BY <1>1
    <2> HIDE DEF k
    <2>2. u[a + k - 1] = y[k - Len(x)]
      BY <1>3, <2>1
    <2> QED BY <2>1, <2>2
  <1> QED BY <1>4, <1>5 DEF Part

\* The text y stands behind x, which stands at a, and z is both.
Behind(u, a, x, y, z) == Part(u, a + Len(x), y) /\ Len(z) = Len(x) + Len(y)

\* Of many, each stands behind those before it.
LEMMA PartOfMany ==
  ASSUME NEW A, NEW N \in Nat, NEW p \in [1 .. N -> Seq(A)],
         NEW g, LaidInSteps(g, A, N, p), NEW u, NEW a \in Nat, Part(u, a, g[N])
  PROVE  \A n \in 1 .. N : Behind(u, a, g[n - 1], p[n], g[n])
PROOF
  <1>1. /\ \A n \in 1 .. N : g[n] = g[n - 1] \o p[n]
        /\ \A n \in 0 .. N : g[n] \in Seq(A)
    BY Zenon DEF LaidInSteps
  <1>2. ASSUME NEW n \in 1 .. N
        PROVE  /\ n - 1 \in 0 .. N /\ n \in 0 .. N /\ Len(g[n]) = Len(g[n - 1]) + Len(p[n])
               /\ Part(u, a, g[n]) => Part(u, a, g[n - 1]) /\ Part(u, a + Len(g[n - 1]), p[n])
    <2> DEFINE x == g[n - 1]
               y == p[n]
    <2>1. n - 1 \in 0 .. N /\ n \in 0 .. N
      OBVIOUS
    <2>2. x \in Seq(A) /\ y \in Seq(A) /\ g[n] = x \o y
      BY <1>1, <2>1
    <2> HIDE DEF x, y
    <2>3. Len(x \o y) = Len(x) + Len(y)
      BY <2>2, ConcatProperties
    <2>4. Part(u, a, x \o y) => Part(u, a, x) /\ Part(u, a + Len(x), y)
      BY <2>2, PartOfTwo
    <2> QED BY <2>1, <2>2, <2>3, <2>4 DEF x, y
  <1> DEFINE S == {n \in 0 .. N : Part(u, a, g[n])}
  <1>3. ASSUME NEW n \in 0 .. N, \A k \in 0 .. N : n < k => k \in S PROVE n \in S
    <2>1. CASE n = N
      BY <2>1
    <2>2. CASE n # N
      <3> DEFINE k == n + 1
      <3>1. k \in 1 .. N /\ k \in 0 .. N /\ n < k /\ k - 1 = n
        BY <2>2
      <3> HIDE DEF k
      <3>2. Part(u, a, g[k])
        BY <1>3, <3>1
      <3>3. Part(u, a, g[n])
        BY <1>2, <3>1, <3>2
      <3> QED BY <3>3
    <2> QED BY <2>1, <2>2
  <1>4. \A n \in 0 .. N : n \in S
    <2> HIDE DEF S
    <2>1. 0 \in Nat
      OBVIOUS
    <2> QED BY <1>3, <2>1, Downwards
  <1> TAKE n \in 1 .. N
  <1>5. Part(u, a, g[n])
    BY <1>2, <1>4
  <1> QED BY <1>2, <1>5 DEF Behind

\* A field with its key and its text x stands at a.
FieldStands(u, key, x, a) ==
  /\ u[a] = Json!Other /\ u[a + 1] = Json!Quote /\ u[a + 2] = key
  /\ u[a + 3] = Json!Quote /\ u[a + 4] = Json!Colon /\ u[a + 5] = Json!Quote
  /\ Part(u, a + 6, x) /\ u[a + 6 + Len(x)] = Json!Quote

\* The symbols the structure of a text is made of.
Structure == {Json!Other, Json!Quote, Json!Colon, Json!Backslash}

\* Wherever the text of a field stands, a field stands.
LEMMA FieldTextStands ==
  ASSUME NEW A, Structure \subseteq A, NEW key \in A, NEW x \in Seq(A)
  PROVE  /\ Json!FieldText(key, x) \in Seq(A) /\ Len(Json!FieldText(key, x)) = Len(x) + 7
         /\ \A u : \A a \in Nat : Part(u, a, Json!FieldText(key, x)) => FieldStands(u, key, x, a)
PROOF
  <1> DEFINE h == <<Json!Other, Json!Quote, key, Json!Quote, Json!Colon, Json!Quote>>
             q == <<Json!Quote>>
  <1>1. /\ h \in Seq(A) /\ Len(h) = 6 /\ q \in Seq(A) /\ Len(q) = 1 /\ q[1] = Json!Quote
        /\ h[1] = Json!Other /\ h[2] = Json!Quote /\ h[3] = key /\ h[4] = Json!Quote
        /\ h[5] = Json!Colon /\ h[6] = Json!Quote
    BY DEF Structure
  <1>2. Json!FieldText(key, x) = (h \o x) \o q
    BY Zenon DEF Json!FieldText
  <1> HIDE DEF h, q
  <1>3. h \o x \in Seq(A) /\ Len(h \o x) = 6 + Len(x)
    <2>1. h \o x \in Seq(A) /\ Len(h \o x) = Len(h) + Len(x)
      BY <1>1, ConcatProperties
    <2> QED BY <1>1, <2>1
  <1>4. (h \o x) \o q \in Seq(A) /\ Len((h \o x) \o q) = Len(x) + 7
    <2> DEFINE z == h \o x
    <2>1. z \in Seq(A) /\ Len(z) = 6 + Len(x) /\ Len(x) \in Nat
      BY <1>3
    <2> HIDE DEF z
    <2>2. z \o q \in Seq(A) /\ Len(z \o q) = Len(z) + Len(q)
      BY <1>1, <2>1, ConcatProperties
    <2>3. Len(z \o q) = Len(x) + 7
      BY <1>1, <2>1, <2>2
    <2> QED BY <2>2, <2>3 DEF z
  <1>5. ASSUME NEW u, NEW a \in Nat, Part(u, a, (h \o x) \o q) PROVE FieldStands(u, key, x, a)
    <2>1. Part(u, a, h \o x) /\ Part(u, a + Len(h \o x), q)
      BY <1>1, <1>3, <1>5, PartOfTwo
    <2>2. Part(u, a, h) /\ Part(u, a + Len(h), x)
      BY <1>1, <2>1, PartOfTwo
    <2>3. Part(u, a + 6, x) /\ Part(u, a + (6 + Len(x)), q)
      BY <1>1, <1>3, <2>1, <2>2
    <2>4. \A j \in 1 .. 6 : u[a + j - 1] = h[j]
      BY <1>1, <2>2 DEF Part
    <2>5. Len(x) \in Nat
      OBVIOUS
    <2>6. u[a + (6 + Len(x)) + 1 - 1] = Json!Quote
      BY <1>1, <2>3 DEF Part
    <2>7. a + (6 + Len(x)) + 1 - 1 = a + 6 + Len(x)
      BY <2>5
    <2>8. u[a + 1 - 1] = h[1] /\ u[a + 2 - 1] = h[2] /\ u[a + 3 - 1] = h[3]
          /\ u[a + 4 - 1] = h[4] /\ u[a + 5 - 1] = h[5] /\ u[a + 6 - 1] = h[6]
      BY <2>4
    <2>9. a + 1 - 1 = a /\ a + 2 - 1 = a + 1 /\ a + 3 - 1 = a + 2
          /\ a + 4 - 1 = a + 3 /\ a + 5 - 1 = a + 4 /\ a + 6 - 1 = a + 5
      OBVIOUS
    <2>10. u[a] = h[1] /\ u[a + 1] = h[2] /\ u[a + 2] = h[3]
          /\ u[a + 3] = h[4] /\ u[a + 4] = h[5] /\ u[a + 5] = h[6]
      BY <2>8, <2>9, Zenon
    <2> QED BY <1>1, <2>3, <2>6, <2>7, <2>10, Zenon DEF FieldStands
  <1> QED BY <1>2, <1>4, <1>5, Zenon

\* The symbols an escaped name takes.
Width(s, c) == Len(Json!Escaped(s.columns[c].name))

\* The text of the schema s, whose columns begin at the places at.
Laid(u, s, at) ==
  LET w == Len(Json!Escaped(s.table))  k == Len(s.columns)
  IN  /\ at \in [1 .. (k + 1) -> Nat]
      /\ FieldStands(u, "table_name", Json!Escaped(s.table), 1)
      /\ u[w + 8] = Json!Other /\ u[w + 9] = Json!Quote /\ u[w + 10] = "columns"
      /\ u[w + 11] = Json!Quote /\ u[w + 12] = Json!Colon
      /\ at[1] = w + 13
      /\ \A c \in 1 .. k :
           /\ FieldStands(u, "name", Json!Escaped(s.columns[c].name), at[c])
           /\ FieldStands(u, "type", <<s.columns[c].type>>, at[c] + Width(s, c) + 7)
           /\ at[c + 1] = at[c] + Width(s, c) + 15
      /\ Len(u) = at[k + 1] /\ u[at[k + 1]] = Json!Other

\* The words of the fields, and the symbols around them.
Words(A) == Structure \cup {"table_name", "columns", "name", "type", Json!Stub} \subseteq A

\* What a schema is made of.
SchemaOver(A, s) == s.table \in Seq(A) /\ s.columns \in Seq([name : Seq(A), type : A])

\* In the text of a schema its fields stand one behind the other.
LEMMA SchemaTextLaid ==
  ASSUME NEW A, Words(A), NEW s, SchemaOver(A, s)
  PROVE  Json!SchemaText(s) \in Seq(A) /\ \E at : Laid(Json!SchemaText(s), s, at)
PROOF
  <1> DEFINE K == Len(s.columns)
             e == Json!Escaped(s.table)
             w == Len(e)
             x(c) == Json!Escaped(s.columns[c].name)
             nf(c) == Json!FieldText("name", x(c))
             tf(c) == Json!FieldText("type", <<s.columns[c].type>>)
             p == [c \in DOMAIN s.columns |-> nf(c) \o tf(c)]
             t1 == Json!FieldText("table_name", e)
             t2 == <<Json!Other, Json!Quote, "columns", Json!Quote, Json!Colon>>
             t3 == FlattenSeq(p)
             t4 == <<Json!Other>>
             u == Json!SchemaText(s)
  <1>1. /\ s.table \in Seq(A) /\ s.columns \in Seq([name : Seq(A), type : A])
        /\ Structure \subseteq A /\ Json!Backslash \in A
        /\ "table_name" \in A /\ "columns" \in A /\ "name" \in A /\ "type" \in A
    BY DEF SchemaOver, Words, Structure
  <1>2. K \in Nat /\ DOMAIN s.columns = 1 .. K
        /\ \A c \in 1 .. K : s.columns[c].name \in Seq(A) /\ s.columns[c].type \in A
    <2> DEFINE C == [name : Seq(A), type : A]
               t == s.columns
    <2>1. t \in Seq(C)
      BY <1>1
    <2>2. \A r \in C : r.name \in Seq(A) /\ r.type \in A
      OBVIOUS
    <2> HIDE DEF C, t
    <2>3. Len(t) \in Nat /\ DOMAIN t = 1 .. Len(t) /\ \A c \in 1 .. Len(t) : t[c] \in C
      BY <2>1
    <2>4. \A c \in 1 .. Len(t) : t[c].name \in Seq(A) /\ t[c].type \in A
      BY <2>2, <2>3
    <2> QED BY <2>3, <2>4, Zenon DEF t
  <1>3. e \in Seq(A) /\ w \in Nat /\ \A c \in 1 .. K : x(c) \in Seq(A) /\ Width(s, c) = Len(x(c)) /\ Width(s, c) \in Nat
    <2>1. e \in Seq(A)
      BY <1>1, EscapedMarked
    <2>2. \A c \in 1 .. K : x(c) \in Seq(A) /\ Width(s, c) = Len(x(c))
      BY <1>1, <1>2, EscapedMarked DEF Width
    <2> HIDE DEF e, x, K
    <2> QED BY <2>1, <2>2
  <1>4. ASSUME NEW c \in 1 .. K
        PROVE  /\ p[c] \in Seq(A) /\ Len(p[c]) = Width(s, c) + 15
               /\ \A v : \A a \in Nat : Part(v, a, p[c]) =>
                    /\ FieldStands(v, "name", x(c), a)
                    /\ FieldStands(v, "type", <<s.columns[c].type>>, a + Width(s, c) + 7)
    <2> DEFINE y == x(c)
               ty == <<s.columns[c].type>>
    <2>1. y \in Seq(A) /\ ty \in Seq(A) /\ Len(ty) = 1 /\ Len(y) \in Nat /\ Width(s, c) = Len(y)
      BY <1>2, <1>3
    <2>2. p[c] = Json!FieldText("name", y) \o Json!FieldText("type", ty)
      BY <1>2
    <2> HIDE DEF y, ty, p
    <2>3. /\ Json!FieldText("name", y) \in Seq(A) /\ Len(Json!FieldText("name", y)) = Len(y) + 7
          /\ \A v : \A a \in Nat : Part(v, a, Json!FieldText("name", y)) => FieldStands(v, "name", y, a)
      BY <1>1, <2>1, FieldTextStands
    <2>4. /\ Json!FieldText("type", ty) \in Seq(A) /\ Len(Json!FieldText("type", ty)) = Len(ty) + 7
          /\ \A v : \A a \in Nat : Part(v, a, Json!FieldText("type", ty)) => FieldStands(v, "type", ty, a)
      BY <1>1, <2>1, FieldTextStands
    <2> DEFINE f1 == Json!FieldText("name", y)
               f2 == Json!FieldText("type", ty)
    <2>5. f1 \in Seq(A) /\ f2 \in Seq(A) /\ Len(f1) = Len(y) + 7 /\ Len(f2) = 8 /\ p[c] = f1 \o f2
      BY <2>1, <2>2, <2>3, <2>4
    <2> HIDE DEF f1, f2
    <2>6. p[c] \in Seq(A) /\ Len(p[c]) = Len(f1) + Len(f2)
      <3>1. f1 \in Seq(A) /\ f2 \in Seq(A)
        BY <2>5
      <3>2. f1 \o f2 \in Seq(A) /\ Len(f1 \o f2) = Len(f1) + Len(f2)
        BY <3>1, ConcatProperties
      <3> QED BY <2>5, <3>2
    <2>7. ASSUME NEW v, NEW a \in Nat, Part(v, a, p[c])
          PROVE  FieldStands(v, "name", y, a) /\ FieldStands(v, "type", ty, a + Width(s, c) + 7)
      <3>1. Part(v, a, f1) /\ Part(v, a + Len(f1), f2)
        BY <2>5, <2>7, PartOfTwo
      <3>2. a + Len(f1) = a + Width(s, c) + 7 /\ a + Width(s, c) + 7 \in Nat
        BY <2>1, <2>5
      <3>3. Part(v, a + Width(s, c) + 7, f2)
        BY <3>1, <3>2
      <3> QED BY <2>3, <2>4, <3>1, <3>2, <3>3, Zenon DEF f1, f2
    <2>8. Len(p[c]) = Width(s, c) + 15
      BY <2>1, <2>5, <2>6
    <2> QED BY <2>6, <2>7, <2>8, Zenon DEF y, ty
  <1>5. t1 \in Seq(A) /\ Len(t1) = w + 7 /\ \A v : \A a \in Nat : Part(v, a, t1) => FieldStands(v, "table_name", e, a)
    BY <1>1, <1>3, FieldTextStands
  <1>6. /\ t2 \in Seq(A) /\ Len(t2) = 5 /\ t4 \in Seq(A) /\ Len(t4) = 1 /\ t4[1] = Json!Other
        /\ t2[1] = Json!Other /\ t2[2] = Json!Quote /\ t2[3] = "columns" /\ t2[4] = Json!Quote /\ t2[5] = Json!Colon
    BY <1>1 DEF Structure
  <1>7. u = ((t1 \o t2) \o t3) \o t4
    <2>1. \A q : Json!FlattenSeq(q) = FlattenSeq(q)
      BY Zenon DEF Json!FlattenSeq, FlattenSeq
    <2> QED BY <2>1, Zenon DEF Json!SchemaText
  <1>8. [c \in 1 .. K |-> p[c]] = p
    BY <1>2
  <1>9. FirstLaid(p, K) = t3
    BY <1>8, Zenon DEF FirstLaid
  <1> HIDE DEF p, u, t1, t2, t3, t4, w, K, e, x
  <1>10. PICK g : LaidInSteps(g, A, K, p)
    BY <1>2, <1>4, FlattenSteps
  <1>11. /\ g[0] = << >> /\ \A n \in 0 .. K : g[n] \in Seq(A)
         /\ g[K] = t3
    <2>1. K \in 0 .. K
      BY <1>2
    <2> QED BY <1>9, <1>10, <2>1, Zenon DEF LaidInSteps
  <1>12. t3 \in Seq(A) /\ \A n \in 0 .. K : Len(g[n]) \in Nat
    <2>1. K \in 0 .. K
      BY <1>2
    <2> QED BY <1>11, <2>1
  <1> DEFINE t12 == t1 \o t2
             t123 == t12 \o t3
  <1>13. t12 \in Seq(A) /\ Len(t12) = w + 12
    <2>1. t1 \o t2 \in Seq(A) /\ Len(t1 \o t2) = Len(t1) + Len(t2)
      BY <1>5, <1>6, ConcatProperties
    <2> QED BY <1>3, <1>5, <1>6, <2>1
  <1>14. t123 \in Seq(A) /\ Len(t123) = w + 12 + Len(t3) /\ u = t123 \o t4
    <2> HIDE DEF t12
    <2>1. t12 \o t3 \in Seq(A) /\ Len(t12 \o t3) = Len(t12) + Len(t3)
      BY <1>12, <1>13, ConcatProperties
    <2>2. u = (t12 \o t3) \o t4
      BY <1>7 DEF t12
    <2> QED BY <1>13, <2>1, <2>2
  <1>15. u \in Seq(A) /\ Len(u) = w + 13 + Len(t3)
    <2> HIDE DEF t123
    <2>1. t123 \o t4 \in Seq(A) /\ Len(t123 \o t4) = Len(t123) + Len(t4)
      BY <1>6, <1>14, ConcatProperties
    <2>2. Len(t3) \in Nat
      BY <1>12
    <2> QED BY <1>3, <1>6, <1>14, <2>1, <2>2
  <1>16. Part(u, 1, t1) /\ Part(u, w + 8, t2) /\ Part(u, w + 13, t3) /\ Part(u, w + 13 + Len(t3), t4)
    <2>1. Part(u, 1, u)
      <3>1. \A j \in 1 .. Len(u) : 1 + j - 1 = j
        BY <1>15
      <3> QED BY <3>1 DEF Part
    <2>2. Part(u, 1, t123) /\ Part(u, 1 + Len(t123), t4)
      <3> HIDE DEF t123
      <3> QED BY <1>6, <1>14, <2>1, PartOfTwo
    <2>3. Part(u, 1, t12) /\ Part(u, 1 + Len(t12), t3)
      <3> HIDE DEF t12
      <3> QED BY <1>12, <1>13, <2>2, PartOfTwo
    <2>4. Part(u, 1, t1) /\ Part(u, 1 + Len(t1), t2)
      BY <1>5, <1>6, <2>3, PartOfTwo
    <2>5. 1 + Len(t123) = w + 13 + Len(t3) /\ 1 + Len(t12) = w + 13 /\ 1 + Len(t1) = w + 8
      <3>1. Len(t3) \in Nat
        BY <1>12
      <3> HIDE DEF t12, t123
      <3> QED BY <1>3, <1>5, <1>13, <1>14, <3>1
    <2> QED BY <2>2, <2>3, <2>4, <2>5
  <1> HIDE DEF t12, t123
  <1> DEFINE at == [c \in 1 .. (K + 1) |-> w + 13 + Len(g[c - 1])]
  <1>17. /\ at \in [1 .. (K + 1) -> Nat] /\ at[1] = w + 13 /\ at[K + 1] = w + 13 + Len(t3)
         /\ Len(u) = at[K + 1]
    <2>1. \A c \in 1 .. (K + 1) : c - 1 \in 0 .. K
      BY <1>2
    <2>2. \A c \in 1 .. (K + 1) : at[c] \in Nat
      <3> TAKE c \in 1 .. (K + 1)
      <3> DEFINE n == Len(g[c - 1])
      <3>1. n \in Nat /\ at[c] = w + 13 + n
        BY <1>12, <2>1
      <3> HIDE DEF n, at
      <3> QED BY <1>3, <3>1
    <2>3. 1 \in 1 .. (K + 1) /\ K + 1 \in 1 .. (K + 1) /\ 1 - 1 = 0 /\ K + 1 - 1 = K
      BY <1>2
    <2>4. Len(g[0]) = 0
      BY <1>11
    <2>5. at[1] = w + 13 + Len(g[0]) /\ at[K + 1] = w + 13 + Len(g[K])
      <3>1. \A c \in 1 .. (K + 1) : at[c] = w + 13 + Len(g[c - 1])
        OBVIOUS
      <3> DEFINE one == 1
                 last == K + 1
      <3>2. one \in 1 .. (K + 1) /\ last \in 1 .. (K + 1) /\ one - 1 = 0 /\ last - 1 = K
        BY <1>2
      <3> HIDE DEF at, one, last
      <3>3. at[one] = w + 13 + Len(g[0]) /\ at[last] = w + 13 + Len(g[K])
        BY <3>1, <3>2, Zenon
      <3> QED BY <3>3, Zenon DEF one, last
    <2>6. at[1] = w + 13 /\ at[K + 1] = w + 13 + Len(t3)
      <3> HIDE DEF at
      <3> QED BY <1>3, <1>11, <2>4, <2>5
    <2>7. at \in [1 .. (K + 1) -> Nat]
      BY <2>2
    <2> HIDE DEF at
    <2> QED BY <1>15, <2>6, <2>7
  <1>18. ASSUME NEW c \in 1 .. K
         PROVE  /\ FieldStands(u, "name", x(c), at[c])
                /\ FieldStands(u, "type", <<s.columns[c].type>>, at[c] + Width(s, c) + 7)
                /\ at[c + 1] = at[c] + Width(s, c) + 15
    <2>1. c \in 1 .. (K + 1) /\ c + 1 \in 1 .. (K + 1) /\ c + 1 - 1 = c /\ c - 1 \in 0 .. K /\ c \in 0 .. K
      BY <1>2
    <2>2. at[c] = w + 13 + Len(g[c - 1]) /\ at[c + 1] = w + 13 + Len(g[c])
      BY <2>1
    <2>3. w + 13 \in Nat /\ Part(u, w + 13, g[K])
      BY <1>3, <1>11, <1>16
    <2>4. Part(u, w + 13 + Len(g[c - 1]), p[c]) /\ Len(g[c]) = Len(g[c - 1]) + Len(p[c])
      <3> DEFINE b == w + 13
      <3>1. b \in Nat /\ Part(u, b, g[K]) /\ p \in [1 .. K -> Seq(A)]
        <4>1. \A n \in 1 .. K : p[n] \in Seq(A)
          BY <1>4
        <4>2. p = [n \in 1 .. K |-> p[n]]
          BY <1>8, Zenon
        <4> HIDE DEF at
        <4> QED BY <2>3, <4>1, <4>2
      <3> HIDE DEF b, at
      <3>2. \A n \in 1 .. K : Behind(u, b, g[n - 1], p[n], g[n])
        <4>1. K \in Nat
          BY <1>2
        <4> QED BY <1>10, <3>1, <4>1, PartOfMany
      <3> QED BY <3>2, Zenon DEF Behind, b
    <2>5. Part(u, at[c], p[c]) /\ at[c] \in Nat
      BY <1>17, <2>1, <2>2, <2>4
    <2>6. Len(g[c - 1]) \in Nat /\ Len(p[c]) = Width(s, c) + 15 /\ Width(s, c) \in Nat
      BY <1>3, <1>4, <1>12, <2>1
    <2>7. at[c + 1] = at[c] + Width(s, c) + 15
      <3> DEFINE m == Len(g[c - 1])
                 n == Len(g[c])
                 l == Width(s, c)
      <3>1. at[c] = w + 13 + m /\ at[c + 1] = w + 13 + n /\ m \in Nat /\ l \in Nat /\ n = m + (l + 15)
        BY <2>2, <2>4, <2>6
      <3> HIDE DEF at, m, n, l
      <3>2. at[c + 1] = at[c] + l + 15
        BY <1>3, <3>1
      <3> QED BY <3>2 DEF l
    <2> HIDE DEF at
    <2> QED BY <1>4, <2>5, <2>7, Zenon
  <1>19. /\ u[w + 8] = Json!Other /\ u[w + 9] = Json!Quote /\ u[w + 10] = "columns"
         /\ u[w + 11] = Json!Quote /\ u[w + 12] = Json!Colon
    <2>1. \A j \in 1 .. 5 : u[w + 8 + j - 1] = t2[j]
      BY <1>6, <1>16 DEF Part
    <2>2. u[w + 8 + 1 - 1] = t2[1] /\ u[w + 8 + 2 - 1] = t2[2] /\ u[w + 8 + 3 - 1] = t2[3]
          /\ u[w + 8 + 4 - 1] = t2[4] /\ u[w + 8 + 5 - 1] = t2[5]
      BY <2>1
    <2>3. w + 8 + 1 - 1 = w + 8 /\ w + 8 + 2 - 1 = w + 9 /\ w + 8 + 3 - 1 = w + 10
          /\ w + 8 + 4 - 1 = w + 11 /\ w + 8 + 5 - 1 = w + 12
      BY <1>3
    <2> QED BY <1>6, <2>2, <2>3, Zenon
  <1>20. u[at[K + 1]] = Json!Other
    <2>1. Len(t3) \in Nat
      BY <1>12
    <2> DEFINE b == w + 13 + Len(t3)
    <2>2. b + 1 - 1 = b /\ at[K + 1] = b
      <3> HIDE DEF at
      <3> QED BY <1>3, <1>17, <2>1
    <2>3. u[b + 1 - 1] = t4[1]
      BY <1>6, <1>16 DEF Part
    <2> HIDE DEF b, at
    <2> QED BY <1>6, <2>2, <2>3
  <1>21. FieldStands(u, "table_name", e, 1)
    BY <1>5, <1>16
  <1> HIDE DEF at
  <1>22. Laid(u, s, at)
    BY <1>17, <1>18, <1>19, <1>20, <1>21, Zenon DEF Laid, w, e, K, x
  <1> QED BY <1>15, <1>22 DEF u

-----------------------------------------------------------------------------
(* Where the keys of a schema's text stand.                                *)

\* The words of the types are none of the symbols that structure the text.
TypesPlain(s) == \A c \in 1 .. Len(s.columns) : s.columns[c].type \notin Structure \cup {Json!Stub}

\* The symbols of the structure differ from each other and from the words.
LEMMA Symbols ==
  /\ Json!Quote # Json!Backslash /\ Json!Quote # Json!Colon /\ Json!Quote # Json!Other
  /\ Json!Backslash # Json!Colon /\ Json!Backslash # Json!Other /\ Json!Colon # Json!Other
  /\ Json!Stub \notin Structure
  /\ \A key \in {"table_name", "columns", "name", "type"} : key \notin Structure /\ key # Json!Stub
PROOF
  BY DEF Json!Quote, Json!Backslash, Json!Colon, Json!Other, Json!Stub, Structure

\* The places of a schema's text are numbers, the names in it escaped, and
\* each column stands behind the one before it.
LaidOut(A, s, u, at) ==
  /\ Len(s.columns) \in Nat
  /\ Json!Escaped(s.table) \in Seq(A) /\ Len(Json!Escaped(s.table)) \in Nat
  /\ QuotesEscaped(Json!Escaped(s.table))
  /\ \A c \in 1 .. Len(s.columns) :
       /\ s.columns[c].name \in Seq(A) /\ s.columns[c].type \in A
       /\ Json!Escaped(s.columns[c].name) \in Seq(A)
       /\ QuotesEscaped(Json!Escaped(s.columns[c].name))
       /\ Width(s, c) \in Nat /\ Width(s, c) = Len(Json!Escaped(s.columns[c].name))
       /\ at[c + 1] = at[c] + Width(s, c) + 15
  /\ at \in [1 .. (Len(s.columns) + 1) -> Nat]
  /\ at[1] = Len(Json!Escaped(s.table)) + 13
  /\ Len(u) = at[Len(s.columns) + 1]
  /\ \A c \in 1 .. Len(s.columns), d \in 1 .. (Len(s.columns) + 1) : c < d => at[c + 1] <= at[d]

\* So it is with the text of every schema.
LEMMA Layout ==
  ASSUME NEW A, Words(A), NEW s, SchemaOver(A, s), NEW u, NEW at, Laid(u, s, at)
  PROVE  LaidOut(A, s, u, at)
PROOF
  <1> DEFINE K == Len(s.columns)
  <1>1. s.table \in Seq(A) /\ s.columns \in Seq([name : Seq(A), type : A]) /\ Json!Backslash \in A
    BY DEF SchemaOver, Words, Structure
  <1>2. K \in Nat /\ \A c \in 1 .. K : s.columns[c].name \in Seq(A) /\ s.columns[c].type \in A
    <2> DEFINE C == [name : Seq(A), type : A]
               t == s.columns
    <2>1. t \in Seq(C)
      BY <1>1
    <2>2. \A r \in C : r.name \in Seq(A) /\ r.type \in A
      OBVIOUS
    <2> HIDE DEF C, t
    <2>3. Len(t) \in Nat /\ \A c \in 1 .. Len(t) : t[c] \in C
      BY <2>1
    <2>4. \A c \in 1 .. Len(t) : t[c].name \in Seq(A) /\ t[c].type \in A
      BY <2>2, <2>3
    <2> QED BY <2>3, <2>4, Zenon DEF t
  <1>3. /\ Json!Escaped(s.table) \in Seq(A) /\ Len(Json!Escaped(s.table)) \in Nat
        /\ QuotesEscaped(Json!Escaped(s.table))
    <2>1. Json!Escaped(s.table) \in Seq(A) /\ QuotesEscaped(Json!Escaped(s.table))
      BY <1>1, EscapedMarked
    <2> QED BY <2>1, LenProperties
  <1>4. ASSUME NEW c \in 1 .. K
        PROVE  /\ Json!Escaped(s.columns[c].name) \in Seq(A)
               /\ QuotesEscaped(Json!Escaped(s.columns[c].name))
               /\ Width(s, c) \in Nat /\ Width(s, c) = Len(Json!Escaped(s.columns[c].name))
    <2>1. /\ Json!Escaped(s.columns[c].name) \in Seq(A)
          /\ QuotesEscaped(Json!Escaped(s.columns[c].name))
      BY <1>1, <1>2, EscapedMarked
    <2> QED BY <2>1, LenProperties DEF Width
  <1>5. /\ at \in [1 .. (K + 1) -> Nat] /\ at[1] = Len(Json!Escaped(s.table)) + 13 /\ Len(u) = at[K + 1]
        /\ \A c \in 1 .. K : at[c + 1] = at[c] + Width(s, c) + 15
    BY Zenon DEF Laid
  <1> HIDE DEF K
  <1>6. ASSUME NEW c \in 1 .. K PROVE at[c] \in Nat /\ at[c + 1] \in Nat /\ at[c] <= at[c + 1]
    <2>1. c \in 1 .. (K + 1) /\ c + 1 \in 1 .. (K + 1)
      BY <1>2
    <2> DEFINE a == at[c]
               b == at[c + 1]
               l == Width(s, c)
    <2>2. a \in Nat /\ b \in Nat /\ l \in Nat /\ b = a + l + 15
      BY <1>4, <1>5, <2>1
    <2> HIDE DEF a, b, l
    <2>3. a <= b
      BY <2>2
    <2> QED BY <2>2, <2>3 DEF a, b
  <1>7. ASSUME NEW d \in 1 .. (K + 1) PROVE \A c \in 1 .. K : c < d => at[c + 1] <= at[d]
    <2> DEFINE S == {c \in 1 .. (d - 1) : at[c + 1] <= at[d]}
    <2>1. d - 1 \in Nat /\ 1 \in Nat /\ at[d] \in Nat
      BY <1>2, <1>5
    <2>2. ASSUME NEW c \in 1 .. (d - 1), \A k \in 1 .. (d - 1) : c < k => k \in S PROVE c \in S
      <3>1. CASE c = d - 1
        <4>1. c + 1 = d
          BY <2>1, <3>1
        <4> QED BY <2>1, <4>1
      <3>2. CASE c # d - 1
        <4> DEFINE k == c + 1
        <4>1. k \in 1 .. (d - 1) /\ c < k /\ k \in 1 .. K
          BY <1>2, <2>1, <3>2
        <4> HIDE DEF k
        <4>2. at[k + 1] <= at[d] /\ at[k] \in Nat /\ at[k + 1] \in Nat /\ at[k] <= at[k + 1]
          BY <1>6, <2>2, <4>1
        <4>3. at[k] <= at[d]
          BY <2>1, <4>2
        <4> QED BY <4>3 DEF k
      <3> QED BY <3>1, <3>2
    <2>3. \A c \in 1 .. (d - 1) : c \in S
      <3> HIDE DEF S
      <3> QED BY <2>1, <2>2, Downwards
    <2>4. \A c \in 1 .. K : c < d => c \in 1 .. (d - 1)
      BY <1>2
    <2> QED BY <2>3, <2>4
  <1> QED BY <1>2, <1>3, <1>4, <1>5, <1>7, Zenon DEF K, LaidOut

\* A key with its quotes and colon stands in no field but at its beginning: a
\* quote in a name has a backslash in front of it.
LEMMA KeyInField ==
  ASSUME NEW A, NEW x \in Seq(A), QuotesEscaped(x), NEW own, own \notin Structure,
         NEW u, NEW a \in Nat, FieldStands(u, own, x, a),
         NEW key, key \notin Structure, NEW p \in Nat, KeyAt(u, key, p),
         p + 3 \in a .. (a + 6 + Len(x))
  PROVE  p = a + 1 /\ key = own
PROOF
  <1>1. Len(x) \in Nat
    OBVIOUS
  <1>2. u[p] = Json!Quote /\ u[p + 1] = key /\ u[p + 2] = Json!Quote /\ u[p + 3] = Json!Colon
    BY Zenon DEF KeyAt
  <1>3. /\ u[a] = Json!Other /\ u[a + 1] = Json!Quote /\ u[a + 2] = own
        /\ u[a + 3] = Json!Quote /\ u[a + 4] = Json!Colon /\ u[a + 5] = Json!Quote
        /\ Part(u, a + 6, x) /\ u[a + 6 + Len(x)] = Json!Quote
    BY Zenon DEF FieldStands
  <1>4. p + 3 # a /\ p + 3 # a + 1 /\ p + 3 # a + 2 /\ p + 3 # a + 3 /\ p + 3 # a + 5 /\ p + 3 # a + 6 + Len(x)
    <2>1. own # Json!Colon
      BY DEF Structure
    <2> QED BY <1>2, <1>3, <2>1, Symbols, Zenon
  <1>5. CASE p + 3 = a + 4
    <2>1. p = a + 1 /\ p + 1 = a + 2
      BY <1>5
    <2>2. key = own
      BY <1>2, <1>3, <2>1, Zenon
    <2> QED BY <2>1, <2>2
  <1>6. CASE p + 3 # a + 4
    <2> DEFINE j == p + 3 - (a + 5)
    <2>1. j \in 1 .. Len(x) /\ a + 6 + j - 1 = p + 3
      BY <1>1, <1>4, <1>6
    <2>2. j # 1
      <3>1. j = 1 => p + 1 = a + 4
        OBVIOUS
      <3>2. key # Json!Colon
        BY DEF Structure
      <3> HIDE DEF j
      <3> QED BY <1>2, <1>3, <3>1, <3>2, Zenon
    <2>3. j - 1 \in 1 .. Len(x) /\ a + 6 + (j - 1) - 1 = p + 2
      BY <1>1, <2>1, <2>2
    <2> HIDE DEF j
    <2> DEFINE k == j - 1
    <2>4. k \in 1 .. Len(x) /\ a + 6 + k - 1 = p + 2
      BY <2>3
    <2> HIDE DEF k
    <2>5. x[k] = Json!Quote
      BY <1>2, <1>3, <2>4 DEF Part
    <2>6. k >= 2 /\ x[k - 1] = Json!Backslash
      BY <2>4, <2>5 DEF QuotesEscaped
    <2> DEFINE l == k - 1
    <2>7. l \in 1 .. Len(x) /\ a + 6 + l - 1 = p + 1
      BY <1>1, <2>4, <2>6
    <2>8. x[l] = Json!Backslash
      BY <2>6
    <2> HIDE DEF l
    <2>9. u[p + 1] = Json!Backslash
      BY <1>3, <2>7, <2>8 DEF Part
    <2> QED BY <1>2, <2>9 DEF Structure
  <1> QED BY <1>5, <1>6

\* Every place of the columns is in one of them.
LEMMA ColumnFound ==
  ASSUME NEW K \in Nat, NEW at \in [1 .. (K + 1) -> Nat], NEW q \in Nat, at[1] <= q, q < at[K + 1]
  PROVE  \E c \in 1 .. K : at[c] <= q /\ q < at[c + 1]
PROOF
  <1> DEFINE S == {c \in 1 .. (K + 1) : q < at[c]}
  <1>1. S \in SUBSET Nat /\ K + 1 \in S
    OBVIOUS
  <1>2. PICK d \in S : \A c \in S : d <= c
    <2> HIDE DEF S
    <2> QED BY <1>1, LeastNumber
  <1>3. d \in 1 .. (K + 1) /\ q < at[d] /\ d # 1
    <2>1. d \in 1 .. (K + 1) /\ q < at[d]
      OBVIOUS
    <2>2. at[1] \in Nat
      BY <1>1
    <2> QED BY <2>1, <2>2
  <1> DEFINE c == d - 1
  <1>4. c \in 1 .. K /\ c \in 1 .. (K + 1) /\ c + 1 = d /\ ~(d <= c)
    BY <1>3
  <1> HIDE DEF c
  <1>5. ~(q < at[c])
    BY <1>2, <1>4
  <1>6. at[c] \in Nat
    BY <1>4
  <1> QED BY <1>3, <1>4, <1>5, <1>6

\* Where a key with its quotes and colon stands in a schema's text.
LEMMA KeyPlaces ==
  ASSUME NEW A, Words(A), NEW s, SchemaOver(A, s), TypesPlain(s), NEW u, NEW at, Laid(u, s, at),
         NEW key \in {"table_name", "columns", "name", "type"}, NEW p, KeyAt(u, key, p)
  PROVE  \/ key = "table_name" /\ p = 2
         \/ key = "columns"
         \/ key = "name" /\ \E c \in 1 .. Len(s.columns) : p = at[c] + 1
         \/ key = "type" /\ \E c \in 1 .. Len(s.columns) : p = at[c] + Width(s, c) + 8
PROOF
  <1> DEFINE K == Len(s.columns)
             e == Json!Escaped(s.table)
             w == Len(e)
             q == p + 3
  <1>1. /\ K \in Nat /\ e \in Seq(A) /\ w \in Nat /\ QuotesEscaped(e)
        /\ at \in [1 .. (K + 1) -> Nat] /\ at[1] = w + 13 /\ Len(u) = at[K + 1]
    <2>1. LaidOut(A, s, u, at)
      BY Layout
    <2> QED BY <2>1, Zenon DEF LaidOut
  <1>2. /\ FieldStands(u, "table_name", e, 1)
        /\ u[w + 8] = Json!Other /\ u[w + 9] = Json!Quote /\ u[w + 10] = "columns"
        /\ u[w + 11] = Json!Quote /\ u[w + 12] = Json!Colon /\ u[at[K + 1]] = Json!Other
    BY Zenon DEF Laid
  <1>3. p \in Nat \ {0} /\ q \in 1 .. Len(u) /\ u[q] = Json!Colon /\ u[p + 1] = key /\ u[p] = Json!Quote
    <2>1. p \in Nat \ {0} /\ q <= Len(u) /\ u[q] = Json!Colon /\ u[p + 1] = key /\ u[p] = Json!Quote
      BY Zenon DEF KeyAt
    <2>2. Len(u) \in Nat
      BY <1>1
    <2> QED BY <2>1, <2>2
  <1>4. key \notin Structure
    BY Symbols
  <1> HIDE DEF K, e, w
  <1>5. CASE q <= w + 7
    <2>1. q \in 1 .. (1 + 6 + Len(e))
      BY <1>1, <1>3, <1>5 DEF w
    <2>2. p = 1 + 1 /\ key = "table_name"
      <3>1. "table_name" \notin Structure /\ 1 \in Nat /\ p \in Nat
        BY <1>3, Symbols
      <3> QED BY <1>1, <1>2, <1>4, <2>1, <3>1, KeyInField
    <2> QED BY <2>2
  <1>6. CASE w + 8 <= q /\ q < at[1]
    <2>1. q = w + 8 \/ q = w + 9 \/ q = w + 10 \/ q = w + 11 \/ q = w + 12
      BY <1>1, <1>3, <1>6
    <2>2. "columns" # Json!Colon
      BY DEF Json!Colon
    <2>3. q = w + 12
      BY <1>2, <1>3, <2>1, <2>2, Symbols, Zenon
    <2>4. p + 1 = w + 10
      BY <1>1, <1>3, <2>3
    <2> QED BY <1>2, <1>3, <2>4, Zenon
  <1>7. CASE at[1] <= q /\ q < at[K + 1]
    <2>1. PICK c \in 1 .. K : at[c] <= q /\ q < at[c + 1]
      <3>1. q \in Nat
        BY <1>3
      <3> HIDE DEF q
      <3> QED BY <1>1, <1>7, <3>1, ColumnFound
    <2> DEFINE x == Json!Escaped(s.columns[c].name)
               y == <<s.columns[c].type>>
               a == at[c]
               b == a + Width(s, c) + 7
    <2>2. /\ x \in Seq(A) /\ QuotesEscaped(x) /\ Width(s, c) = Len(x) /\ Len(x) \in Nat
          /\ at[c + 1] = a + Len(x) + 15 /\ s.columns[c].type \in A
      <3>1. LaidOut(A, s, u, at)
        BY Layout
      <3> QED BY <3>1, Zenon DEF LaidOut, K
    <2>3. FieldStands(u, "name", x, a) /\ FieldStands(u, "type", y, b)
      BY Zenon DEF Laid, K
    <2>4. a \in Nat /\ b = a + Len(x) + 7 /\ b \in Nat
      <3>1. c \in 1 .. (K + 1)
        BY <1>1
      <3>2. a \in Nat
        BY <1>1, <3>1
      <3> HIDE DEF a, x
      <3> QED BY <2>2, <3>2
    <2>5. y \in Seq(A) /\ Len(y) = 1 /\ QuotesEscaped(y)
      <3>1. y[1] # Json!Quote /\ Len(y) = 1 /\ y \in Seq(A)
        BY <2>2 DEF TypesPlain, Structure, K
      <3> HIDE DEF y
      <3> QED BY <3>1 DEF QuotesEscaped
    <2>6. q \in a .. (a + 6 + Len(x)) \/ q \in b .. (b + 6 + Len(y))
      <3> HIDE DEF a, b, x, y
      <3>1. q \in Nat
        BY <1>3
      <3> HIDE DEF q
      <3>2. a <= q
        BY <2>1 DEF a
      <3>3. q < a + Len(x) + 15
        BY <2>1, <2>2, Zenon
      <3> QED BY <2>2, <2>4, <2>5, <3>1, <3>2, <3>3
    <2> HIDE DEF a, b, x, y
    <2>7. "name" \notin Structure /\ "type" \notin Structure /\ p \in Nat
      BY <1>3, Symbols
    <2>8. CASE q \in a .. (a + 6 + Len(x))
      <3>1. p = a + 1 /\ key = "name"
        BY <1>4, <2>2, <2>3, <2>4, <2>7, <2>8, KeyInField, SMTT(40)
      <3> QED BY <3>1 DEF a, K
    <2>9. CASE q \in b .. (b + 6 + Len(y))
      <3>1. p = b + 1 /\ key = "type"
        BY <1>4, <2>3, <2>4, <2>5, <2>7, <2>9, KeyInField, SMTT(40)
      <3>2. p = a + Width(s, c) + 8
        BY <2>2, <2>4, <3>1
      <3> QED BY <3>1, <3>2 DEF a, K
    <2> QED BY <2>6, <2>8, <2>9
  <1>8. CASE q = at[K + 1]
    BY <1>2, <1>3, <1>8, Symbols, Zenon
  <1>9. q <= w + 7 \/ (w + 8 <= q /\ q < at[1]) \/ (at[1] <= q /\ q < at[K + 1]) \/ q = at[K + 1]
    <2>1. at[1] \in Nat /\ at[K + 1] \in Nat /\ q \in 1 .. at[K + 1]
      BY <1>1, <1>3
    <2> HIDE DEF q
    <2> QED BY <1>1, <2>1
  <1> QED BY <1>5, <1>6, <1>7, <1>8, <1>9 DEF K

-----------------------------------------------------------------------------
(* Reading what is left of a schema's text.                                *)

\* The text t is the beginning of u, whose last word may be cut.
Torn(t, u) ==
  /\ Len(t) <= Len(u)
  /\ \A k \in 1 .. Len(t) : t[k] = u[k] \/ (k = Len(t) /\ t[k] = Json!Stub /\ u[k] \notin Structure)

\* It has the keys of u that it has room for.
LEMMA TornKeys ==
  ASSUME NEW A, NEW t \in Seq(A), NEW u \in Seq(A), Torn(t, u),
         NEW key \in {"table_name", "columns", "name", "type"}, NEW p
  PROVE  /\ KeyAt(t, key, p) => KeyAt(u, key, p)
         /\ KeyAt(u, key, p) /\ p + 3 <= Len(t) => KeyAt(t, key, p)
PROOF
  <1>1. Len(t) \in Nat /\ Len(u) \in Nat /\ Len(t) <= Len(u)
    BY DEF Torn
  <1>2. key # Json!Stub /\ Json!Quote # Json!Stub /\ Json!Colon # Json!Stub
        /\ Json!Quote \in Structure /\ Json!Colon \in Structure
    BY Symbols DEF Structure
  <1>3. ASSUME p \in Nat \ {0}, p + 3 <= Len(t)
        PROVE  p \in 1 .. Len(t) /\ p + 1 \in 1 .. Len(t) /\ p + 2 \in 1 .. Len(t) /\ p + 3 \in 1 .. Len(t)
               /\ p # Len(t) /\ p + 1 # Len(t) /\ p + 2 # Len(t) /\ p + 3 <= Len(u)
    BY <1>1, <1>3
  <1>4. ASSUME KeyAt(t, key, p) PROVE KeyAt(u, key, p)
    <2>1. /\ p \in Nat \ {0} /\ p + 3 <= Len(t) /\ t[p] = Json!Quote /\ t[p + 1] = key
          /\ t[p + 2] = Json!Quote /\ t[p + 3] = Json!Colon
      BY <1>4, Zenon DEF KeyAt
    <2>2. u[p] = t[p] /\ u[p + 1] = t[p + 1] /\ u[p + 2] = t[p + 2] /\ u[p + 3] = t[p + 3]
      BY <1>2, <1>3, <2>1, Zenon DEF Torn
    <2>3. p + 3 <= Len(u)
      BY <1>3, <2>1
    <2> QED BY <2>1, <2>2, <2>3, Zenon DEF KeyAt
  <1>5. ASSUME KeyAt(u, key, p), p + 3 <= Len(t) PROVE KeyAt(t, key, p)
    <2>1. /\ p \in Nat \ {0} /\ u[p] = Json!Quote /\ u[p + 1] = key
          /\ u[p + 2] = Json!Quote /\ u[p + 3] = Json!Colon
      BY <1>5, Zenon DEF KeyAt
    <2>2. u[p] = t[p] /\ u[p + 1] = t[p + 1] /\ u[p + 2] = t[p + 2] /\ u[p + 3] = t[p + 3]
      BY <1>2, <1>3, <1>5, <2>1, Zenon DEF Torn
    <2> QED BY <1>5, <2>1, <2>2, Zenon DEF KeyAt
  <1> QED BY <1>4, <1>5

\* It has the fields of u as far as it goes.
LEMMA TornField ==
  ASSUME NEW A, NEW t \in Seq(A), NEW u \in Seq(A), Torn(t, u), NEW x \in Seq(A), NEW own,
         NEW a \in Nat \ {0}, FieldStands(u, own, x, a)
  PROVE  /\ Stands(t, a + 6, x)
         /\ \A k \in Nat \ {0} : k <= Len(t) /\ u[k] = Json!Quote => t[k] = Json!Quote
PROOF
  <1>1. Len(t) \in Nat /\ Len(x) \in Nat /\ Json!Quote \in Structure
    BY DEF Structure
  <1>2. Part(u, a + 6, x)
    BY Zenon DEF FieldStands
  <1>3. ASSUME NEW j \in 1 .. Len(x), a + 6 + j - 1 <= Len(t)
        PROVE  t[a + 6 + j - 1] = x[j] \/ (a + 6 + j - 1 = Len(t) /\ t[a + 6 + j - 1] = Json!Stub)
    <2> DEFINE k == a + 6 + j - 1
    <2>1. k \in 1 .. Len(t) /\ u[k] = x[j]
      BY <1>1, <1>2, <1>3 DEF Part
    <2> HIDE DEF k
    <2>2. t[k] = x[j] \/ (k = Len(t) /\ t[k] = Json!Stub)
      BY <2>1, Zenon DEF Torn
    <2> QED BY <2>2 DEF k
  <1>4. ASSUME NEW k \in Nat \ {0}, k <= Len(t), u[k] = Json!Quote PROVE t[k] = Json!Quote
    <2>1. k \in 1 .. Len(t)
      BY <1>1, <1>4
    <2> QED BY <1>1, <1>4, <2>1, Zenon DEF Torn
  <1>5. Stands(t, a + 6, x)
    BY <1>3 DEF Stands
  <1> QED BY <1>4, <1>5

\* Without its key a field has no value; otherwise it is read behind its key.
LEMMA FieldOfKey ==
  ASSUME NEW A, NEW t \in Seq(A), NEW key, NEW pos \in Nat \ {0}
  PROVE  /\ (\A p \in Nat : pos <= p => ~KeyAt(t, key, p)) => Json!Field(t, key, pos).value = << >>
         /\ \A p \in Nat : FirstKey(t, key, pos, p) => Json!Field(t, key, pos) = FieldAt(t, p)
PROOF
  <1>1. ASSUME \A p \in Nat : pos <= p => ~KeyAt(t, key, p)
        PROVE  Json!Field(t, key, pos).value = << >>
    <2>1. Json!Field(t, key, pos) = [value |-> << >>, pos |-> Len(t) + 1]
      BY <1>1, FieldFound
    <2> QED BY <2>1
  <1>2. ASSUME NEW p \in Nat, FirstKey(t, key, pos, p)
        PROVE  Json!Field(t, key, pos) = FieldAt(t, p)
    BY <1>2, FieldFound, Zenon DEF FirstKey, FieldAt
  <1> QED BY <1>1, <1>2

\* A field with a name is read whole, or to the end of the text.
LEMMA NameFieldRead ==
  ASSUME NEW A, Words(A), NEW t \in Seq(A), NEW u \in Seq(A), Torn(t, u), NEW v \in Seq(A), NEW own,
         NEW a \in Nat \ {0}, FieldStands(u, own, Json!Escaped(v), a), a + 4 <= Len(t)
  PROVE  IF a + 6 + Len(Json!Escaped(v)) <= Len(t)
         THEN FieldAt(t, a + 1) = [value |-> v, pos |-> a + 7 + Len(Json!Escaped(v))]
         ELSE FieldAt(t, a + 1).pos = Len(t) + 1
PROOF
  <1> DEFINE e == Json!Escaped(v)
             w == Len(e)
             b == a + 6
  <1>0. Json!Backslash \in A
    BY DEF Words, Structure
  <1>1. e \in Seq(A) /\ w \in Nat /\ Len(t) \in Nat /\ b \in Nat \ {0}
    <2>1. e \in Seq(A)
      BY <1>0, EscapedMarked
    <2> HIDE DEF e
    <2> QED BY <2>1
  <1>2. /\ Stands(t, b, e) /\ (a + 5 <= Len(t) => t[a + 5] = Json!Quote)
        /\ (b + w <= Len(t) => t[b + w] = Json!Quote)
    <2>1. Stands(t, b, e) /\ \A k \in Nat \ {0} : k <= Len(t) /\ u[k] = Json!Quote => t[k] = Json!Quote
      BY <1>1, TornField
    <2>2. u[a + 5] = Json!Quote /\ u[b + w] = Json!Quote
      BY Zenon DEF FieldStands
    <2>3. a + 5 \in Nat \ {0} /\ b + w \in Nat \ {0}
      BY <1>1
    <2> HIDE DEF b, w, e
    <2> QED BY <2>1, <2>2, <2>3
  <1>3. a + 1 + 4 = a + 5 /\ a + 1 + 5 = b
    OBVIOUS
  <1>4. FieldAt(t, a + 1) = IF a + 5 > Len(t) THEN [value |-> << >>, pos |-> Len(t) + 1]
                            ELSE IF t[a + 5] # Json!Quote THEN [value |-> << >>, pos |-> a + 5]
                            ELSE Json!Quoted(t, b)
    <2> HIDE DEF b
    <2> QED BY <1>3, Zenon DEF FieldAt
  <1> HIDE DEF e, w
  <1>5. CASE a + 6 + w <= Len(t)
    <2>1. ~(a + 5 > Len(t)) /\ a + 5 <= Len(t) /\ b + w <= Len(t)
      BY <1>1, <1>5
    <2>2. FieldAt(t, a + 1) = Json!Quoted(t, b)
      BY <1>2, <1>4, <2>1, Zenon
    <2>3. Json!Quoted(t, b) = [value |-> v, pos |-> b + w + 1]
      <3> HIDE DEF b
      <3> QED BY <1>0, <1>1, <1>2, <2>1, NameReadBack DEF e, w
    <2>4. b + w + 1 = a + 7 + w
      BY <1>1
    <2> HIDE DEF b
    <2> QED BY <1>5, <2>2, <2>3, <2>4, Zenon DEF e, w
  <1>6. CASE ~(a + 6 + w <= Len(t))
    <2>1. CASE a + 5 > Len(t)
      <3>1. FieldAt(t, a + 1) = [value |-> << >>, pos |-> Len(t) + 1]
        BY <1>4, <2>1
      <3> QED BY <1>6, <3>1 DEF e, w
    <2>2. CASE ~(a + 5 > Len(t))
      <3>1. a + 5 <= Len(t) /\ b \in 1 .. (Len(t) + 1) /\ b + w > Len(t)
        BY <1>1, <1>6, <2>2
      <3>2. FieldAt(t, a + 1) = Json!Quoted(t, b)
        BY <1>2, <1>4, <2>2, <3>1, Zenon
      <3>3. Json!Quoted(t, b).pos = Len(t) + 1
        <4> HIDE DEF b
        <4> QED BY <1>0, <1>1, <1>2, <3>1, NameCutOff DEF e, w
      <3> QED BY <1>6, <3>2, <3>3, Zenon DEF e, w
    <2> QED BY <2>1, <2>2
  <1> QED BY <1>5, <1>6, Zenon DEF e, w

\* A type is read whole, as the beginning of a word, or not at all.
LEMMA TypeFieldRead ==
  ASSUME NEW A, NEW t \in Seq(A), NEW u \in Seq(A), Torn(t, u), NEW ty \in A,
         ty \notin Structure \cup {Json!Stub}, NEW own,
         NEW b \in Nat \ {0}, FieldStands(u, own, <<ty>>, b), b + 4 <= Len(t)
  PROVE  /\ \/ FieldAt(t, b + 1).value = << >>
            \/ FieldAt(t, b + 1) = [value |-> <<Json!Stub>>, pos |-> Len(t) + 1]
            \/ FieldAt(t, b + 1) = [value |-> <<ty>>, pos |-> b + 7]
            \/ FieldAt(t, b + 1) = [value |-> <<ty>>, pos |-> b + 8]
         /\ b + 7 <= Len(t) => FieldAt(t, b + 1) = [value |-> <<ty>>, pos |-> b + 8]
PROOF
  <1> DEFINE x == <<ty>>
             a == b + 6
             n == Len(t)
  <1>1. x \in Seq(A) /\ Len(x) = 1 /\ x[1] = ty /\ n \in Nat /\ a \in Nat \ {0}
    OBVIOUS
  <1>2. /\ Stands(t, a, x) /\ (b + 5 <= n => t[b + 5] = Json!Quote)
        /\ (a + Len(x) <= n => t[a + Len(x)] = Json!Quote)
    <2>1. FieldStands(u, own, x, b)
      OBVIOUS
    <2> HIDE DEF x
    <2>2. Stands(t, a, x) /\ \A k \in Nat \ {0} : k <= n /\ u[k] = Json!Quote => t[k] = Json!Quote
      BY <1>1, <2>1, TornField
    <2>3. u[b + 5] = Json!Quote /\ u[a + Len(x)] = Json!Quote
      BY <2>1, Zenon DEF FieldStands
    <2>4. b + 5 \in Nat \ {0} /\ a + Len(x) \in Nat \ {0}
      BY <1>1
    <2> HIDE DEF a, n
    <2> QED BY <2>2, <2>3, <2>4
  <1> HIDE DEF x
  <1>3. /\ a <= n => t[a] = ty \/ (a = n /\ t[a] = Json!Stub)
        /\ a + 1 <= n => t[a + 1] = Json!Quote
    <2>1. 1 \in 1 .. Len(x) /\ a + 1 - 1 = a /\ a + Len(x) = a + 1
      BY <1>1
    <2>2. a <= n => t[a] = x[1] \/ (a = n /\ t[a] = Json!Stub)
      <3> HIDE DEF a
      <3> QED BY <1>2, <2>1 DEF Stands
    <2> HIDE DEF a
    <2> QED BY <1>1, <1>2, <2>1, <2>2
  <1>4. FieldAt(t, b + 1) = IF b + 5 > n THEN [value |-> << >>, pos |-> n + 1]
                            ELSE IF t[b + 5] # Json!Quote THEN [value |-> << >>, pos |-> b + 5]
                            ELSE Json!Quoted(t, a)
    <2>1. b + 1 + 4 = b + 5 /\ b + 1 + 5 = a
      OBVIOUS
    <2> HIDE DEF a
    <2> QED BY <2>1, Zenon DEF FieldAt
  <1>5. CASE b + 5 > n
    <2>1. FieldAt(t, b + 1) = [value |-> << >>, pos |-> n + 1]
      BY <1>4, <1>5
    <2> QED BY <1>1, <1>5, <2>1
  <1>6. CASE ~(b + 5 > n)
    <2>1. a \in 1 .. (n + 1) /\ b + 5 <= n
      BY <1>1, <1>6
    <2>2. FieldAt(t, b + 1) = Json!Quoted(t, a)
      <3> HIDE DEF a, n
      <3> QED BY <1>2, <1>4, <1>6, <2>1, Zenon
    <2>3. PICK read \in [a .. (n + 1) -> Strings(A)] :
             Json!Quoted(t, a) = read[a] /\ \A q \in a .. (n + 1) : ReadsString(read, t, q)
      <3> HIDE DEF a
      <3> QED BY <2>1, QuotedUnfolds
    <2>4. ty # Json!Quote /\ ty # Json!Backslash /\ ty # Json!Stub /\ Json!Stub # Json!Quote /\ Json!Stub # Json!Backslash
      BY Symbols DEF Structure
    <2>5. CASE a = n + 1
      <3>1. a \in a .. (n + 1) /\ a > Len(t)
        BY <1>1, <2>5
      <3>2. read[a] = [value |-> << >>, pos |-> a]
        <4> HIDE DEF a
        <4> QED BY <2>3, <3>1, Zenon DEF ReadsString
      <3>3. FieldAt(t, b + 1).value = << >>
        BY <2>2, <2>3, <3>2
      <3>4. ~(b + 7 <= Len(t))
        BY <1>1, <2>5
      <3> QED BY <3>3, <3>4
    <2>6. CASE a # n + 1
      <3> DEFINE k == a + 1
      <3>1. a \in a .. (n + 1) /\ ~(a > Len(t)) /\ a <= n /\ k \in a .. (n + 1)
        BY <1>1, <2>1, <2>6
      <3> HIDE DEF a, n
      <3>2. t[a] # Json!Quote /\ t[a] # Json!Backslash
        BY <1>3, <2>4, <3>1
      <3>3. Meant(t, a) = a
        BY <3>2 DEF Meant
      <3>4. read[a] = [value |-> <<t[a]>> \o read[k].value, pos |-> read[k].pos]
        BY <2>3, <3>1, <3>2, <3>3, Zenon DEF ReadsString
      <3>5. read[k] = [value |-> << >>, pos |-> IF k > n THEN k ELSE k + 1]
        <4>1. CASE k > n
          <5>1. read[k] = [value |-> << >>, pos |-> k]
            BY <2>3, <3>1, <4>1, Zenon DEF ReadsString, n
          <5> QED BY <4>1, <5>1
        <4>2. CASE ~(k > n)
          <5>1. t[k] = Json!Quote
            BY <1>1, <1>3, <3>1, <4>2
          <5>2. read[k] = [value |-> << >>, pos |-> k + 1]
            BY <2>3, <3>1, <4>2, <5>1, Zenon DEF ReadsString, n
          <5> QED BY <4>2, <5>2
        <4> QED BY <4>1, <4>2
      <3>6. read[k].value = << >> /\ read[k].pos = IF k > n THEN k ELSE k + 1
        BY <3>5
      <3>7. <<t[a]>> \o << >> = <<t[a]>>
        OBVIOUS
      <3>8. FieldAt(t, b + 1) = [value |-> <<t[a]>>, pos |-> IF k > n THEN k ELSE k + 1]
        <4> HIDE DEF k
        <4> QED BY <2>2, <2>3, <3>4, <3>6, <3>7, Zenon
      <3>9. CASE k > n
        <4>1. n = a /\ k = n + 1 /\ k = b + 7 /\ ~(b + 7 <= Len(t))
          BY <1>1, <3>1, <3>9 DEF a, n
        <4>2. FieldAt(t, b + 1) = [value |-> <<t[a]>>, pos |-> k]
          BY <3>8, <3>9
        <4>3. t[a] = ty \/ t[a] = Json!Stub
          BY <1>3, <3>1
        <4> HIDE DEF k
        <4> QED BY <4>1, <4>2, <4>3, Zenon DEF n
      <3>10. CASE ~(k > n)
        <4>1. a # n /\ k + 1 = b + 8
          BY <1>1, <3>1, <3>10 DEF a
        <4>2. FieldAt(t, b + 1) = [value |-> <<t[a]>>, pos |-> k + 1]
          BY <3>8, <3>10
        <4>3. t[a] = ty
          BY <1>3, <3>1, <4>1
        <4> HIDE DEF k
        <4> QED BY <4>1, <4>2, <4>3, Zenon
      <3> QED BY <3>9, <3>10
    <2> QED BY <2>5, <2>6
  <1> QED BY <1>5, <1>6

-----------------------------------------------------------------------------
(* The columns read from what is left of a schema's text.                  *)

\* The places from which column c is the next one that may be found.
InReach(s, at, pos, c) ==
  /\ c <= Len(s.columns) => pos <= at[c] + 1
  /\ \A d \in 1 .. Len(s.columns) : d < c => at[d] + 1 < pos

\* What is known of a text t that was torn from that of s.
TornFrom(A, s, u, at, t) ==
  /\ Words(A) /\ SchemaOver(A, s) /\ TypesPlain(s) /\ u \in Seq(A) /\ Laid(u, s, at)
  /\ t \in Seq(A) /\ Torn(t, u)

\* No column is found from there on, where none is in reach.
LEMMA NoColumnLeft ==
  ASSUME NEW A, NEW s, NEW u, NEW at, NEW t, TornFrom(A, s, u, at, t), NEW pos \in Nat \ {0},
         pos > Len(t) \/ \A d \in 1 .. Len(s.columns) : at[d] + 1 < pos
  PROVE  Ended(t, pos)
PROOF
  <1>1. /\ Words(A) /\ SchemaOver(A, s) /\ TypesPlain(s) /\ u \in Seq(A) /\ Laid(u, s, at)
        /\ t \in Seq(A) /\ Torn(t, u)
    BY Zenon DEF TornFrom
  <1>2. LaidOut(A, s, u, at)
    BY <1>1, Layout
  <1>3. Len(s.columns) \in Nat /\ at \in [1 .. (Len(s.columns) + 1) -> Nat]
    BY <1>2, Zenon DEF LaidOut
  <1>4. ASSUME NEW p \in Nat, pos <= p, KeyAt(t, "name", p) PROVE FALSE
    <2>1. KeyAt(u, "name", p) /\ p + 3 <= Len(t) /\ Len(t) \in Nat
      <3>1. KeyAt(u, "name", p)
        BY <1>1, <1>4, TornKeys
      <3>2. p + 3 <= Len(t)
        BY <1>4, Zenon DEF KeyAt
      <3>3. Len(t) \in Nat
        BY <1>1
      <3> QED BY <3>1, <3>2, <3>3
    <2>2. \E c \in 1 .. Len(s.columns) : p = at[c] + 1
      BY <1>1, <2>1, KeyPlaces
    <2>3. PICK c \in 1 .. Len(s.columns) : p = at[c] + 1
      BY <2>2
    <2>4. CASE pos > Len(t)
      BY <1>4, <2>1, <2>4
    <2>5. CASE \A d \in 1 .. Len(s.columns) : at[d] + 1 < pos
      <3>1. at[c] + 1 < pos
        BY <2>5
      <3> QED BY <1>4, <2>3, <3>1
    <2> QED BY <2>4, <2>5
  <1>5. NameFrom(t, pos).value = << >>
    BY <1>1, <1>4, FieldOfKey DEF NameFrom
  <1> QED BY <1>5, Zenon DEF Ended

\* The next column is found, or nothing; its type may be cut short, and is
\* then not a type.
LEMMA ColumnRead ==
  ASSUME NEW A, NEW s, NEW u, NEW at, NEW t, TornFrom(A, s, u, at, t),
         NEW c \in 1 .. Len(s.columns), NEW pos \in 1 .. (Len(t) + 1), InReach(s, at, pos, c)
  PROVE  /\ \/ Ended(t, pos)
            \/ /\ ColumnFrom(t, pos) = [name |-> s.columns[c].name, type |-> <<Json!Stub>>]
               /\ TypeFrom(t, pos).pos = Len(t) + 1
            \/ /\ ColumnFrom(t, pos) = [name |-> s.columns[c].name, type |-> <<s.columns[c].type>>]
               /\ InReach(s, at, TypeFrom(t, pos).pos, c + 1)
         /\ Len(t) = Len(u) /\ s.columns[c].name # << >> =>
               /\ ~Ended(t, pos)
               /\ ColumnFrom(t, pos) = [name |-> s.columns[c].name, type |-> <<s.columns[c].type>>]
PROOF
  <1> DEFINE K == Len(s.columns)
             v == s.columns[c].name
             ty == s.columns[c].type
             e == Json!Escaped(v)
             w == Width(s, c)
             a == at[c]
             b == a + w + 7
             n == NameFrom(t, pos)
             y == TypeFrom(t, pos)
  <1>1. /\ Words(A) /\ SchemaOver(A, s) /\ TypesPlain(s) /\ u \in Seq(A) /\ Laid(u, s, at)
        /\ t \in Seq(A) /\ Torn(t, u)
    BY Zenon DEF TornFrom
  <1>2. LaidOut(A, s, u, at)
    BY <1>1, Layout
  <1>3. /\ K \in Nat /\ at \in [1 .. (K + 1) -> Nat]
        /\ Len(u) = at[K + 1] /\ at[1] = Len(Json!Escaped(s.table)) + 13 /\ Len(Json!Escaped(s.table)) \in Nat
        /\ \A d \in 1 .. K : at[d + 1] = at[d] + Width(s, d) + 15 /\ Width(s, d) \in Nat
        /\ v \in Seq(A) /\ ty \in A /\ w = Len(e)
        /\ \A d \in 1 .. K, d2 \in 1 .. (K + 1) : d < d2 => at[d + 1] <= at[d2]
    BY <1>2, Zenon DEF LaidOut
  <1>4. FieldStands(u, "name", e, a) /\ FieldStands(u, "type", <<ty>>, b)
    BY <1>1, Zenon DEF Laid
  <1>5. ty \notin Structure \cup {Json!Stub}
    BY <1>1 DEF TypesPlain
  <1>6. \A d \in 1 .. K : at[d] \in Nat /\ at[d + 1] \in Nat
    <2>1. \A d \in 1 .. K : d \in 1 .. (K + 1) /\ d + 1 \in 1 .. (K + 1)
      BY <1>3
    <2> QED BY <1>3, <2>1
  <1> HIDE DEF K, v, ty, e, w, n, y
  <1>7. c \in 1 .. K /\ c \in 1 .. (K + 1) /\ a \in Nat /\ w \in Nat /\ at[c + 1] = b + 8 /\ b \in Nat /\ b = a + 7 + Len(e)
    <2>1. c \in 1 .. K
      BY DEF K
    <2>2. a \in Nat /\ w \in Nat /\ at[c + 1] = a + w + 15
      BY <1>3, <1>6, <2>1 DEF w
    <2>3. w = Len(e) /\ c \in 1 .. (K + 1)
      BY <1>3, <2>1
    <2> HIDE DEF a
    <2> QED BY <2>1, <2>2, <2>3
  <1>8. a \in Nat \ {0}
    <2>1. c = 1 \/ 1 < c
      BY <1>7
    <2>2. CASE c = 1
      BY <1>3, <1>7, <2>2
    <2>3. CASE 1 < c
      <3>1. 1 \in 1 .. K
        BY <1>3, <1>7
      <3> DEFINE one == 1
      <3>2. one \in 1 .. K /\ one < c /\ at[one] = Len(Json!Escaped(s.table)) + 13
        BY <1>3, <2>3, <3>1
      <3> HIDE DEF one
      <3>3. at[one + 1] <= at[c] /\ at[one + 1] = at[one] + Width(s, one) + 15 /\ Width(s, one) \in Nat
        BY <1>3, <1>7, <3>2
      <3>4. at[one] \in Nat /\ at[one + 1] \in Nat
        BY <1>6, <3>2
      <3> QED BY <1>7, <3>3, <3>4
    <2> QED BY <2>1, <2>2, <2>3
  <1> HIDE DEF a, b
  <1>9. pos <= a + 1 /\ \A d \in 1 .. K : d < c => at[d] + 1 < pos
    <2>1. c <= Len(s.columns)
      BY <1>3, <1>7 DEF K
    <2> QED BY <2>1, Zenon DEF InReach, K, a
  <1>10. pos \in Nat \ {0} /\ Len(t) \in Nat /\ Len(u) \in Nat
    BY <1>1
  <1>11. ASSUME NEW d \in 1 .. K, c < d PROVE b + 8 <= at[d]
    BY <1>3, <1>7, <1>11
  <1>12. ASSUME NEW p \in Nat, pos <= p, KeyAt(t, "name", p) PROVE a + 1 <= p
    <2>1. KeyAt(u, "name", p)
      BY <1>1, <1>12, TornKeys
    <2>2. \E d \in 1 .. K : p = at[d] + 1
      BY <1>1, <2>1, KeyPlaces DEF K
    <2>3. PICK d \in 1 .. K : p = at[d] + 1
      BY <2>2
    <2>4. d < c \/ d = c \/ c < d
      BY <1>3, <1>7
    <2>5. CASE d < c
      <3>1. at[d] + 1 < pos /\ at[d] \in Nat
        BY <1>6, <1>9, <2>5
      <3> QED BY <1>10, <1>12, <2>3, <3>1
    <2>6. CASE d = c
      BY <2>3, <2>6 DEF a
    <2>7. CASE c < d
      <3>1. b + 8 <= at[d] /\ at[d] \in Nat
        BY <1>6, <1>11, <2>7
      <3> QED BY <1>7, <2>3, <3>1
    <2> QED BY <2>4, <2>5, <2>6, <2>7
  <1>13. ASSUME NEW p \in Nat, b <= p, KeyAt(t, "type", p) PROVE b + 1 <= p
    <2>1. KeyAt(u, "type", p)
      BY <1>1, <1>13, TornKeys
    <2>2. \E d \in 1 .. K : p = at[d] + Width(s, d) + 8
      BY <1>1, <2>1, KeyPlaces DEF K
    <2>3. PICK d \in 1 .. K : p = at[d] + Width(s, d) + 8
      BY <2>2
    <2>4. d < c \/ d = c \/ c < d
      BY <1>3, <1>7
    <2>5. CASE d < c
      <3> DEFINE f == at[d]
                 g == at[d + 1]
                 l == Width(s, d)
      <3>1. g <= a
        BY <1>3, <1>7, <2>5 DEF a
      <3>2. g = f + l + 15 /\ f \in Nat /\ l \in Nat
        BY <1>3, <1>6
      <3>3. p = f + l + 8
        BY <2>3
      <3>4. b = a + 7 + w
        BY <1>3, <1>7
      <3> HIDE DEF f, g, l
      <3> QED BY <1>7, <1>13, <3>1, <3>2, <3>3, <3>4
    <2>6. CASE d = c
      <3>1. p = a + w + 8
        BY <2>3, <2>6 DEF a, w
      <3>2. b = a + 7 + w
        BY <1>3, <1>7
      <3> QED BY <1>7, <3>1, <3>2
    <2>7. CASE c < d
      <3>1. b + 8 <= at[d] /\ at[d] \in Nat /\ Width(s, d) \in Nat
        BY <1>3, <1>6, <1>11, <2>7
      <3> QED BY <1>7, <2>3, <3>1
    <2> QED BY <2>4, <2>5, <2>6, <2>7
  <1>14. ASSUME a + 4 <= Len(t)
         PROVE  IF b <= Len(t) + 1 THEN n = [value |-> v, pos |-> b] ELSE n.pos = Len(t) + 1
    <2>1. KeyAt(u, "name", a + 1)
      <3>1. /\ u[a + 1] = Json!Quote /\ u[a + 2] = "name" /\ u[a + 3] = Json!Quote /\ u[a + 4] = Json!Colon
        BY <1>4, Zenon DEF FieldStands
      <3>2. a + 1 + 1 = a + 2 /\ a + 1 + 2 = a + 3 /\ a + 1 + 3 = a + 4 /\ a + 4 <= Len(u) /\ a + 1 \in Nat \ {0}
        BY <1>1, <1>8, <1>10, <1>14 DEF Torn
      <3> QED BY <3>1, <3>2, Zenon DEF KeyAt
    <2>2. KeyAt(t, "name", a + 1)
      <3>1. (a + 1) + 3 <= Len(t)
        BY <1>8, <1>14
      <3> QED BY <1>1, <2>1, <3>1, TornKeys
    <2>3. FirstKey(t, "name", pos, a + 1)
      BY <1>8, <1>9, <1>12, <2>2 DEF FirstKey
    <2>4. n = FieldAt(t, a + 1)
      <3>1. a + 1 \in Nat
        BY <1>8
      <3> QED BY <1>1, <1>10, <2>3, <3>1, FieldOfKey DEF NameFrom, n
    <2>5. IF a + 6 + Len(e) <= Len(t)
          THEN FieldAt(t, a + 1) = [value |-> v, pos |-> a + 7 + Len(e)]
          ELSE FieldAt(t, a + 1).pos = Len(t) + 1
      BY <1>1, <1>3, <1>4, <1>8, <1>14, NameFieldRead DEF e
    <2>6. a + 6 + Len(e) <= Len(t) <=> b <= Len(t) + 1
      <3> DEFINE l == Len(e)
                 m == Len(t)
      <3>1. l \in Nat /\ m \in Nat /\ a \in Nat /\ b = a + 7 + l
        BY <1>3, <1>7, <1>10
      <3> HIDE DEF l, m
      <3>2. a + 6 + l <= m <=> b <= m + 1
        BY <3>1
      <3> QED BY <3>2 DEF l, m
    <2>7. a + 7 + Len(e) = b
      BY <1>7
    <2> QED BY <2>4, <2>5, <2>6, <2>7, Zenon
  <1>15. CASE ~(a + 4 <= Len(t))
    <2>1. \A p \in Nat : pos <= p => ~KeyAt(t, "name", p)
      <3> SUFFICES ASSUME NEW p \in Nat, pos <= p, KeyAt(t, "name", p) PROVE FALSE
        OBVIOUS
      <3>1. a + 1 <= p /\ p + 3 <= Len(t)
        BY <1>12 DEF KeyAt
      <3> QED BY <1>8, <1>10, <1>15, <3>1
    <2>2. n.value = << >>
      BY <1>1, <1>10, <2>1, FieldOfKey DEF NameFrom, n
    <2>3. Len(t) # Len(u)
      <3>1. c + 1 <= K + 1 /\ at[c + 1] <= at[K + 1]
        <4>1. c = K \/ c < K
          BY <1>3, <1>7
        <4>2. CASE c < K
          <5>1. K + 1 \in 1 .. (K + 1) /\ c < K + 1
            BY <1>3, <4>2, <1>7
          <5> QED BY <1>3, <1>7, <5>1
        <4>3. CASE c = K
          BY <1>3, <1>6, <1>7, <4>3
        <4> QED BY <1>3, <1>7, <4>1, <4>2, <4>3
      <3>2. b + 8 <= Len(u)
        BY <1>3, <1>7, <3>1
      <3> QED BY <1>7, <1>10, <1>15, <3>2
    <2> QED BY <2>2, <2>3, Zenon DEF Ended, n
  <1>16. CASE a + 4 <= Len(t) /\ ~(b <= Len(t) + 1)
    <2>1. n.pos = Len(t) + 1
      BY <1>14, <1>16
    <2>2. \A p \in Nat : n.pos <= p => ~KeyAt(t, "type", p)
      <3> SUFFICES ASSUME NEW p \in Nat, Len(t) + 1 <= p, KeyAt(t, "type", p) PROVE FALSE
        BY <2>1
      <3>1. p + 3 <= Len(t)
        BY DEF KeyAt
      <3> QED BY <1>10, <3>1
    <2>3. y.value = << >>
      <3>1. n.pos \in Nat \ {0}
        BY <1>10, <2>1
      <3> QED BY <1>1, <2>2, <3>1, FieldOfKey DEF TypeFrom, n, y
    <2>4. Len(t) # Len(u)
      <3>1. K + 1 \in 1 .. (K + 1) /\ c < K + 1
        BY <1>3, <1>7
      <3>2. at[c + 1] <= at[K + 1]
        BY <1>3, <1>7, <3>1
      <3>3. b + 8 <= Len(u)
        BY <1>3, <1>7, <3>2
      <3> QED BY <1>7, <1>10, <1>16, <3>3
    <2> QED BY <2>3, <2>4, Zenon DEF Ended, y
  <1>17. CASE a + 4 <= Len(t) /\ b <= Len(t) + 1
    <2>1. n = [value |-> v, pos |-> b] /\ n.value = v /\ n.pos = b
      BY <1>14, <1>17
    <2>2. y = Json!Field(t, "type", b)
      BY <2>1, Zenon DEF TypeFrom, n, y
    <2>3. b \in Nat \ {0}
      BY <1>7, <1>8
    <2>4. b + 8 <= Len(u)
      <3>1. K + 1 \in 1 .. (K + 1) /\ c < K + 1
        BY <1>3, <1>7
      <3>2. at[c + 1] <= at[K + 1]
        BY <1>3, <1>7, <3>1
      <3> QED BY <1>3, <1>7, <3>2
    <2>5. CASE ~(b + 4 <= Len(t))
      <3>1. \A p \in Nat : b <= p => ~KeyAt(t, "type", p)
        <4> SUFFICES ASSUME NEW p \in Nat, b <= p, KeyAt(t, "type", p) PROVE FALSE
          OBVIOUS
        <4>1. b + 1 <= p /\ p + 3 <= Len(t)
          BY <1>13 DEF KeyAt
        <4> QED BY <1>10, <2>3, <2>5, <4>1
      <3>2. y.value = << >>
        BY <1>1, <2>2, <2>3, <3>1, FieldOfKey
      <3>3. Len(t) # Len(u)
        BY <1>10, <2>3, <2>4, <2>5
      <3> QED BY <3>2, <3>3, Zenon DEF Ended, y
    <2>6. CASE b + 4 <= Len(t)
      <3>1. KeyAt(u, "type", b + 1)
        <4>1. /\ u[b + 1] = Json!Quote /\ u[b + 2] = "type" /\ u[b + 3] = Json!Quote /\ u[b + 4] = Json!Colon
          BY <1>4, Zenon DEF FieldStands
        <4>2. b + 1 + 1 = b + 2 /\ b + 1 + 2 = b + 3 /\ b + 1 + 3 = b + 4 /\ b + 1 + 3 <= Len(u) /\ b + 1 \in Nat \ {0}
          BY <1>10, <2>3, <2>4
        <4> QED BY <4>1, <4>2, Zenon DEF KeyAt
      <3>2. KeyAt(t, "type", b + 1)
        <4>1. (b + 1) + 3 <= Len(t)
          BY <2>3, <2>6
        <4> QED BY <1>1, <3>1, <4>1, TornKeys
      <3>3. FirstKey(t, "type", b, b + 1)
        BY <1>13, <2>3, <3>2 DEF FirstKey
      <3>4. y = FieldAt(t, b + 1)
        <4>1. b + 1 \in Nat
          BY <2>3
        <4> QED BY <1>1, <2>2, <2>3, <3>3, <4>1, FieldOfKey
      <3>5. /\ \/ y.value = << >>
               \/ y = [value |-> <<Json!Stub>>, pos |-> Len(t) + 1]
               \/ y = [value |-> <<ty>>, pos |-> b + 7]
               \/ y = [value |-> <<ty>>, pos |-> b + 8]
            /\ b + 7 <= Len(t) => y = [value |-> <<ty>>, pos |-> b + 8]
        BY <1>1, <1>3, <1>4, <1>5, <2>3, <2>6, <3>4, TypeFieldRead, SMTT(40)
      <3>6. ColumnFrom(t, pos) = [name |-> v, type |-> y.value]
        BY <2>1, Zenon DEF ColumnFrom, n, y
      <3>7. ASSUME y.pos \in {b + 7, b + 8} PROVE InReach(s, at, y.pos, c + 1)
        <4>1. y.pos <= at[c + 1] + 1
          BY <1>7, <3>7
        <4>2. ASSUME NEW d \in 1 .. K, d < c + 1 PROVE at[d] + 1 < y.pos
          <5>1. at[d] <= a
            <6>1. d = c \/ d < c
              BY <1>7, <4>2
            <6>2. CASE d = c
              BY <1>7, <6>2 DEF a
            <6>3. CASE d < c
              <7>1. at[d + 1] <= a /\ at[d + 1] = at[d] + Width(s, d) + 15 /\ Width(s, d) \in Nat /\ at[d] \in Nat
                BY <1>3, <1>6, <1>7, <6>3 DEF a
              <7> QED BY <1>7, <7>1
            <6> QED BY <6>1, <6>2, <6>3
          <5>2. at[d] \in Nat /\ a + 7 <= b
            BY <1>6, <1>7 DEF b
          <5> QED BY <1>7, <3>7, <5>1, <5>2
        <4> QED BY <4>1, <4>2, Zenon DEF InReach, K
      <3>8. ASSUME Len(t) = Len(u), v # << >>
            PROVE  ~Ended(t, pos) /\ ColumnFrom(t, pos) = [name |-> v, type |-> <<ty>>]
        <4>1. y = [value |-> <<ty>>, pos |-> b + 8]
          BY <2>3, <2>4, <3>5, <3>8
        <4>2. y.value = <<ty>> /\ y.value # << >>
          BY <4>1
        <4>3. ~Ended(t, pos)
          BY <2>1, <3>8, <4>2, Zenon DEF Ended, n, y
        <4> QED BY <3>6, <4>2, <4>3
      <3>9. CASE y.value = << >>
        BY <3>8, <3>9, Zenon DEF Ended, y, v, ty
      <3>10. CASE y = [value |-> <<Json!Stub>>, pos |-> Len(t) + 1]
        <4>1. y.value = <<Json!Stub>> /\ y.pos = Len(t) + 1
          BY <3>10
        <4> QED BY <3>6, <3>8, <4>1, Zenon DEF y, v, ty
      <3>11. CASE y = [value |-> <<ty>>, pos |-> b + 7] \/ y = [value |-> <<ty>>, pos |-> b + 8]
        <4>1. y.value = <<ty>> /\ y.pos \in {b + 7, b + 8}
          BY <3>11
        <4> QED BY <3>6, <3>7, <3>8, <4>1, Zenon DEF y, v, ty
      <3> QED BY <3>5, <3>9, <3>10, <3>11
    <2> QED BY <2>5, <2>6
  <1> QED BY <1>15, <1>16, <1>17

-----------------------------------------------------------------------------
(* All the columns read.                                                   *)

\* The columns c to m of a schema, as they are read.
ColumnRecord(s, c) == [name |-> s.columns[c].name, type |-> <<s.columns[c].type>>]
ColumnRecords(s, c, m) == [j \in 1 .. (m + 1 - c) |-> ColumnRecord(s, c + j - 1)]

\* What is read as a column.
ColumnTexts(A) == [name : Seq(A), type : Seq(A)]

\* The columns c to m have names, and the next one has none.
NamedUpTo(s, c, m) ==
  /\ \A d \in c .. m : s.columns[d].name # << >>
  /\ m < Len(s.columns) => s.columns[m + 1].name = << >>

\* What is read from column c on: a type that was cut short, or the columns
\* up to some m.
ReadAs(A, s, u, t, r, c) ==
  /\ r \in Seq(ColumnTexts(A))
  /\ \/ Len(t) # Len(u) /\ \E j \in DOMAIN r : r[j].type = <<Json!Stub>>
     \/ \E m \in (c - 1) .. Len(s.columns) :
          r = ColumnRecords(s, c, m) /\ (Len(t) = Len(u) => NamedUpTo(s, c, m))

\* A column in front of others.
LEMMA InFront ==
  ASSUME NEW C, NEW x \in C, NEW r \in Seq(C)
  PROVE  \A f : f = <<x>> \o r =>
           /\ f \in Seq(C) /\ Len(f) = Len(r) + 1 /\ f[1] = x
           /\ \A j \in 1 .. Len(r) : f[j + 1] = r[j]
PROOF
  <1> DEFINE h == <<x>>
             f == h \o r
  <1>1. h \in Seq(C) /\ Len(h) = 1 /\ h[1] = x /\ Len(r) \in Nat
    OBVIOUS
  <1> HIDE DEF h
  <1>2. /\ f \in Seq(C) /\ Len(f) = Len(h) + Len(r)
        /\ \A j \in 1 .. (Len(h) + Len(r)) : f[j] = IF j <= Len(h) THEN h[j] ELSE r[j - Len(h)]
    BY <1>1, ConcatProperties
  <1> HIDE DEF f
  <1>3. f[1] = x
    <2>1. 1 \in 1 .. (Len(h) + Len(r)) /\ 1 <= Len(h)
      BY <1>1
    <2> QED BY <1>1, <1>2, <2>1
  <1>4. ASSUME NEW j \in 1 .. Len(r) PROVE f[j + 1] = r[j]
    <2> DEFINE k == j + 1
    <2>1. k \in 1 .. (Len(h) + Len(r)) /\ ~(k <= Len(h)) /\ k - Len(h) = j
      BY <1>1
    <2> HIDE DEF k
    <2>2. f[k] = r[j]
      BY <1>2, <2>1
    <2> QED BY <2>2 DEF k
  <1>5. Len(f) = Len(r) + 1
    BY <1>1, <1>2
  <1> QED BY <1>2, <1>3, <1>4, <1>5 DEF f, h

\* The columns from c on are column c and those behind it.
LEMMA ColumnsInFront ==
  ASSUME NEW A, NEW s, NEW c \in Nat \ {0}, NEW m \in Nat, c <= m,
         \A d \in c .. m : ColumnRecord(s, d) \in ColumnTexts(A)
  PROVE  <<ColumnRecord(s, c)>> \o ColumnRecords(s, c + 1, m) = ColumnRecords(s, c, m)
PROOF
  <1> DEFINE C == ColumnTexts(A)
             x == ColumnRecord(s, c)
             r == ColumnRecords(s, c + 1, m)
             f == <<x>> \o r
             g == ColumnRecords(s, c, m)
             k == m - c
  <1>1. k \in Nat /\ m + 1 - (c + 1) = k /\ m + 1 - c = k + 1 /\ c \in c .. m
    OBVIOUS
  <1>2. r = [j \in 1 .. k |-> ColumnRecord(s, c + 1 + j - 1)] /\ g = [j \in 1 .. (k + 1) |-> ColumnRecord(s, c + j - 1)]
    BY <1>1, Zenon DEF ColumnRecords
  <1>3. \A j \in 1 .. k : c + 1 + j - 1 = c + j /\ c + j \in c .. m
    BY <1>1
  <1> HIDE DEF r, g, C, k
  <1>4. r \in [1 .. k -> C] /\ \A j \in 1 .. k : r[j] = ColumnRecord(s, c + j)
    BY <1>2, <1>3, Zenon DEF C
  <1>5. r \in Seq(C) /\ Len(r) = k
    BY <1>1, <1>4
  <1>6. x \in C
    BY <1>1 DEF C
  <1> HIDE DEF x
  <1>7. /\ f \in Seq(C) /\ Len(f) = Len(r) + 1 /\ f[1] = x
        /\ \A j \in 1 .. Len(r) : f[j + 1] = r[j]
    BY <1>5, <1>6, InFront
  <1> HIDE DEF f
  <1>8. f \in [1 .. (k + 1) -> C] /\ g = [j \in 1 .. (k + 1) |-> ColumnRecord(s, c + j - 1)]
    <2>1. f \in [1 .. (k + 1) -> C]
      BY <1>5, <1>7
    <2> QED BY <1>2, <2>1
  <1>9. ASSUME NEW i \in 1 .. (k + 1) PROVE f[i] = g[i]
    <2>1. g[i] = ColumnRecord(s, c + i - 1)
      BY <1>2, Zenon
    <2>2. CASE i = 1
      <3>1. c + i - 1 = c
        BY <2>2
      <3>2. g[i] = x
        BY <2>1, <3>1, Zenon DEF x
      <3> QED BY <1>7, <2>2, <3>2
    <2>3. CASE i # 1
      <3> DEFINE j == i - 1
      <3>1. j \in 1 .. k /\ j + 1 = i /\ c + i - 1 = c + j
        BY <1>1, <2>3
      <3>2. f[j + 1] = r[j]
        <4> HIDE DEF j
        <4> QED BY <1>5, <1>7, <3>1
      <3> HIDE DEF j
      <3> QED BY <1>4, <2>1, <3>1, <3>2, Zenon
    <2> QED BY <2>2, <2>3
  <1>10. f = g
    BY <1>8, <1>9
  <1> QED BY <1>10 DEF f, g, x, r

\* From wherever column c is the next in reach, it and those behind it are
\* read, up to one that has no name or is cut off.
LEMMA ColumnsRead ==
  ASSUME NEW A, NEW s, NEW u, NEW at, NEW t, TornFrom(A, s, u, at, t),
         NEW start \in 1 .. (Len(t) + 1), NEW columns,
         \A pos \in start .. (Len(t) + 1) : ReadsColumns(columns, t, pos)
  PROVE  \A c \in 1 .. (Len(s.columns) + 1) : \A pos \in start .. (Len(t) + 1) :
           InReach(s, at, pos, c) => ReadAs(A, s, u, t, columns[pos], c)
PROOF
  <1> DEFINE K == Len(s.columns)
             H == Len(t) + 1
             C == ColumnTexts(A)
             S == {c \in 1 .. (K + 1) : \A pos \in start .. H :
                     InReach(s, at, pos, c) => ReadAs(A, s, u, t, columns[pos], c)}
  <1>1. /\ Words(A) /\ SchemaOver(A, s) /\ TypesPlain(s) /\ u \in Seq(A) /\ Laid(u, s, at)
        /\ t \in Seq(A)
    BY Zenon DEF TornFrom
  <1>2. LaidOut(A, s, u, at)
    BY <1>1, Layout
  <1>3. /\ K \in Nat
        /\ \A c \in 1 .. K : s.columns[c].name \in Seq(A) /\ s.columns[c].type \in A
    BY <1>2, Zenon DEF LaidOut
  <1>4. Len(t) \in Nat /\ H \in Nat \ {0} /\ Json!Stub \in A
    BY <1>1 DEF Words
  <1>5. \A d \in 1 .. K : ColumnRecord(s, d) \in C /\ ColumnRecord(s, d).name = s.columns[d].name
    BY <1>3 DEF ColumnRecord, ColumnTexts
  <1>6. << >> \in Seq(C)
    OBVIOUS
  <1> HIDE DEF K, H, C
  <1>7. ASSUME NEW pos \in start .. H, Ended(t, pos) PROVE columns[pos] = << >>
    BY <1>7, Zenon DEF ReadsColumns, H
  <1>8. ASSUME NEW c \in 1 .. (K + 1), NEW pos \in start .. H, columns[pos] = << >>,
               Len(t) = Len(u) => (c <= K => s.columns[c].name = << >>)
        PROVE  ReadAs(A, s, u, t, columns[pos], c)
    <2> DEFINE m == c - 1
    <2>1. m \in (c - 1) .. K /\ m + 1 - c = 0 /\ m + 1 = c /\ c .. m = {} /\ (m < K => c <= K)
      BY <1>3
    <2> HIDE DEF m
    <2>2. ColumnRecords(s, c, m) = [j \in 1 .. 0 |-> ColumnRecord(s, c + j - 1)]
      BY <2>1, Zenon DEF ColumnRecords
    <2>3. ColumnRecords(s, c, m) = << >>
      BY <2>2
    <2>4. Len(t) = Len(u) => NamedUpTo(s, c, m)
      BY <1>8, <2>1 DEF NamedUpTo, K
    <2> QED BY <1>6, <1>8, <2>1, <2>3, <2>4, Zenon DEF ReadAs, K, C
  <1>9. ASSUME NEW pos \in start .. H, ~Ended(t, pos)
        PROVE  /\ columns[pos] = <<ColumnFrom(t, pos)>> \o columns[TypeFrom(t, pos).pos]
               /\ TypeFrom(t, pos).pos \in start .. H /\ ColumnFrom(t, pos) \in C
    <2> DEFINE n == NameFrom(t, pos)
               y == TypeFrom(t, pos)
    <2>1. pos \in 1 .. H
      BY <1>4
    <2>2. n \in Strings(A) /\ n.pos \in pos .. H
      BY <1>1, <2>1, FieldEnds, Zenon DEF NameFrom, H
    <2>3. n.pos \in 1 .. H
      BY <2>1, <2>2
    <2>4. y \in Strings(A) /\ y.pos \in n.pos .. H
      BY <1>1, <2>3, FieldEnds, Zenon DEF TypeFrom, H
    <2> HIDE DEF n, y
    <2>5. y.pos \in start .. H
      BY <1>4, <2>2, <2>4
    <2>6. ColumnFrom(t, pos) \in C
      BY <2>2, <2>4 DEF ColumnFrom, C, ColumnTexts, Strings, n, y
    <2>7. columns[pos] = <<ColumnFrom(t, pos)>> \o columns[y.pos]
      BY <1>9, Zenon DEF ReadsColumns, H, y
    <2> QED BY <2>5, <2>6, <2>7 DEF y
  <1>10. ASSUME NEW c \in 1 .. (K + 1), \A k \in 1 .. (K + 1) : c < k => k \in S
         PROVE  c \in S
    <2> SUFFICES ASSUME NEW pos \in start .. H, InReach(s, at, pos, c)
                 PROVE  ReadAs(A, s, u, t, columns[pos], c)
      OBVIOUS
    <2>0. pos \in 1 .. H /\ pos \in Nat \ {0}
      BY <1>4
    <2>1. CASE c = K + 1
      <3>1. \A d \in 1 .. K : at[d] + 1 < pos
        <4>1. \A d \in 1 .. K : d < K + 1
          BY <1>3
        <4> QED BY <2>1, <4>1, Zenon DEF InReach, K
      <3>2. Ended(t, pos)
        BY <2>0, <3>1, NoColumnLeft DEF K
      <3>3. ~(c <= K)
        BY <1>3, <2>1
      <3> QED BY <1>7, <1>8, <3>2, <3>3
    <2>2. CASE c # K + 1
      <3> DEFINE y == TypeFrom(t, pos)
                 x == ColumnFrom(t, pos)
                 r == columns[y.pos]
                 f == columns[pos]
                 ty == s.columns[c].type
                 uncut == Len(t) = Len(u)
                 next == c + 1
      <3>1. c \in 1 .. K /\ next \in 1 .. (K + 1) /\ c < next /\ c <= K
        BY <1>3, <2>2
      <3>2. /\ \/ Ended(t, pos)
               \/ x = [name |-> s.columns[c].name, type |-> <<Json!Stub>>] /\ y.pos = H
               \/ /\ x = [name |-> s.columns[c].name, type |-> <<ty>>]
                  /\ InReach(s, at, y.pos, next)
            /\ uncut /\ s.columns[c].name # << >> =>
                 ~Ended(t, pos) /\ x = [name |-> s.columns[c].name, type |-> <<ty>>]
        <4>1. c \in 1 .. Len(s.columns) /\ pos \in 1 .. (Len(t) + 1) /\ InReach(s, at, pos, c)
          BY <2>0, <3>1 DEF K, H
        <4> QED BY <4>1, ColumnRead DEF H
      <3>3. CASE Ended(t, pos)
        <4>1. uncut => s.columns[c].name = << >>
          BY <3>2, <3>3
        <4> QED BY <1>7, <1>8, <3>3, <4>1
      <3>4. ASSUME ~Ended(t, pos)
            PROVE  f = <<x>> \o r /\ y.pos \in start .. H /\ x \in C /\ x.name # << >>
        <4>1. x.name # << >>
          <5>1. x.name = NameFrom(t, pos).value
            BY DEF ColumnFrom
          <5> QED BY <3>4, <5>1, Zenon DEF Ended
        <4> QED BY <1>9, <3>4, <4>1
      <3>5. CASE ~Ended(t, pos) /\ x = [name |-> s.columns[c].name, type |-> <<Json!Stub>>] /\ y.pos = H
        <4>1. x.type = <<Json!Stub>> /\ x.name = s.columns[c].name
          BY <3>5
        <4>2. ~uncut
          <5> SUFFICES ASSUME uncut PROVE FALSE
            OBVIOUS
          <5>1. x = [name |-> s.columns[c].name, type |-> <<ty>>]
            BY <3>2, <3>4, <3>5, <4>1
          <5>2. x.type = <<ty>>
            BY <5>1
          <5>3. <<ty>> = <<Json!Stub>>
            BY <4>1, <5>2
          <5>4. ty = Json!Stub
            BY <5>3
          <5> QED BY <1>1, <3>1, <5>4 DEF TypesPlain, K
        <4>3. r = << >>
          <5>1. H \in start .. H /\ H > Len(t) /\ H \in Nat \ {0}
            BY <1>4, <2>0 DEF H
          <5>2. Ended(t, H)
            BY <5>1, NoColumnLeft
          <5> QED BY <1>7, <3>5, <5>1, <5>2
        <4> HIDE DEF x, y, r, f
        <4>4. r \in Seq(C)
          BY <1>6, <4>3
        <4>5. f \in Seq(C) /\ Len(f) = Len(r) + 1 /\ f[1] = x
          <5>1. x \in C /\ f = <<x>> \o r
            BY <3>4, <3>5
          <5> HIDE DEF r
          <5> QED BY <4>4, <5>1, InFront
        <4>6. 1 \in DOMAIN f
          BY <4>3, <4>5
        <4>7. \E j \in DOMAIN f : f[j].type = <<Json!Stub>>
          BY <4>1, <4>5, <4>6
        <4> QED BY <4>2, <4>5, <4>7, Zenon DEF ReadAs, f, C
      <3>6. CASE ~Ended(t, pos) /\ x = [name |-> s.columns[c].name, type |-> <<ty>>]
                 /\ InReach(s, at, y.pos, next)
        <4>1. x = ColumnRecord(s, c) /\ s.columns[c].name # << >>
          <5>1. x = ColumnRecord(s, c)
            BY <3>6, Zenon DEF ColumnRecord
          <5> QED BY <1>5, <3>1, <3>4, <3>6, <5>1
        <4> HIDE DEF x, y, f, next
        <4>2. ReadAs(A, s, u, t, r, next)
          <5>1. next \in S
            BY <1>10, <3>1
          <5>2. y.pos \in start .. H
            BY <3>4, <3>6
          <5> QED BY <3>6, <5>1, <5>2, Zenon
        <4> HIDE DEF r, S
        <4>3. r \in Seq(C)
          BY <4>2, Zenon DEF ReadAs, C
        <4>4. /\ f \in Seq(C) /\ Len(f) = Len(r) + 1
              /\ \A j \in 1 .. Len(r) : f[j + 1] = r[j]
          <5>1. x \in C /\ f = <<x>> \o r
            BY <3>4, <3>6
          <5> QED BY <4>3, <5>1, InFront
        <4>5. CASE Len(t) # Len(u) /\ \E j \in DOMAIN r : r[j].type = <<Json!Stub>>
          <5>1. PICK j \in DOMAIN r : r[j].type = <<Json!Stub>>
            BY <4>5
          <5> DEFINE k == j + 1
          <5>2. j \in 1 .. Len(r) /\ k \in DOMAIN f
            BY <4>3, <4>4
          <5>3. f[k] = r[j]
            BY <4>4, <5>2
          <5> HIDE DEF k
          <5>4. \E i \in DOMAIN f : f[i].type = <<Json!Stub>>
            BY <5>1, <5>2, <5>3
          <5> QED BY <4>4, <4>5, <5>4, Zenon DEF ReadAs, f, C
        <4>6. CASE \E m \in (next - 1) .. Len(s.columns) :
                     r = ColumnRecords(s, next, m) /\ (Len(t) = Len(u) => NamedUpTo(s, next, m))
          <5>1. PICK m \in (next - 1) .. Len(s.columns) :
                     r = ColumnRecords(s, next, m) /\ (Len(t) = Len(u) => NamedUpTo(s, next, m))
            BY <4>6
          <5>2. m \in c .. K /\ m \in (c - 1) .. K /\ c \in Nat \ {0} /\ m \in Nat /\ c <= m
                /\ \A d \in c .. m : d \in 1 .. K
            BY <1>3, <3>1 DEF next, K
          <5>3. \A d \in c .. m : ColumnRecord(s, d) \in ColumnTexts(A)
            BY <1>5, <5>2 DEF C
          <5>4. <<ColumnRecord(s, c)>> \o ColumnRecords(s, c + 1, m) = ColumnRecords(s, c, m)
            BY <5>2, <5>3, ColumnsInFront
          <5>5. f = ColumnRecords(s, c, m)
            BY <3>4, <3>6, <4>1, <5>1, <5>4, Zenon DEF next
          <5>6. ASSUME Len(t) = Len(u) PROVE NamedUpTo(s, c, m)
            <6>1. NamedUpTo(s, next, m)
              BY <5>1, <5>6
            <6>2. \A d \in c .. m : d = c \/ d \in next .. m
              BY <5>2 DEF next
            <6> QED BY <4>1, <6>1, <6>2, Zenon DEF NamedUpTo
          <5> QED BY <4>4, <5>2, <5>5, <5>6, Zenon DEF ReadAs, f, C, K
        <4> QED BY <4>2, <4>5, <4>6, Zenon DEF ReadAs
      <3> QED BY <3>2, <3>3, <3>5, <3>6, Zenon
    <2> QED BY <2>1, <2>2
  <1>11. \A c \in 1 .. (K + 1) : c \in S
    <2>1. 1 \in Nat /\ K + 1 \in Nat
      BY <1>3
    <2> HIDE DEF S
    <2> QED BY <1>10, <2>1, Downwards
  <1> QED BY <1>11 DEF S, K, H

-----------------------------------------------------------------------------
(* A text parsed.                                                          *)

\* The places of the list of columns, and what is read from the first one.
Heads(t) == {p \in 1 .. (Len(t) - 2) : SubSeq(t, p, p + 2) = <<Json!Quote, "columns", Json!Quote>>}
AllColumns(t) == IF Heads(t) = {} THEN << >> ELSE Json!ColumnsFrom(t, Min(Heads(t)))

\* Where the list is headed.
LEMMA HeadAt ==
  ASSUME NEW A, NEW t \in Seq(A), NEW p \in Nat \ {0}, p + 2 <= Len(t),
         t[p] = Json!Quote, t[p + 1] = "columns", t[p + 2] = Json!Quote
  PROVE  p \in Heads(t)
PROOF
  <1> DEFINE n == Len(t)
             h == <<Json!Quote, "columns", Json!Quote>>
  <1>1. n \in Nat /\ p \in 1 .. (n - 2) /\ p \in 1 .. n /\ p + 2 \in 1 .. n /\ (p + 2) - p + 1 = 3
    OBVIOUS
  <1>2. SubSeq(t, p, p + 2) = [k \in 1 .. 3 |-> t[p + k - 1]]
    BY <1>1
  <1>3. h = [k \in 1 .. 3 |-> h[k]] /\ h[1] = Json!Quote /\ h[2] = "columns" /\ h[3] = Json!Quote
    OBVIOUS
  <1>4. 1 .. 3 = {1, 2, 3} /\ p + 1 - 1 = p /\ p + 2 - 1 = p + 1 /\ p + 3 - 1 = p + 2
    OBVIOUS
  <1> HIDE DEF h
  <1>5. \A k \in 1 .. 3 : t[p + k - 1] = h[k]
    BY <1>3, <1>4
  <1>6. SubSeq(t, p, p + 2) = h
    BY <1>2, <1>3, <1>5
  <1> QED BY <1>1, <1>6, Zenon DEF Heads, h

\* The list is read from its head or from before it, and is missing only
\* from a text that was cut short.
LEMMA AllColumnsRead ==
  ASSUME NEW A, NEW s, NEW u, NEW at, NEW t, TornFrom(A, s, u, at, t)
  PROVE  ReadAs(A, s, u, t, AllColumns(t), 1)
PROOF
  <1> DEFINE w == Len(Json!Escaped(s.table))
             K == Len(s.columns)
             n == Len(t)
             head == w + 9
             first == Min(Heads(t))
  <1>1. /\ Words(A) /\ SchemaOver(A, s) /\ TypesPlain(s) /\ u \in Seq(A) /\ Laid(u, s, at)
        /\ t \in Seq(A) /\ Torn(t, u)
    BY Zenon DEF TornFrom
  <1>2. LaidOut(A, s, u, at)
    BY <1>1, Layout
  <1>3. /\ K \in Nat /\ at \in [1 .. (K + 1) -> Nat] /\ Len(u) = at[K + 1] /\ at[1] = w + 13 /\ w \in Nat
        /\ \A d \in 1 .. K, d2 \in 1 .. (K + 1) : d < d2 => at[d + 1] <= at[d2]
        /\ \A d \in 1 .. K : at[d + 1] = at[d] + Width(s, d) + 15 /\ Width(s, d) \in Nat
    BY <1>2, Zenon DEF LaidOut
  <1>4. u[w + 9] = Json!Quote /\ u[w + 10] = "columns" /\ u[w + 11] = Json!Quote
    BY <1>1, Zenon DEF Laid
  <1>5. n \in Nat /\ Len(u) \in Nat /\ n <= Len(u)
    BY <1>1 DEF Torn
  <1>6. w + 13 <= Len(u)
    <2>1. CASE K = 0
      BY <1>3, <2>1
    <2>2. CASE K # 0
      <3> DEFINE one == 1
                 last == K + 1
      <3>1. one \in 1 .. K /\ last \in 1 .. last /\ one < last /\ one \in 1 .. last /\ one + 1 \in 1 .. last
        BY <1>3, <2>2
      <3>2. at[one] = w + 13
        BY <1>3
      <3> HIDE DEF one, last
      <3>3. at[one + 1] <= at[last] /\ at[one + 1] = at[one] + Width(s, one) + 15
        BY <1>3, <3>1 DEF last
      <3>4. Width(s, one) \in Nat /\ Len(u) = at[last] /\ at[one + 1] \in Nat
        BY <1>3, <3>1 DEF last
      <3> QED BY <1>3, <1>5, <3>2, <3>3, <3>4
    <2> QED BY <2>1, <2>2
  <1> HIDE DEF w, n
  <1>7. ASSUME w + 11 <= n PROVE head \in Heads(t)
    <2>1. head \in Nat \ {0} /\ head + 2 <= n /\ head + 1 = w + 10 /\ head + 2 = w + 11
      BY <1>3, <1>7
    <2>2. /\ w + 9 \in 1 .. n /\ w + 10 \in 1 .. n /\ w + 11 \in 1 .. n
          /\ w + 9 # n /\ w + 10 # n
      BY <1>3, <1>5, <1>7
    <2>3. Json!Quote \in Structure
      BY DEF Structure
    <2>4. t[w + 9] = Json!Quote /\ t[w + 10] = "columns" /\ t[w + 11] = Json!Quote
      BY <1>1, <1>4, <2>2, <2>3, Zenon DEF Torn, n
    <2> HIDE DEF head
    <2>5. t[head] = Json!Quote /\ t[head + 1] = "columns" /\ t[head + 2] = Json!Quote
      BY <2>1, <2>4 DEF head
    <2> QED BY <1>1, <2>1, <2>5, HeadAt DEF n
  <1>8. Heads(t) \in SUBSET Nat /\ \A p \in Heads(t) : p \in 1 .. (n - 2)
    BY <1>5 DEF Heads, n
  <1>9. CASE Heads(t) = {}
    <2> DEFINE m == 0
               C == ColumnTexts(A)
    <2>1. AllColumns(t) = << >>
      BY <1>9, Zenon DEF AllColumns
    <2>2. Len(t) # Len(u)
      BY <1>3, <1>5, <1>6, <1>7, <1>9 DEF n
    <2>3. m \in (1 - 1) .. K /\ m + 1 - 1 = 0
      BY <1>3
    <2> HIDE DEF m, C
    <2>4. ColumnRecords(s, 1, m) = [j \in 1 .. 0 |-> ColumnRecord(s, 1 + j - 1)]
      BY <2>3, Zenon DEF ColumnRecords
    <2>5. ColumnRecords(s, 1, m) = << >>
      BY <2>4
    <2>6. << >> \in Seq(C)
      OBVIOUS
    <2> QED BY <2>1, <2>2, <2>3, <2>5, <2>6, Zenon DEF ReadAs, K, C
  <1>10. CASE Heads(t) # {}
    <2>1. first \in Heads(t) /\ \A p \in Heads(t) : first <= p
      BY <1>8, <1>10, LeastNumber
    <2> HIDE DEF first
    <2>2. first \in 1 .. (n + 1) /\ first <= w + 14
      <3>1. first \in 1 .. (n - 2)
        BY <1>8, <2>1
      <3>2. CASE w + 11 <= n
        <4>1. first <= head
          BY <1>7, <2>1, <3>2
        <4> QED BY <1>3, <1>5, <3>1, <4>1
      <3>3. CASE ~(w + 11 <= n)
        BY <1>3, <1>5, <3>1, <3>3
      <3> QED BY <3>2, <3>3
    <2>3. InReach(s, at, first, 1)
      <3>1. first <= at[1] + 1
        BY <1>3, <2>2
      <3>2. \A d \in 1 .. K : ~(d < 1)
        BY <1>3
      <3> QED BY <3>1, <3>2, Zenon DEF InReach, K
    <2>4. first \in 1 .. (Len(t) + 1)
      BY <2>2 DEF n
    <2>5. PICK columns : /\ Json!ColumnsFrom(t, first) = columns[first]
                         /\ \A pos \in first .. (Len(t) + 1) : ReadsColumns(columns, t, pos)
      BY <1>1, <2>4, ColumnsUnfold
    <2> DEFINE one == 1
    <2>6. one \in 1 .. (Len(s.columns) + 1) /\ first \in first .. (Len(t) + 1)
      BY <1>3, <2>4 DEF K
    <2> HIDE DEF one
    <2>7. \A c \in 1 .. (Len(s.columns) + 1) : \A pos \in first .. (Len(t) + 1) :
            InReach(s, at, pos, c) => ReadAs(A, s, u, t, columns[pos], c)
      BY <2>4, <2>5, ColumnsRead
    <2>8. ReadAs(A, s, u, t, columns[first], one)
      BY <2>3, <2>6, <2>7, Zenon DEF one
    <2>9. AllColumns(t) = columns[first]
      BY <1>10, <2>5, Zenon DEF AllColumns, first
    <2> QED BY <2>8, <2>9, Zenon DEF one
  <1> QED BY <1>9, <1>10

\* The first m columns of the schema, without another one if the text is whole.
FirstColumns(s, u, t, parsed, m) ==
  /\ parsed = [kind |-> "schema", table |-> Json!Field(t, "table_name", 1).value,
               columns |-> SubSeq(s.columns, 1, m)]
  /\ Len(t) = Len(u) => NamedUpTo(s, 1, m)

\* What load_schema makes of a text: an exception, if a type was cut short;
\* otherwise the first columns of the schema.
IsParsed(s, u, t, parsed) ==
  \/ Len(t) # Len(u) /\ parsed = Json!Thrown
  \/ \E m \in 0 .. Len(s.columns) : FirstColumns(s, u, t, parsed, m)

\* The parser makes that of a text that was torn.
LEMMA ParsedAs ==
  ASSUME NEW A, NEW s, NEW u, NEW at, NEW t, TornFrom(A, s, u, at, t),
         s.columns \in Seq([name : TextNames, type : TypeWords])
  PROVE  IsParsed(s, u, t, Json!Parsed(t))
PROOF
  <1> DEFINE r == AllColumns(t)
             K == Len(s.columns)
             known == {<<x>> : x \in TypeWords}
             plain == [c \in DOMAIN r |-> [name |-> r[c].name, type |-> r[c].type[1]]]
             title == Json!Field(t, "table_name", 1).value
  <1>1. Json!Parsed(t) = IF \E c \in DOMAIN r : r[c].type \notin known THEN Json!Thrown
                         ELSE [kind |-> "schema", table |-> title, columns |-> plain]
    <2>1. Json!Min(Heads(t)) = Min(Heads(t))
      BY Zenon DEF Json!Min, Min
    <2> QED BY <2>1, Zenon DEF Json!Parsed, AllColumns, Heads
  <1>2. ReadAs(A, s, u, t, r, 1)
    BY AllColumnsRead
  <1>3. K \in Nat /\ \A c \in 1 .. K : s.columns[c] \in [name : TextNames, type : TypeWords]
    <2> DEFINE cs == s.columns
               R == [name : TextNames, type : TypeWords]
    <2>1. cs \in Seq(R)
      OBVIOUS
    <2> HIDE DEF cs, R
    <2>2. Len(cs) \in Nat /\ \A c \in 1 .. Len(cs) : cs[c] \in R
      BY <2>1
    <2> QED BY <2>2, Zenon DEF cs, R
  <1>4. Json!Stub \notin TypeWords
    BY SchemaAssumption
  <1> HIDE DEF r, known, title
  <1>5. CASE Len(t) # Len(u) /\ \E j \in DOMAIN r : r[j].type = <<Json!Stub>>
    <2>1. <<Json!Stub>> \notin known
      <3> SUFFICES ASSUME NEW x \in TypeWords, <<Json!Stub>> = <<x>> PROVE FALSE
        BY DEF known
      <3>1. x = Json!Stub
        OBVIOUS
      <3> QED BY <1>4, <3>1
    <2>2. \E c \in DOMAIN r : r[c].type \notin known
      BY <1>5, <2>1, Zenon
    <2> QED BY <1>1, <1>5, <2>2, Zenon DEF IsParsed
  <1>6. CASE \E m \in (1 - 1) .. Len(s.columns) :
               r = ColumnRecords(s, 1, m) /\ (Len(t) = Len(u) => NamedUpTo(s, 1, m))
    <2>1. PICK m \in (1 - 1) .. Len(s.columns) :
               r = ColumnRecords(s, 1, m) /\ (Len(t) = Len(u) => NamedUpTo(s, 1, m))
      BY <1>6
    <2>2. m \in 0 .. K /\ m + 1 - 1 = m /\ \A j \in 1 .. m : 1 + j - 1 = j /\ j \in 1 .. K
      BY <1>3, <2>1
    <2>3. r = [j \in 1 .. m |-> ColumnRecord(s, 1 + j - 1)]
      BY <2>1, <2>2, Zenon DEF ColumnRecords
    <2>4. DOMAIN r = 1 .. m /\ \A j \in 1 .. m : r[j] = ColumnRecord(s, j)
      BY <2>2, <2>3, Zenon
    <2>5. ASSUME NEW j \in 1 .. m
          PROVE  r[j].type \in known /\ [name |-> r[j].name, type |-> r[j].type[1]] = s.columns[j]
      <3>1. s.columns[j] \in [name : TextNames, type : TypeWords]
        BY <1>3, <2>2
      <3>2. r[j] = [name |-> s.columns[j].name, type |-> <<s.columns[j].type>>]
        BY <2>4, Zenon DEF ColumnRecord
      <3>3. r[j].name = s.columns[j].name /\ r[j].type = <<s.columns[j].type>>
        BY <3>2
      <3>4. r[j].type[1] = s.columns[j].type
        BY <3>3
      <3>5. s.columns[j] = [name |-> s.columns[j].name, type |-> s.columns[j].type]
            /\ s.columns[j].type \in TypeWords
        BY <3>1
      <3>6. r[j].type \in known
        BY <3>3, <3>5, Zenon DEF known
      <3> QED BY <3>3, <3>4, <3>5, <3>6, Zenon
    <2>6. ~\E c \in DOMAIN r : r[c].type \notin known
      BY <2>4, <2>5, Zenon
    <2>7. plain = [j \in 1 .. m |-> s.columns[j]]
      BY <2>4, <2>5, Zenon
    <2>8. SubSeq(s.columns, 1, m) = [j \in 1 .. m |-> s.columns[j]]
      <3> DEFINE cs == s.columns
                 R == [name : TextNames, type : TypeWords]
      <3>1. cs \in Seq(R) /\ Len(cs) \in Nat /\ m \in 0 .. Len(cs)
        BY <1>3, <2>2
      <3> HIDE DEF cs, R
      <3>2. SubSeq(cs, 1, m) = [j \in 1 .. m |-> cs[j]]
        BY <3>1
      <3> QED BY <3>2 DEF cs
    <2> HIDE DEF plain
    <2>9. Json!Parsed(t) = [kind |-> "schema", table |-> title, columns |-> SubSeq(s.columns, 1, m)]
      BY <1>1, <2>6, <2>7, <2>8, Zenon
    <2>10. FirstColumns(s, u, t, Json!Parsed(t), m)
      BY <2>1, <2>9, Zenon DEF title, FirstColumns
    <2> QED BY <2>2, <2>10, Zenon DEF K, IsParsed
  <1> QED BY <1>2, <1>5, <1>6, Zenon DEF ReadAs

\* The name of the table is read from a whole text.
LEMMA TableRead ==
  ASSUME NEW A, NEW s, NEW u, NEW at, TornFrom(A, s, u, at, u)
  PROVE  Json!Field(u, "table_name", 1).value = s.table
PROOF
  <1> DEFINE e == Json!Escaped(s.table)
             w == Len(e)
             K == Len(s.columns)
             one == 1
  <1>1. /\ Words(A) /\ SchemaOver(A, s) /\ TypesPlain(s) /\ u \in Seq(A) /\ Laid(u, s, at) /\ Torn(u, u)
    BY Zenon DEF TornFrom
  <1>2. LaidOut(A, s, u, at)
    BY <1>1, Layout
  <1>3. /\ K \in Nat /\ Len(u) = at[K + 1] /\ at[1] = w + 13 /\ w \in Nat
        /\ at \in [1 .. (K + 1) -> Nat]
        /\ \A d \in 1 .. K, d2 \in 1 .. (K + 1) : d < d2 => at[d + 1] <= at[d2]
        /\ \A d \in 1 .. K : at[d + 1] = at[d] + Width(s, d) + 15 /\ Width(s, d) \in Nat
    BY <1>2, Zenon DEF LaidOut
  <1>4. FieldStands(u, "table_name", e, one)
    BY <1>1, Zenon DEF Laid
  <1>5. s.table \in Seq(A)
    BY <1>1, Zenon DEF SchemaOver
  <1> HIDE DEF e, w
  <1>6. w + 13 <= Len(u) /\ Len(u) \in Nat
    <2>1. CASE K = 0
      BY <1>1, <1>3, <2>1
    <2>2. CASE K # 0
      <3> DEFINE last == K + 1
      <3>1. one \in 1 .. K /\ last \in 1 .. last /\ one < last /\ one \in 1 .. last /\ one + 1 \in 1 .. last
        BY <1>3, <2>2
      <3>2. at[one] = w + 13
        BY <1>3
      <3> HIDE DEF one, last
      <3>3. at[one + 1] <= at[last] /\ at[one + 1] = at[one] + Width(s, one) + 15
        BY <1>3, <3>1 DEF last
      <3>4. Width(s, one) \in Nat /\ Len(u) = at[last] /\ at[one + 1] \in Nat /\ Len(u) \in Nat
        BY <1>1, <1>3, <3>1 DEF last
      <3> QED BY <1>3, <3>2, <3>3, <3>4
    <2> QED BY <2>1, <2>2
  <1>7. FirstKey(u, "table_name", 1, 2)
    <2>1. /\ u[2] = Json!Quote /\ u[3] = "table_name" /\ u[4] = Json!Quote /\ u[5] = Json!Colon
      <3>1. one + 1 = 2 /\ one + 2 = 3 /\ one + 3 = 4 /\ one + 4 = 5
        OBVIOUS
      <3> HIDE DEF one
      <3> QED BY <1>4, <3>1 DEF FieldStands
    <2>2. KeyAt(u, "table_name", 2)
      <3>1. 2 \in Nat \ {0} /\ 2 + 3 <= Len(u) /\ 2 + 1 = 3 /\ 2 + 2 = 4 /\ 2 + 3 = 5
        BY <1>3, <1>6
      <3> QED BY <2>1, <3>1 DEF KeyAt
    <2>3. \A q : KeyAt(u, "table_name", q) => q = 2
      <3>1. "table_name" # "columns" /\ "table_name" # "name" /\ "table_name" # "type"
        OBVIOUS
      <3> QED BY <1>1, <3>1, KeyPlaces
    <2> QED BY <2>2, <2>3 DEF FirstKey
  <1>8. Json!Field(u, "table_name", 1) = FieldAt(u, 2)
    <2>1. 1 \in Nat \ {0} /\ 2 \in Nat
      OBVIOUS
    <2> QED BY <1>1, <1>7, <2>1, FieldOfKey
  <1>9. FieldAt(u, one + 1) = [value |-> s.table, pos |-> one + 7 + Len(Json!Escaped(s.table))]
    <2>1. one \in Nat \ {0} /\ one + 4 <= Len(u) /\ one + 6 + w <= Len(u)
      BY <1>3, <1>6
    <2> HIDE DEF one
    <2>2. FieldStands(u, "table_name", Json!Escaped(s.table), one)
      BY <1>4 DEF e
    <2> QED BY <1>1, <1>5, <2>1, <2>2, NameFieldRead DEF e, w
  <1>10. FieldAt(u, 2).value = s.table
    <2>1. one + 1 = 2
      OBVIOUS
    <2>2. FieldAt(u, 2) = [value |-> s.table, pos |-> one + 7 + Len(Json!Escaped(s.table))]
      BY <1>9, <2>1, Zenon
    <2> QED BY <2>2
  <1> QED BY <1>8, <1>10

-----------------------------------------------------------------------------
(* schema.json, created, torn and loaded.                                  *)

\* What is left of a text that was not written to its end.
LEMMA TornTextsTorn ==
  ASSUME NEW A, Json!Stub \in A, NEW u \in Seq(A), NEW t \in Json!TornTexts(u)
  PROVE  t \in Seq(A) /\ Torn(t, u)
PROOF
  <1> DEFINE n == Len(u)
  <1>1. n \in Nat /\ DOMAIN u = 1 .. n
    OBVIOUS
  <1>2. ASSUME NEW m \in 0 .. n
        PROVE  /\ SubSeq(u, 1, m) \in Seq(A) /\ Len(SubSeq(u, 1, m)) = m
               /\ \A k \in 1 .. m : SubSeq(u, 1, m)[k] = u[k]
    <2> DEFINE x == SubSeq(u, 1, m)
    <2>1. x = [k \in 1 .. m |-> u[k]]
      BY <1>1
    <2>2. \A k \in 1 .. m : u[k] \in A
      BY <1>1
    <2> HIDE DEF x
    <2>3. x \in [1 .. m -> A] /\ \A k \in 1 .. m : x[k] = u[k]
      BY <2>1, <2>2
    <2>4. x \in Seq(A) /\ Len(x) = m
      BY <2>3
    <2> QED BY <2>3, <2>4 DEF x
  <1>3. CASE \E m \in 0 .. (n - 1) : t = SubSeq(u, 1, m)
    <2>1. PICK m \in 0 .. (n - 1) : t = SubSeq(u, 1, m)
      BY <1>3
    <2>2. m \in 0 .. n
      BY <1>1
    <2>3. t \in Seq(A) /\ Len(t) = m /\ \A k \in 1 .. m : t[k] = u[k]
      BY <1>2, <2>1, <2>2
    <2> QED BY <1>1, <2>2, <2>3 DEF Torn
  <1>4. CASE \E k \in DOMAIN u : /\ u[k] \notin {Json!Quote, Json!Backslash, Json!Colon, Json!Other}
                                 /\ t = Append(SubSeq(u, 1, k - 1), Json!Stub)
    <2>1. PICK k \in DOMAIN u : /\ u[k] \notin {Json!Quote, Json!Backslash, Json!Colon, Json!Other}
                                /\ t = Append(SubSeq(u, 1, k - 1), Json!Stub)
      BY <1>4
    <2> DEFINE m == k - 1
               x == SubSeq(u, 1, m)
    <2>2. m \in 0 .. n /\ m + 1 = k /\ k \in 1 .. n
      BY <1>1
    <2> HIDE DEF m
    <2>3. x \in Seq(A) /\ Len(x) = m /\ \A j \in 1 .. m : x[j] = u[j]
      BY <1>2, <2>2
    <2>4. t = Append(x, Json!Stub)
      BY <2>1 DEF m
    <2> HIDE DEF x
    <2>5. t \in Seq(A) /\ Len(t) = k /\ t[k] = Json!Stub /\ \A j \in 1 .. m : t[j] = x[j]
      <3>1. /\ t \in Seq(A) /\ Len(t) = Len(x) + 1 /\ t[Len(x) + 1] = Json!Stub
            /\ \A j \in 1 .. Len(x) : t[j] = x[j]
        BY <2>3, <2>4, AppendProperties
      <3> QED BY <2>2, <2>3, <3>1
    <2>6. \A j \in 1 .. k : j = k \/ j \in 1 .. m
      BY <2>2
    <2>7. u[k] \notin Structure
      BY <2>1 DEF Structure
    <2>8. \A j \in 1 .. Len(t) : t[j] = u[j] \/ (j = Len(t) /\ t[j] = Json!Stub /\ u[j] \notin Structure)
      BY <2>3, <2>5, <2>6, <2>7
    <2>9. Len(t) <= Len(u)
      BY <1>1, <2>2, <2>5
    <2> QED BY <2>5, <2>8, <2>9, Zenon DEF Torn
  <1> QED BY <1>3, <1>4, Zenon DEF Json!TornTexts

\* The symbols of all texts.
AllSymbols ==
  (UNION {Range(n) : n \in TextNames}) \cup TypeWords \cup Structure
  \cup {"table_name", "columns", "name", "type", Json!Stub}

\* A schema that was created is made of them.
LEMMA CreatedOver ==
  ASSUME NEW s \in Created
  PROVE  /\ Words(AllSymbols) /\ SchemaOver(AllSymbols, s) /\ TypesPlain(s)
         /\ s.columns \in Seq([name : TextNames, type : TypeWords])
PROOF
  <1> DEFINE A == AllSymbols
             R == [name : TextNames, type : TypeWords]
             cs == s.columns
  <1>1. Words(A)
    BY Zenon DEF AllSymbols, Words
  <1>2. TextNames \subseteq Seq(A)
    <2> SUFFICES ASSUME NEW x \in TextNames PROVE x \in Seq(A)
      OBVIOUS
    <2>1. x \in Seq(Range(x))
      BY SchemaAssumption
    <2>2. Range(x) \subseteq A
      BY DEF AllSymbols
    <2> HIDE DEF A
    <2> QED BY <2>1, <2>2
  <1>3. s.table \in TextNames /\ cs \in Seq(R)
    BY SchemaAssumption
  <1>4. R \subseteq [name : Seq(A), type : A]
    <2>1. TypeWords \subseteq A
      BY Zenon DEF AllSymbols
    <2> HIDE DEF A
    <2> QED BY <1>2, <2>1
  <1>5. SchemaOver(A, s)
    <2> HIDE DEF A, R
    <2>1. cs \in Seq([name : Seq(A), type : A])
      <3> DEFINE Q == [name : Seq(A), type : A]
      <3>1. R \subseteq Q
        BY <1>4
      <3> HIDE DEF Q, cs
      <3>2. cs \in Seq(Q)
        BY <1>3, <3>1
      <3> QED BY <3>2 DEF Q
    <2> QED BY <1>2, <1>3, <2>1 DEF SchemaOver
  <1>6. TypesPlain(s)
    <2>1. ASSUME NEW c \in 1 .. Len(cs) PROVE cs[c].type \in TypeWords
      <3>1. cs[c] \in R
        <4> HIDE DEF R, cs
        <4> QED BY <1>3
      <3> QED BY <3>1
    <2>2. {Json!Quote, Json!Backslash, Json!Colon, Json!Other, Json!Stub} \cap TypeWords = {}
      BY SchemaAssumption
    <2> QED BY <2>1, <2>2 DEF TypesPlain, Structure
  <1> QED BY <1>1, <1>3, <1>5, <1>6

\* A text left by create_table is what its schema's text has become.
LEMMA CreatedTorn ==
  ASSUME NEW s \in Created, NEW t,
         t = Json!SchemaText(s) \/ t = << >> \/ t \in Json!TornTexts(Json!SchemaText(s))
  PROVE  \E at : TornFrom(AllSymbols, s, Json!SchemaText(s), at, t)
PROOF
  <1> DEFINE A == AllSymbols
             u == Json!SchemaText(s)
  <1>1. Words(A) /\ SchemaOver(A, s) /\ TypesPlain(s)
    BY CreatedOver
  <1> HIDE DEF A
  <1>2. u \in Seq(A) /\ \E at : Laid(u, s, at)
    BY <1>1, SchemaTextLaid
  <1>3. Json!Stub \in A
    BY <1>1 DEF Words
  <1> HIDE DEF u
  <1>4. t \in Seq(A) /\ Torn(t, u)
    <2>1. CASE t = u
      BY <1>2, <2>1 DEF Torn
    <2>2. CASE t = << >>
      BY <1>2, <2>2 DEF Torn
    <2>3. CASE t \in Json!TornTexts(u)
      BY <1>2, <1>3, <2>3, TornTextsTorn
    <2> QED BY <2>1, <2>2, <2>3 DEF u
  <1> QED BY <1>1, <1>2, <1>4, Zenon DEF TornFrom, A, u

\* schema.json holds the text of the schema created last, or what is left of
\* it, and what was loaded is what the parser makes of that.
SchemaInv ==
  /\ written \in Created
  /\ whole => json = Json!SchemaText(written)
  /\ \/ json = Json!SchemaText(written) \/ json = << >>
     \/ json \in Json!TornTexts(Json!SchemaText(written))
  /\ loaded = Json!Nothing \/ loaded = Json!Parsed(json)

\* While a line is read, no schema is created.
SchemaInvariant ==
  \/ NoLine /\ SchemaInv
  \/ NoSchema /\ lineOutcome.kind # "rest"

\* The columns in front of the first one without a name, by their number.
LEMMA NamedPart ==
  ASSUME NEW m \in 0 .. Len(written.columns), Len(written.columns) \in Nat, NEW R,
         written.columns \in Seq(R), NamedUpTo(written, 1, m)
  PROVE  Json!NamedColumns = SubSeq(written.columns, 1, m)
PROOF
  <1> DEFINE cs == written.columns
             K == Len(cs)
             nameless == {c \in DOMAIN cs : cs[c].name = << >>}
             S == nameless \cup {K + 1}
             k == m + 1
  <1>1. K \in Nat /\ DOMAIN cs = 1 .. K /\ m \in 0 .. K
    OBVIOUS
  <1>2. S \in SUBSET Nat
    BY <1>1
  <1>3. k \in S
    <2>1. m = K \/ m < K
      BY <1>1
    <2>2. CASE m < K
      <3>1. m + 1 \in 1 .. K /\ cs[m + 1].name = << >>
        BY <1>1, <2>2 DEF NamedUpTo
      <3> QED BY <1>1, <3>1
    <2> QED BY <2>1, <2>2
  <1>4. \A n \in S : k <= n
    <2>1. ASSUME NEW n \in 1 .. K, cs[n].name = << >> PROVE k <= n
      <3>1. n \notin 1 .. m
        BY <2>1 DEF NamedUpTo
      <3> QED BY <1>1, <3>1
    <2> QED BY <1>1, <2>1
  <1>5. Json!Min(S) = Min(S)
    BY Zenon DEF Json!Min, Min
  <1>6. Json!NamedColumns = SubSeq(cs, 1, Min(S) - 1)
    BY <1>5, Zenon DEF Json!NamedColumns
  <1> HIDE DEF S, k
  <1>7. Min(S) = k
    BY <1>2, <1>3, <1>4, MinIs
  <1>8. k - 1 = m
    BY <1>1 DEF k
  <1> QED BY <1>6, <1>7, <1>8, Zenon

\* What the invariant says of what was loaded.
LEMMA SchemaInvariantImplies ==
  ASSUME SchemaInvariant
  PROVE  LoadedAsCreated /\ TornSchemaIsPrefix
PROOF
  <1>1. CASE NoSchema
    BY <1>1 DEF NoSchema, LoadedAsCreated, Json!LoadedAsCreated, TornSchemaIsPrefix,
                Json!TornSchemaIsPrefix, Json!Nothing
  <1>2. CASE SchemaInv /\ loaded = Json!Nothing
    BY <1>2 DEF LoadedAsCreated, Json!LoadedAsCreated, TornSchemaIsPrefix,
                Json!TornSchemaIsPrefix, Json!Nothing
  <1>3. CASE SchemaInv /\ loaded # Json!Nothing
    <2> DEFINE A == AllSymbols
               s == written
               u == Json!SchemaText(s)
               cs == written.columns
               R == [name : TextNames, type : TypeWords]
    <2>1. /\ s \in Created /\ (whole => json = u) /\ loaded = Json!Parsed(json)
          /\ json = u \/ json = << >> \/ json \in Json!TornTexts(u)
      BY <1>3, Zenon DEF SchemaInv
    <2>2. PICK at : TornFrom(A, s, u, at, json)
      BY <2>1, CreatedTorn
    <2>3. cs \in Seq(R)
      BY <2>1, CreatedOver
    <2>4. Len(cs) \in Nat
      <3> HIDE DEF cs, R
      <3> QED BY <2>3
    <2> HIDE DEF A, u
    <2>5. IsParsed(s, u, json, loaded)
      BY <2>1, <2>2, <2>3, ParsedAs
    <2>6. CASE Len(json) # Len(u) /\ loaded = Json!Thrown
      <3>1. ~whole /\ loaded = Json!Thrown
        BY <2>1, <2>6
      <3> QED BY <3>1 DEF LoadedAsCreated, Json!LoadedAsCreated, TornSchemaIsPrefix,
                          Json!TornSchemaIsPrefix, Json!Thrown
    <2>7. CASE \E m \in 0 .. Len(s.columns) : FirstColumns(s, u, json, loaded, m)
      <3>1. PICK m \in 0 .. Len(s.columns) :
              /\ loaded = [kind |-> "schema", table |-> Json!Field(json, "table_name", 1).value,
                            columns |-> SubSeq(s.columns, 1, m)]
              /\ Len(json) = Len(u) => NamedUpTo(s, 1, m)
        BY <2>7, Zenon DEF FirstColumns
      <3>2. loaded.columns = SubSeq(cs, 1, m)
        BY <2>1, <3>1
      <3>3. TornSchemaIsPrefix
        <4> DEFINE x == SubSeq(cs, 1, m)
        <4>1. Len(x) = m /\ m <= Len(cs) /\ m \in Nat
          <5> HIDE DEF cs, R
          <5> QED BY <2>3, <2>4, <3>1 DEF cs
        <4>2. Len(x) <= Len(cs) /\ SubSeq(x, 1, Len(x)) = SubSeq(cs, 1, Len(x))
          <5>1. x \in Seq(R)
            <6> HIDE DEF cs, R
            <6> QED BY <2>3, <2>4, <4>1
          <5> HIDE DEF x, R
          <5>2. SubSeq(x, 1, Len(x)) = x
            BY <5>1
          <5> QED BY <4>1, <5>2, Zenon DEF x
        <4>3. Json!IsPrefix(x, cs)
          BY <4>2, Zenon DEF Json!IsPrefix
        <4> QED BY <3>2, <4>3, Zenon DEF TornSchemaIsPrefix, Json!TornSchemaIsPrefix
      <3>4. LoadedAsCreated
        <4> SUFFICES ASSUME whole
                     PROVE  loaded = [kind |-> "schema", table |-> written.table, columns |-> Json!NamedColumns]
          BY Zenon DEF LoadedAsCreated, Json!LoadedAsCreated
        <4>1. json = u
          BY <2>1
        <4>2. NamedUpTo(s, 1, m)
          BY <3>1, <4>1
        <4>3. Json!NamedColumns = SubSeq(written.columns, 1, m)
          BY <2>3, <2>4, <4>2, NamedPart
        <4>4. Json!Field(u, "table_name", 1).value = s.table
          BY <2>2, <4>1, TableRead
        <4> QED BY <2>1, <3>1, <4>1, <4>3, <4>4, Zenon
      <3> QED BY <3>3, <3>4
    <2> QED BY <2>5, <2>6, <2>7, Zenon DEF IsParsed
  <1> QED BY <1>1, <1>2, <1>3 DEF SchemaInvariant

\* Each call keeps it.
LEMMA SchemaSteps ==
  ASSUME SchemaInv, Json!Next
  PROVE  SchemaInv'
PROOF
  <1>1. ASSUME NEW s \in Created, Json!CreateTable(s) PROVE SchemaInv'
    BY <1>1, Zenon DEF Json!CreateTable, SchemaInv
  <1>2. CASE Json!CloseFile
    BY <1>2, Zenon DEF Json!CloseFile, SchemaInv, Json!SchemaText, Json!TornTexts
  <1>3. CASE Json!LoadSchema
    BY <1>3, Zenon DEF Json!LoadSchema, SchemaInv
  <1> QED BY <1>1, <1>2, <1>3, Zenon DEF Json!Next

\* The invariant holds, whatever happens to lines.
LEMMA SchemaKept ==
  TextSpec => []SchemaInvariant
PROOF
  <1>1. TextInit => SchemaInvariant
    <2>1. ASSUME Json!Init, NoLine PROVE SchemaInvariant
      BY <2>1, Zenon DEF Json!Init, SchemaInv, SchemaInvariant
    <2>2. ASSUME Csv!Init, NoSchema PROVE SchemaInvariant
      BY <2>2 DEF Csv!Init, SchemaInvariant
    <2> QED BY <2>1, <2>2, Zenon DEF TextInit
  <1>2. SchemaInvariant /\ [TextNext]_<<jsonVars, lineVars>> => SchemaInvariant'
    <2> SUFFICES ASSUME SchemaInvariant, [TextNext]_<<jsonVars, lineVars>> PROVE SchemaInvariant'
      OBVIOUS
    <2>1. CASE UNCHANGED <<jsonVars, lineVars>>
      BY <2>1, Zenon DEF jsonVars, lineVars, SchemaInvariant, SchemaInv, NoLine, NoSchema
    <2>2. CASE NoLine /\ Json!Next /\ UNCHANGED lineVars
      <3>1. lineOutcome.kind = "rest"
        BY <2>2 DEF NoLine
      <3>2. SchemaInv'
        BY <2>2, <3>1, SchemaSteps, Zenon DEF SchemaInvariant
      <3>3. NoLine'
        BY <2>2, Zenon DEF lineVars, NoLine
      <3> QED BY <3>2, <3>3 DEF SchemaInvariant
    <2>3. CASE NoSchema /\ Csv!Next /\ UNCHANGED jsonVars
      <3>1. lineOutcome'.kind # "rest"
        <4>1. lineOutcome.kind = "reading" /\ (lineOutcome' = lineOutcome
                \/ lineOutcome' = [kind |-> "skipped"] \/ \E fs : lineOutcome' = Csv!OutcomeOf(fs))
          BY <2>3, Zenon DEF Csv!Next, Csv!BlankLine, Csv!ReadQuote, Csv!ReadSeparator,
                             Csv!ReadCharacter, Csv!EndOfLine, Csv!Reading
        <4>2. \A fs : Csv!OutcomeOf(fs).kind # "rest"
          BY DEF Csv!OutcomeOf
        <4> QED BY <4>1, <4>2
      <3>2. NoSchema'
        BY <2>3, Zenon DEF jsonVars, NoSchema
      <3> QED BY <3>1, <3>2 DEF SchemaInvariant
    <2> QED BY <2>1, <2>2, <2>3, Zenon DEF TextNext
  <1> QED BY <1>1, <1>2, PTL DEF TextSpec

\* A schema that was written whole is loaded as it was created, up to the
\* first column without a name, whatever symbols its names are made of: the
\* parser of storage.cpp finds no field within an escaped name.
THEOREM LoadedAsCreatedAlways ==
  TextSpec => []LoadedAsCreated
PROOF
  BY SchemaKept, SchemaInvariantImplies, PTL

\* Wherever the text of a schema breaks off, load_schema throws or yields its
\* first columns, with their names and types.
THEOREM TornSchemaIsPrefixAlways ==
  TextSpec => []TornSchemaIsPrefix
PROOF
  BY SchemaKept, SchemaInvariantImplies, PTL
=============================================================================
