----------------------------- MODULE ColumnFile -----------------------------
(***************************************************************************)
(* The two files of one column (storage.cpp): write_column, which rewrites *)
(* the .col file and its .col.idx index through two separately buffered    *)
(* streams, and ColumnReader, which takes the index when it is opened and  *)
(* then reads one chunk per call, seeking in the .col file it keeps open.  *)
(* Compression may throw, either stream may fail without anyone asking it, *)
(* and the process may die with part of each stream in its buffer.         *)
(*                                                                         *)
(* A file is a sequence of cells: a chunk is a header cell, which says how *)
(* many cells follow (payload and bitmap), and those cells.  A cell knows  *)
(* which write and chunk it belongs to; the program sees only whether it   *)
(* is a header (the magic number).  Storage is used by one thread: reads   *)
(* fall between writes, and outside the process nobody reads.              *)
(***************************************************************************)
EXTENDS Integers, SequencesExt

CONSTANTS
  Contents,     \* what a write may be given: for each chunk, the number of
                \* cells after its header (none for a chunk without rows)
  MaxWrites,    \* bound on the calls of write_column
  MaxOpens,     \* bound on the readers opened
  MaxFaults     \* bound on stream failures and crashes

ASSUME FileAssumption ==
  /\ Contents \subseteq Seq(Nat)
  /\ MaxWrites \in Nat /\ MaxOpens \in Nat /\ MaxFaults \in Nat

VARIABLES
  col, idx,     \* the two files; while written, what the streams were given
  colBad, idxBad, \* the failbit or badbit of the writer's two streams
  pc,           \* the writer: "idle", "open", "chunks" or "close"
  nextChunk,    \* the chunk it writes next, from 1
  packed,       \* the codec is not NONE
  threw,        \* write_column is left by an exception
  ver,          \* observer: the number of the last write
  content,      \* what that write was given
  condition,    \* observer: "intact" after a write that ended well, "mixed" while
                \* the files may stem from different writes, otherwise "damaged"
  rd,           \* the reader
  opens, faults

fileVars   == <<col, idx, colBad, idxBad>>
writerVars == <<pc, nextChunk, packed, threw, ver, content, condition>>
vars       == <<fileVars, writerVars, rd, opens, faults>>

BadOffset == -1    \* what tellp says of a failed stream

Cell == [ver : 0 .. MaxWrites, chunk : Nat, part : Nat, parts : Nat, packed : BOOLEAN]

NoReader ==
  [open |-> FALSE, index |-> << >>, next |-> 0, exhausted |-> FALSE,
   failed |-> FALSE, stale |-> FALSE, torn |-> FALSE, last |-> [kind |-> "none"]]

ChunkIds == [ver : 0 .. MaxWrites, chunk : Nat]

Results ==
  [kind : {"none", "end", "throw"}] \cup [kind : {"chunk", "torn"}, chunk : ChunkIds]

\* The column was written before, with no chunk.
Init ==
  /\ col = << >> /\ idx = << >> /\ colBad = FALSE /\ idxBad = FALSE
  /\ pc = "idle" /\ nextChunk = 1 /\ packed = FALSE /\ threw = FALSE
  /\ ver = 0 /\ content = << >> /\ condition = "intact"
  /\ rd = NoReader
  /\ opens = 0 /\ faults = 0

-----------------------------------------------------------------------------
(* write_column.                                                           *)

\* Opening the .col file truncates it, before anything else is known to work.
\* If it cannot be opened the old file stays and nobody notices.
OpenCol(fails) ==
  /\ pc = "idle" /\ ver < MaxWrites
  /\ content' \in Contents /\ packed' \in BOOLEAN
  /\ ver' = ver + 1 /\ nextChunk' = 1 /\ threw' = FALSE
  /\ fails => faults < MaxFaults
  /\ faults' = IF fails THEN faults + 1 ELSE faults
  /\ col' = IF fails THEN col ELSE << >>
  /\ colBad' = fails
  /\ condition' = "mixed"
  /\ pc' = "open"
  /\ rd' = [rd EXCEPT !.stale = rd.open, !.last = [kind |-> "none"]]
  /\ UNCHANGED <<idx, idxBad, opens>>

\* Mutant: the index is opened for appending.
OpenIdxKept(fails) ==
  /\ pc = "open"
  /\ fails => faults < MaxFaults
  /\ faults' = IF fails THEN faults + 1 ELSE faults
  /\ idx' = idx
  /\ idxBad' = fails
  /\ condition' = IF fails THEN condition ELSE "damaged"
  /\ pc' = "chunks"
  /\ UNCHANGED <<col, colBad, nextChunk, packed, threw, ver, content, rd, opens>>

OpenIdx(fails) ==
  /\ pc = "open"
  /\ fails => faults < MaxFaults
  /\ faults' = IF fails THEN faults + 1 ELSE faults
  /\ idx' = IF fails THEN idx ELSE << >>
  /\ idxBad' = fails
  /\ condition' = IF fails THEN condition ELSE "damaged"
  /\ pc' = "chunks"
  /\ UNCHANGED <<col, colBad, nextChunk, packed, threw, ver, content, rd, opens>>

ChunkCells(n) ==
  [i \in 1 .. (content[n] + 1) |->
     [ver |-> ver, chunk |-> n, part |-> i - 1, parts |-> content[n], packed |-> packed]]

\* Mutant: the offset is taken after the chunk was written.
WriteChunkLateOffset ==
  /\ pc = "chunks" /\ nextChunk <= Len(content)
  /\ col' = IF colBad THEN col ELSE col \o ChunkCells(nextChunk)
  /\ idx' = IF idxBad THEN idx
            ELSE Append(idx, IF colBad THEN BadOffset ELSE Len(col'))
  /\ nextChunk' = nextChunk + 1
  /\ UNCHANGED <<colBad, idxBad, pc, packed, threw, ver, content, condition, rd, opens, faults>>

WriteChunk ==
  /\ pc = "chunks" /\ nextChunk <= Len(content)
  /\ col' = IF colBad THEN col ELSE col \o ChunkCells(nextChunk)
  /\ idx' = IF idxBad THEN idx
            ELSE Append(idx, IF colBad THEN BadOffset ELSE Len(col))
  /\ nextChunk' = nextChunk + 1
  /\ UNCHANGED <<colBad, idxBad, pc, packed, threw, ver, content, condition, rd, opens, faults>>

\* make_codec or compress throws, before a byte of the chunk is written.
CompressThrows ==
  /\ pc = "chunks" /\ nextChunk <= Len(content) /\ packed
  /\ threw' = TRUE
  /\ pc' = "close"
  /\ UNCHANGED <<fileVars, nextChunk, packed, ver, content, condition, rd, opens, faults>>

AllWritten ==
  /\ pc = "chunks" /\ nextChunk > Len(content)
  /\ pc' = "close"
  /\ UNCHANGED <<fileVars, nextChunk, packed, threw, ver, content, condition, rd, opens, faults>>

\* A buffer cannot be written out (a full disk): the file keeps a prefix of
\* what the stream was given, and takes nothing after it.
ColStreamFails ==
  /\ pc \in {"chunks", "close"} /\ ~colBad /\ faults < MaxFaults
  /\ col' \in Prefixes(col)
  /\ colBad' = TRUE
  /\ faults' = faults + 1
  /\ UNCHANGED <<idx, idxBad, writerVars, rd, opens>>

IdxStreamFails ==
  /\ pc \in {"chunks", "close"} /\ ~idxBad /\ faults < MaxFaults
  /\ idx' \in Prefixes(idx)
  /\ idxBad' = TRUE
  /\ faults' = faults + 1
  /\ UNCHANGED <<col, colBad, writerVars, rd, opens>>

\* The destructors of the two streams write out what is left, also when the
\* call is left by an exception.
CloseFiles ==
  /\ pc = "close"
  /\ colBad' = FALSE /\ idxBad' = FALSE
  /\ condition' = IF threw \/ colBad \/ idxBad THEN condition ELSE "intact"
  /\ pc' = "idle"
  /\ UNCHANGED <<col, idx, nextChunk, packed, threw, ver, content, rd, opens, faults>>

\* The process dies during the write: each file keeps a prefix of what its
\* stream was given, the one regardless of the other.
Crash ==
  /\ pc # "idle" /\ faults < MaxFaults
  /\ col' \in IF colBad THEN {col} ELSE Prefixes(col)
  /\ idx' \in IF idxBad \/ pc = "open" THEN {idx} ELSE Prefixes(idx)
  /\ colBad' = FALSE /\ idxBad' = FALSE
  /\ pc' = "idle"
  /\ rd' = NoReader
  /\ faults' = faults + 1
  /\ UNCHANGED <<nextChunk, packed, threw, ver, content, condition, opens>>

-----------------------------------------------------------------------------
(* ColumnReader.                                                           *)

OpenReader ==
  /\ pc = "idle" /\ opens < MaxOpens
  /\ rd' = [NoReader EXCEPT !.open = TRUE, !.index = idx, !.exhausted = (idx = << >>)]
  /\ opens' = opens + 1
  /\ UNCHANGED <<fileVars, writerVars, faults>>

CloseReader ==
  /\ rd.open
  /\ rd' = NoReader
  /\ UNCHANGED <<fileVars, writerVars, opens, faults>>

AtEnd == rd.exhausted \/ rd.next >= Len(rd.index)

ReadEnd ==
  /\ pc = "idle" /\ rd.open /\ AtEnd
  /\ rd' = [rd EXCEPT !.exhausted = TRUE, !.last = [kind |-> "end"]]
  /\ UNCHANGED <<fileVars, writerVars, opens, faults>>

Reading == pc = "idle" /\ rd.open /\ ~AtEnd

Offset == rd.index[rd.next + 1]

\* A cell can be read there: the stream has not failed before (failbit stays,
\* and seekg then does nothing) and the seek ends before the end of the file.
InFile == ~rd.failed /\ Offset \in 0 .. (Len(col) - 1)

IsHeader == InFile /\ col[Offset + 1].part = 0

WholeChunk == IsHeader /\ Offset + 1 + col[Offset + 1].parts <= Len(col)

\* No header, or not at a header: the call throws and the reader stays where
\* it is.  Bytes that are not a header may end before a header's length does.
ReadThrows ==
  /\ Reading /\ ~IsHeader
  /\ \E short \in BOOLEAN :
       /\ ~InFile => short
       /\ rd' = [rd EXCEPT !.failed = @ \/ short, !.last = [kind |-> "throw"]]
  /\ UNCHANGED <<fileVars, writerVars, opens, faults>>

\* Mutant: the reader does not move on.
DeliveredAgain(kind, failed) ==
  [rd EXCEPT !.failed = failed, !.torn = @ \/ kind = "torn",
             !.last = [kind  |-> kind,
                       chunk |-> [ver   |-> col[Offset + 1].ver,
                                  chunk |-> col[Offset + 1].chunk]]]

Delivered(kind, failed) ==
  [rd EXCEPT !.next = @ + 1, !.exhausted = (rd.next + 1 >= Len(rd.index)),
             !.failed = failed, !.torn = @ \/ kind = "torn",
             !.last = [kind  |-> kind,
                       chunk |-> [ver   |-> col[Offset + 1].ver,
                                  chunk |-> col[Offset + 1].chunk]]]

ReadChunk ==
  /\ Reading /\ WholeChunk
  /\ rd' = Delivered("chunk", FALSE)
  /\ UNCHANGED <<fileVars, writerVars, opens, faults>>

\* Mutant: the failed stream is cleared before the next seek.
ReadTornCleared ==
  /\ Reading /\ IsHeader /\ ~WholeChunk
  /\ rd' = Delivered("torn", FALSE)
  /\ UNCHANGED <<fileVars, writerVars, opens, faults>>

\* The file ends inside the payload or the bitmap.  Nobody looks at the
\* stream after these reads: the missing bytes are zero and the chunk is
\* delivered, unless the decoder stumbles over them.
ReadTorn ==
  /\ Reading /\ IsHeader /\ ~WholeChunk
  /\ \/ rd' = Delivered("torn", TRUE)
     \/ /\ col[Offset + 1].packed
        /\ rd' = [rd EXCEPT !.failed = TRUE, !.last = [kind |-> "throw"]]
  /\ UNCHANGED <<fileVars, writerVars, opens, faults>>

ReadNext == ReadEnd \/ ReadThrows \/ ReadChunk \/ ReadTorn

-----------------------------------------------------------------------------

Next ==
  \/ \E fails \in BOOLEAN : OpenCol(fails) \/ OpenIdx(fails)
  \/ WriteChunk \/ CompressThrows \/ AllWritten
  \/ ColStreamFails \/ IdxStreamFails \/ CloseFiles \/ Crash
  \/ OpenReader \/ CloseReader \/ ReadNext

Spec == Init /\ [][Next]_vars

WriterStep ==
  \E fails \in BOOLEAN :
    OpenIdx(fails) \/ WriteChunk \/ CompressThrows \/ AllWritten \/ CloseFiles

\* The writer's call runs to its end and the reading loop of read_column goes
\* on until it is told the end or an exception leaves it.
FairSpec == Spec /\ WF_vars(WriterStep) /\ WF_vars(ReadNext)

-----------------------------------------------------------------------------

\* While index and data stem from one write, entry i of the index points at
\* the header of chunk i, at the end of what is left of the file, beyond it,
\* or nowhere: a crash or a full disk that cuts the two files at
\* different places never makes an entry point into a chunk.
IndexPointsAtHeaders ==
  condition # "mixed" =>
    \A i \in DOMAIN idx :
      idx[i] \in DOMAIN col \cup {0} /\ idx[i] < Len(col) =>
        /\ col[idx[i] + 1].part = 0
        /\ col[idx[i] + 1].chunk = i

\* Once a torn chunk was delivered the same reader delivers no other, even if
\* the column is rewritten under it.
TornIsLast == [][rd.torn /\ rd'.torn /\ rd.open => rd'.next = rd.next]_vars

\* The loop over read_next_chunk comes to an end, whatever was written under
\* the reader.
ReadEnds == rd.open ~> ~rd.open \/ rd.last.kind \in {"end", "throw"}

\* The refinement mapping to ColumnStream.
ChunkId(i) == [ver |-> ver, chunk |-> i]

Mode ==
  IF ~rd.open THEN "none"
  ELSE IF rd.stale \/ condition = "mixed" THEN "stale"
  ELSE IF rd.failed THEN "dead" ELSE "live"

Stream == INSTANCE ColumnStream WITH
  Values    <- {[i \in 1 .. Len(c) |-> [ver |-> v, chunk |-> i]] :
                  c \in Contents, v \in 1 .. MaxWrites},
  Anything  <- Results,
  writing   <- pc # "idle",
  value     <- [i \in 1 .. Len(content) |-> ChunkId(i)],
  condition <- condition,
  mode      <- Mode,
  cursor    <- IF Mode = "live" THEN rd.next ELSE 0,
  last      <- rd.last

\* A write that ends well is read back whole and in order, a damaged column
\* as a prefix with at most its last chunk torn (module ColumnStream).
ImplementsStream == Stream!Spec
=============================================================================
