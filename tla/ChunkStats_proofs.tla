------------------------- MODULE ChunkStats_proofs --------------------------
(***************************************************************************)
(* Proofs about ChunkStats: type correctness; a chunk whose bounds are not *)
(* out of date is never skipped while a live row passes a predicate or is  *)
(* in a range; and statistics that are fresh skip every chunk they could.  *)
(***************************************************************************)
EXTENDS ChunkStats, Column_proofs

\* Bounds that are not stale enclose the live rows.
BoundsHold == bounds # "stale" => Covers(chunk)

IInv == TypeOK /\ BoundsHold

\* The bounds are those of live rows.
Attained(c) ==
  c.stats.initialized =>
    /\ \E r \in LiveRows(c) : AsInt64(c.type, c.data[r]) = c.stats.min
    /\ \E r \in LiveRows(c) : AsInt64(c.type, c.data[r]) = c.stats.max

ExactHold == bounds = "exact" => Attained(chunk)

\* finalize_stats changes the statistics only; they enclose the live rows
\* and are attained by some.
LEMMA FinalizeStatsCorrect ==
  ASSUME NEW c \in Chunks, RowsOf(c) \subseteq DOMAIN c.data
  PROVE  /\ FinalizeStats(c) \in Chunks
         /\ RowsOf(FinalizeStats(c)) = RowsOf(c)
         /\ FinalizeStats(c).data = c.data
         /\ Covers(FinalizeStats(c)) /\ Attained(FinalizeStats(c))
PROOF
  <1> DEFINE S == LiveInt64s(c)
             f == FinalizeStats(c)
  <1>1. \A r \in LiveRows(c) : c.data[r] \in Values
    BY DEF LiveRows, Chunks, Buffers
  <1>2. \A v \in Values : AsInt64(c.type, v) \in Values
    <2> TAKE v \in Values
    <2>1. v \in Int
      BY ValueAssumption DEF Values
    <2> QED BY <2>1, AsInt64Bounds, ValueAssumption DEF Values
  <1>3. S \subseteq Values
    BY <1>1, <1>2 DEF LiveInt64s
  <1>4. Values \subseteq Int /\ \A v \in Values : MinValue <= v /\ v <= MaxValue
    BY ValueAssumption DEF Values
  <1>5. CASE c.type = "STRING" \/ S = {}
    <2>1. f = [c EXCEPT !.stats.initialized = FALSE]
      BY <1>5 DEF FinalizeStats
    <2>2. f \in Chunks /\ f.num_rows = c.num_rows /\ f.data = c.data
          /\ f.stats.initialized = FALSE
      BY <2>1 DEF Chunks, Stats
    <2> QED BY <2>2 DEF RowsOf, Covers, Attained
  <1>6. CASE ~(c.type = "STRING" \/ S = {})
    <2>1. f = [c EXCEPT !.stats = [min |-> Min(S), max |-> Max(S), initialized |-> TRUE]]
      BY <1>6 DEF FinalizeStats
    <2>2. Min(S) \in S /\ \A s \in S : Min(S) <= s
      <3> HIDE DEF S
      <3> QED BY <1>3, <1>4, <1>6, MinOfBounded, ValueAssumption
    <2>3. Max(S) \in S /\ \A s \in S : s <= Max(S)
      <3> HIDE DEF S
      <3> QED BY <1>3, <1>4, <1>6, MaxOfBounded, ValueAssumption
    <2>4. Min(S) \in Values /\ Max(S) \in Values
      BY <1>3, <2>2, <2>3
    <2> DEFINE stats == [min |-> Min(S), max |-> Max(S), initialized |-> TRUE]
    <2>stats. stats \in Stats /\ stats.min = Min(S) /\ stats.max = Max(S)
      <3> HIDE DEF S
      <3> QED BY <2>4 DEF Stats
    <2>5. f \in Chunks /\ f.num_rows = c.num_rows /\ f.data = c.data /\ f.type = c.type
          /\ f.nulls = c.nulls /\ f.has_nulls = c.has_nulls
          /\ f.stats.min = Min(S) /\ f.stats.max = Max(S)
      <3>1. f = [c EXCEPT !.stats = stats]
        BY <2>1
      <3> HIDE DEF f, stats, S
      <3> QED BY <2>stats, <3>1 DEF Chunks
    <2>6. RowsOf(f) = RowsOf(c) /\ LiveRows(f) = LiveRows(c)
      BY <2>5 DEF RowsOf, LiveRows, IsNull
    <2>7. \A r \in LiveRows(f) : AsInt64(f.type, f.data[r]) \in S
      BY <2>5, <2>6 DEF LiveInt64s
    <2>8. Covers(f)
      <3> HIDE DEF f, S
      <3> QED BY <1>6, <2>2, <2>3, <2>5, <2>7 DEF Covers
    <2>9. \A v \in S : \E r \in LiveRows(f) : AsInt64(f.type, f.data[r]) = v
      BY <2>5, <2>6 DEF LiveInt64s
    <2>10. Attained(f)
      <3> HIDE DEF f, S
      <3> QED BY <2>2, <2>3, <2>5, <2>9 DEF Attained
    <2> QED BY <2>5, <2>6, <2>8, <2>10
  <1> QED BY <1>5, <1>6

\* Writing a chunk and reading it back gives a chunk of num_rows values with
\* statistics of its own.
LEMMA StoredChunkCorrect ==
  ASSUME NEW c \in Chunks, RowsOf(c) \subseteq DOMAIN c.data
  PROVE  /\ StoredChunk(c) \in Chunks
         /\ RowsOf(StoredChunk(c)) \subseteq DOMAIN StoredChunk(c).data
         /\ Covers(StoredChunk(c)) /\ Attained(StoredChunk(c))
PROOF
  <1> DEFINE d == [r \in RowsOf(c) |-> c.data[r]]
             e == [c EXCEPT !.data = d, !.stats = NoStats]
  <1>1. NoStats \in Stats
    BY ValueAssumption DEF NoStats, Stats, Values
  <1>2. c.num_rows \in 0 .. MaxRows /\ c.data \in Buffers
    BY DEF Chunks
  <1>3. d \in [0 .. (c.num_rows - 1) -> Values]
    BY <1>2 DEF RowsOf, Buffers
  <1>4. d \in Buffers
    BY <1>2, <1>3 DEF Buffers
  <1>5. e \in Chunks /\ RowsOf(e) = RowsOf(c) /\ e.data = d
    <2> HIDE DEF d
    <2> QED BY <1>1, <1>4 DEF Chunks, RowsOf
  <1>6. RowsOf(e) \subseteq DOMAIN e.data
    BY <1>3, <1>5 DEF RowsOf
  <1>7. StoredChunk(c) = FinalizeStats(e)
    BY DEF StoredChunk
  <1> HIDE DEF e
  <1> QED BY <1>5, <1>6, <1>7, FinalizeStatsCorrect

\* A fresh chunk has no rows and no statistics.
LEMMA InitIInv == Init => IInv
PROOF
  <1> SUFFICES ASSUME Init PROVE IInv
    OBVIOUS
  <1>1. PICK t \in Types :
          chunk = [type |-> t, num_rows |-> 0, has_nulls |-> FALSE, nulls |-> {},
                   data |-> [r \in 0 .. -1 |-> 0], stats |-> NoStats]
    BY DEF Init
  <1>2. [r \in 0 .. -1 |-> 0] \in Buffers
    <2>1. [r \in 0 .. -1 |-> 0] \in [0 .. (0 - 1) -> Values]
      OBVIOUS
    <2>2. 0 \in 0 .. MaxRows
      BY ChunkAssumption
    <2> QED BY <2>1, <2>2 DEF Buffers
  <1>3. NoStats \in Stats /\ NoStats.initialized = FALSE
    BY ValueAssumption DEF NoStats, Stats, Values
  <1>4. chunk \in Chunks
    <2> DEFINE b == [r \in 0 .. -1 |-> 0]
    <2>1. b \in Buffers /\ chunk.data = b
      BY <1>1, <1>2
    <2>2. chunk = [type |-> t, num_rows |-> 0, has_nulls |-> FALSE, nulls |-> {},
                   data |-> b, stats |-> NoStats]
      BY <1>1
    <2> HIDE DEF b
    <2> QED BY <1>3, <2>1, <2>2, ChunkAssumption DEF Chunks
  <1>5. RowsOf(chunk) = {} /\ chunk.stats.initialized = FALSE
    BY <1>1, <1>3 DEF RowsOf
  <1>6. bounds = "exact"
    BY DEF Init
  <1> QED BY <1>4, <1>5, <1>6 DEF IInv, TypeOK, BoundsHold, Covers

\* Every call keeps the bounds honest: the observer gives them up whenever a
\* row may have come to life or changed.
LEMMA NextKeepsIInv == IInv /\ [Next]_vars => IInv'
PROOF
  <1> SUFFICES ASSUME IInv, [Next]_vars PROVE IInv'
    OBVIOUS
  <1>1. chunk \in Chunks /\ RowsOf(chunk) \subseteq DOMAIN chunk.data
    BY DEF IInv, TypeOK
  <1>2. PICK m \in 0 .. MaxRows : chunk.data \in [0 .. (m - 1) -> Values]
    BY <1>1 DEF Chunks, Buffers
  <1>3. bounds \in {"exact", "covering", "stale"} /\ BoundsHold
    BY DEF IInv, TypeOK
  <1>4. ASSUME NEW n \in 0 .. MaxRows, ResizeTo(n) PROVE IInv'
    <2>1. PICK buffer \in [0 .. (n - 1) -> Values] : chunk' = Resize(chunk, n, buffer)
      BY <1>4 DEF ResizeTo
    <2>2. buffer \in Buffers
      BY DEF Buffers
    <2>3. chunk' \in Chunks /\ chunk'.num_rows = n /\ chunk'.data = buffer
      BY <1>1, <2>1, <2>2 DEF Resize, Chunks
    <2>4. (RowsOf(chunk) \subseteq DOMAIN chunk.data)'
      BY <2>3 DEF RowsOf
    <2>5. bounds' = "stale"
      BY <1>4 DEF ResizeTo
    <2> QED BY <2>3, <2>4, <2>5 DEF IInv, TypeOK, BoundsHold
  <1>5. ASSUME NEW row \in Rows, NEW value \in Values, Store(row, value) PROVE IInv'
    <2> DEFINE d == [chunk.data EXCEPT ![row] = value]
    <2>1. chunk' = [chunk EXCEPT !.data = d] /\ row \in DOMAIN chunk.data
      BY <1>5 DEF Store
    <2>2. d \in [0 .. (m - 1) -> Values] /\ DOMAIN d = DOMAIN chunk.data
          /\ \A r \in DOMAIN chunk.data : r # row => d[r] = chunk.data[r]
      BY <1>2
    <2>3. d \in Buffers
      BY <2>2 DEF Buffers
    <2> HIDE DEF d
    <2>4. chunk' \in Chunks /\ chunk'.data = d /\ chunk'.num_rows = chunk.num_rows
          /\ chunk'.type = chunk.type /\ chunk'.nulls = chunk.nulls
          /\ chunk'.has_nulls = chunk.has_nulls /\ chunk'.stats = chunk.stats
      BY <1>1, <2>1, <2>3 DEF Chunks
    <2>5. RowsOf(chunk)' = RowsOf(chunk) /\ LiveRows(chunk)' = LiveRows(chunk)
      BY <2>4 DEF RowsOf, LiveRows, IsNull
    <2>6. bounds' = IF row \in LiveRows(chunk) THEN "stale" ELSE bounds
      BY <1>5 DEF Store
    <2>7. ASSUME bounds' # "stale" PROVE Covers(chunk)'
      <3>1. row \notin LiveRows(chunk) /\ Covers(chunk)
        BY <1>3, <2>6, <2>7 DEF BoundsHold
      <3>2. \A r \in LiveRows(chunk) : d[r] = chunk.data[r]
        BY <1>1, <2>2, <3>1 DEF LiveRows
      <3> QED BY <2>4, <2>5, <3>1, <3>2 DEF Covers
    <2> QED BY <1>1, <1>3, <2>2, <2>4, <2>5, <2>6, <2>7 DEF IInv, TypeOK, BoundsHold
  <1>6. ASSUME NEW n \in 0 .. MaxRows, SetNumRows(n) PROVE IInv'
    <2>1. chunk' = [chunk EXCEPT !.num_rows = n] /\ 0 .. (n - 1) \subseteq DOMAIN chunk.data
      BY <1>6 DEF SetNumRows
    <2>2. chunk' \in Chunks /\ chunk'.data = chunk.data /\ chunk'.num_rows = n
          /\ chunk'.type = chunk.type /\ chunk'.nulls = chunk.nulls
          /\ chunk'.has_nulls = chunk.has_nulls /\ chunk'.stats = chunk.stats
      BY <1>1, <2>1 DEF Chunks
    <2>3. bounds' = IF n > chunk.num_rows THEN "stale" ELSE Loosened
      BY <1>6 DEF SetNumRows
    <2>4. ASSUME bounds' # "stale" PROVE Covers(chunk)'
      <3>1. n <= chunk.num_rows /\ bounds # "stale"
        BY <1>1, <2>3, <2>4 DEF Loosened, Chunks
      <3>2. LiveRows(chunk)' \subseteq LiveRows(chunk)
        BY <1>1, <2>2, <3>1 DEF LiveRows, RowsOf, IsNull, Chunks
      <3> QED BY <1>3, <2>2, <3>1, <3>2 DEF Covers, BoundsHold
    <2>5. (RowsOf(chunk) \subseteq DOMAIN chunk.data)'
      BY <2>1, <2>2 DEF RowsOf
    <2> QED BY <1>3, <2>2, <2>3, <2>4, <2>5 DEF IInv, TypeOK, BoundsHold, Loosened
  <1>7. ASSUME NEW row \in Rows, NEW null \in BOOLEAN, MarkNull(row, null) PROVE IInv'
    <2>1. chunk' = [chunk EXCEPT !.has_nulls = chunk.has_nulls \/ null,
                                 !.nulls = IF null THEN chunk.nulls \cup {row}
                                           ELSE chunk.nulls \ {row}]
      BY <1>7 DEF MarkNull, SetNull
    <2>2. (chunk.has_nulls \/ null) \in BOOLEAN
      OBVIOUS
    <2>3. chunk' \in Chunks /\ chunk'.data = chunk.data /\ chunk'.num_rows = chunk.num_rows
          /\ chunk'.type = chunk.type /\ chunk'.stats = chunk.stats
          /\ chunk'.has_nulls = (chunk.has_nulls \/ null)
          /\ chunk'.nulls = IF null THEN chunk.nulls \cup {row} ELSE chunk.nulls \ {row}
      BY <1>1, <2>1, <2>2 DEF Chunks
    <2>4. RowsOf(chunk)' = RowsOf(chunk)
      BY <2>3 DEF RowsOf
    <2>5. bounds' = IF null THEN Loosened
                    ELSE IF row \in LiveRows(chunk) THEN bounds ELSE "stale"
      BY <1>7 DEF MarkNull
    <2>6. ASSUME bounds' # "stale" PROVE Covers(chunk)'
      <3>1. bounds # "stale" /\ (null \/ row \in LiveRows(chunk))
        BY <2>5, <2>6 DEF Loosened
      <3>2. LiveRows(chunk)' \subseteq LiveRows(chunk)
        <4>1. CASE null
          BY <2>3, <2>4, <4>1 DEF LiveRows, IsNull
        <4>2. CASE ~null
          BY <2>3, <2>4, <3>1, <4>2 DEF LiveRows, IsNull
        <4> QED BY <4>1, <4>2
      <3> QED BY <1>3, <2>3, <3>1, <3>2 DEF Covers, BoundsHold
    <2> QED BY <1>1, <1>3, <2>3, <2>4, <2>5, <2>6 DEF IInv, TypeOK, BoundsHold, Loosened
  <1>8. /\ FinalizeStats(chunk) \in Chunks
        /\ RowsOf(FinalizeStats(chunk)) \subseteq DOMAIN FinalizeStats(chunk).data
        /\ Covers(FinalizeStats(chunk))
    BY <1>1, FinalizeStatsCorrect
  <1>9. ASSUME chunk' = FinalizeStats(chunk), bounds' = "exact" PROVE IInv'
    BY <1>8, <1>9 DEF IInv, TypeOK, BoundsHold
  <1>10. CASE Finalize
    BY <1>9, <1>10 DEF Finalize
  <1>11. CASE Ensure
    <2>1. CASE chunk.stats.initialized
      <3>1. chunk' = chunk /\ bounds' = bounds
        BY <1>11, <2>1 DEF Ensure, EnsureStats
      <3> QED BY <3>1 DEF IInv, TypeOK, BoundsHold
    <2>2. CASE ~chunk.stats.initialized
      BY <1>9, <1>11, <2>2 DEF Ensure, EnsureStats
    <2> QED BY <2>1, <2>2
  <1>12. CASE WriteAndRead
    <2>1. chunk' = StoredChunk(chunk) /\ bounds' = "exact"
      BY <1>12 DEF WriteAndRead
    <2> QED BY <1>1, <2>1, StoredChunkCorrect DEF IInv, TypeOK, BoundsHold
  <1>13. CASE UNCHANGED vars
    BY <1>13 DEF vars, IInv, TypeOK, BoundsHold
  <1> QED BY <1>4, <1>5, <1>6, <1>7, <1>10, <1>11, <1>12, <1>13 DEF Next

\* The inductive invariant holds in every reachable state.
LEMMA SpecIInv == Spec => []IInv
PROOF
  <1> QED BY InitIInv, NextKeepsIInv, PTL DEF Spec

\* Type correctness of ChunkStats.
THEOREM TypeCorrect == Spec => []TypeOK
PROOF
  <1>1. IInv => TypeOK
    BY DEF IInv
  <1> QED BY SpecIInv, <1>1, PTL

\* Whatever its owner did to a chunk before, bounds that are not out of date
\* never skip it while a live row passes the predicate, for integer columns
\* with any operator and for float columns with EQ, LTE and GTE
\* (can_skip_predicate, column.cpp).
THEOREM PruneSoundAlways == Spec => []PruneSound
PROOF
  <1>1. ASSUME IInv PROVE PruneSound
    <2> SUFFICES ASSUME bounds # "stale",
                        NEW op \in SoundOps(chunk.type), NEW threshold \in Values,
                        Skips(op, threshold),
                        NEW r \in LiveRows(chunk)
                 PROVE  ~Compare(chunk.data[r], threshold, op)
      BY DEF PruneSound, LiveMatches
    <2>1. chunk \in Chunks /\ RowsOf(chunk) \subseteq DOMAIN chunk.data /\ Covers(chunk)
      BY <1>1 DEF IInv, TypeOK, BoundsHold
    <2>2. chunk.stats.initialized
      BY DEF Skips, CanSkipPredicate
    <2>3. chunk.data[r] \in Values
      BY <2>1 DEF LiveRows, Chunks, Buffers
    <2>4. Values \subseteq Int
      BY ValueAssumption DEF Values
    <2>5. chunk.stats.min \in Int /\ chunk.stats.max \in Int
      BY <2>1, <2>4 DEF Chunks, Stats
    <2>6. /\ chunk.stats.min <= AsInt64(chunk.type, chunk.data[r])
          /\ AsInt64(chunk.type, chunk.data[r]) <= chunk.stats.max
      BY <2>1, <2>2 DEF Covers
    <2>7. CanSkipPredicate(chunk.stats, op, AsInt64(chunk.type, threshold))
      BY DEF Skips
    <2> QED BY <2>3, <2>4, <2>5, <2>6, <2>7, SkipSound
  <1> QED BY SpecIInv, <1>1, PTL

\* A whole number is what truncation makes of it: n * Unit is n.
LEMMA AsInt64Whole ==
  ASSUME NEW type, type \notin IntTypes, NEW n \in Int
  PROVE  n * Unit \in Int /\ AsInt64(type, n * Unit) = n
PROOF
  <1>1. \A m \in Nat : m * Unit \in Nat /\ (m * Unit) \div Unit = m
    <2> TAKE m \in Nat
    <2>1. PICK p \in Nat : p = m * Unit
      BY ValueAssumption
    <2>2. PICK q \in Nat : q = p \div Unit
      BY DivUnit
    <2>3. Unit * q <= Unit * m /\ Unit * m < Unit * (q + 1)
      BY <2>1, <2>2, DivUnit, ValueAssumption
    <2>4. q <= m
      BY <2>2, <2>3, ValueAssumption
    <2>5. m < q + 1
      BY <2>2, <2>3, ValueAssumption
    <2> QED BY <2>1, <2>2, <2>4, <2>5
  <1>2. CASE n >= 0
    <2>1. n \in Nat
      BY <1>2
    <2> QED BY <1>1, <2>1 DEF AsInt64
  <1>3. CASE ~(n >= 0)
    <2>1. PICK m \in Nat : m = -n /\ m > 0
      BY <1>3
    <2>2. n * Unit \in Int /\ -(n * Unit) = m * Unit /\ ~(n * Unit >= 0)
      BY <2>1, ValueAssumption
    <2>3. AsInt64(type, n * Unit) = -((m * Unit) \div Unit)
      BY <2>2 DEF AsInt64
    <2> QED BY <1>1, <2>1, <2>2, <2>3
  <1> QED BY <1>2, <1>3

\* might_match_range and can_skip_gt never give up a chunk with a live row in
\* the range, whatever its owner did before, as long as its bounds are not
\* out of date: for integer and for float columns.
THEOREM RangeSoundAlways == Spec => []RangeSound
PROOF
  <1>1. ASSUME IInv PROVE RangeSound
    <2> SUFFICES ASSUME bounds # "stale", NEW r \in LiveRows(chunk),
                        NEW lo \in Values, NEW hi \in Values
                 PROVE  LET scale == IF chunk.type \in FloatTypes THEN Unit ELSE 1
                            value == chunk.data[r]
                        IN  /\ ~MightMatchRange(chunk.stats, lo, hi)
                                 => ~(lo * scale <= value /\ value <= hi * scale)
                            /\ chunk.type \in IntTypes /\ CanSkipGt(chunk.stats, lo)
                                 => value <= lo
      BY DEF RangeSound
    <2> DEFINE value == chunk.data[r]
               av    == AsInt64(chunk.type, value)
    <2>1. chunk \in Chunks /\ RowsOf(chunk) \subseteq DOMAIN chunk.data /\ Covers(chunk)
      BY <1>1 DEF IInv, TypeOK, BoundsHold
    <2>2. Values \subseteq Int
      BY ValueAssumption DEF Values
    <2>3. value \in Int /\ lo \in Int /\ hi \in Int
      <3>1. value \in Values
        BY <2>1 DEF LiveRows, Chunks, Buffers
      <3> QED BY <2>2, <3>1
    <2>4. chunk.stats.min \in Int /\ chunk.stats.max \in Int /\ chunk.type \in DataTypes
      BY <2>1, <2>2, ChunkAssumption DEF Chunks, Stats
    <2>5. chunk.stats.initialized =>
            chunk.type # "STRING" /\ chunk.stats.min <= av /\ av <= chunk.stats.max
      BY <2>1 DEF Covers
    <2>6. av \in Int
      BY <2>3, AsInt64Bounds
    <2>7. chunk.type \in IntTypes => av = value /\ chunk.type \notin FloatTypes
      BY DEF AsInt64, IntTypes, FloatTypes
    <2>8. chunk.type \in FloatTypes =>
            /\ lo * Unit <= value => lo <= av
            /\ value <= hi * Unit => av <= hi
      <3> HAVE chunk.type \in FloatTypes
      <3>1. chunk.type \notin IntTypes
        BY DEF IntTypes, FloatTypes
      <3>2. /\ lo * Unit \in Int /\ AsInt64(chunk.type, lo * Unit) = lo
            /\ hi * Unit \in Int /\ AsInt64(chunk.type, hi * Unit) = hi
        BY <2>3, <3>1, AsInt64Whole
      <3>3. lo * Unit <= value => lo <= av
        BY <2>3, <3>2, AsInt64Monotone
      <3>4. value <= hi * Unit => av <= hi
        BY <2>3, <3>2, AsInt64Monotone
      <3> QED BY <3>3, <3>4
    <2> HIDE DEF value, av
    <2>9. ASSUME ~MightMatchRange(chunk.stats, lo, hi)
          PROVE  ~(lo <= av /\ av <= hi) /\ chunk.type \in IntTypes \cup FloatTypes
      BY <2>3, <2>4, <2>5, <2>6, <2>9 DEF MightMatchRange, DataTypes
    <2>10. ASSUME chunk.type \in IntTypes, CanSkipGt(chunk.stats, lo) PROVE value <= lo
      BY <2>3, <2>4, <2>5, <2>6, <2>7, <2>10 DEF CanSkipGt
    <2>11. ASSUME ~MightMatchRange(chunk.stats, lo, hi), chunk.type \in FloatTypes
           PROVE  ~(lo * Unit <= value /\ value <= hi * Unit)
      BY <2>8, <2>9, <2>11
    <2>12. ASSUME ~MightMatchRange(chunk.stats, lo, hi), chunk.type \notin FloatTypes
           PROVE  ~(lo * 1 <= value /\ value <= hi * 1)
      BY <2>3, <2>7, <2>9, <2>12
    <2> QED BY <2>10, <2>11, <2>12 DEF value
  <1> QED BY SpecIInv, <1>1, PTL

\* As long as the observer calls the bounds exact, live rows attain them:
\* only what computes statistics makes them exact, and what keeps them so
\* leaves the live rows and their values alone.
LEMMA NextKeepsExact == IInv /\ ExactHold /\ [Next]_vars => ExactHold'
PROOF
  <1> SUFFICES ASSUME IInv, ExactHold, [Next]_vars, bounds' = "exact" PROVE Attained(chunk')
    BY DEF ExactHold
  <1>1. chunk \in Chunks /\ RowsOf(chunk) \subseteq DOMAIN chunk.data
    BY DEF IInv, TypeOK
  <1>2. PICK m \in 0 .. MaxRows : chunk.data \in [0 .. (m - 1) -> Values]
    BY <1>1 DEF Chunks, Buffers
  <1>3. ASSUME bounds = "exact", LiveRows(chunk') = LiveRows(chunk),
               chunk'.type = chunk.type, chunk'.stats = chunk.stats,
               \A r \in LiveRows(chunk) : chunk'.data[r] = chunk.data[r]
        PROVE  Attained(chunk')
    BY <1>3 DEF ExactHold, Attained
  <1>4. ASSUME NEW n \in 0 .. MaxRows, ResizeTo(n) \/ SetNumRows(n) PROVE FALSE
    BY <1>4 DEF ResizeTo, SetNumRows, Loosened
  <1>5. ASSUME NEW row \in Rows, NEW value \in Values, Store(row, value)
        PROVE  Attained(chunk')
    <2> DEFINE d == [chunk.data EXCEPT ![row] = value]
    <2>1. bounds = "exact" /\ row \notin LiveRows(chunk) /\ row \in DOMAIN chunk.data
          /\ chunk' = [chunk EXCEPT !.data = d]
      BY <1>5 DEF Store
    <2>2. \A r \in LiveRows(chunk) : d[r] = chunk.data[r]
      BY <1>1, <1>2, <2>1 DEF LiveRows
    <2> HIDE DEF d
    <2>3. chunk'.data = d /\ chunk'.num_rows = chunk.num_rows
          /\ chunk'.type = chunk.type /\ chunk'.nulls = chunk.nulls
          /\ chunk'.has_nulls = chunk.has_nulls /\ chunk'.stats = chunk.stats
      BY <1>1, <2>1 DEF Chunks
    <2>4. LiveRows(chunk') = LiveRows(chunk)
      BY <2>3 DEF RowsOf, LiveRows, IsNull
    <2> QED BY <1>3, <2>1, <2>2, <2>3, <2>4
  <1>6. ASSUME NEW row \in Rows, NEW null \in BOOLEAN, MarkNull(row, null)
        PROVE  Attained(chunk')
    <2>1. ~null /\ row \in LiveRows(chunk) /\ bounds = "exact"
      BY <1>6 DEF MarkNull, Loosened
    <2>2. chunk' = [chunk EXCEPT !.has_nulls = chunk.has_nulls \/ FALSE,
                                 !.nulls = chunk.nulls \ {row}]
      BY <1>6, <2>1 DEF MarkNull, SetNull
    <2>3. chunk'.data = chunk.data /\ chunk'.num_rows = chunk.num_rows
          /\ chunk'.type = chunk.type /\ chunk'.stats = chunk.stats
          /\ chunk'.has_nulls = chunk.has_nulls
          /\ chunk'.nulls = chunk.nulls \ {row}
      BY <1>1, <2>2 DEF Chunks
    <2>4. LiveRows(chunk') = LiveRows(chunk)
      BY <2>1, <2>3 DEF RowsOf, LiveRows, IsNull
    <2> QED BY <1>3, <2>1, <2>3, <2>4
  <1>7. Attained(FinalizeStats(chunk)) /\ Attained(StoredChunk(chunk))
    BY <1>1, FinalizeStatsCorrect, StoredChunkCorrect
  <1>8. CASE Finalize \/ WriteAndRead
    BY <1>7, <1>8 DEF Finalize, WriteAndRead
  <1>9. CASE Ensure
    BY <1>7, <1>9 DEF Ensure, EnsureStats, ExactHold
  <1>10. CASE UNCHANGED vars
    BY <1>10 DEF vars, ExactHold
  <1> QED BY <1>4, <1>5, <1>6, <1>8, <1>9, <1>10 DEF Next

\* Fresh statistics lose no chance: an integer chunk in which no live row
\* passes an ordering predicate is skipped.
THEOREM PruneCompleteAlways == Spec => []PruneComplete
PROOF
  <1>1. Init => ExactHold
    <2> SUFFICES ASSUME Init PROVE Attained(chunk)
      BY DEF ExactHold
    <2>1. chunk.stats = NoStats
      BY DEF Init
    <2> QED BY <2>1 DEF Attained, NoStats
  <1>2. ASSUME IInv, ExactHold PROVE PruneComplete
    <2> SUFFICES ASSUME bounds = "exact", chunk.stats.initialized, chunk.type \in IntTypes,
                        NEW op \in {"LT", "LTE", "GT", "GTE"}, NEW threshold \in Values,
                        LiveMatches(op, threshold) = {}
                 PROVE  Skips(op, threshold)
      BY DEF PruneComplete
    <2>1. chunk \in Chunks /\ RowsOf(chunk) \subseteq DOMAIN chunk.data
      BY <1>2 DEF IInv, TypeOK
    <2>2. \A r \in LiveRows(chunk) : AsInt64(chunk.type, chunk.data[r]) = chunk.data[r]
      BY DEF AsInt64
    <2>3. PICK r \in LiveRows(chunk) : chunk.data[r] = chunk.stats.min
      BY <1>2, <2>2 DEF ExactHold, Attained
    <2>4. PICK s \in LiveRows(chunk) : chunk.data[s] = chunk.stats.max
      BY <1>2, <2>2 DEF ExactHold, Attained
    <2>5. Values \subseteq Int
      BY ValueAssumption DEF Values
    <2>6. chunk.stats.min \in Int /\ chunk.stats.max \in Int /\ threshold \in Int
      BY <2>1, <2>5 DEF Chunks, Stats
    <2>7. /\ ~Compare(chunk.stats.min, threshold, op)
          /\ ~Compare(chunk.stats.max, threshold, op)
      BY <2>3, <2>4 DEF LiveMatches
    <2>8. CanSkipPredicate(chunk.stats, op, threshold)
      BY <2>6, <2>7 DEF CanSkipPredicate, Compare
    <2> QED BY <2>8 DEF Skips, AsInt64
  <1> QED BY SpecIInv, NextKeepsExact, <1>1, <1>2, PTL DEF Spec
=============================================================================
