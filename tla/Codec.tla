------------------------------- MODULE Codec --------------------------------
(***************************************************************************)
(* The codecs (compression.cpp): a chunk's values are compressed, by RLE   *)
(* run by run and by DELTA value by value, into a block, and the block is  *)
(* decompressed again.  NONE copies; LZ4 is a library that may be missing. *)
(* Between the two the block may have been torn: read_chunk fills what the *)
(* file has not got with zeroes and decompresses it all the same.          *)
(*                                                                         *)
(* int32_t and int64_t are the integers of -Half to Half - 1 for two       *)
(* values of Half; arithmetic on int64_t wraps around.                     *)
(* A block of RLE or DELTA is a sequence of bytes, the digits of a varint  *)
(* being below Digit and its continuation bit worth Digit; RLE compares    *)
(* and copies the bytes of an element and never looks at its value.  Of a  *)
(* block of NONE and of LZ4 only the elements are told apart.              *)
(***************************************************************************)
EXTENDS Integers, Sequences, FiniteSetsExt

CONSTANTS
  Digit,         \* 128, the weight of the continuation bit
  NarrowHalf,    \* 2^31
  WideHalf,      \* 2^63
  NarrowSize,    \* 4, the bytes of an int32_t
  WideSize,      \* 8, the bytes of an int64_t
  Bytes,         \* for each Half the bytes of each value
  Beyond,        \* what memory holds behind a block
  Inputs         \* the sequences of values compressed

\* element_size.
Size(h) == IF h = NarrowHalf THEN NarrowSize ELSE WideSize

Signed(h) == -h .. (h - 1)

ASSUME CodecAssumption ==
  /\ Digit \in Nat /\ Digit >= 2
  /\ NarrowHalf \in Nat \ {0} /\ WideHalf \in Nat
  /\ 2 * NarrowHalf <= WideHalf
  /\ Inputs \subseteq Seq(Int)
  /\ \A s \in Inputs : Len(s) < 2 * WideHalf    \* lengths are uint64_t
  /\ NarrowSize \in Nat \ {0} /\ WideSize \in Nat \ {0}
  /\ \A h \in {NarrowHalf, WideHalf} : \A v \in Signed(h) :
       Bytes[h][v] \in [1 .. Size(h) -> 0 .. (2 * Digit - 1)]

VARIABLES
  codec,      \* "NONE", "RLE", "DELTA" or "LZ4"
  half,       \* of the element type
  input,      \* the values of the chunk
  data,       \* block.data
  i,          \* the encoder's position in input, from 1
  prev,       \* the previous value, of the encoder or of the decoder
  inPos,      \* the decoder's position in data, from 1
  decoded,    \* the elements written to out so far, those of RLE as bytes
  torn,       \* observer: the block has lost its end
  pc          \* "compress", "decompress", "overread", "threw" or "done"

vars == <<codec, half, input, data, i, prev, inPos, decoded, torn, pc>>

-----------------------------------------------------------------------------
(* Integers.                                                               *)

\* What is left of n in a signed type: two's complement.
Wrap(n, h) == ((n + h) % (2 * h)) - h

\* (n << 1) ^ (n >> 63) and back.
ZigZag(n) == IF n >= 0 THEN 2 * n ELSE -2 * n - 1

\* Mutant: the sign of the odd numbers is lost.
UnZigZagUnsigned(u) == (u + 1) \div 2

UnZigZag(u) == IF u % 2 = 0 THEN u \div 2 ELSE -((u + 1) \div 2)

\* Mutant: a last digit of 128 keeps its top bit.
VarintOffByOne(v) ==
  LET bytes[n \in 0 .. (2 * WideHalf - 1)] ==
        IF n <= Digit THEN <<n>> ELSE <<Digit + (n % Digit)>> \o bytes[n \div Digit]
  IN  bytes[v]

\* write_varint: the low digits first, all but the last with the top bit.
Varint(v) ==
  LET bytes[n \in 0 .. (2 * WideHalf - 1)] ==
        IF n < Digit THEN <<n>> ELSE <<Digit + (n % Digit)>> \o bytes[n \div Digit]
  IN  bytes[v]

\* read_varint stops behind the first byte without the top bit.
VarintEnd(pos) ==
  Min({Len(data) + 1} \cup {q \in pos .. Len(data) : data[q] < Digit})

VarintAt(pos) ==
  LET last == Min({VarintEnd(pos), Len(data)})
      value[q \in pos .. (last + 1)] ==
        IF q > last THEN 0 ELSE (data[q] % Digit) + Digit * value[q + 1]
  IN  value[pos] % (2 * WideHalf)

-----------------------------------------------------------------------------

Init ==
  /\ codec \in {"NONE", "RLE", "DELTA", "LZ4"}
  /\ half \in {NarrowHalf, WideHalf}
  /\ input \in {s \in Inputs : \A n \in DOMAIN s : s[n] \in Signed(half)}
  /\ data = << >> /\ i = 1 /\ prev = 0
  /\ inPos = 1 /\ decoded = << >>
  /\ torn = FALSE /\ pc = "compress"

BytesOf(v) == Bytes[half][v]

\* The length of the run that begins at the encoder's position: memcmp.
Run ==
  Max({n \in 1 .. (Len(input) - i + 1) :
         \A j \in i .. (i + n - 1) : BytesOf(input[j]) = BytesOf(input[i])})

CompressRun ==
  /\ pc = "compress" /\ codec = "RLE" /\ i <= Len(input)
  /\ data' = data \o BytesOf(input[i]) \o Varint(Run)
  /\ i' = i + Run
  /\ UNCHANGED <<codec, half, input, prev, inPos, decoded, torn, pc>>

\* v[i] - prev.  The difference of two int32_t may overflow, which is
\* undefined: the build may wrap it or keep it whole on its way to int64_t.
Differences(v, p, h) ==
  IF h = NarrowHalf THEN {v - p, Wrap(v - p, h)} ELSE {Wrap(v - p, h)}

CompressDelta ==
  /\ pc = "compress" /\ codec = "DELTA" /\ i <= Len(input)
  /\ \E delta \in IF i = 1 THEN {input[1]} ELSE Differences(input[i], prev, half) :
       data' = data \o Varint(ZigZag(delta))
  /\ prev' = input[i]
  /\ i' = i + 1
  /\ UNCHANGED <<codec, half, input, inPos, decoded, torn, pc>>

\* NONE copies the bytes; what LZ4 makes of them is up to the library.
CompressWhole ==
  /\ pc = "compress" /\ codec \in {"NONE", "LZ4"} /\ i <= Len(input)
  /\ data' = input
  /\ i' = Len(input) + 1
  /\ UNCHANGED <<codec, half, input, prev, inPos, decoded, torn, pc>>

\* make_codec in a build without LZ4, or the library, which may also refuse a
\* block that was torn.
Lz4Throws ==
  /\ codec = "LZ4" /\ pc \in {"compress", "decompress"}
  /\ pc' = "threw"
  /\ UNCHANGED <<codec, half, input, data, i, prev, inPos, decoded, torn>>

Decompress ==
  /\ pc = "compress" /\ i > Len(input)
  /\ pc' = "decompress"
  /\ prev' = 0
  /\ UNCHANGED <<codec, half, input, data, i, inPos, decoded, torn>>

\* read_chunk: the payload is as long as the header says, and zero where the
\* file ended.
Tear ==
  /\ pc = "decompress" /\ inPos = 1 /\ decoded = << >> /\ ~torn
  /\ \E t \in DOMAIN data : data' = [n \in DOMAIN data |-> IF n < t THEN data[n] ELSE 0]
  /\ torn' = TRUE
  /\ UNCHANGED <<codec, half, input, i, prev, inPos, decoded, pc>>

\* NONE, and LZ4 where it does not throw.
DecompressWhole ==
  /\ pc = "decompress" /\ codec \in {"NONE", "LZ4"} /\ inPos <= Len(data)
  /\ decoded' = data
  /\ inPos' = Len(data) + 1
  /\ UNCHANGED <<codec, half, input, data, i, prev, torn, pc>>

\* The number that should be at pos does not end within the block, and is
\* read on behind it.
RunsOver(pos) ==
  /\ VarintEnd(pos) > Len(data)
  /\ inPos' = Len(data) + 2
  /\ pc' = "overread"
  /\ UNCHANGED <<codec, half, input, data, i, prev, torn>>

\* The loop goes on while there is data, whatever out has room for.  A number
\* read behind the block may be any; one above Len(input) stands for all that
\* are too great for out.
DecompressRun ==
  /\ pc = "decompress" /\ codec = "RLE" /\ inPos <= Len(data)
  /\ LET number == inPos + Size(half)
         element == IF number <= Len(data) + 1
                      THEN SubSeq(data, inPos, number - 1) ELSE Beyond
     IN  \/ /\ RunsOver(number)
            /\ \E run \in 0 .. (Len(input) + 1) :
                 decoded' = decoded \o [n \in 1 .. run |-> element]
         \/ /\ VarintEnd(number) <= Len(data)
            /\ decoded' = decoded \o [n \in 1 .. VarintAt(number) |-> element]
            /\ inPos' = VarintEnd(number) + 1
            /\ UNCHANGED <<codec, half, input, data, i, prev, torn, pc>>

\* static_cast to the element type, then prev += delta, which wraps.
Undone(zz, p, h) == Wrap(p + Wrap(UnZigZag(zz), h), h)

\* The loop goes on until out is full, whatever data there is.
DecompressDelta ==
  /\ pc = "decompress" /\ codec = "DELTA" /\ Len(decoded) < Len(input)
  /\ \/ RunsOver(inPos) /\ decoded' = Append(decoded, Beyond)
     \/ /\ VarintEnd(inPos) <= Len(data)
        /\ prev' = Undone(VarintAt(inPos), prev, half)
        /\ decoded' = Append(decoded, prev')
        /\ inPos' = VarintEnd(inPos) + 1
        /\ UNCHANGED <<codec, half, input, data, i, torn, pc>>

Finish ==
  /\ pc = "decompress" /\ pc' = "done"
  /\ IF codec = "DELTA" THEN Len(decoded) >= Len(input) ELSE inPos > Len(data)
  /\ UNCHANGED <<codec, half, input, data, i, prev, inPos, decoded, torn>>

Next ==
  \/ CompressRun \/ CompressDelta \/ CompressWhole
  \/ Lz4Throws \/ Decompress \/ Tear
  \/ DecompressRun \/ DecompressDelta \/ DecompressWhole \/ Finish

Spec == Init /\ [][Next]_vars

-----------------------------------------------------------------------------

\* The elements as the decoder of each codec writes them.
Elements == IF codec = "RLE" THEN [n \in DOMAIN input |-> BytesOf(input[n])] ELSE input

\* Decompressing gives back the values that were compressed, also where the
\* difference of two of them does not fit their type and whichever way the
\* build then takes it.
RoundTrip == pc = "done" /\ ~torn => decoded = Elements

\* A run whose length takes a varint of two bytes.
LongRun ==
  \E n \in DOMAIN input :
    /\ n + Digit - 1 <= Len(input)
    /\ \A j \in n .. (n + Digit - 1) : BytesOf(input[j]) = BytesOf(input[n])

\* The decoders check neither end.  Of a whole block they stay within it and
\* within the room for the values, and leave nothing unread.  Only a torn RLE
\* block can make a decoder read on behind it, since the turns of the decoder
\* need not come out even with the zeroes, and only one that holds a run of
\* 128 or more; what is then read may make it write behind the room as well.
InBounds ==
  /\ pc # "overread" => inPos <= Len(data) + 1 /\ Len(decoded) <= Len(input)
  /\ pc = "overread" => torn /\ codec = "RLE" /\ LongRun
  /\ pc = "done" /\ ~torn => inPos = Len(data) + 1
=============================================================================
