------------------------------ MODULE MCCodec -------------------------------
(***************************************************************************)
(* Instance of Codec for TLC: digits of two bits, elements of two and of   *)
(* three bytes (of three bits), and among the values the least, the        *)
(* greatest and those at which a varint gets longer; two long runs, so     *)
(* that the zeroes of a torn block come out even and do not.               *)
(***************************************************************************)
EXTENDS Codec

Byte(u, k) == (u \div 8 ^ (k - 1)) % 8

\* Two's complement, the low byte first.
MCBytes ==
  [h \in {32, 256} |->
     [v \in Signed(h) |-> [k \in 1 .. Size(h) |-> Byte(v % (2 * h), k)]]]

MCInputs ==
  UNION {[1 .. n -> {-32, -2, 0, 2, 31}] : n \in 0 .. 4}
  \cup UNION {[1 .. n -> {-256, -9, 8, 255}] : n \in 1 .. 3}
  \cup {[n \in 1 .. len |-> 5] : len \in {5, 15, 16}}
  \cup {[n \in 1 .. len |-> IF n <= cut THEN 5 ELSE -3] :
           len \in 6 .. 10, cut \in {3, 5}}
=============================================================================
