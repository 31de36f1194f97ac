---------------------------- MODULE Codec_proofs ----------------------------
(***************************************************************************)
(* The codecs give back what they were given, and their decoders, which    *)
(* check no bounds, keep to them but where a torn block makes them read    *)
(* behind it: for element types and varint digits of every size and chunks *)
(* of any length.  What VarintEnd and VarintAt make of the bytes of a      *)
(* number, whole or cut off, comes first, then what a block is made of,    *)
(* then an invariant that says where in the block and in the chunk the     *)
(* encoder and the decoder are.                                            *)
(***************************************************************************)
EXTENDS Codec, SequenceTheorems, WellFoundedInduction, TLAPS

\* What is assumed of the numbers.
LEMMA Weights ==
  /\ Digit \in Nat /\ Digit >= 2
  /\ NarrowHalf \in Nat \ {0} /\ WideHalf \in Nat /\ 2 * NarrowHalf <= WideHalf
  /\ Inputs \subseteq Seq(Int) /\ \A s \in Inputs : Len(s) < 2 * WideHalf
PROOF BY CodecAssumption

LEMMA ThreeParts ==
  ASSUME NEW s \in Seq(Int), NEW t \in Seq(Int), NEW u \in Seq(Int)
  PROVE  (s \o t) \o u = s \o (t \o u)
  BY ConcatAssociative, SMTT(30)

\* The zigzag numbers of the integers: zigzag_decode undoes zigzag_encode.
LEMMA ZigZagUndone ==
  ASSUME NEW n \in Int
  PROVE  UnZigZag(ZigZag(n)) = n
<1>1. CASE n >= 0
  BY <1>1 DEF ZigZag, UnZigZag
<1>2. CASE n < 0
  BY <1>2 DEF ZigZag, UnZigZag
<1> QED BY <1>1, <1>2

\* The remainder of an integer that is at most one modulus away from 0 .. m - 1.
LEMMA NearModulus ==
  ASSUME NEW m \in Nat \ {0}, NEW x \in Int
  PROVE  /\ x \in 0 .. (m - 1) => x % m = x
         /\ x \in m .. (2 * m - 1) => x % m = x - m
         /\ x \in (-m) .. (-1) => x % m = x + m
  OBVIOUS

\* What a value that overflows by at most one turn wraps to.
LEMMA WrapOnce ==
  ASSUME NEW h \in Nat \ {0}, NEW n \in Int
  PROVE  /\ n \in Signed(h) => Wrap(n, h) = n
         /\ n \in h .. (3 * h - 1) => Wrap(n, h) = n - 2 * h
         /\ n \in (-3 * h) .. (-h - 1) => Wrap(n, h) = n + 2 * h
<1> DEFINE m == 2 * h
           x == n + h
<1>1. m \in Nat \ {0} /\ x \in Int
  OBVIOUS
<1>2. /\ x \in 0 .. (m - 1) => x % m = x
      /\ x \in m .. (2 * m - 1) => x % m = x - m
      /\ x \in (-m) .. (-1) => x % m = x + m
  <2> HIDE DEF m, x
  <2> QED BY <1>1, NearModulus
<1>3. Wrap(n, h) = (x % m) - h
  BY DEF Wrap
<1>4. ASSUME n \in Signed(h) PROVE Wrap(n, h) = n
  <2>1. x \in 0 .. (m - 1)
    BY <1>4 DEF Signed
  <2>2. x % m = x
    BY <2>1, <1>2
  <2> QED BY <1>3, <2>2
<1>5. ASSUME n \in h .. (3 * h - 1) PROVE Wrap(n, h) = n - 2 * h
  <2>1. x \in m .. (2 * m - 1)
    BY <1>5
  <2>2. x % m = x - m
    BY <2>1, <1>2
  <2> QED BY <1>3, <2>2
<1>6. ASSUME n \in (-3 * h) .. (-h - 1) PROVE Wrap(n, h) = n + 2 * h
  <2>1. x \in (-m) .. (-1)
    BY <1>6
  <2>2. x % m = x + m
    BY <2>1, <1>2
  <2> QED BY <1>3, <2>2
<1> QED BY <1>4, <1>5, <1>6

\* The decoder's step of DELTA undoes the encoder's, for every two values of
\* an element type of any width: also where their difference overflows it, and
\* whether the build wraps the difference or keeps it whole.
THEOREM DeltaStepExact ==
  ASSUME NEW h \in Nat \ {0}, NEW v \in Signed(h), NEW p \in Signed(h),
         NEW d \in Differences(v, p, h)
  PROVE  Undone(ZigZag(d), p, h) = v
<1>1. v \in Int /\ p \in Int /\ v - p \in Int /\ v - p \in (-2 * h + 1) .. (2 * h - 1)
  BY DEF Signed
<1>2. \/ v - p \in Signed(h) /\ Wrap(v - p, h) = v - p
      \/ v - p >= h /\ Wrap(v - p, h) = v - p - 2 * h
      \/ v - p < -h /\ Wrap(v - p, h) = v - p + 2 * h
  <2>1. CASE v - p \in Signed(h)
    BY <2>1, <1>1, WrapOnce
  <2>2. CASE v - p >= h
    <3>1. v - p \in h .. (3 * h - 1)
      BY <2>2, <1>1
    <3> QED BY <3>1, <2>2, <1>1, WrapOnce
  <2>3. CASE v - p < -h
    <3>1. v - p \in (-3 * h) .. (-h - 1)
      BY <2>3, <1>1
    <3> QED BY <3>1, <2>3, <1>1, WrapOnce
  <2> QED BY <2>1, <2>2, <2>3, <1>1 DEF Signed
<1> DEFINE w == Wrap(v - p, h)
<1>3. w \in Int /\ w \in Signed(h)
  BY <1>1, <1>2 DEF Signed
<1>4. d \in Int /\ Wrap(d, h) = w
  <2>1. d = v - p \/ d = w
    BY DEF Differences
  <2>2. Wrap(w, h) = w
    <3> HIDE DEF w
    <3> QED BY <1>3, WrapOnce
  <2> QED BY <2>1, <2>2, <1>1, <1>3
<1>5. UnZigZag(ZigZag(d)) = d
  BY <1>4, ZigZagUndone
<1>6. Undone(ZigZag(d), p, h) = Wrap(p + w, h)
  BY <1>4, <1>5 DEF Undone
<1>7. Wrap(p + w, h) = v
  <2>1. CASE w = v - p
    <3>1. p + w = v
      BY <2>1, <1>1
    <3> QED BY <3>1, <1>1, WrapOnce
  <2>2. CASE w = v - p - 2 * h /\ v - p >= h
    <3>1. p + w = v - 2 * h /\ p + w \in Int
      BY <2>2, <1>1
    <3>2. p + w \in (-3 * h) .. (-h - 1)
      BY <3>1, <1>1 DEF Signed
    <3>3. Wrap(p + w, h) = (p + w) + 2 * h
      <4> HIDE DEF w
      <4> QED BY <3>1, <3>2, WrapOnce
    <3> QED BY <3>1, <3>3, <1>1
  <2>3. CASE w = v - p + 2 * h /\ v - p < -h
    <3>1. p + w = v + 2 * h /\ p + w \in Int
      BY <2>3, <1>1
    <3>2. p + w \in h .. (3 * h - 1)
      BY <3>1, <1>1 DEF Signed
    <3>3. Wrap(p + w, h) = (p + w) - 2 * h
      <4> HIDE DEF w
      <4> QED BY <3>1, <3>2, WrapOnce
    <3> QED BY <3>1, <3>3, <1>1
  <2> QED BY <2>1, <2>2, <2>3, <1>2
<1> QED BY <1>6, <1>7

-----------------------------------------------------------------------------
(* Least and greatest numbers.                                             *)

\* A set of natural numbers has a least one, and Min is it.
LEMMA LeastNumber ==
  ASSUME NEW S \in SUBSET Nat, S # {}
  PROVE  Min(S) \in S /\ \A n \in S : Min(S) <= n
PROOF
  <1>1. PICK t \in S : \A u \in S : ~(<<u, t>> \in OpToRel(<, Nat))
    BY NatLessThanWellFounded, WFMin, Zenon
  <1>2. \A u \in S : t <= u
    <2> TAKE u \in S
    <2>1. t \in Nat /\ u \in Nat
      OBVIOUS
    <2>2. ~(u < t)
      BY <1>1, <2>1 DEF OpToRel
    <2> QED BY <2>1, <2>2
  <1> QED BY <1>2 DEF Min

\* A set of natural numbers none of which is above b has a greatest one.
LEMMA GreatestNumber ==
  ASSUME NEW b \in Nat, NEW S \in SUBSET (0 .. b), S # {}
  PROVE  Max(S) \in S /\ \A n \in S : n <= Max(S)
PROOF
  <1> DEFINE T == {b - n : n \in S}
  <1>1. T \in SUBSET Nat /\ T # {}
    <2>1. \A n \in S : b - n \in Nat
      OBVIOUS
    <2>2. PICK n \in S : TRUE
      OBVIOUS
    <2> QED BY <2>1, <2>2
  <1>2. PICK m \in T : \A n \in T : m <= n
    <2> HIDE DEF T
    <2> QED BY <1>1, LeastNumber
  <1>3. PICK t \in S : m = b - t
    BY <1>2
  <1>4. \A n \in S : n <= t
    <2> TAKE n \in S
    <2>1. m <= b - n
      BY <1>2
    <2> QED BY <1>3, <2>1
  <1> QED BY <1>3, <1>4 DEF Max

-----------------------------------------------------------------------------
(* Varints.                                                                *)

Words == 0 .. (2 * WideHalf - 1)

\* A number above the last digit loses one when it is divided.
LEMMA DigitSplit ==
  ASSUME NEW v \in Nat
  PROVE  /\ v % Digit \in 0 .. (Digit - 1) /\ v \div Digit \in Nat
         /\ v = (v % Digit) + Digit * (v \div Digit)
         /\ v >= Digit => v \div Digit < v
         /\ v \div Digit <= v
PROOF
  <1>1. Digit \in Nat /\ Digit >= 2
    BY Weights
  <1>2. v % Digit \in 0 .. (Digit - 1) /\ v \div Digit \in Nat
    BY <1>1
  <1>3. v % Digit = v - Digit * (v \div Digit)
    BY <1>1
  <1>4. v >= Digit => v \div Digit < v
    BY <1>1
  <1>5. v \div Digit <= v
    BY <1>1
  <1>6. v = (v % Digit) + Digit * (v \div Digit)
    <2>1. PICK q \in Nat, r \in Nat : q = v \div Digit /\ r = v % Digit
      BY <1>1, <1>2
    <2>2. PICK m \in Nat : m = Digit * q
      BY <1>1
    <2>3. r = v - m
      BY <1>3, <2>1, <2>2
    <2> QED BY <2>1, <2>2, <2>3
  <1> QED BY <1>2, <1>4, <1>5, <1>6

\* write_varint: the recursion that defines Varint has a solution, as a number
\* is above its quotient.
LEMMA VarintUnfolds ==
  ASSUME NEW v \in Words
  PROVE  Varint(v) = IF v < Digit THEN <<v>>
                     ELSE <<Digit + (v % Digit)>> \o Varint(v \div Digit)
PROOF
  <1> DEFINE Step(f, n) == IF n < Digit THEN <<n>> ELSE <<Digit + (n % Digit)>> \o f[n \div Digit]
             Unfolds(f) == f = [n \in Words |-> Step(f, n)]
             UpTo(f, m) == \A n \in Words : n < m => f[n] = Step(f, n)
             W == 2 * WideHalf
             f == CHOOSE f : Unfolds(f)
  <1>1. W \in Nat /\ Words = 0 .. (W - 1) /\ Digit \in Nat /\ Digit >= 2
    BY Weights DEF Words
  <1>2. \A n \in Words : n \div Digit \in Words /\ (n >= Digit => n \div Digit < n)
    <2> TAKE n \in Words
    <2>1. n \in Nat
      BY <1>1
    <2>2. n \div Digit \in Nat /\ (n >= Digit => n \div Digit < n) /\ n \div Digit <= n
      BY <2>1, DigitSplit
    <2> QED BY <1>1, <2>1, <2>2
  <1>3. ASSUME NEW m \in Nat, NEW g, DOMAIN g = Words, UpTo(g, m)
        PROVE  \E h : DOMAIN h = Words /\ UpTo(h, m + 1)
    <2> DEFINE h == [n \in Words |-> IF n = m THEN Step(g, n) ELSE g[n]]
    <2>1. ASSUME NEW n \in Words, n <= m PROVE Step(h, n) = Step(g, n)
      <3>1. CASE n < Digit
        BY <3>1
      <3>2. CASE ~(n < Digit)
        <4>1. /\ n \div Digit \in Words /\ n \in Nat /\ n \div Digit \in Nat
              /\ n >= Digit
          BY <1>1, <1>2, <3>2
        <4>2. n \div Digit < n
          BY <1>2, <4>1
        <4>3. n \div Digit # m
          BY <2>1, <4>1, <4>2
        <4>4. h[n \div Digit] = g[n \div Digit]
          BY <4>1, <4>3
        <4> HIDE DEF h
        <4> QED BY <3>2, <4>4
      <3> QED BY <3>1, <3>2
    <2>2. ASSUME NEW n \in Words, n < m + 1 PROVE h[n] = Step(h, n)
      <3>1. n \in Nat /\ n <= m
        BY <1>1, <2>2
      <3>2. Step(h, n) = Step(g, n)
        BY <2>1, <3>1
      <3>3. CASE n = m
        BY <3>2, <3>3
      <3>4. CASE n # m
        <4>1. n < m
          BY <3>1, <3>4
        <4>2. g[n] = Step(g, n)
          BY <1>3, <4>1
        <4> QED BY <3>2, <3>4, <4>2
      <3> QED BY <3>3, <3>4
    <2>3. DOMAIN h = Words
      OBVIOUS
    <2> HIDE DEF h, Step
    <2> QED BY <2>2, <2>3
  <1>4. \E g : DOMAIN g = Words /\ UpTo(g, W)
    <2> DEFINE Bad == {m \in Nat : ~\E g : DOMAIN g = Words /\ UpTo(g, m)}
    <2>1. SUFFICES Bad = {}
      BY <1>1
    <2>2. SUFFICES ASSUME Bad # {} PROVE FALSE
      OBVIOUS
    <2>3. PICK m \in Bad : \A n \in Bad : m <= n
      <3>1. Bad \in SUBSET Nat
        OBVIOUS
      <3> HIDE DEF Bad
      <3> QED BY <2>2, <3>1, LeastNumber
    <2>4. m # 0
      <3>1. DOMAIN [n \in Words |-> 0] = Words /\ UpTo([n \in Words |-> 0], 0)
        <4>1. \A n \in Words : ~(n < 0)
          BY <1>1
        <4> HIDE DEF Step
        <4> QED BY <4>1
      <3> HIDE DEF UpTo
      <3>2. 0 \notin Bad
        BY <3>1
      <3> HIDE DEF Bad
      <3> QED BY <2>3, <3>2
    <2>5. m - 1 \in Nat /\ (m - 1) + 1 = m /\ ~(m <= m - 1)
      BY <2>4
    <2>6. m - 1 \notin Bad
      <3> HIDE DEF Bad
      <3> QED BY <2>3, <2>5
    <2>7. PICK g : DOMAIN g = Words /\ UpTo(g, m - 1)
      <3> HIDE DEF UpTo
      <3> QED BY <2>5, <2>6
    <2>8. \E h : DOMAIN h = Words /\ UpTo(h, (m - 1) + 1)
      <3> HIDE DEF UpTo
      <3> QED BY <1>3, <2>5, <2>7
    <2>9. m \notin Bad
      <3> HIDE DEF UpTo
      <3> QED BY <2>5, <2>8
    <2> QED BY <2>9
  <1>5. PICK g : DOMAIN g = Words /\ UpTo(g, W)
    BY <1>4
  <1>6. \A n \in Words : g[n] = Step(g, n)
    <2> HIDE DEF Step
    <2> QED BY <1>1, <1>5
  <1>7. Unfolds(f)
    <2>1. Unfolds([n \in Words |-> g[n]])
      <3>1. \A n \in Words : Step([k \in Words |-> g[k]], n) = Step(g, n)
        BY <1>1, <1>2
      <3> HIDE DEF Step
      <3> QED BY <1>6, <3>1
    <2> DEFINE w == [n \in Words |-> g[n]]
    <2>2. Unfolds(w)
      BY <2>1
    <2> HIDE DEF w, Unfolds
    <2> QED BY <2>2, Zenon
  <1>8. \A u : Varint(u) = f[u]
    BY Zenon DEF Varint, Words
  <1>9. \A n \in Words : f[n] = Step(f, n)
    <2> HIDE DEF f, Step
    <2> QED BY <1>7
  <1>10. v < Digit \/ ~(v < Digit)
    OBVIOUS
  <1> HIDE DEF f
  <1> QED BY <1>8, <1>9

\* What Varint(v) is like: all its bytes but the last have the top bit.
WellFormed(e) ==
  /\ e \in Seq(Nat) /\ Len(e) >= 1 /\ e[Len(e)] < Digit
  /\ \A j \in 1 .. (Len(e) - 1) : e[j] >= Digit

\* read_varint, going over the bytes of d from p to last, comes to x.
Reads(d, p, last, x) ==
  \E g : /\ DOMAIN g = p .. (last + 1) /\ g[p] = x
         /\ \A q \in p .. (last + 1) :
              g[q] = IF q > last THEN 0 ELSE (d[q] % Digit) + Digit * g[q + 1]

\* A number of one byte.
LEMMA ReadsOne ==
  ASSUME NEW d, NEW p \in Nat, d[p] \in Nat
  PROVE  Reads(d, p, p, d[p] % Digit)
PROOF
  <1> DEFINE c == d[p] % Digit
             g == [q \in p .. (p + 1) |-> IF q = p THEN c ELSE 0]
  <1>1. c \in Nat /\ Digit \in Nat
    <2>1. c \in 0 .. (Digit - 1)
      BY DigitSplit
    <2> HIDE DEF c
    <2> QED BY <2>1, Weights
  <1>2. p + 1 # p /\ p \in p .. (p + 1) /\ p + 1 \in p .. (p + 1)
    OBVIOUS
  <1>3. g[p] = c /\ g[p + 1] = 0 /\ DOMAIN g = p .. (p + 1)
    BY <1>2
  <1>4. c = c + Digit * 0
    BY <1>1
  <1> HIDE DEF g
  <1>5. ASSUME NEW q \in p .. (p + 1)
        PROVE  g[q] = IF q > p THEN 0 ELSE (d[q] % Digit) + Digit * g[q + 1]
    <2>1. CASE q = p
      BY <1>3, <1>4, <2>1
    <2>2. CASE q = p + 1
      BY <1>3, <2>2
    <2> QED BY <2>1, <2>2
  <1> QED BY <1>3, <1>5 DEF Reads

\* One byte more in front.
LEMMA ReadsMore ==
  ASSUME NEW d, NEW p \in Nat, NEW last \in Nat, p <= last, NEW x, Reads(d, p + 1, last, x)
  PROVE  Reads(d, p, last, (d[p] % Digit) + Digit * x)
PROOF
  <1>1. PICK f : /\ DOMAIN f = (p + 1) .. (last + 1) /\ f[p + 1] = x
                 /\ \A q \in (p + 1) .. (last + 1) :
                      f[q] = IF q > last THEN 0 ELSE (d[q] % Digit) + Digit * f[q + 1]
    BY DEF Reads
  <1> DEFINE y == (d[p] % Digit) + Digit * x
             g == [q \in p .. (last + 1) |-> IF q = p THEN y ELSE f[q]]
  <1>2. DOMAIN g = p .. (last + 1) /\ g[p] = y
    OBVIOUS
  <1>3. \A q \in (p + 1) .. (last + 1) : g[q] = f[q] /\ q \in p .. (last + 1)
    OBVIOUS
  <1>4. p + 1 \in (p + 1) .. (last + 1)
    OBVIOUS
  <1>5. y = (d[p] % Digit) + Digit * g[p + 1]
    BY <1>1, <1>3, <1>4
  <1> HIDE DEF g, y
  <1>6. ASSUME NEW q \in p .. (last + 1)
        PROVE  g[q] = IF q > last THEN 0 ELSE (d[q] % Digit) + Digit * g[q + 1]
    <2>1. CASE q = p
      <3>1. ~(q > last)
        BY <2>1
      <3> QED BY <1>2, <1>5, <2>1, <3>1
    <2>2. CASE q # p /\ q > last
      <3>1. q \in (p + 1) .. (last + 1)
        BY <2>2
      <3> QED BY <1>1, <1>3, <2>2, <3>1
    <2>3. CASE q # p /\ ~(q > last)
      <3>1. q \in (p + 1) .. (last + 1) /\ q + 1 \in (p + 1) .. (last + 1)
        BY <2>3
      <3>2. g[q] = f[q] /\ g[q + 1] = f[q + 1]
        BY <1>3, <3>1
      <3> QED BY <1>1, <2>3, <3>1, <3>2
    <2> QED BY <2>1, <2>2, <2>3
  <1> QED BY <1>2, <1>6 DEF Reads, y

\* The bytes lead to one number only.
LEMMA ReadsOnce ==
  ASSUME NEW d, NEW p \in Nat, NEW last \in Nat, p <= last + 1,
         NEW x, NEW y, Reads(d, p, last, x), Reads(d, p, last, y)
  PROVE  x = y
PROOF
  <1> DEFINE Goes(g) == /\ DOMAIN g = p .. (last + 1)
                        /\ \A q \in p .. (last + 1) :
                             g[q] = IF q > last THEN 0 ELSE (d[q] % Digit) + Digit * g[q + 1]
  <1>1. PICK f : Goes(f) /\ f[p] = x
    BY DEF Reads
  <1>2. PICK g : Goes(g) /\ g[p] = y
    BY DEF Reads
  <1> DEFINE Bad == {n \in Nat : n <= last + 1 - p /\ f[last + 1 - n] # g[last + 1 - n]}
  <1>3. SUFFICES ASSUME x # y PROVE FALSE
    OBVIOUS
  <1>4. last + 1 - p \in Bad
    <2>1. last + 1 - p \in Nat /\ last + 1 - (last + 1 - p) = p
      OBVIOUS
    <2> HIDE DEF Goes
    <2> QED BY <1>1, <1>2, <1>3, <2>1
  <1>5. PICK n \in Bad : \A m \in Bad : n <= m
    <2>1. Bad \in SUBSET Nat /\ Bad # {}
      BY <1>4
    <2> HIDE DEF Bad
    <2> QED BY <2>1, LeastNumber
  <1>6. n \in Nat /\ n <= last + 1 - p /\ f[last + 1 - n] # g[last + 1 - n]
    OBVIOUS
  <1>7. last + 1 - n \in p .. (last + 1)
    BY <1>6
  <1>8. CASE n = 0
    <2>1. last + 1 - n > last
      BY <1>8
    <2>2. f[last + 1 - n] = 0
      BY <1>1, <1>7, <2>1
    <2>3. g[last + 1 - n] = 0
      BY <1>2, <1>7, <2>1
    <2> QED BY <1>6, <2>2, <2>3
  <1>9. CASE n # 0
    <2>1. n - 1 \in Nat /\ n - 1 <= last + 1 - p /\ ~(n <= n - 1)
      BY <1>6, <1>9
    <2>2. n - 1 \notin Bad
      <3> HIDE DEF Bad
      <3> QED BY <1>5, <2>1
    <2>3. f[last + 1 - (n - 1)] = g[last + 1 - (n - 1)]
      BY <2>1, <2>2
    <2>4. last + 1 - (n - 1) = (last + 1 - n) + 1 /\ ~(last + 1 - n > last)
      BY <1>6, <1>9
    <2>5. f[(last + 1 - n) + 1] = g[(last + 1 - n) + 1]
      BY <2>3, <2>4
    <2>6. f[last + 1 - n] = (d[last + 1 - n] % Digit) + Digit * f[(last + 1 - n) + 1]
      BY <1>1, <1>7, <2>4
    <2>7. g[last + 1 - n] = (d[last + 1 - n] % Digit) + Digit * g[(last + 1 - n) + 1]
      BY <1>2, <1>7, <2>4
    <2> QED BY <1>6, <2>5, <2>6, <2>7
  <1> QED BY <1>8, <1>9

-----------------------------------------------------------------------------
(* What is written and what is read.                                       *)

\* From p on, d has the first n bytes of e.
Begins(d, p, e, n) == \A j \in 1 .. n : d[p + j - 1] = e[j]

\* Bytes that write_varint wrote are read as what it was given, and those of a
\* number cut off by zeroes as less.
ReadBack(v) ==
  /\ \A d, p : p \in Nat /\ Begins(d, p, Varint(v), Len(Varint(v)))
                 => Reads(d, p, p + Len(Varint(v)) - 1, v)
  /\ \A d, p, n : p \in Nat /\ n \in 0 .. (Len(Varint(v)) - 1)
                    /\ Begins(d, p, Varint(v), n) /\ d[p + n] = 0
                    => \E x \in 0 .. v : Reads(d, p, p + n, x)

\* A digit on its own.
LEMMA DigitReadBack ==
  ASSUME NEW v \in Words, v < Digit
  PROVE  WellFormed(Varint(v)) /\ ReadBack(v)
PROOF
  <1>1. Varint(v) = <<v>>
    BY VarintUnfolds
  <1>2. v \in Nat /\ Digit \in Nat /\ Digit >= 2
    BY Weights DEF Words
  <1>3. WellFormed(Varint(v))
    <2>1. Len(<<v>>) = 1 /\ <<v>>[1] = v /\ <<v>> \in Seq(Nat)
      BY <1>2
    <2> QED BY <1>1, <2>1 DEF WellFormed
  <1>4. v % Digit = v /\ 0 % Digit = 0
    BY <1>2
  <1>5. ASSUME NEW d, NEW p \in Nat, Begins(d, p, <<v>>, 1) PROVE Reads(d, p, p, v)
    <2>1. d[p] = v
      <3>1. 1 \in 1 .. 1 /\ p + 1 - 1 = p /\ <<v>>[1] = v
        OBVIOUS
      <3> QED BY <1>5, <3>1 DEF Begins
    <2>2. Reads(d, p, p, d[p] % Digit)
      BY <1>2, <2>1, ReadsOne
    <2> QED BY <1>4, <2>1, <2>2
  <1>6. ASSUME NEW d, NEW p \in Nat, d[p] = 0 PROVE Reads(d, p, p, 0)
    <2>1. Reads(d, p, p, d[p] % Digit)
      BY <1>6, ReadsOne
    <2> QED BY <1>4, <1>6, <2>1
  <1>7. ReadBack(v)
    <2>1. Len(<<v>>) = 1 /\ 0 \in 0 .. v
      BY <1>2
    <2>2. ASSUME NEW d, NEW p \in Nat, NEW n \in 0 .. 0, d[p + n] = 0
          PROVE  \E x \in 0 .. v : Reads(d, p, p + n, x)
      <3>1. p + n = p
        BY <2>2
      <3> QED BY <1>6, <2>1, <2>2, <3>1
    <2>3. ASSUME NEW d, NEW p \in Nat, Begins(d, p, <<v>>, 1) PROVE Reads(d, p, p + 1 - 1, v)
      <3>1. p + 1 - 1 = p
        OBVIOUS
      <3> QED BY <1>5, <2>3, <3>1
    <2> QED BY <1>1, <2>1, <2>2, <2>3 DEF ReadBack
  <1> QED BY <1>3, <1>7

\* A digit in front of a number.
LEMMA LongerReadBack ==
  ASSUME NEW v \in Words, v >= Digit, v \div Digit \in Words,
         WellFormed(Varint(v \div Digit)), ReadBack(v \div Digit)
  PROVE  WellFormed(Varint(v)) /\ ReadBack(v)
PROOF
  <1>1. PICK w \in Words : w = v \div Digit
    OBVIOUS
  <1>2. PICK e : e = Varint(w)
    OBVIOUS
  <1>3. v \in Nat /\ w \in Nat /\ Digit \in Nat /\ Digit >= 2
    BY Weights DEF Words
  <1>4. PICK r \in 0 .. (Digit - 1) : r = v % Digit /\ v = r + Digit * w
    BY <1>1, <1>3, DigitSplit
  <1>5. ~(v < Digit)
    BY <1>3
  <1>6. Varint(v) = <<Digit + r>> \o e
    BY <1>1, <1>2, <1>4, <1>5, VarintUnfolds
  <1>7. e \in Seq(Nat) /\ Len(e) \in Nat /\ Len(e) >= 1 /\ e[Len(e)] < Digit
        /\ \A j \in 1 .. (Len(e) - 1) : e[j] >= Digit
    BY <1>1, <1>2 DEF WellFormed
  <1> DEFINE f == <<Digit + r>> \o e
  <1>8. /\ f \in Seq(Nat) /\ Len(f) = Len(e) + 1 /\ f[1] = Digit + r
        /\ \A j \in 1 .. Len(e) : f[j + 1] = e[j]
    <2>1. <<Digit + r>> \in Seq(Nat) /\ Len(<<Digit + r>>) = 1 /\ <<Digit + r>>[1] = Digit + r
      BY <1>3
    <2>2. f \in Seq(Nat) /\ Len(f) = 1 + Len(e)
      BY <1>7, <2>1, ConcatProperties
    <2>3. f[1] = Digit + r
      BY <1>7, <2>1, ConcatProperties
    <2>4. \A j \in 1 .. Len(e) : f[1 + j] = e[j]
      BY <1>7, <2>1
    <2> QED BY <1>7, <2>2, <2>3, <2>4
  <1> HIDE DEF f
  <1>9. WellFormed(f)
    <2>1. f[Len(f)] = e[Len(e)]
      BY <1>7, <1>8
    <2>2. ASSUME NEW j \in 1 .. (Len(f) - 1) PROVE f[j] >= Digit
      <3>1. CASE j = 1
        BY <1>3, <1>8, <3>1
      <3>2. CASE j # 1
        <4>1. j - 1 \in 1 .. (Len(e) - 1) /\ j - 1 \in 1 .. Len(e) /\ (j - 1) + 1 = j
          BY <1>7, <1>8, <2>2, <3>2
        <4> QED BY <1>7, <1>8, <4>1
      <3> QED BY <3>1, <3>2
    <2> QED BY <1>7, <1>8, <2>1, <2>2 DEF WellFormed
  <1>10. (Digit + r) % Digit = r /\ 0 % Digit = 0
    BY <1>3
  <1>11. ReadBack(w)
    BY <1>1
  <1>12. ASSUME NEW d, NEW p \in Nat, NEW n \in 0 .. Len(e), Begins(d, p, f, n + 1)
         PROVE  d[p] = Digit + r /\ Begins(d, p + 1, e, n)
    <2>1. d[p] = Digit + r
      <3>1. 1 \in 1 .. (n + 1) /\ p + 1 - 1 = p
        BY <1>7
      <3> QED BY <1>8, <1>12, <3>1 DEF Begins
    <2>2. ASSUME NEW j \in 1 .. n PROVE d[(p + 1) + j - 1] = e[j]
      <3>1. j + 1 \in 1 .. (n + 1) /\ j \in 1 .. Len(e) /\ p + (j + 1) - 1 = (p + 1) + j - 1
        BY <1>7
      <3> QED BY <1>8, <1>12, <3>1 DEF Begins
    <2> QED BY <2>1, <2>2 DEF Begins
  <1>13. ASSUME NEW d, NEW p \in Nat, Begins(d, p, f, Len(f)) PROVE Reads(d, p, p + Len(f) - 1, v)
    <2>1. d[p] = Digit + r /\ Begins(d, p + 1, e, Len(e))
      <3>1. Len(e) \in 0 .. Len(e) /\ Len(f) = Len(e) + 1
        BY <1>7, <1>8
      <3> QED BY <1>12, <1>13, <3>1
    <2>2. p + 1 \in Nat /\ (p + 1) + Len(e) - 1 = p + Len(f) - 1 /\ p + Len(f) - 1 \in Nat
          /\ p <= p + Len(f) - 1
      BY <1>7, <1>8
    <2>3. Reads(d, p + 1, (p + 1) + Len(e) - 1, w)
      BY <1>2, <1>11, <2>1, <2>2 DEF ReadBack
    <2>4. Reads(d, p, p + Len(f) - 1, (d[p] % Digit) + Digit * w)
      BY <2>2, <2>3, ReadsMore
    <2> QED BY <1>4, <1>10, <2>1, <2>4
  <1>14. ASSUME NEW d, NEW p \in Nat, NEW n \in 0 .. (Len(f) - 1), Begins(d, p, f, n), d[p + n] = 0
         PROVE  \E x \in 0 .. v : Reads(d, p, p + n, x)
    <2>1. CASE n = 0
      <3>1. p + n = p /\ d[p] = 0
        BY <1>14, <2>1
      <3>2. Reads(d, p, p, d[p] % Digit)
        BY <3>1, ReadsOne
      <3>3. 0 \in 0 .. v
        BY <1>3
      <3> QED BY <1>10, <3>1, <3>2, <3>3
    <2>2. CASE n # 0
      <3>1. /\ n - 1 \in 0 .. (Len(e) - 1) /\ n - 1 \in 0 .. Len(e) /\ (n - 1) + 1 = n
            /\ (p + 1) + (n - 1) = p + n /\ p + 1 \in Nat /\ p + n \in Nat /\ p <= p + n
        BY <1>7, <1>8, <2>2
      <3>2. d[p] = Digit + r /\ Begins(d, p + 1, e, n - 1)
        BY <1>12, <1>14, <3>1
      <3>3. d[(p + 1) + (n - 1)] = 0
        BY <1>14, <3>1
      <3>4. \E x \in 0 .. w : Reads(d, p + 1, (p + 1) + (n - 1), x)
        BY <1>2, <1>11, <3>1, <3>2, <3>3 DEF ReadBack
      <3>5. PICK x \in 0 .. w : Reads(d, p + 1, p + n, x)
        BY <3>1, <3>4
      <3>6. Reads(d, p, p + n, (d[p] % Digit) + Digit * x)
        BY <3>1, <3>5, ReadsMore
      <3>7. Reads(d, p, p + n, r + Digit * x)
        BY <1>10, <3>2, <3>6
      <3>8. r + Digit * x \in 0 .. v
        <4>1. PICK z \in Nat : w = x + z
          <5>1. w - x \in Nat /\ w = x + (w - x)
            BY <1>3
          <5> QED BY <5>1
        <4>2. Digit * w = Digit * x + Digit * z /\ Digit * z \in Nat /\ Digit * x \in Nat
          BY <1>3, <4>1
        <4> QED BY <1>3, <1>4, <4>2, SMTT(30)
      <3> QED BY <3>7, <3>8
    <2> QED BY <2>1, <2>2
  <1> QED BY <1>6, <1>9, <1>13, <1>14 DEF ReadBack, f

\* A varint of any length is well formed, and is read back.
LEMMA VarintReadBack ==
  ASSUME NEW v \in Words
  PROVE  WellFormed(Varint(v)) /\ ReadBack(v)
PROOF
  <1> DEFINE Bad == {n \in Words : ~(WellFormed(Varint(n)) /\ ReadBack(n))}
  <1>1. SUFFICES ASSUME Bad # {} PROVE FALSE
    OBVIOUS
  <1>2. Words \subseteq Nat /\ \A n \in Words : n \div Digit <= n => n \div Digit \in Words \/ n \div Digit \notin Nat
    BY Weights DEF Words
  <1>3. PICK n \in Bad : \A m \in Bad : n <= m
    <2>1. Bad \in SUBSET Nat
      BY <1>2
    <2> HIDE DEF Bad
    <2> QED BY <1>1, <2>1, LeastNumber
  <1>4. n \in Words /\ n \in Nat /\ Digit \in Nat
    BY <1>2, Weights
  <1>5. CASE n < Digit
    BY <1>4, <1>5, DigitReadBack
  <1>6. CASE n >= Digit
    <2>1. n \div Digit \in Nat /\ n \div Digit < n /\ n \div Digit <= n
      BY <1>4, <1>6, DigitSplit
    <2>2. n \div Digit \in Words
      BY <1>2, <1>4, <2>1
    <2>3. n \div Digit \notin Bad
      <3>1. ~(n <= n \div Digit)
        BY <1>4, <2>1
      <3> HIDE DEF Bad
      <3> QED BY <1>3, <3>1
    <2>4. WellFormed(Varint(n \div Digit)) /\ ReadBack(n \div Digit)
      BY <2>2, <2>3
    <2> QED BY <1>4, <1>6, <2>2, <2>4, LongerReadBack
  <1> QED BY <1>4, <1>5, <1>6

\* read_varint stops at the first byte without the top bit, or behind the block.
LEMMA EndIsFirst ==
  ASSUME NEW pos \in Nat \ {0}, Len(data) \in Nat, NEW end \in pos .. Len(data),
         data[end] < Digit
  PROVE  /\ VarintEnd(pos) \in pos .. end /\ data[VarintEnd(pos)] < Digit
         /\ (\A q \in pos .. (end - 1) : ~(data[q] < Digit)) => VarintEnd(pos) = end
PROOF
  <1>1. PICK m \in Nat : m = Len(data)
    OBVIOUS
  <1> DEFINE S == {m + 1} \cup {q \in pos .. m : data[q] < Digit}
  <1>2. VarintEnd(pos) = Min(S)
    BY <1>1 DEF VarintEnd
  <1>3. Min(S) \in S /\ \A n \in S : Min(S) <= n
    <2>1. S \in SUBSET Nat /\ S # {}
      BY <1>1
    <2> HIDE DEF S
    <2> QED BY <2>1, LeastNumber
  <1>4. end \in S /\ end \in Nat /\ end <= m
    BY <1>1
  <1>5. PICK b \in S : b = Min(S)
    BY <1>3
  <1>6. b <= end
    BY <1>3, <1>4, <1>5
  <1>7. b \in pos .. m /\ data[b] < Digit
    BY <1>1, <1>4, <1>6
  <1> QED BY <1>2, <1>5, <1>6, <1>7

\* read_varint returns what the bytes lead to.
LEMMA NumberRead ==
  ASSUME NEW pos \in Nat \ {0}, Len(data) \in Nat, NEW end \in pos .. Len(data),
         VarintEnd(pos) = end, NEW x \in Words, Reads(data, pos, end, x)
  PROVE  VarintAt(pos) = x
PROOF
  <1> DEFINE Unfolds(f) == f = [q \in pos .. (end + 1) |->
                                  IF q > end THEN 0 ELSE (data[q] % Digit) + Digit * f[q + 1]]
             f == CHOOSE f : Unfolds(f)
  <1>1. end \in Nat /\ end <= Len(data)
    OBVIOUS
  <1>2. Min({end, Len(data)}) = end
    <2>1. {end, Len(data)} \in SUBSET Nat /\ {end, Len(data)} # {}
      BY <1>1
    <2>2. Min({end, Len(data)}) \in {end, Len(data)} /\ Min({end, Len(data)}) <= end
      BY <2>1, LeastNumber
    <2> QED BY <1>1, <2>2
  <1>3. VarintAt(pos) = f[pos] % (2 * WideHalf)
    <2> DEFINE last == Min({VarintEnd(pos), Len(data)})
    <2>1. last = end
      BY <1>2
    <2>2. VarintAt(pos) =
            LET value == CHOOSE g : g = [q \in pos .. (last + 1) |->
                            IF q > last THEN 0 ELSE (data[q] % Digit) + Digit * g[q + 1]]
            IN  value[pos] % (2 * WideHalf)
      BY Zenon DEF VarintAt
    <2> HIDE DEF last
    <2> QED BY <2>1, <2>2, ZenonT(60)
  <1>4. PICK g : /\ DOMAIN g = pos .. (end + 1) /\ g[pos] = x
                 /\ \A q \in pos .. (end + 1) :
                      g[q] = IF q > end THEN 0 ELSE (data[q] % Digit) + Digit * g[q + 1]
    BY DEF Reads
  <1>5. Unfolds(f)
    <2> DEFINE h == [q \in pos .. (end + 1) |-> g[q]]
    <2>1. \A q \in pos .. (end + 1) :
            h[q] = IF q > end THEN 0 ELSE (data[q] % Digit) + Digit * h[q + 1]
      <3> TAKE q \in pos .. (end + 1)
      <3>1. h[q] = g[q]
        OBVIOUS
      <3>2. CASE q > end
        BY <1>4, <3>1, <3>2
      <3>3. CASE ~(q > end)
        <4>1. q + 1 \in pos .. (end + 1)
          BY <3>3
        <4>2. h[q + 1] = g[q + 1]
          BY <4>1
        <4> HIDE DEF h
        <4> QED BY <1>4, <3>1, <3>3, <4>2
      <3> QED BY <3>2, <3>3
    <2>2. Unfolds(h)
      <3>1. h = [q \in pos .. (end + 1) |-> h[q]]
        OBVIOUS
      <3> HIDE DEF h
      <3> QED BY <2>1, <3>1
    <2> HIDE DEF h, Unfolds
    <2> QED BY <2>2, Zenon
  <1> HIDE DEF f
  <1>6. /\ DOMAIN f = pos .. (end + 1)
        /\ \A q \in pos .. (end + 1) :
             f[q] = IF q > end THEN 0 ELSE (data[q] % Digit) + Digit * f[q + 1]
    BY <1>5
  <1>7. Reads(data, pos, end, f[pos])
    BY <1>6, Zenon DEF Reads
  <1>8. f[pos] = x
    <2>1. pos <= end + 1
      BY <1>1
    <2>2. PICK d : d = data
      OBVIOUS
    <2>3. Reads(d, pos, end, f[pos]) /\ Reads(d, pos, end, x)
      BY <1>7, <2>2
    <2> QED BY <1>1, <2>1, <2>3, ReadsOnce
  <1>9. x % (2 * WideHalf) = x
    BY Weights DEF Words
  <1> QED BY <1>3, <1>8, <1>9

\* A number that is in the block as a whole.
LEMMA WholeRead ==
  ASSUME NEW v \in Words, NEW pos \in Nat \ {0}, Len(data) \in Nat,
         Begins(data, pos, Varint(v), Len(Varint(v))), pos + Len(Varint(v)) - 1 <= Len(data)
  PROVE  VarintEnd(pos) = pos + Len(Varint(v)) - 1 /\ VarintAt(pos) = v
PROOF
  <1>1. PICK e : e = Varint(v)
    OBVIOUS
  <1>2. WellFormed(e) /\ ReadBack(v) /\ Len(e) \in Nat
    BY <1>1, VarintReadBack DEF WellFormed
  <1>3. PICK end \in Nat : end = pos + Len(e) - 1
    <2>1. Len(e) >= 1
      BY <1>2 DEF WellFormed
    <2>2. pos + Len(e) - 1 \in Nat
      BY <1>2, <2>1
    <2> QED BY <2>2
  <1>4. end \in pos .. Len(data)
    BY <1>1, <1>2, <1>3 DEF WellFormed
  <1>5. \A q \in pos .. end : q - pos + 1 \in 1 .. Len(e) /\ data[q] = e[q - pos + 1]
    <2> TAKE q \in pos .. end
    <2>1. q - pos + 1 \in 1 .. Len(e) /\ pos + (q - pos + 1) - 1 = q
      BY <1>2, <1>3
    <2> QED BY <1>1, <2>1 DEF Begins
  <1>6. data[end] < Digit
    <2>1. end - pos + 1 = Len(e)
      BY <1>2, <1>3
    <2> QED BY <1>2, <1>4, <1>5, <2>1, SMTT(30) DEF WellFormed
  <1>7. \A q \in pos .. (end - 1) : ~(data[q] < Digit)
    <2> TAKE q \in pos .. (end - 1)
    <2>1. q \in pos .. end /\ q - pos + 1 \in 1 .. (Len(e) - 1)
      BY <1>2, <1>3
    <2>2. data[q] = e[q - pos + 1]
      BY <1>5, <2>1
    <2>3. e[q - pos + 1] >= Digit /\ e[q - pos + 1] \in Nat
      <3>1. q - pos + 1 \in 1 .. Len(e)
        BY <1>2, <2>1
      <3> QED BY <1>2, <2>1, <3>1, SMTT(30) DEF WellFormed
    <2>4. data[q] \in Nat /\ data[q] >= Digit /\ Digit \in Nat
      BY <2>2, <2>3, Weights, Zenon
    <2> QED BY <2>4
  <1>8. VarintEnd(pos) = end
    BY <1>4, <1>6, <1>7, EndIsFirst
  <1>9. Reads(data, pos, end, v)
    <2>1. PICK d : d = data
      OBVIOUS
    <2>2. Begins(d, pos, Varint(v), Len(Varint(v)))
      BY <2>1
    <2>3. Reads(d, pos, pos + Len(Varint(v)) - 1, v)
      BY <1>2, <2>2 DEF ReadBack
    <2> QED BY <1>1, <1>3, <2>1, <2>3
  <1>10. VarintAt(pos) = v
    BY <1>4, <1>8, <1>9, NumberRead
  <1> QED BY <1>1, <1>3, <1>8, <1>10

\* A number whose end has been lost to zeroes.
LEMMA TornRead ==
  ASSUME NEW v \in Words, NEW pos \in Nat \ {0}, Len(data) \in Nat,
         NEW n \in 0 .. (Len(Varint(v)) - 1),
         Begins(data, pos, Varint(v), n), data[pos + n] = 0, pos + n <= Len(data)
  PROVE  VarintEnd(pos) = pos + n /\ VarintAt(pos) \in 0 .. v
PROOF
  <1>1. PICK e : e = Varint(v)
    OBVIOUS
  <1>2. WellFormed(e) /\ ReadBack(v) /\ Len(e) \in Nat
    BY <1>1, VarintReadBack DEF WellFormed
  <1>3. PICK end \in Nat : end = pos + n
    BY <1>1, <1>2
  <1>4. end \in pos .. Len(data) /\ n \in Nat
    BY <1>1, <1>2, <1>3
  <1>5. data[end] < Digit
    BY <1>3, Weights
  <1>6. \A q \in pos .. (end - 1) : ~(data[q] < Digit)
    <2> TAKE q \in pos .. (end - 1)
    <2>1. q - pos + 1 \in 1 .. n /\ pos + (q - pos + 1) - 1 = q
      BY <1>3, <1>4
    <2>2. data[q] = e[q - pos + 1]
      BY <1>1, <2>1 DEF Begins
    <2>3. q - pos + 1 \in 1 .. (Len(e) - 1) /\ q - pos + 1 \in 1 .. Len(e)
      BY <1>1, <1>2, <2>1
    <2>4. e[q - pos + 1] >= Digit /\ e[q - pos + 1] \in Nat
      BY <1>2, <2>3, SMTT(30) DEF WellFormed
    <2>5. data[q] \in Nat /\ data[q] >= Digit /\ Digit \in Nat
      BY <2>2, <2>4, Weights, Zenon
    <2> QED BY <2>5
  <1>7. VarintEnd(pos) = end
    BY <1>4, <1>5, <1>6, EndIsFirst
  <1>8. PICK x \in 0 .. v : Reads(data, pos, end, x)
    <2>1. PICK d : d = data
      OBVIOUS
    <2>2. Begins(d, pos, Varint(v), n) /\ d[pos + n] = 0
      BY <2>1
    <2>3. \E x \in 0 .. v : Reads(d, pos, pos + n, x)
      BY <1>2, <2>2 DEF ReadBack
    <2> QED BY <1>3, <2>1, <2>3
  <1>9. x \in Words /\ x \in Nat
    BY Weights DEF Words
  <1>10. VarintAt(pos) = x
    BY <1>4, <1>7, <1>8, <1>9, NumberRead
  <1> QED BY <1>3, <1>7, <1>10

-----------------------------------------------------------------------------
(* Numbers in a block.                                                     *)

\* The number v is in d from p on, and what follows it begins at next.
NumberAt(d, p, v, next) ==
  /\ v \in Words /\ p \in Nat \ {0}
  /\ next = p + Len(Varint(v)) /\ next <= Len(d) + 1
  /\ Begins(d, p, Varint(v), Len(Varint(v)))

\* It takes at least one byte, and the last has no top bit.
LEMMA NumberShape ==
  ASSUME NEW d, NEW p, NEW v, NEW next, NumberAt(d, p, v, next)
  PROVE  /\ p \in Nat \ {0} /\ next \in Nat \ {0} /\ p < next
         /\ d[next - 1] \in Nat /\ d[next - 1] < Digit
PROOF
  <1>1. PICK e : e = Varint(v)
    OBVIOUS
  <1>2. e \in Seq(Nat) /\ Len(e) \in Nat /\ Len(e) >= 1 /\ e[Len(e)] < Digit
    BY <1>1, VarintReadBack DEF NumberAt, WellFormed
  <1>3. p \in Nat \ {0} /\ next = p + Len(e) /\ Len(e) \in 1 .. Len(e)
    BY <1>1, <1>2 DEF NumberAt
  <1>4. d[p + Len(e) - 1] = e[Len(e)]
    BY <1>1, <1>3 DEF NumberAt, Begins
  <1>5. e[Len(e)] \in Nat
    BY <1>2
  <1> QED BY <1>2, <1>3, <1>4, <1>5

\* Whatever is written behind it, it stays where it is.
LEMMA NumberKept ==
  ASSUME NEW d \in Seq(Int), NEW e \in Seq(Int), NEW p, NEW v, NEW next,
         NumberAt(d, p, v, next)
  PROVE  NumberAt(d \o e, p, v, next)
PROOF
  <1>1. PICK m \in Nat : m = Len(Varint(v))
    BY VarintReadBack DEF NumberAt, WellFormed
  <1>2. /\ Len(d \o e) = Len(d) + Len(e) /\ Len(d) \in Nat /\ Len(e) \in Nat
        /\ \A j \in 1 .. Len(d) : (d \o e)[j] = d[j]
    BY ConcatProperties
  <1>3. p \in Nat \ {0} /\ p + m <= Len(d) + 1 /\ next = p + m
    BY <1>1 DEF NumberAt
  <1>4. next <= Len(d \o e) + 1
    BY <1>2, <1>3
  <1>5. \A j \in 1 .. m : (d \o e)[p + j - 1] = d[p + j - 1]
    <2> TAKE j \in 1 .. m
    <2>1. p + j - 1 \in 1 .. Len(d)
      BY <1>2, <1>3
    <2> QED BY <1>2, <2>1
  <1>6. Begins(d \o e, p, Varint(v), m)
    BY <1>1, <1>5 DEF NumberAt, Begins
  <1> QED BY <1>1, <1>4, <1>6 DEF NumberAt

\* write_varint puts a number at the end of the block.
LEMMA NumberAdded ==
  ASSUME NEW d \in Seq(Int), NEW v \in Words
  PROVE  /\ d \o Varint(v) \in Seq(Int) /\ Varint(v) \in Seq(Int)
         /\ NumberAt(d \o Varint(v), Len(d) + 1, v, Len(d \o Varint(v)) + 1)
PROOF
  <1>1. PICK e : e = Varint(v)
    OBVIOUS
  <1>2. e \in Seq(Int)
    <2>1. e \in Seq(Nat)
      BY <1>1, VarintReadBack DEF WellFormed
    <2> QED BY <2>1
  <1>3. /\ Len(d \o e) = Len(d) + Len(e) /\ Len(d) \in Nat /\ Len(e) \in Nat
        /\ d \o e \in Seq(Int)
    BY <1>2, ConcatProperties
  <1>4. \A j \in 1 .. Len(e) : (d \o e)[(Len(d) + 1) + j - 1] = e[j]
    <2> TAKE j \in 1 .. Len(e)
    <2>1. (Len(d) + 1) + j - 1 = Len(d) + j
      BY <1>3
    <2>2. (d \o e)[Len(d) + j] = e[j]
      BY <1>2, <1>3
    <2> QED BY <2>1, <2>2
  <1>5. Begins(d \o e, Len(d) + 1, e, Len(e))
    BY <1>4 DEF Begins
  <1>6. Len(d \o e) + 1 = (Len(d) + 1) + Len(e) /\ Len(d) + 1 \in Nat \ {0}
        /\ Len(d \o e) + 1 <= Len(d \o e) + 1
    BY <1>3
  <1> QED BY <1>1, <1>2, <1>3, <1>5, <1>6 DEF NumberAt

\* read_varint reads it and stops before what follows.
LEMMA NumberIsRead ==
  ASSUME data \in Seq(Int), NEW p, NEW v, NEW next, NumberAt(data, p, v, next)
  PROVE  /\ VarintEnd(p) = next - 1 /\ VarintAt(p) = v
         /\ VarintEnd(p) <= Len(data)
PROOF
  <1>1. Len(data) \in Nat
    OBVIOUS
  <1>2. PICK m \in Nat : m = Len(Varint(v))
    BY VarintReadBack DEF NumberAt, WellFormed
  <1>3. /\ v \in Words /\ p \in Nat \ {0} /\ next = p + m /\ next <= Len(data) + 1
        /\ Begins(data, p, Varint(v), m)
    BY <1>2 DEF NumberAt
  <1>4. p + m - 1 <= Len(data) /\ next - 1 = p + m - 1
    BY <1>1, <1>3
  <1>5. VarintEnd(p) = p + m - 1 /\ VarintAt(p) = v
    BY <1>1, <1>2, <1>3, <1>4, WholeRead
  <1> QED BY <1>4, <1>5

\* data is d with zeroes from t on.
TornAt(d, t) ==
  /\ d \in Seq(Int) /\ data \in Seq(Int) /\ Len(data) = Len(d) /\ t \in 1 .. Len(d)
  /\ \A n \in 1 .. Len(d) : data[n] = IF n < t THEN d[n] ELSE 0

\* Of a torn block, a number before the tear is read as it was written, one in
\* which the tear is as less, and behind it there are zeroes.
LEMMA NumberTorn ==
  ASSUME NEW d, NEW t, TornAt(d, t), NEW p, NEW v, NEW next, NumberAt(d, p, v, next)
  PROVE  /\ next <= t => NumberAt(data, p, v, next)
         /\ t < next => /\ VarintEnd(p) \in p .. (next - 1) /\ VarintEnd(p) >= t
                        /\ VarintEnd(p) <= Len(data)
                        /\ VarintAt(p) \in 0 .. v
PROOF
  <1>1. PICK e : e = Varint(v)
    OBVIOUS
  <1>2. /\ v \in Words /\ p \in Nat \ {0} /\ next = p + Len(e) /\ next <= Len(d) + 1
        /\ Begins(d, p, e, Len(e))
    BY <1>1 DEF NumberAt
  <1>3. Len(e) \in Nat /\ Len(e) >= 1 /\ Len(d) \in Nat /\ Len(data) = Len(d) /\ t \in Nat
        /\ t \in 1 .. Len(d)
    BY <1>1, <1>2, VarintReadBack DEF WellFormed, TornAt
  <1>4. \A j \in 1 .. Len(e) : p + j - 1 \in 1 .. Len(d)
                               /\ data[p + j - 1] = IF p + j - 1 < t THEN e[j] ELSE 0
    <2> TAKE j \in 1 .. Len(e)
    <2>1. p + j - 1 \in 1 .. Len(d)
      BY <1>2, <1>3
    <2>2. d[p + j - 1] = e[j]
      BY <1>2 DEF Begins
    <2> QED BY <2>1, <2>2 DEF TornAt
  <1>5. ASSUME next <= t PROVE NumberAt(data, p, v, next)
    <2>1. \A j \in 1 .. Len(e) : p + j - 1 < t
      BY <1>2, <1>3, <1>5
    <2>2. Begins(data, p, e, Len(e))
      BY <1>4, <2>1 DEF Begins
    <2> QED BY <1>1, <1>2, <1>3, <2>2 DEF NumberAt
  <1>6. ASSUME t < next
        PROVE  /\ VarintEnd(p) \in p .. (next - 1) /\ VarintEnd(p) >= t
               /\ VarintEnd(p) <= Len(data) /\ VarintAt(p) \in 0 .. v
    <2> DEFINE n == IF t < p THEN 0 ELSE t - p
    <2>1. n \in 0 .. (Len(e) - 1) /\ n \in Nat /\ p + n >= t /\ p + n \in p .. (next - 1)
          /\ p + n <= Len(d)
      BY <1>2, <1>3, <1>6
    <2>2. Begins(data, p, e, n)
      <3> SUFFICES ASSUME NEW j \in 1 .. n PROVE data[p + j - 1] = e[j]
        BY DEF Begins
      <3>1. j \in 1 .. Len(e) /\ p + j - 1 < t
        BY <1>2, <1>3, <2>1
      <3> QED BY <1>4, <3>1
    <2>3. data[p + n] = 0
      <3>1. n + 1 \in 1 .. Len(e) /\ p + (n + 1) - 1 = p + n /\ ~(p + n < t)
        BY <1>2, <1>3, <2>1
      <3> QED BY <1>4, <3>1
    <2> HIDE DEF n
    <2>4. VarintEnd(p) = p + n /\ VarintAt(p) \in 0 .. v
      BY <1>1, <1>2, <1>3, <2>1, <2>2, <2>3, TornRead
    <2> QED BY <1>3, <2>1, <2>4
  <1> QED BY <1>5, <1>6

-----------------------------------------------------------------------------
(* The blocks of DELTA and RLE.                                            *)

\* The value before the n-th, and zero before the first.
Before(s, n) == IF n = 1 THEN 0 ELSE s[n - 1]

\* d has the differences of the first k values of s, the n-th from start[n] on.
Deltas(d, s, h, k, start) ==
  /\ start[1] = 1 /\ start[k + 1] = Len(d) + 1
  /\ \A n \in 1 .. k :
       \E delta \in Differences(s[n], Before(s, n), h) :
         NumberAt(d, start[n], ZigZag(delta), start[n + 1])

\* Run n of s begins at first[n].
IsRun(s, n, first) ==
  /\ first[n] \in Nat \ {0} /\ first[n + 1] \in Nat /\ first[n] < first[n + 1]
  /\ first[n + 1] <= Len(s) + 1
  /\ \A j \in first[n] .. (first[n + 1] - 1) : s[j] = s[first[n]]

\* d has k runs of s, the n-th from start[n] on: the bytes of its element, then
\* its length.
Runs(d, s, k, start, first) ==
  /\ start[1] = 1 /\ start[k + 1] = Len(d) + 1 /\ first[1] = 1
  /\ \A n \in 1 .. k :
       /\ IsRun(s, n, first)
       /\ start[n] \in Nat \ {0} /\ start[n] <= Len(d)
       /\ Begins(d, start[n], s[first[n]], Len(s[first[n]]))
       /\ NumberAt(d, start[n] + Len(s[first[n]]), first[n + 1] - first[n], start[n + 1])

\* The zigzag number of every difference fits a word of 64 bits.
LEMMA DifferenceFits ==
  ASSUME NEW h \in {NarrowHalf, WideHalf}, NEW v \in Signed(h), NEW p \in Signed(h),
         NEW delta \in Differences(v, p, h)
  PROVE  delta \in Int /\ ZigZag(delta) \in Words
PROOF
  <1>1. /\ NarrowHalf \in Nat \ {0} /\ WideHalf \in Nat \ {0} /\ 2 * NarrowHalf <= WideHalf
        /\ h \in Nat \ {0}
    BY Weights
  <1>2. v \in Int /\ p \in Int /\ -h <= v /\ v <= h - 1 /\ -h <= p /\ p <= h - 1
    BY <1>1 DEF Signed
  <1>3. Wrap(v - p, h) \in Signed(h)
    <2>1. \/ v - p \in Signed(h)
          \/ v - p \in h .. (3 * h - 1)
          \/ v - p \in (-3 * h) .. (-h - 1)
      BY <1>1, <1>2 DEF Signed
    <2>2. v - p \in Int
      BY <1>2
    <2>3. \/ v - p \in Signed(h) /\ Wrap(v - p, h) = v - p
          \/ v - p \in h .. (3 * h - 1) /\ Wrap(v - p, h) = v - p - 2 * h
          \/ v - p \in (-3 * h) .. (-h - 1) /\ Wrap(v - p, h) = v - p + 2 * h
      BY <1>1, <2>1, <2>2, WrapOnce
    <2> QED BY <1>1, <1>2, <2>3 DEF Signed
  <1>4. delta \in Int /\ -WideHalf <= delta /\ delta <= WideHalf - 1
    <2>1. CASE h = NarrowHalf
      <3>1. delta = v - p \/ delta = Wrap(v - p, h)
        BY DEF Differences
      <3> QED BY <1>1, <1>2, <1>3, <2>1, <3>1 DEF Signed
    <2>2. CASE h # NarrowHalf
      <3>1. delta = Wrap(v - p, h) /\ h = WideHalf
        BY <2>2 DEF Differences
      <3> QED BY <1>1, <1>3, <3>1 DEF Signed
    <2> QED BY <2>1, <2>2
  <1> QED BY <1>1, <1>4 DEF ZigZag, Words

\* One more difference at the end of a DELTA block.
LEMMA DeltaAdded ==
  ASSUME NEW d \in Seq(Int), NEW s, NEW h, NEW k \in Nat, NEW start, Deltas(d, s, h, k, start),
         NEW delta \in Differences(s[k + 1], Before(s, k + 1), h), ZigZag(delta) \in Words
  PROVE  \E longer : Deltas(d \o Varint(ZigZag(delta)), s, h, k + 1, longer)
PROOF
  <1>1. PICK z \in Words : z = ZigZag(delta)
    OBVIOUS
  <1> DEFINE e == Varint(z)
             D == d \o e
             longer == [n \in 1 .. (k + 2) |-> IF n = k + 2 THEN Len(D) + 1 ELSE start[n]]
  <1>2. e \in Seq(Int) /\ NumberAt(D, Len(d) + 1, z, Len(D) + 1)
    BY NumberAdded
  <1>3. /\ \A n \in 1 .. (k + 1) : longer[n] = start[n]
        /\ longer[k + 2] = Len(D) + 1 /\ (k + 1) + 1 = k + 2
    OBVIOUS
  <1> HIDE DEF e, D, longer
  <1>4. longer[1] = 1
    <2>1. 1 \in 1 .. (k + 1)
      OBVIOUS
    <2> QED BY <1>3, <2>1 DEF Deltas
  <1>5. ASSUME NEW n \in 1 .. (k + 1)
        PROVE  \E x \in Differences(s[n], Before(s, n), h) :
                 NumberAt(D, longer[n], ZigZag(x), longer[n + 1])
    <2>1. CASE n = k + 1
      <3>1. longer[n] = Len(d) + 1 /\ longer[n + 1] = Len(D) + 1
        BY <1>3, <2>1 DEF Deltas
      <3> QED BY <1>1, <1>2, <2>1, <3>1
    <2>2. CASE n # k + 1
      <3>1. n \in 1 .. k /\ n + 1 \in 1 .. (k + 1)
        BY <2>2
      <3>2. PICK x \in Differences(s[n], Before(s, n), h) :
              NumberAt(d, start[n], ZigZag(x), start[n + 1])
        BY <3>1 DEF Deltas
      <3>3. NumberAt(D, start[n], ZigZag(x), start[n + 1])
        BY <1>2, <3>2, NumberKept DEF D
      <3> QED BY <1>3, <3>1, <3>2, <3>3
    <2> QED BY <2>1, <2>2
  <1>6. Deltas(D, s, h, k + 1, longer)
    BY <1>3, <1>4, <1>5 DEF Deltas
  <1> QED BY <1>1, <1>6 DEF D, e

\* A run in a block, by names of its own.
RunAt(d, s, p, x, size, f1, f2, next) ==
  /\ f1 \in Nat \ {0} /\ f2 \in Nat /\ f1 < f2 /\ f2 <= Len(s) + 1
  /\ \A j \in f1 .. (f2 - 1) : s[j] = s[f1]
  /\ s[f1] = x /\ x \in Seq(Int) /\ size = Len(x) /\ size \in Nat
  /\ p \in Nat \ {0} /\ p + size \in Nat \ {0} /\ next \in Nat \ {0}
  /\ p + size < next /\ next <= Len(d) + 1
  /\ Begins(d, p, x, size) /\ NumberAt(d, p + size, f2 - f1, next)

LEMMA RunShape ==
  ASSUME NEW d \in Seq(Int), NEW s \in Seq(Seq(Int)), NEW k \in Nat, NEW start, NEW first,
         Runs(d, s, k, start, first), NEW n \in 1 .. k
  PROVE  \E x, size : RunAt(d, s, start[n], x, size, first[n], first[n + 1], start[n + 1])
PROOF
  <1>1. PICK p, f1, f2, next :
          p = start[n] /\ f1 = first[n] /\ f2 = first[n + 1] /\ next = start[n + 1]
    OBVIOUS
  <1>2. /\ f1 \in Nat \ {0} /\ f2 \in Nat /\ f1 < f2 /\ f2 <= Len(s) + 1
        /\ \A j \in f1 .. (f2 - 1) : s[j] = s[f1]
    BY <1>1 DEF Runs, IsRun
  <1>3. PICK x \in Seq(Int) : x = s[f1]
    <2>1. f1 \in 1 .. Len(s)
      BY <1>2, LenProperties
    <2> QED BY <2>1
  <1>4. PICK size \in Nat : size = Len(x)
    BY <1>3, LenProperties
  <1>5. p \in Nat \ {0} /\ Begins(d, p, x, size) /\ NumberAt(d, p + size, f2 - f1, next)
    BY <1>1, <1>3, <1>4 DEF Runs
  <1>6. p + size \in Nat \ {0} /\ next \in Nat \ {0} /\ p + size < next /\ next <= Len(d) + 1
    BY <1>5, NumberShape DEF NumberAt
  <1>7. RunAt(d, s, p, x, size, f1, f2, next)
    BY <1>2, <1>3, <1>4, <1>5, <1>6 DEF RunAt
  <1> QED BY <1>1, <1>7

\* Whatever is written behind them, the bytes of an element stay.
LEMMA BeginsKept ==
  ASSUME NEW d \in Seq(Int), NEW e \in Seq(Int), NEW p \in Nat \ {0}, NEW x, NEW n \in Nat,
         Begins(d, p, x, n), p + n <= Len(d) + 1
  PROVE  Begins(d \o e, p, x, n)
PROOF
  <1>1. Len(d) \in Nat /\ \A j \in 1 .. Len(d) : (d \o e)[j] = d[j]
    BY ConcatProperties
  <1>2. ASSUME NEW j \in 1 .. n PROVE (d \o e)[p + j - 1] = x[j]
    <2>1. p + j - 1 \in 1 .. Len(d)
      BY <1>1
    <2> QED BY <1>1, <2>1 DEF Begins
  <1> QED BY <1>2 DEF Begins

\* A run stays as it is.
LEMMA RunKept ==
  ASSUME NEW d \in Seq(Int), NEW e \in Seq(Int), NEW s \in Seq(Seq(Int)), NEW k \in Nat,
         NEW start, NEW first, Runs(d, s, k, start, first), NEW n \in 1 .. k
  PROVE  /\ start[n] <= Len(d \o e)
         /\ Begins(d \o e, start[n], s[first[n]], Len(s[first[n]]))
         /\ NumberAt(d \o e, start[n] + Len(s[first[n]]), first[n + 1] - first[n], start[n + 1])
PROOF
  <1>1. PICK p, f1, f2, next :
          p = start[n] /\ f1 = first[n] /\ f2 = first[n + 1] /\ next = start[n + 1]
    OBVIOUS
  <1>2. PICK x, size : RunAt(d, s, p, x, size, f1, f2, next)
    BY <1>1, RunShape
  <1>3. /\ p \in Nat \ {0} /\ size \in Nat /\ next \in Nat /\ p + size < next /\ next <= Len(d) + 1
        /\ x \in Seq(Int) /\ x = s[f1] /\ size = Len(s[f1])
        /\ Begins(d, p, x, size) /\ NumberAt(d, p + size, f2 - f1, next)
    BY <1>2 DEF RunAt
  <1>4. p + size <= Len(d) + 1 /\ p <= Len(d \o e)
    <2>1. PICK m \in Nat, l \in Nat : m = Len(d) /\ l = Len(e)
      BY LenProperties
    <2>2. Len(d \o e) = m + l
      BY <2>1, ConcatProperties
    <2>3. next <= m + 1
      BY <1>3, <2>1
    <2>4. p + size <= m + 1 /\ p <= m + l
      BY <1>3, <2>1, <2>3
    <2> QED BY <2>1, <2>2, <2>4
  <1>5. Begins(d \o e, p, x, size)
    BY <1>3, <1>4, BeginsKept
  <1>6. NumberAt(d \o e, p + size, f2 - f1, next)
    BY <1>3, NumberKept
  <1> QED BY <1>1, <1>3, <1>4, <1>5, <1>6

\* One more run at the end of an RLE block.
LEMMA RunAdded ==
  ASSUME NEW d \in Seq(Int), NEW s \in Seq(Seq(Int)), NEW k \in Nat, NEW start, NEW first,
         Runs(d, s, k, start, first),
         NEW i1 \in Nat \ {0}, first[k + 1] = i1, NEW run \in Words \ {0},
         i1 + run <= Len(s) + 1, \A j \in i1 .. (i1 + run - 1) : s[j] = s[i1]
  PROVE  \E starts, firsts :
           /\ Runs(d \o s[i1] \o Varint(run), s, k + 1, starts, firsts)
           /\ firsts[(k + 1) + 1] = i1 + run
PROOF
  <1> DEFINE d1 == d \o s[i1]
             e  == Varint(run)
             D  == d1 \o e
             starts == [n \in 1 .. (k + 2) |-> IF n = k + 2 THEN Len(D) + 1 ELSE start[n]]
             firsts == [n \in 1 .. (k + 2) |-> IF n = k + 2 THEN i1 + run ELSE first[n]]
  <1>1. run \in Nat \ {0}
    BY Weights DEF Words
  <1>2. PICK x \in Seq(Int) : x = s[i1]
    <2>1. i1 \in 1 .. Len(s)
      BY <1>1, LenProperties
    <2> QED BY <2>1
  <1>3. PICK size \in Nat : size = Len(x) /\ size = Len(s[i1])
    BY <1>2, LenProperties
  <1>4. /\ d1 \in Seq(Int) /\ Len(d1) = Len(d) + size /\ Len(d) \in Nat
        /\ \A j \in 1 .. size : d1[Len(d) + j] = x[j]
    <2>1. /\ d \o x \in Seq(Int) /\ Len(d \o x) = Len(d) + Len(x) /\ Len(d) \in Nat
      BY ConcatProperties
    <2>2. \A j \in 1 .. Len(x) : (d \o x)[Len(d) + j] = x[j]
      OBVIOUS
    <2> QED BY <1>2, <1>3, <2>1, <2>2
  <1>5. Begins(d1, Len(d) + 1, x, size)
    <2>1. ASSUME NEW j \in 1 .. size PROVE d1[(Len(d) + 1) + j - 1] = x[j]
      <3>1. (Len(d) + 1) + j - 1 = Len(d) + j
        BY <1>4
      <3> HIDE DEF d1
      <3> QED BY <1>4, <3>1
    <2> HIDE DEF d1
    <2> QED BY <2>1 DEF Begins
  <1> HIDE DEF d1
  <1>6. e \in Seq(Int) /\ D \in Seq(Int) /\ NumberAt(D, Len(d1) + 1, run, Len(D) + 1)
    BY <1>4, NumberAdded
  <1>7. Len(D) = Len(d1) + Len(e) /\ Len(e) \in Nat
    <2> HIDE DEF e
    <2>1. d1 \in Seq(Int) /\ e \in Seq(Int)
      BY <1>4, <1>6
    <2> QED BY <2>1, ConcatProperties
  <1>8. D = d \o (x \o e)
    <2>1. d1 = d \o x
      BY <1>2 DEF d1
    <2> HIDE DEF e
    <2>2. d \in Seq(Int) /\ x \in Seq(Int) /\ e \in Seq(Int)
      BY <1>6
    <2>3. (d \o x) \o e = d \o (x \o e)
      BY <2>2, ThreeParts
    <2>4. D = d1 \o e
      OBVIOUS
    <2> QED BY <2>1, <2>3, <2>4
  <1>9. /\ \A n \in 1 .. (k + 1) : starts[n] = start[n] /\ firsts[n] = first[n]
        /\ starts[k + 2] = Len(D) + 1 /\ firsts[k + 2] = i1 + run /\ (k + 1) + 1 = k + 2
        /\ 1 \in 1 .. (k + 1) /\ k + 1 \in 1 .. (k + 1)
    OBVIOUS
  <1> HIDE DEF e, D, starts, firsts
  <1>10. starts[1] = 1 /\ firsts[1] = 1
    BY <1>9 DEF Runs
  <1>11. ASSUME NEW n \in 1 .. k
         PROVE  /\ IsRun(s, n, firsts)
                /\ starts[n] \in Nat \ {0} /\ starts[n] <= Len(D)
                /\ Begins(D, starts[n], s[firsts[n]], Len(s[firsts[n]]))
                /\ NumberAt(D, starts[n] + Len(s[firsts[n]]), firsts[n + 1] - firsts[n], starts[n + 1])
    <2>1. n \in 1 .. (k + 1) /\ n + 1 \in 1 .. (k + 1)
      OBVIOUS
    <2>2. /\ starts[n] = start[n] /\ starts[n + 1] = start[n + 1]
          /\ firsts[n] = first[n] /\ firsts[n + 1] = first[n + 1]
      BY <1>9, <2>1
    <2>3. IsRun(s, n, first) /\ start[n] \in Nat \ {0}
      BY DEF Runs
    <2>4. IsRun(s, n, firsts)
      BY <2>2, <2>3 DEF IsRun
    <2>5. x \o e \in Seq(Int)
      BY <1>6, ConcatProperties
    <2>6. /\ start[n] <= Len(D)
          /\ Begins(D, start[n], s[first[n]], Len(s[first[n]]))
          /\ NumberAt(D, start[n] + Len(s[first[n]]), first[n + 1] - first[n], start[n + 1])
      BY <1>8, <2>5, RunKept
    <2> QED BY <2>2, <2>3, <2>4, <2>6
  <1>12. /\ IsRun(s, k + 1, firsts)
         /\ starts[k + 1] \in Nat \ {0} /\ starts[k + 1] <= Len(D)
         /\ Begins(D, starts[k + 1], s[firsts[k + 1]], Len(s[firsts[k + 1]]))
         /\ NumberAt(D, starts[k + 1] + Len(s[firsts[k + 1]]), firsts[(k + 1) + 1] - firsts[k + 1],
                     starts[(k + 1) + 1])
    <2>1. starts[k + 1] = Len(d) + 1 /\ firsts[k + 1] = i1
      BY <1>9 DEF Runs
    <2>2. /\ firsts[(k + 1) + 1] = i1 + run /\ starts[(k + 1) + 1] = Len(D) + 1
          /\ (i1 + run) - i1 = run
      BY <1>1, <1>9
    <2>3. IsRun(s, k + 1, firsts)
      BY <1>1, <2>1, <2>2 DEF IsRun
    <2>4. Len(d) + 1 \in Nat \ {0} /\ (Len(d) + 1) + size = Len(d1) + 1
          /\ (Len(d) + 1) + size <= Len(d1) + 1
      BY <1>4
    <2>5. Begins(D, Len(d) + 1, x, size)
      BY <1>4, <1>5, <1>6, <2>4, BeginsKept DEF D
    <2>6. NumberAt(D, (Len(d) + 1) + size, run, Len(D) + 1)
      BY <1>6, <2>4
    <2>7. Len(d) + 1 <= Len(D)
      <3>1. (Len(d) + 1) + size < Len(D) + 1
        BY <2>6, NumberShape
      <3> QED BY <1>4, <1>7, <3>1
    <2> QED BY <1>2, <1>3, <2>1, <2>2, <2>3, <2>4, <2>5, <2>6, <2>7
  <1>13. \A n \in 1 .. (k + 1) : n \in 1 .. k \/ n = k + 1
    OBVIOUS
  <1>14. Runs(D, s, k + 1, starts, firsts)
    BY <1>9, <1>10, <1>11, <1>12, <1>13 DEF Runs
  <1> QED BY <1>9, <1>14 DEF D, e, d1


-----------------------------------------------------------------------------
(* The invariant.                                                          *)

\* n bytes are some turns of the decoder of RLE, each over an element and a
\* length of one byte.
Even(n, h) == \E m \in Nat : n = m * (Size(h) + 1)

Shape ==
  /\ codec \in {"NONE", "RLE", "DELTA", "LZ4"} /\ half \in {NarrowHalf, WideHalf}
  /\ input \in Inputs /\ \A n \in DOMAIN input : input[n] \in Signed(half)
  /\ data \in Seq(Int) /\ \E S : decoded \in Seq(S)
  /\ i \in 1 .. (Len(input) + 1)
  /\ inPos \in Nat \ {0} /\ (pc # "overread" => inPos <= Len(data) + 1)
  /\ torn \in BOOLEAN
  /\ pc \in {"compress", "decompress", "overread", "threw", "done"}

Reading == pc \in {"decompress", "overread", "done"}

\* Nothing is decompressed before everything is compressed.
Fresh == pc = "compress" => inPos = 1 /\ decoded = << >> /\ ~torn

Matches(s) == \A m \in 1 .. Len(decoded) : decoded[m] = s[m]

PlainWritten ==
  codec \in {"NONE", "LZ4"} /\ pc = "compress" =>
    \/ i = 1 /\ data = << >>
    \/ i = Len(input) + 1 /\ data = input

PlainRead ==
  codec \in {"NONE", "LZ4"} /\ Reading =>
    /\ Len(data) = Len(input) /\ (~torn => data = input)
    /\ \/ inPos = 1 /\ decoded = << >>
       \/ inPos = Len(data) + 1 /\ decoded = data

DeltaWritten ==
  codec = "DELTA" /\ pc = "compress" =>
    /\ prev = Before(input, i)
    /\ \E start : Deltas(data, input, half, i - 1, start)

\* The decoder is where the encoder was after as many values.
DeltaWhole ==
  codec = "DELTA" /\ Reading /\ ~torn =>
    /\ Len(decoded) <= Len(input) /\ Matches(input)
    /\ prev = Before(input, Len(decoded) + 1)
    /\ \E start : /\ Deltas(data, input, half, Len(input), start)
                  /\ inPos = start[Len(decoded) + 1]

\* Of a torn block too each number ends where one was written to end, or before.
Marks(start) ==
  \A n \in 1 .. Len(input) :
    /\ start[n] \in Nat \ {0} /\ start[n + 1] \in Nat \ {0} /\ start[n] < start[n + 1]
    /\ start[n + 1] <= Len(data) + 1 /\ data[start[n + 1] - 1] < Digit

DeltaTorn ==
  codec = "DELTA" /\ Reading /\ torn =>
    /\ Len(decoded) <= Len(input)
    /\ \E start : Marks(start) /\ inPos <= start[Len(decoded) + 1]

RunsWritten ==
  codec = "RLE" /\ pc = "compress" =>
    \E k, start, first :
      k \in Nat /\ Runs(data, Elements, k, start, first) /\ first[k + 1] = i

RunsWhole ==
  codec = "RLE" /\ Reading /\ ~torn =>
    /\ Matches(Elements)
    /\ \E k, start, first :
         /\ k \in Nat /\ Runs(data, Elements, k, start, first)
         /\ first[k + 1] = Len(input) + 1
         /\ \E m \in 1 .. (k + 1) : inPos = start[m] /\ Len(decoded) = first[m] - 1

\* Of a torn block the decoder has read whole runs, or is behind the tear.
RunsTorn ==
  codec = "RLE" /\ Reading /\ torn /\ pc # "overread" =>
    /\ Len(decoded) <= Len(input)
    /\ \E d, k, start, first, t :
         /\ TornAt(d, t) /\ k \in Nat
         /\ Runs(d, Elements, k, start, first) /\ first[k + 1] = Len(input) + 1
         /\ \/ inPos > t
            \/ \E m \in 1 .. (k + 1) :
                 inPos = start[m] /\ start[m] <= t /\ Len(decoded) = first[m] - 1

\* With runs below 128 only, every turn is over as many bytes, torn or not, and
\* a turn that begins within the block ends there.
TurnsEven ==
  codec = "RLE" /\ ~LongRun =>
    /\ pc # "overread" /\ Even(inPos - 1, half) /\ Even(Len(data), half)
    /\ \A n \in 1 .. Len(data) : Even(n, half) => data[n] < Digit

Ended ==
  /\ pc = "overread" => torn /\ codec = "RLE"
  /\ pc = "done" => IF codec = "DELTA" THEN Len(decoded) >= Len(input) ELSE inPos > Len(data)
  /\ pc = "threw" => Len(decoded) <= Len(input)

IInv ==
  /\ Shape /\ Fresh /\ Ended /\ PlainWritten /\ PlainRead
  /\ DeltaWritten /\ DeltaWhole /\ DeltaTorn
  /\ RunsWritten /\ RunsWhole /\ RunsTorn /\ TurnsEven

\* The values of a chunk.
LEMMA InputShape ==
  ASSUME Shape
  PROVE  /\ input \in Seq(Int) /\ Len(input) \in Nat /\ Len(input) < 2 * WideHalf
         /\ half \in Nat \ {0}
         /\ \A n \in 1 .. Len(input) : input[n] \in Signed(half) /\ Before(input, n) \in Signed(half)
PROOF
  <1>1. input \in Seq(Int) /\ Len(input) < 2 * WideHalf /\ DOMAIN input = 1 .. Len(input)
    BY Weights DEF Shape
  <1>2. half \in Nat \ {0} /\ 0 \in Signed(half)
    BY Weights DEF Shape, Signed
  <1>3. ASSUME NEW n \in 1 .. Len(input)
        PROVE  input[n] \in Signed(half) /\ Before(input, n) \in Signed(half)
    <2>1. n # 1 => n - 1 \in 1 .. Len(input)
      BY <1>1
    <2> QED BY <1>1, <1>2, <2>1 DEF Shape, Before
  <1> QED BY <1>1, <1>2, <1>3

\* Every value of a type takes as many bytes.
LEMMA ElementBytes ==
  ASSUME half \in {NarrowHalf, WideHalf}
  PROVE  /\ Size(half) \in Nat \ {0}
         /\ \A v \in Signed(half) : BytesOf(v) \in Seq(Int) /\ Len(BytesOf(v)) = Size(half)
PROOF
  <1>1. PICK n \in Nat \ {0} : n = Size(half)
    BY CodecAssumption DEF Size
  <1>2. ASSUME NEW v \in Signed(half)
        PROVE  BytesOf(v) \in Seq(Int) /\ Len(BytesOf(v)) = n
    <2>1. PICK b : b = BytesOf(v)
      OBVIOUS
    <2>2. b \in [1 .. n -> 0 .. (2 * Digit - 1)]
      BY <1>1, <2>1, CodecAssumption DEF BytesOf
    <2>3. \A j \in 1 .. n : b[j] \in Int
      BY <2>2, Weights
    <2>4. b = [j \in 1 .. n |-> b[j]]
      BY <2>2
    <2>5. b \in Seq(Int) /\ Len(b) = n
      BY <2>3, <2>4
    <2> QED BY <2>1, <2>5
  <1> QED BY <1>1, <1>2

LEMMA ElementsShape ==
  ASSUME Shape, codec = "RLE"
  PROVE  /\ Elements \in Seq(Seq(Int)) /\ Len(Elements) = Len(input)
         /\ Size(half) \in Nat \ {0}
         /\ \A n \in 1 .. Len(input) :
              /\ Elements[n] = BytesOf(input[n]) /\ Elements[n] \in Seq(Int)
              /\ Len(Elements[n]) = Size(half)
PROOF
  <1>1. PICK len \in Nat : len = Len(input)
    BY InputShape
  <1>2. DOMAIN input = 1 .. len
    BY <1>1, InputShape
  <1>3. Elements = [n \in 1 .. len |-> BytesOf(input[n])]
    BY <1>2 DEF Elements
  <1>4. Size(half) \in Nat \ {0} /\ \A v \in Signed(half) : BytesOf(v) \in Seq(Int) /\ Len(BytesOf(v)) = Size(half)
    BY ElementBytes DEF Shape
  <1>5. ASSUME NEW n \in 1 .. len
        PROVE  /\ Elements[n] = BytesOf(input[n]) /\ BytesOf(input[n]) \in Seq(Int)
               /\ Len(BytesOf(input[n])) = Size(half)
    <2>1. input[n] \in Signed(half)
      BY <1>2 DEF Shape
    <2>2. Elements[n] = BytesOf(input[n])
      BY <1>3
    <2> QED BY <1>4, <2>1, <2>2
  <1>6. PICK s : s = Elements
    OBVIOUS
  <1>7. s = [n \in 1 .. len |-> s[n]] /\ \A n \in 1 .. len : s[n] \in Seq(Int)
    <2>1. s = [n \in 1 .. len |-> s[n]]
      BY <1>3, <1>6
    <2>2. ASSUME NEW n \in 1 .. len PROVE s[n] \in Seq(Int)
      <3>1. Elements[n] \in Seq(Int)
        BY <1>5
      <3> QED BY <1>6, <3>1
    <2> QED BY <2>1, <2>2
  <1>8. s \in Seq(Seq(Int)) /\ Len(s) = len
    BY <1>7
  <1>9. ASSUME NEW n \in 1 .. Len(input)
        PROVE  /\ Elements[n] = BytesOf(input[n]) /\ Elements[n] \in Seq(Int)
               /\ Len(Elements[n]) = Size(half)
    <2>1. n \in 1 .. len
      BY <1>1
    <2> QED BY <1>5, <2>1
  <1> QED BY <1>1, <1>4, <1>6, <1>8, <1>9

\* They are of the chunk, whatever becomes of the block.
LEMMA ElementsStay ==
  ASSUME UNCHANGED <<codec, half, input>>
  PROVE  Elements' = Elements /\ (LongRun' <=> LongRun)
PROOF
  <1>1. codec' = codec /\ half' = half /\ input' = input
    OBVIOUS
  <1>2. Elements' = Elements
    BY <1>1 DEF Elements, BytesOf
  <1>3. LongRun' <=> LongRun
    BY <1>1 DEF LongRun, BytesOf
  <1> QED BY <1>2, <1>3

\* Turns of one length: what comes next.
LEMMA TurnsAdd ==
  ASSUME NEW h \in {NarrowHalf, WideHalf}
  PROVE  /\ Size(h) \in Nat \ {0} /\ Even(0, h)
         /\ \A n \in Nat : Even(n, h) => Even(n + Size(h) + 1, h)
         /\ \A m, n \in Nat : Even(m, h) /\ Even(n, h) /\ m < n => m + Size(h) + 1 <= n
PROOF
  <1>1. PICK q \in Nat \ {0} : q = Size(h) + 1 /\ Size(h) \in Nat \ {0}
    BY CodecAssumption DEF Size
  <1>2. \A n : Even(n, h) <=> \E m \in Nat : n = m * q
    BY <1>1 DEF Even
  <1>3. Even(0, h)
    <2>1. 0 = 0 * q /\ 0 \in Nat
      OBVIOUS
    <2> QED BY <1>2, <2>1
  <1>4. ASSUME NEW n \in Nat, Even(n, h) PROVE Even(n + Size(h) + 1, h)
    <2>1. PICK m \in Nat : n = m * q
      BY <1>2, <1>4
    <2>2. n + q = (m + 1) * q /\ m + 1 \in Nat
      BY <2>1
    <2>3. n + Size(h) + 1 = n + q
      BY <1>1
    <2> QED BY <1>2, <2>2, <2>3
  <1>5. ASSUME NEW m \in Nat, NEW n \in Nat, Even(m, h), Even(n, h), m < n
        PROVE  m + Size(h) + 1 <= n
    <2>1. PICK a \in Nat, b \in Nat : m = a * q /\ n = b * q
      BY <1>2, <1>5
    <2>2. a < b
      <3>1. ASSUME b <= a PROVE FALSE
        <4>1. PICK c \in Nat : a = b + c
          <5>1. a - b \in Nat /\ a = b + (a - b)
            BY <3>1
          <5> QED BY <5>1
        <4>2. a * q = b * q + c * q /\ c * q \in Nat
          BY <4>1
        <4>3. c * q >= 0
          BY <4>2
        <4> QED BY <1>5, <2>1, <4>2, <4>3
      <3> QED BY <3>1
    <2>3. PICK c \in Nat : b = a + 1 + c
      <3>1. b - a - 1 \in Nat /\ b = a + 1 + (b - a - 1)
        BY <2>2
      <3> QED BY <3>1
    <2>4. b * q = a * q + q + c * q /\ c * q \in Nat
      BY <2>3
    <2>5. m + q <= n
      BY <2>1, <2>4
    <2> QED BY <1>1, <2>5
  <1> QED BY <1>1, <1>3, <1>4, <1>5

\* A run of 128 or more is one.
LEMMA ShortRun ==
  ASSUME Shape, ~LongRun, NEW b \in Nat \ {0}, NEW run \in Nat, b + run <= Len(input) + 1,
         \A j \in b .. (b + run - 1) : BytesOf(input[j]) = BytesOf(input[b])
  PROVE  run < Digit
PROOF
  <1>1. /\ Len(input) \in Nat /\ Digit \in Nat \ {0} /\ DOMAIN input = 1 .. Len(input)
    BY InputShape, Weights
  <1>2. ASSUME ~(run < Digit) PROVE FALSE
    <2>1. b \in DOMAIN input /\ b + Digit - 1 <= Len(input)
      BY <1>1, <1>2
    <2>2. ASSUME NEW j \in b .. (b + Digit - 1) PROVE BytesOf(input[j]) = BytesOf(input[b])
      <3>1. j \in b .. (b + run - 1)
        BY <1>1, <1>2
      <3> QED BY <3>1
    <2> QED BY <2>1, <2>2 DEF LongRun
  <1> QED BY <1>2

LEMMA InitIInv == Init => IInv
PROOF
  <1> SUFFICES ASSUME Init PROVE IInv
    OBVIOUS
  <1>1. /\ input \in Inputs /\ input \in Seq(Int) /\ data = << >> /\ i = 1 /\ prev = 0 /\ inPos = 1
        /\ decoded = << >> /\ torn = FALSE /\ pc = "compress"
    BY Weights DEF Init
  <1>2. Shape
    <2>1. << >> \in Seq(Int) /\ Len(<< >>) = 0 /\ Len(input) \in Nat
      BY <1>1
    <2>2. /\ codec \in {"NONE", "RLE", "DELTA", "LZ4"} /\ half \in {NarrowHalf, WideHalf}
          /\ \A n \in DOMAIN input : input[n] \in Signed(half)
      BY DEF Init
    <2>3. data \in Seq(Int) /\ decoded \in Seq(Int) /\ Len(data) = 0
      BY <1>1, <2>1
    <2>4. i \in 1 .. (Len(input) + 1) /\ inPos \in Nat \ {0} /\ inPos <= Len(data) + 1
      BY <1>1, <2>1, <2>3
    <2>5. torn \in BOOLEAN
      BY <1>1
    <2> QED BY <1>1, <2>2, <2>3, <2>4, <2>5 DEF Shape
  <1>3. Fresh /\ Ended /\ PlainWritten /\ PlainRead /\ DeltaWhole /\ DeltaTorn /\ RunsWhole /\ RunsTorn
    BY <1>1 DEF Fresh, Ended, PlainWritten, PlainRead, DeltaWhole, DeltaTorn, RunsWhole, RunsTorn,
                Reading
  <1>4. Deltas(<< >>, input, half, 0, <<1>>)
    BY DEF Deltas
  <1>5. Runs(<< >>, Elements, 0, <<1>>, <<1>>)
    BY DEF Runs
  <1>6. DeltaWritten
    <2>1. i - 1 = 0 /\ prev = Before(input, i)
      BY <1>1 DEF Before
    <2>2. Deltas(data, input, half, i - 1, <<1>>)
      BY <1>1, <1>4, <2>1
    <2> QED BY <2>1, <2>2 DEF DeltaWritten
  <1>7. RunsWritten
    <2>1. Runs(data, Elements, 0, <<1>>, <<1>>) /\ <<1>>[0 + 1] = i /\ 0 \in Nat
      BY <1>1, <1>5
    <2> QED BY <2>1, Zenon DEF RunsWritten
  <1>8. TurnsEven
    <2>1. Even(0, half)
      BY TurnsAdd DEF Init
    <2>2. inPos - 1 = 0 /\ Len(data) = 0
      BY <1>1
    <2> QED BY <1>1, <2>1, <2>2 DEF TurnsEven
  <1> QED BY <1>2, <1>3, <1>6, <1>7, <1>8 DEF IInv

-----------------------------------------------------------------------------
(* Compressing.                                                            *)

LEMMA CompressRunKeeps == IInv /\ CompressRun => IInv'
PROOF
  <1> SUFFICES ASSUME IInv, CompressRun PROVE IInv'
    OBVIOUS
  <1>1. /\ pc = "compress" /\ codec = "RLE" /\ i <= Len(input)
        /\ data' = data \o BytesOf(input[i]) \o Varint(Run) /\ i' = i + Run
        /\ UNCHANGED <<codec, half, input, prev, inPos, decoded, torn, pc>>
    BY DEF CompressRun
  <1>2. Shape /\ Fresh /\ RunsWritten /\ TurnsEven
    BY DEF IInv
  <1>3. input \in Seq(Int) /\ Len(input) \in Nat /\ Len(input) < 2 * WideHalf
    BY <1>2, InputShape
  <1>4. PICK i1 \in Nat \ {0} : i1 = i /\ i1 <= Len(input)
    BY <1>1, <1>2 DEF Shape
  <1>5. PICK w, len : w = input /\ len = Len(w) /\ len \in Nat
    BY <1>3
  <1> DEFINE Alike == {n \in 1 .. (len - i1 + 1) :
                         \A j \in i1 .. (i1 + n - 1) : BytesOf(w[j]) = BytesOf(w[i1])}
  <1>6. PICK run : run = Max(Alike)
    OBVIOUS
  <1>7. Run = run
    BY <1>4, <1>5, <1>6 DEF Run
  <1>8. Max(Alike) \in Alike
    <2>1. 1 \in Alike
      BY <1>4, <1>5
    <2>2. Alike \in SUBSET (0 .. (len + 1)) /\ len + 1 \in Nat
      BY <1>4, <1>5
    <2> HIDE DEF Alike
    <2> QED BY <2>1, <2>2, GreatestNumber
  <1>9. /\ run \in Nat \ {0} /\ i1 + run <= len + 1 /\ run <= len
        /\ \A j \in i1 .. (i1 + run - 1) : BytesOf(w[j]) = BytesOf(w[i1])
    <2>1. run \in Alike
      <3> HIDE DEF Alike
      <3> QED BY <1>6, <1>8
    <2> QED BY <1>4, <1>5, <2>1
  <1> HIDE DEF Alike
  <1>10. run \in Words \ {0}
    BY <1>3, <1>5, <1>9, Weights DEF Words
  <1>11. PICK d \in Seq(Int) : d = data
    BY <1>2 DEF Shape
  <1>12. PICK s \in Seq(Seq(Int)) :
           /\ s = Elements /\ Len(s) = len
           /\ \A n \in 1 .. len : s[n] = BytesOf(w[n]) /\ s[n] \in Seq(Int) /\ Len(s[n]) = Size(half)
    BY <1>1, <1>2, <1>5, ElementsShape
  <1>13. PICK k, start, first : k \in Nat /\ Runs(d, s, k, start, first) /\ first[k + 1] = i1
    BY <1>1, <1>2, <1>4, <1>11, <1>12 DEF RunsWritten
  <1>14. i1 \in 1 .. len /\ \A j \in i1 .. (i1 + run - 1) : j \in 1 .. len /\ s[j] = s[i1]
    <2>1. i1 \in 1 .. len
      BY <1>4, <1>5
    <2>2. ASSUME NEW j \in i1 .. (i1 + run - 1) PROVE j \in 1 .. len /\ s[j] = s[i1]
      <3>1. j \in 1 .. len
        BY <1>4, <1>5, <1>9
      <3>2. BytesOf(w[j]) = BytesOf(w[i1])
        BY <1>9
      <3> QED BY <1>12, <2>1, <3>1, <3>2
    <2> QED BY <2>1, <2>2
  <1>15. PICK x \in Seq(Int) : x = s[i1] /\ Len(x) = Size(half) /\ x = BytesOf(input[i])
    BY <1>4, <1>5, <1>12, <1>14
  <1>16. data' = d \o x \o Varint(run) /\ i' = i1 + run /\ input' = w /\ Elements' = s
    BY <1>1, <1>4, <1>5, <1>7, <1>11, <1>12, <1>15, ElementsStay
  <1>17. RunsWritten'
    <2>1. i1 + run <= Len(s) + 1 /\ \A j \in i1 .. (i1 + run - 1) : s[j] = s[i1]
      BY <1>9, <1>12, <1>14
    <2>2. PICK starts, firsts :
             /\ Runs(d \o s[i1] \o Varint(run), s, k + 1, starts, firsts)
             /\ firsts[(k + 1) + 1] = i1 + run
      BY <1>10, <1>13, <2>1, RunAdded, SMTT(30)
    <2>3. Runs(data', Elements', k + 1, starts, firsts) /\ firsts[(k + 1) + 1] = i'
          /\ k + 1 \in Nat
      BY <1>13, <1>15, <1>16, <2>2
    <2> QED BY <2>3, Zenon DEF RunsWritten
  <1>18. d \o x \in Seq(Int) /\ data' \in Seq(Int) /\ Len(data') \in Nat
    <2>1. d \o x \in Seq(Int)
      BY ConcatProperties
    <2>2. PICK d1 \in Seq(Int) : d1 = d \o x
      BY <2>1
    <2>3. d1 \o Varint(run) \in Seq(Int)
      BY <1>10, NumberAdded
    <2>4. data' \in Seq(Int)
      BY <1>16, <2>2, <2>3
    <2> QED BY <2>1, <2>4, LenProperties
  <1>19. Shape'
    <2>1. i' \in 1 .. (Len(input) + 1)
      BY <1>5, <1>9, <1>16
    <2>2. inPos = 1
      BY <1>1, <1>2 DEF Fresh
    <2> QED BY <1>1, <1>2, <1>18, <2>1, <2>2 DEF Shape
  <1>20. TurnsEven'
    <2> SUFFICES ASSUME ~LongRun PROVE TurnsEven'
      BY <1>1, ElementsStay DEF TurnsEven
    <2>1. run < Digit
      BY <1>2, <1>4, <1>5, <1>9, ShortRun
    <2>2. Varint(run) = <<run>>
      BY <1>10, <2>1, VarintUnfolds
    <2>3. PICK h \in {NarrowHalf, WideHalf} : h = half
      BY <1>2 DEF Shape
    <2>4. PICK size \in Nat \ {0} : size = Size(h) /\ size = Len(x)
      BY <1>15, <2>3, TurnsAdd
    <2>5. PICK m \in Nat : m = Len(d)
      BY LenProperties
    <2>6. Even(m, h) /\ \A n \in 1 .. m : Even(n, h) => d[n] < Digit
      BY <1>1, <1>2, <1>11, <2>3, <2>5 DEF TurnsEven
    <2>7. PICK d1 \in Seq(Int) : d1 = d \o x /\ Len(d1) = m + size /\ \A j \in 1 .. m : d1[j] = d[j]
      <3>1. /\ d \o x \in Seq(Int) /\ Len(d \o x) = Len(d) + Len(x)
            /\ \A j \in 1 .. Len(d) : (d \o x)[j] = d[j]
        BY ConcatProperties
      <3> QED BY <2>4, <2>5, <3>1
    <2>8. /\ data' = d1 \o <<run>> /\ Len(data') = m + size + 1
          /\ data'[m + size + 1] = run /\ \A j \in 1 .. m : data'[j] = d[j]
      <3>1. data' = d1 \o <<run>> /\ run \in Int
        BY <1>9, <1>16, <2>2, <2>7
      <3>2. /\ Len(d1 \o <<run>>) = Len(d1) + 1 /\ (d1 \o <<run>>)[Len(d1) + 1] = run
            /\ \A j \in 1 .. Len(d1) : (d1 \o <<run>>)[j] = d1[j]
        BY <3>1
      <3>3. \A j \in 1 .. m : j \in 1 .. Len(d1)
        BY <2>7
      <3> QED BY <2>7, <3>1, <3>2, <3>3
    <2>9. Even(m + size + 1, h)
      BY <2>4, <2>6, TurnsAdd
    <2>10. ASSUME NEW n \in 1 .. (m + size + 1), Even(n, h) PROVE data'[n] < Digit
      <3>0. n \in Nat /\ n <= m + size + 1
        OBVIOUS
      <3>1. CASE n <= m
        <4>1. n \in 1 .. m
          BY <3>1
        <4>2. d[n] < Digit
          BY <2>6, <2>10, <4>1
        <4> QED BY <2>8, <4>1, <4>2
      <3>2. CASE m < n
        <4>1. m + Size(h) + 1 <= n
          BY <2>6, <2>10, <3>0, <3>2, TurnsAdd
        <4>2. m + size + 1 <= n
          BY <2>4, <4>1
        <4>3. n = m + size + 1
          BY <3>0, <4>2
        <4> QED BY <2>1, <2>8, <4>3
      <3> QED BY <3>1, <3>2
    <2>11. pc' # "overread" /\ Even(inPos' - 1, half')
      BY <1>1, <1>2 DEF TurnsEven
    <2>12. /\ Even(Len(data'), half')
           /\ \A n \in 1 .. Len(data') : Even(n, half') => data'[n] < Digit
      BY <1>1, <2>3, <2>8, <2>9, <2>10
    <2> QED BY <2>11, <2>12 DEF TurnsEven
  <1>21. Fresh' /\ Ended' /\ PlainWritten' /\ PlainRead' /\ DeltaWritten' /\ DeltaWhole' /\ DeltaTorn'
         /\ RunsWhole' /\ RunsTorn'
    BY <1>1, <1>2 DEF Fresh, Ended, PlainWritten, PlainRead, DeltaWritten, DeltaWhole, DeltaTorn,
                      RunsWhole, RunsTorn, Reading
  <1> QED BY <1>17, <1>19, <1>20, <1>21 DEF IInv

LEMMA CompressDeltaKeeps == IInv /\ CompressDelta => IInv'
PROOF
  <1> SUFFICES ASSUME IInv, CompressDelta PROVE IInv'
    OBVIOUS
  <1>1. /\ pc = "compress" /\ codec = "DELTA" /\ i <= Len(input)
        /\ prev' = input[i] /\ i' = i + 1
        /\ UNCHANGED <<codec, half, input, inPos, decoded, torn, pc>>
    BY DEF CompressDelta
  <1>2. Shape /\ Fresh /\ DeltaWritten
    BY DEF IInv
  <1>3. /\ input \in Seq(Int) /\ Len(input) \in Nat /\ half \in Nat \ {0}
        /\ \A n \in 1 .. Len(input) : input[n] \in Signed(half) /\ Before(input, n) \in Signed(half)
    BY <1>2, InputShape
  <1>4. PICK i1 \in Nat \ {0} : i1 = i /\ i1 <= Len(input)
    BY <1>1, <1>2 DEF Shape
  <1>5. PICK s, h, d : s = input /\ h = half /\ d = data
    OBVIOUS
  <1>6. /\ s \in Seq(Int) /\ h \in {NarrowHalf, WideHalf} /\ d \in Seq(Int)
        /\ s[i1] \in Signed(h) /\ Before(s, i1) \in Signed(h) /\ h \in Nat \ {0}
    BY <1>2, <1>3, <1>4, <1>5 DEF Shape
  <1>7. PICK delta \in Differences(s[i1], Before(s, i1), h) : data' = d \o Varint(ZigZag(delta))
    <2>1. prev = Before(s, i1)
      BY <1>1, <1>2, <1>4, <1>5 DEF DeltaWritten
    <2>2. CASE i1 = 1
      <3>1. data' = d \o Varint(ZigZag(s[i1]))
        BY <1>4, <1>5, <2>2 DEF CompressDelta
      <3>2. Before(s, i1) = 0 /\ s[i1] \in Int /\ s[i1] - 0 = s[i1]
        BY <1>6, <2>2 DEF Before, Signed
      <3>3. Wrap(s[i1], h) = s[i1]
        BY <1>6, <3>2, WrapOnce
      <3>4. s[i1] \in Differences(s[i1], Before(s, i1), h)
        BY <3>2, <3>3 DEF Differences
      <3> QED BY <3>1, <3>4
    <2>3. CASE i1 # 1
      BY <1>4, <1>5, <2>1, <2>3 DEF CompressDelta
    <2> QED BY <2>2, <2>3
  <1>8. ZigZag(delta) \in Words
    BY <1>6, DifferenceFits
  <1>9. PICK k \in Nat : k = i1 - 1 /\ k + 1 = i1
    <2>1. i1 - 1 \in Nat /\ (i1 - 1) + 1 = i1
      OBVIOUS
    <2> QED BY <2>1
  <1>10. PICK start : Deltas(d, s, h, k, start)
    BY <1>1, <1>2, <1>4, <1>5, <1>9 DEF DeltaWritten
  <1>11. \E longer : Deltas(d \o Varint(ZigZag(delta)), s, h, k + 1, longer)
    BY <1>6, <1>8, <1>9, <1>10, DeltaAdded
  <1>12. DeltaWritten'
    <2>1. i' = i1 + 1 /\ i' - 1 = k + 1 /\ input' = s /\ half' = h /\ prev' = s[i1]
      BY <1>1, <1>4, <1>5, <1>9
    <2>2. prev' = Before(input', i')
      <3>1. i1 + 1 # 1 /\ (i1 + 1) - 1 = i1
        OBVIOUS
      <3> QED BY <2>1, <3>1 DEF Before
    <2> QED BY <1>7, <1>11, <2>1, <2>2 DEF DeltaWritten
  <1>13. Shape'
    <2>1. data' \in Seq(Int) /\ Len(data') \in Nat
      BY <1>6, <1>7, <1>8, NumberAdded
    <2>2. i' \in 1 .. (Len(input) + 1)
      BY <1>1, <1>3, <1>4
    <2>3. inPos = 1
      BY <1>1, <1>2 DEF Fresh
    <2> QED BY <1>1, <1>2, <2>1, <2>2, <2>3 DEF Shape
  <1>14. Fresh' /\ Ended' /\ PlainWritten' /\ PlainRead' /\ DeltaWhole' /\ DeltaTorn'
         /\ RunsWritten' /\ RunsWhole' /\ RunsTorn' /\ TurnsEven'
    BY <1>1, <1>2 DEF Fresh, Ended, PlainWritten, PlainRead, DeltaWhole, DeltaTorn,
                      RunsWritten, RunsWhole, RunsTorn, TurnsEven, Reading
  <1> QED BY <1>12, <1>13, <1>14 DEF IInv

LEMMA CompressWholeKeeps == IInv /\ CompressWhole => IInv'
PROOF
  <1> SUFFICES ASSUME IInv, CompressWhole PROVE IInv'
    OBVIOUS
  <1>1. /\ pc = "compress" /\ codec \in {"NONE", "LZ4"} /\ data' = input /\ i' = Len(input) + 1
        /\ UNCHANGED <<codec, half, input, prev, inPos, decoded, torn, pc>>
    BY DEF CompressWhole
  <1>2. Shape /\ Fresh
    BY DEF IInv
  <1>3. input \in Seq(Int) /\ Len(input) \in Nat
    BY <1>2, InputShape
  <1>4. Shape'
    <2>1. inPos = 1 /\ data' \in Seq(Int) /\ Len(data') \in Nat /\ i' \in 1 .. (Len(input) + 1)
      BY <1>1, <1>2, <1>3 DEF Fresh
    <2> QED BY <1>1, <1>2, <2>1 DEF Shape
  <1>5. Fresh' /\ Ended' /\ PlainWritten' /\ PlainRead' /\ DeltaWritten' /\ DeltaWhole' /\ DeltaTorn'
        /\ RunsWritten' /\ RunsWhole' /\ RunsTorn' /\ TurnsEven'
    BY <1>1, <1>2 DEF Fresh, Ended, PlainWritten, PlainRead, DeltaWritten, DeltaWhole, DeltaTorn,
                      RunsWritten, RunsWhole, RunsTorn, TurnsEven, Reading
  <1> QED BY <1>4, <1>5 DEF IInv

-----------------------------------------------------------------------------
(* Between the two.                                                        *)

LEMMA Lz4ThrowsKeeps == IInv /\ Lz4Throws => IInv'
PROOF
  <1> SUFFICES ASSUME IInv, Lz4Throws PROVE IInv'
    OBVIOUS
  <1>1. /\ codec = "LZ4" /\ pc \in {"compress", "decompress"} /\ pc' = "threw"
        /\ UNCHANGED <<codec, half, input, data, i, prev, inPos, decoded, torn>>
    BY DEF Lz4Throws
  <1>2. Shape'
    BY <1>1 DEF IInv, Shape
  <1>3. Ended'
    <2>1. Len(input) \in Nat
      BY InputShape DEF IInv
    <2>2. decoded = << >> \/ (decoded = data /\ Len(data) = Len(input))
      BY <1>1 DEF IInv, Fresh, PlainRead, Reading
    <2>3. Len(decoded) <= Len(input)
      BY <2>1, <2>2
    <2> QED BY <1>1, <2>3 DEF Ended
  <1>4. Fresh' /\ PlainWritten' /\ PlainRead' /\ DeltaWritten' /\ DeltaWhole' /\ DeltaTorn'
        /\ RunsWritten' /\ RunsWhole' /\ RunsTorn' /\ TurnsEven'
    BY <1>1 DEF Fresh, PlainWritten, PlainRead, DeltaWritten, DeltaWhole, DeltaTorn,
                RunsWritten, RunsWhole, RunsTorn, TurnsEven, Reading
  <1> QED BY <1>2, <1>3, <1>4 DEF IInv

LEMMA DecompressKeeps == IInv /\ Decompress => IInv'
PROOF
  <1> SUFFICES ASSUME IInv, Decompress PROVE IInv'
    OBVIOUS
  <1>1. /\ pc = "compress" /\ pc' = "decompress" /\ prev' = 0 /\ i > Len(input)
        /\ UNCHANGED <<codec, half, input, data, i, inPos, decoded, torn>>
    BY DEF Decompress
  <1>2. Shape /\ Fresh /\ PlainWritten /\ DeltaWritten /\ RunsWritten
    BY DEF IInv
  <1>3. input \in Seq(Int) /\ Len(input) \in Nat
    BY <1>2, InputShape
  <1>4. i = Len(input) + 1 /\ i - 1 = Len(input)
    BY <1>1, <1>2, <1>3, SMTT(30) DEF Shape
  <1>5. inPos = 1 /\ decoded = << >> /\ ~torn /\ Len(decoded) = 0
    BY <1>1, <1>2 DEF Fresh
  <1>6. PlainRead'
    <2>1. ASSUME codec \in {"NONE", "LZ4"} PROVE data = input
      <3>1. (i = 1 /\ data = << >>) \/ data = input
        BY <1>1, <1>2, <2>1 DEF PlainWritten
      <3>2. i = 1 => input = << >>
        BY <1>3, <1>4, EmptySeq
      <3> QED BY <3>1, <3>2
    <2> QED BY <1>1, <1>5, <2>1 DEF PlainRead
  <1>7. DeltaWhole'
    <2>1. ASSUME codec = "DELTA" PROVE \E start : Deltas(data, input, half, Len(input), start)
      BY <1>1, <1>2, <1>4, <2>1 DEF DeltaWritten
    <2>2. ASSUME NEW start, Deltas(data, input, half, Len(input), start)
          PROVE  inPos = start[Len(decoded) + 1]
      BY <1>5, <2>2 DEF Deltas
    <2>3. 0 <= Len(input) /\ Matches(input)
      BY <1>3, <1>5 DEF Matches
    <2>4. prev' = Before(input, Len(decoded) + 1)
      BY <1>1, <1>5 DEF Before
    <2>5. Matches(input)'
      BY <1>1, <2>3 DEF Matches
    <2>6. prev' = Before(input, Len(decoded) + 1)' /\ Len(decoded) <= Len(input)
      BY <1>1, <1>5, <2>3, <2>4 DEF Before
    <2> QED BY <1>1, <2>1, <2>2, <2>5, <2>6 DEF DeltaWhole
  <1>8. RunsWhole'
    <2> SUFFICES ASSUME codec = "RLE" PROVE RunsWhole'
      BY <1>1 DEF RunsWhole
    <2>1. PICK k, start, first : k \in Nat /\ Runs(data, Elements, k, start, first) /\ first[k + 1] = Len(input) + 1
      BY <1>1, <1>2, <1>4 DEF RunsWritten
    <2>2. start[1] = 1 /\ first[1] = 1 /\ 1 \in 1 .. (k + 1) /\ 1 - 1 = 0
      BY <2>1 DEF Runs
    <2>3. inPos = start[1] /\ Len(decoded) = first[1] - 1
      BY <1>5, <2>2
    <2>4. Matches(Elements)'
      BY <1>1, <1>5 DEF Matches
    <2>5. Runs(data', Elements', k, start, first) /\ first[k + 1] = Len(input') + 1
          /\ inPos' = start[1] /\ Len(decoded') = first[1] - 1
      BY <1>1, <2>1, <2>3, ElementsStay
    <2> QED BY <2>1, <2>2, <2>4, <2>5 DEF RunsWhole
  <1>9. Shape'
    BY <1>1, <1>2 DEF Shape
  <1>10. Fresh' /\ Ended' /\ PlainWritten' /\ DeltaWritten' /\ DeltaTorn' /\ RunsWritten' /\ RunsTorn'
    BY <1>1, <1>5 DEF Fresh, Ended, PlainWritten, DeltaWritten, DeltaTorn, RunsWritten, RunsTorn, Reading
  <1>11. TurnsEven'
    BY <1>1, ElementsStay DEF IInv, TurnsEven
  <1> QED BY <1>6, <1>7, <1>8, <1>9, <1>10, <1>11 DEF IInv

LEMMA TearKeeps == IInv /\ Tear => IInv'
PROOF
  <1> SUFFICES ASSUME IInv, Tear PROVE IInv'
    OBVIOUS
  <1>1. /\ pc = "decompress" /\ inPos = 1 /\ decoded = << >> /\ ~torn /\ torn' = TRUE
        /\ UNCHANGED <<codec, half, input, i, prev, inPos, decoded, pc>>
    BY DEF Tear
  <1>2. Shape /\ PlainRead /\ DeltaWhole /\ RunsWhole
    BY DEF IInv
  <1>3. PICK d \in Seq(Int) : d = data
    BY <1>2 DEF Shape
  <1>4. PICK t \in 1 .. Len(d) : data' = [n \in 1 .. Len(d) |-> IF n < t THEN d[n] ELSE 0]
    <2>1. DOMAIN data = 1 .. Len(d)
      BY <1>3
    <2> QED BY <1>3, <2>1 DEF Tear
  <1>5. /\ data' \in Seq(Int) /\ Len(data') = Len(d) /\ Len(d) \in Nat
        /\ \A n \in 1 .. Len(d) : data'[n] = IF n < t THEN d[n] ELSE 0
    <2>1. PICK m \in Nat : m = Len(d)
      OBVIOUS
    <2>2. data' = [n \in 1 .. m |-> IF n < t THEN d[n] ELSE 0]
      BY <1>4, <2>1
    <2>3. \A n \in 1 .. m : (IF n < t THEN d[n] ELSE 0) \in Int
      BY <2>1
    <2>4. data' \in Seq(Int) /\ Len(data') = m
      BY <2>2, <2>3
    <2> QED BY <2>1, <2>2, <2>4
  <1>6. TornAt(d, t)'
    BY <1>5 DEF TornAt
  <1>7. Len(decoded) = 0 /\ Len(input) \in Nat
    BY <1>1, <1>2, InputShape
  <1>8. Shape'
    BY <1>1, <1>2, <1>3, <1>5 DEF Shape
  <1>9. PlainRead'
    <2>1. codec \in {"NONE", "LZ4"} => Len(data') = Len(input)
      BY <1>1, <1>2, <1>3, <1>5 DEF PlainRead, Reading
    <2> QED BY <1>1, <2>1 DEF PlainRead
  <1>10. DeltaTorn'
    <2> SUFFICES ASSUME codec = "DELTA" PROVE DeltaTorn'
      BY <1>1 DEF DeltaTorn
    <2>1. PICK start : Deltas(d, input, half, Len(input), start)
      BY <1>1, <1>2, <1>3 DEF DeltaWhole, Reading
    <2>2. ASSUME NEW n \in 1 .. Len(input)
          PROVE  /\ start[n] \in Nat \ {0} /\ start[n + 1] \in Nat \ {0} /\ start[n] < start[n + 1]
                 /\ start[n + 1] <= Len(data') + 1 /\ data'[start[n + 1] - 1] < Digit
      <3>1. PICK v : NumberAt(d, start[n], v, start[n + 1])
        BY <2>1 DEF Deltas
      <3>2. PICK p, next : p = start[n] /\ next = start[n + 1]
        OBVIOUS
      <3>3. NumberAt(d, p, v, next)
        BY <3>1, <3>2
      <3>4. /\ p \in Nat \ {0} /\ next \in Nat \ {0} /\ p < next
            /\ d[next - 1] \in Nat /\ d[next - 1] < Digit
        BY <3>3, NumberShape
      <3>5. next <= Len(d) + 1
        BY <3>3 DEF NumberAt
      <3>6. next - 1 \in 1 .. Len(d)
        BY <1>5, <3>4, <3>5
      <3>7. data'[next - 1] < Digit
        <4>1. data'[next - 1] = d[next - 1] \/ data'[next - 1] = 0
          BY <1>5, <3>6
        <4> QED BY <3>4, <4>1, Weights
      <3> QED BY <1>5, <3>2, <3>4, <3>5, <3>7
    <2>3. Marks(start)'
      BY <1>1, <2>2 DEF Marks
    <2>4. start[1] = 1
      BY <2>1 DEF Deltas
    <2>5. Len(decoded') <= Len(input') /\ inPos' <= start[Len(decoded') + 1]
      BY <1>1, <1>7, <2>4
    <2> QED BY <2>3, <2>5 DEF DeltaTorn
  <1>11. RunsTorn'
    <2> SUFFICES ASSUME codec = "RLE" PROVE RunsTorn'
      BY <1>1 DEF RunsTorn
    <2>1. PICK k, start, first : k \in Nat /\ Runs(d, Elements, k, start, first) /\ first[k + 1] = Len(input) + 1
      BY <1>1, <1>2, <1>3 DEF RunsWhole, Reading
    <2>2. start[1] = 1 /\ first[1] = 1 /\ 1 \in 1 .. (k + 1) /\ 1 - 1 = 0 /\ 1 <= t
      BY <2>1 DEF Runs
    <2>3. inPos' = start[1] /\ start[1] <= t /\ Len(decoded') = first[1] - 1
      BY <1>1, <1>7, <2>2
    <2>4. Runs(d, Elements', k, start, first) /\ first[k + 1] = Len(input') + 1
      BY <1>1, <2>1, ElementsStay
    <2>5. Len(decoded') <= Len(input')
      BY <1>1, <1>7
    <2>6. \E m \in 1 .. (k + 1) : inPos' = start[m] /\ start[m] <= t /\ Len(decoded') = first[m] - 1
      BY <2>2, <2>3
    <2> QED BY <1>6, <2>1, <2>4, <2>5, <2>6 DEF RunsTorn
  <1>12. Fresh' /\ Ended' /\ PlainWritten' /\ DeltaWritten' /\ DeltaWhole' /\ RunsWritten' /\ RunsWhole'
    BY <1>1 DEF Fresh, Ended, PlainWritten, DeltaWritten, DeltaWhole, RunsWritten, RunsWhole, Reading
  <1>13. TurnsEven'
    <2> SUFFICES ASSUME codec = "RLE", ~LongRun PROVE TurnsEven'
      BY <1>1, ElementsStay DEF TurnsEven
    <2>1. /\ Even(inPos - 1, half) /\ Even(Len(d), half)
          /\ \A n \in 1 .. Len(d) : Even(n, half) => d[n] < Digit
      BY <1>3 DEF IInv, TurnsEven
    <2>2. ASSUME NEW n \in 1 .. Len(d), Even(n, half) PROVE data'[n] < Digit
      BY <1>5, <2>1, <2>2, Weights
    <2>3. Even(inPos' - 1, half') /\ Even(Len(data'), half')
      BY <1>1, <1>5, <2>1
    <2>4. pc' # "overread"
      BY <1>1
    <2>5. \A n \in 1 .. Len(data') : Even(n, half') => data'[n] < Digit
      BY <1>1, <1>5, <2>2
    <2> QED BY <2>3, <2>4, <2>5 DEF TurnsEven
  <1> QED BY <1>8, <1>9, <1>10, <1>11, <1>12, <1>13 DEF IInv

-----------------------------------------------------------------------------
(* Decompressing.                                                          *)

LEMMA DecompressWholeKeeps == IInv /\ DecompressWhole => IInv'
PROOF
  <1> SUFFICES ASSUME IInv, DecompressWhole PROVE IInv'
    OBVIOUS
  <1>1. /\ pc = "decompress" /\ codec \in {"NONE", "LZ4"}
        /\ decoded' = data /\ inPos' = Len(data) + 1
        /\ UNCHANGED <<codec, half, input, data, i, prev, torn, pc>>
    BY DEF DecompressWhole
  <1>2. Shape /\ PlainRead
    BY DEF IInv
  <1>3. Shape'
    <2>1. decoded' \in Seq(Int) /\ Len(data) \in Nat
      BY <1>1, <1>2 DEF Shape
    <2>2. inPos' \in Nat \ {0} /\ inPos' <= Len(data') + 1
      BY <1>1, <2>1
    <2> QED BY <1>1, <1>2, <2>1, <2>2 DEF Shape
  <1>4. PlainRead'
    BY <1>1, <1>2 DEF PlainRead, Reading
  <1>5. Fresh' /\ Ended' /\ PlainWritten' /\ DeltaWritten' /\ DeltaWhole' /\ DeltaTorn'
        /\ RunsWritten' /\ RunsWhole' /\ RunsTorn' /\ TurnsEven'
    BY <1>1 DEF Fresh, Ended, PlainWritten, DeltaWritten, DeltaWhole, DeltaTorn,
                RunsWritten, RunsWhole, RunsTorn, TurnsEven, Reading
  <1> QED BY <1>3, <1>4, <1>5 DEF IInv

LEMMA FinishKeeps == IInv /\ Finish => IInv'
PROOF
  <1> SUFFICES ASSUME IInv, Finish PROVE IInv'
    OBVIOUS
  <1>1. /\ pc = "decompress" /\ pc' = "done"
        /\ IF codec = "DELTA" THEN Len(decoded) >= Len(input) ELSE inPos > Len(data)
        /\ UNCHANGED <<codec, half, input, data, i, prev, inPos, decoded, torn>>
    BY DEF Finish
  <1>2. Shape'
    BY <1>1 DEF IInv, Shape
  <1>3. PlainRead' /\ DeltaTorn' /\ RunsTorn'
    BY <1>1, ElementsStay DEF IInv, PlainRead, DeltaTorn, RunsTorn, Reading, Marks, TornAt
  <1>4. DeltaWhole' /\ RunsWhole' /\ TurnsEven'
    BY <1>1, ElementsStay DEF IInv, DeltaWhole, RunsWhole, TurnsEven, Reading, Matches
  <1>5. Fresh' /\ Ended' /\ PlainWritten' /\ DeltaWritten' /\ RunsWritten'
    BY <1>1 DEF Fresh, Ended, PlainWritten, DeltaWritten, RunsWritten
  <1> QED BY <1>2, <1>3, <1>4, <1>5 DEF IInv

\* The same place, by another name.
LEMMA SamePlace ==
  ASSUME NEW pos, NEW other, pos = other
  PROVE  VarintEnd(other) = VarintEnd(pos) /\ VarintAt(other) = VarintAt(pos)
PROOF BY DEF VarintEnd, VarintAt

\* Where some byte ends a number, the number ends there at the latest.
LEMMA EndWithin ==
  ASSUME NEW pos \in Nat \ {0}, data \in Seq(Int), VarintEnd(pos) <= Len(data)
  PROVE  VarintEnd(pos) \in pos .. Len(data)
PROOF
  <1>1. PICK m \in Nat : m = Len(data)
    OBVIOUS
  <1> DEFINE S == {m + 1} \cup {q \in pos .. m : data[q] < Digit}
  <1>2. VarintEnd(pos) = Min(S)
    BY <1>1 DEF VarintEnd
  <1>3. Min(S) \in S
    <2>1. S \in SUBSET Nat /\ S # {}
      BY <1>1
    <2> HIDE DEF S
    <2> QED BY <2>1, LeastNumber
  <1>4. PICK b \in S : b = Min(S)
    BY <1>3
  <1>5. b \in pos .. m
    BY <1>1, <1>2, <1>4
  <1> QED BY <1>1, <1>2, <1>4, <1>5

\* A zero is a number of its own.
LEMMA ZeroRead ==
  ASSUME NEW pos \in Nat \ {0}, data \in Seq(Int), pos <= Len(data), data[pos] = 0
  PROVE  VarintEnd(pos) = pos /\ VarintAt(pos) = 0
PROOF
  <1>1. Len(data) \in Nat /\ Digit \in Nat /\ Digit >= 2 /\ WideHalf \in Nat \ {0}
    BY Weights
  <1>2. 0 \in Words
    BY <1>1 DEF Words
  <1>3. pos \in pos .. Len(data) /\ data[pos] < Digit
    BY <1>1
  <1>4. VarintEnd(pos) \in pos .. pos
    BY <1>1, <1>3, EndIsFirst
  <1>5. VarintEnd(pos) = pos
    BY <1>4
  <1>6. Reads(data, pos, pos, 0)
    <2>1. PICK d : d = data
      OBVIOUS
    <2>2. d[pos] \in Nat /\ d[pos] % Digit = 0
      BY <1>1, <2>1
    <2>3. Reads(d, pos, pos, d[pos] % Digit)
      BY <2>2, ReadsOne
    <2> QED BY <2>1, <2>2, <2>3
  <1>7. VarintAt(pos) = 0
    BY <1>1, <1>2, <1>3, <1>5, <1>6, NumberRead
  <1> QED BY <1>5, <1>7

\* c copies of x.
Copies(c, x) == [n \in 1 .. c |-> x]

\* One turn of the decoder of RLE, by names that do not change with the state:
\* it reads at pos, behind the block or within it, and adds copies of x.
LEMMA RunTurn ==
  ASSUME Shape, DecompressRun
  PROVE  \E pos, c, x :
           /\ pos \in Nat \ {0} /\ pos = inPos + Size(half) /\ inPos <= Len(data)
           /\ codec = "RLE" /\ pc = "decompress"
           /\ decoded' = decoded \o Copies(c, x)
           /\ UNCHANGED <<codec, half, input, data, i, prev, torn>>
           /\ \/ /\ VarintEnd(pos) > Len(data) /\ c \in Nat
                 /\ inPos' = Len(data) + 2 /\ pc' = "overread"
              \/ /\ VarintEnd(pos) <= Len(data) /\ VarintEnd(pos) \in pos .. Len(data)
                 /\ c = VarintAt(pos) /\ x = SubSeq(data, inPos, pos - 1)
                 /\ inPos' = VarintEnd(pos) + 1 /\ pc' = pc
PROOF
  <1>1. PICK size \in Nat \ {0} : size = Size(half)
    BY ElementBytes DEF Shape
  <1>2. PICK pos \in Nat \ {0} : pos = inPos + Size(half) /\ pos = inPos + size
    <2>1. inPos + size \in Nat \ {0}
      BY DEF Shape
    <2> QED BY <1>1, <2>1
  <1>3. /\ VarintEnd(inPos + Size(half)) = VarintEnd(pos)
        /\ VarintAt(inPos + Size(half)) = VarintAt(pos)
    BY <1>2, SamePlace
  <1>4. VarintEnd(pos) <= Len(data) => VarintEnd(pos) \in pos .. Len(data)
    BY EndWithin DEF Shape
  <1>5. codec = "RLE" /\ pc = "decompress" /\ inPos <= Len(data) /\ Len(input) \in Nat
    BY InputShape DEF DecompressRun
  <1>6. CASE /\ RunsOver(inPos + Size(half))
             /\ \E run \in 0 .. (Len(input) + 1) : \E x :
                  decoded' = decoded \o Copies(run, x)
    <2>1. PICK c \in 0 .. (Len(input) + 1) : \E x : decoded' = decoded \o Copies(c, x)
      BY <1>6
    <2>3. PICK x : decoded' = decoded \o Copies(c, x)
      BY <2>1
    <2>4. c \in Nat
      BY <1>5
    <2>2. /\ VarintEnd(pos) > Len(data) /\ pc' = "overread" /\ inPos' = Len(data) + 2
          /\ UNCHANGED <<codec, half, input, data, i, prev, torn>>
      BY <1>3, <1>6 DEF RunsOver
    <2> QED BY <1>2, <1>5, <2>2, <2>3, <2>4
  <1>7. CASE \E x : /\ VarintEnd(pos) <= Len(data)
                    /\ x = SubSeq(data, inPos, pos - 1)
                    /\ decoded' = decoded \o Copies(VarintAt(pos), x)
                    /\ inPos' = VarintEnd(pos) + 1
                    /\ UNCHANGED <<codec, half, input, data, i, prev, torn, pc>>
    <2> QED BY <1>2, <1>4, <1>5, <1>7
  <1>8. \/ /\ RunsOver(inPos + Size(half))
           /\ \E run \in 0 .. (Len(input) + 1) : \E x :
                decoded' = decoded \o Copies(run, x)
        \/ \E x : /\ VarintEnd(pos) <= Len(data)
                  /\ x = SubSeq(data, inPos, pos - 1)
                  /\ decoded' = decoded \o Copies(VarintAt(pos), x)
                  /\ inPos' = VarintEnd(pos) + 1
                  /\ UNCHANGED <<codec, half, input, data, i, prev, torn, pc>>
    <2>1. PICK element :
            /\ element = IF pos <= Len(data) + 1 THEN SubSeq(data, inPos, pos - 1) ELSE Beyond
            /\ \/ /\ RunsOver(inPos + Size(half))
                  /\ \E run \in 0 .. (Len(input) + 1) :
                       decoded' = decoded \o Copies(run, element)
               \/ /\ VarintEnd(inPos + Size(half)) <= Len(data)
                  /\ decoded' = decoded \o Copies(VarintAt(inPos + Size(half)), element)
                  /\ inPos' = VarintEnd(inPos + Size(half)) + 1
                  /\ UNCHANGED <<codec, half, input, data, i, prev, torn, pc>>
      BY <1>2, Zenon DEF DecompressRun, Copies
    <2>2. CASE /\ RunsOver(inPos + Size(half))
               /\ \E run \in 0 .. (Len(input) + 1) :
                    decoded' = decoded \o Copies(run, element)
      BY <2>2
    <2>3. CASE /\ VarintEnd(inPos + Size(half)) <= Len(data)
               /\ decoded' = decoded \o Copies(VarintAt(inPos + Size(half)), element)
               /\ inPos' = VarintEnd(inPos + Size(half)) + 1
               /\ UNCHANGED <<codec, half, input, data, i, prev, torn, pc>>
      <3>1. VarintEnd(pos) <= Len(data)
        BY <1>3, <2>3
      <3>2. pos <= Len(data) + 1
        <4>1. VarintEnd(pos) \in pos .. Len(data) /\ Len(data) \in Nat
          BY <1>4, <3>1 DEF Shape
        <4> QED BY <4>1
      <3>3. element = SubSeq(data, inPos, pos - 1)
        BY <2>1, <3>2
      <3> QED BY <1>3, <2>3, <3>1, <3>3
    <2> QED BY <2>1, <2>2, <2>3
  <1> QED BY <1>6, <1>7, <1>8

\* And one turn of the decoder of DELTA.
LEMMA DeltaTurn ==
  ASSUME Shape, DecompressDelta
  PROVE  \E pos \in Nat \ {0} :
           /\ pos = inPos /\ Len(decoded) < Len(input)
           /\ codec = "DELTA" /\ pc = "decompress"
           /\ \/ VarintEnd(pos) > Len(data)
              \/ /\ VarintEnd(pos) <= Len(data) /\ VarintEnd(pos) \in pos .. Len(data)
                 /\ prev' = Undone(VarintAt(pos), prev, half)
                 /\ decoded' = Append(decoded, prev')
                 /\ inPos' = VarintEnd(pos) + 1
                 /\ UNCHANGED <<codec, half, input, data, i, torn, pc>>
PROOF
  <1>1. PICK pos \in Nat \ {0} : pos = inPos
    BY DEF Shape
  <1>2. VarintEnd(inPos) = VarintEnd(pos) /\ VarintAt(inPos) = VarintAt(pos)
    BY <1>1, SamePlace
  <1>3. VarintEnd(pos) <= Len(data) => VarintEnd(pos) \in pos .. Len(data)
    BY EndWithin DEF Shape
  <1>4. CASE RunsOver(inPos)
    <2>1. VarintEnd(pos) > Len(data)
      BY <1>2, <1>4 DEF RunsOver
    <2> QED BY <1>1, <2>1 DEF DecompressDelta
  <1>5. CASE ~RunsOver(inPos)
    <2>1. /\ VarintEnd(pos) <= Len(data)
          /\ prev' = Undone(VarintAt(inPos), prev, half)
          /\ decoded' = Append(decoded, prev')
          /\ inPos' = VarintEnd(pos) + 1
          /\ UNCHANGED <<codec, half, input, data, i, torn, pc>>
      BY <1>2, <1>5 DEF DecompressDelta
    <2>2. prev' = Undone(VarintAt(pos), prev, half)
      BY <1>2, <2>1 DEF Undone
    <2> QED BY <1>1, <1>3, <2>1, <2>2 DEF DecompressDelta
  <1> QED BY <1>4, <1>5

\* t is s with c copies of x at its end.
Extended(t, s, S, c, x) ==
  /\ t \in Seq(S \cup {x}) /\ Len(t) = Len(s) + c
  /\ \A j \in 1 .. Len(s) : t[j] = s[j]
  /\ \A j \in (Len(s) + 1) .. (Len(s) + c) : t[j] = x

\* c copies of one value at the end of the values.
LEMMA CopiesAdded ==
  ASSUME NEW S, NEW s \in Seq(S), NEW c \in Nat, NEW x
  PROVE  Extended(s \o Copies(c, x), s, S, c, x)
PROOF
  <1>1. PICK e : e = Copies(c, x) /\ e = [n \in 1 .. c |-> x]
    BY DEF Copies
  <1>2. e \in Seq(S \cup {x}) /\ Len(e) = c /\ \A n \in 1 .. c : e[n] = x
    BY <1>1
  <1>3. s \in Seq(S \cup {x})
    OBVIOUS
  <1>4. s \o e \in Seq(S \cup {x}) /\ Len(s \o e) = Len(s) + c
        /\ \A j \in 1 .. Len(s) : (s \o e)[j] = s[j]
    <2>1. PICK T : T = S \cup {x}
      OBVIOUS
    <2>2. s \in Seq(T) /\ e \in Seq(T)
      BY <1>2, <1>3, <2>1
    <2>3. /\ s \o e \in Seq(T) /\ Len(s \o e) = Len(s) + Len(e)
          /\ \A j \in 1 .. Len(s) : (s \o e)[j] = s[j]
      BY <2>2, ConcatProperties
    <2> QED BY <1>2, <2>1, <2>3
  <1>5. ASSUME NEW j \in (Len(s) + 1) .. (Len(s) + c) PROVE (s \o e)[j] = x
    <2>1. PICK b \in Nat : b = Len(s)
      OBVIOUS
    <2>2. PICK n \in 1 .. c : j = b + n
      <3>1. j - b \in 1 .. c /\ j = b + (j - b)
        BY <2>1
      <3> QED BY <3>1
    <2>3. (s \o e)[Len(s) + n] = e[n]
      BY <1>2, <1>3
    <2> QED BY <1>2, <2>1, <2>2, <2>3
  <1> QED BY <1>1, <1>4, <1>5 DEF Extended

\* What is copied of a run are the bytes of its element.
LEMMA Copied ==
  ASSUME NEW d \in Seq(Int), NEW x \in Seq(Int), NEW p \in Nat \ {0}, NEW size \in Nat,
         size = Len(x), Begins(d, p, x, size), p + size <= Len(d) + 1
  PROVE  SubSeq(d, p, p + size - 1) = x
PROOF
  <1>1. PICK y : y = SubSeq(d, p, p + size - 1)
    OBVIOUS
  <1>2. PICK m \in Nat : m = Len(d)
    BY LenProperties
  <1>3. /\ y \in Seq(Int) /\ Len(y) = size
        /\ \A j \in 1 .. size : y[j] = d[p + j - 1]
    <2>1. \A j \in p .. (p + size - 1) : j \in 1 .. m
      BY <1>2
    <2>2. y = [j \in 1 .. size |-> d[p + j - 1]]
      BY <1>1
    <2>3. ASSUME NEW j \in 1 .. size PROVE d[p + j - 1] \in Int
      <3>1. p + j - 1 \in p .. (p + size - 1)
        OBVIOUS
      <3> QED BY <1>2, <2>1, <3>1
    <2>4. y \in Seq(Int) /\ Len(y) = size
      BY <2>2, <2>3
    <2> QED BY <2>2, <2>4
  <1>4. \A j \in 1 .. size : y[j] = x[j]
    BY <1>3 DEF Begins
  <1>5. y = x
    BY <1>3, <1>4, SeqEqual
  <1> QED BY <1>1, <1>5

\* Of a whole block the decoder of RLE reads the next run.
LEMMA WholeRunRead ==
  ASSUME IInv, DecompressRun, ~torn
  PROVE  RunsWhole' /\ pc' = pc /\ Shape'
PROOF
  <1>1. Shape /\ RunsWhole
    BY DEF IInv
  <1>2. PICK pos, c, x :
           /\ pos \in Nat \ {0} /\ pos = inPos + Size(half) /\ inPos <= Len(data)
           /\ codec = "RLE" /\ pc = "decompress"
           /\ decoded' = decoded \o Copies(c, x)
           /\ UNCHANGED <<codec, half, input, data, i, prev, torn>>
           /\ \/ /\ VarintEnd(pos) > Len(data) /\ c \in Nat
                 /\ inPos' = Len(data) + 2 /\ pc' = "overread"
              \/ /\ VarintEnd(pos) <= Len(data) /\ VarintEnd(pos) \in pos .. Len(data)
                 /\ c = VarintAt(pos) /\ x = SubSeq(data, inPos, pos - 1)
                 /\ inPos' = VarintEnd(pos) + 1 /\ pc' = pc
    BY <1>1, RunTurn
  <1>3. PICK w \in Seq(Seq(Int)) :
          /\ w = Elements /\ Len(w) = Len(input)
          /\ \A n \in 1 .. Len(input) : Len(w[n]) = Size(half)
    BY <1>1, <1>2, ElementsShape
  <1>4. PICK k, start, first :
          /\ k \in Nat /\ Runs(data, w, k, start, first) /\ first[k + 1] = Len(input) + 1
          /\ \E m \in 1 .. (k + 1) : inPos = start[m] /\ Len(decoded) = first[m] - 1
    BY <1>1, <1>2, <1>3 DEF RunsWhole, Reading
  <1>5. PICK m \in 1 .. (k + 1) : inPos = start[m] /\ Len(decoded) = first[m] - 1
    BY <1>4
  <1>6. m \in 1 .. k /\ m \in Nat /\ m + 1 \in 1 .. (k + 1)
    <2>1. m # k + 1
      <3>1. start[k + 1] = Len(data) + 1 /\ Len(data) \in Nat
        BY <1>1, <1>4 DEF Runs, Shape
      <3> QED BY <1>2, <1>5, <3>1
    <2> QED BY <1>4, <2>1
  <1>7. PICK d, p, f1, f2, next :
          d \in Seq(Int) /\ d = data /\ p = inPos /\ p = start[m] /\ f1 = first[m] /\ f2 = first[m + 1] /\ next = start[m + 1]
    BY <1>1, <1>5 DEF Shape
  <1>8. PICK y, size : RunAt(d, w, p, y, size, f1, f2, next)
    <2>1. Runs(d, w, k, start, first)
      BY <1>4, <1>7
    <2>2. \E y, size : RunAt(d, w, start[m], y, size, first[m], first[m + 1], start[m + 1])
      <3>1. k \in Nat /\ d \in Seq(Int)
        BY <1>4, <1>7
      <3> QED BY <1>6, <2>1, <3>1, RunShape
    <2> QED BY <1>7, <2>2
  <1>9. /\ f1 \in Nat \ {0} /\ f2 \in Nat /\ f1 < f2 /\ f2 <= Len(w) + 1
        /\ \A j \in f1 .. (f2 - 1) : w[j] = y
    BY <1>8 DEF RunAt
  <1>10. /\ y \in Seq(Int) /\ size \in Nat /\ size = Len(y) /\ p \in Nat \ {0}
         /\ next \in Nat \ {0} /\ p + size < next /\ next <= Len(d) + 1
         /\ Begins(d, p, y, size) /\ NumberAt(d, p + size, f2 - f1, next)
    BY <1>8 DEF RunAt
  <1>11. pos = p + size
    <2>1. f1 \in 1 .. Len(input) /\ w[f1] = y
      <3>1. Len(input) \in Nat
        BY <1>1, InputShape
      <3> QED BY <1>3, <1>8, <1>9, <3>1 DEF RunAt
    <2>2. size = Size(half)
      BY <1>3, <1>10, <2>1
    <2> QED BY <1>2, <1>7, <2>2
  <1>12. VarintEnd(pos) = next - 1 /\ VarintAt(pos) = f2 - f1 /\ VarintEnd(pos) <= Len(data)
    <2>1. NumberAt(data, pos, f2 - f1, next) /\ data \in Seq(Int)
      BY <1>7, <1>10, <1>11
    <2> QED BY <2>1, NumberIsRead
  <1>13. c \in Nat /\ c = f2 - f1 /\ x = SubSeq(data, inPos, pos - 1) /\ inPos' = VarintEnd(pos) + 1 /\ pc' = pc
    <2>1. ~(VarintEnd(pos) > Len(data))
      <3>1. PICK a, b : a = next - 1 /\ a \in Int /\ b = Len(d) /\ b \in Nat /\ a <= b
        <4>1. Len(d) \in Nat
          BY <1>7, LenProperties
        <4>2. next - 1 \in Int /\ next - 1 <= Len(d)
          BY <1>10, <4>1
        <4> QED BY <4>1, <4>2
      <3>2. VarintEnd(pos) = a /\ Len(data) = b
        BY <1>7, <1>12, <3>1
      <3> QED BY <3>1, <3>2
    <2>2. f2 - f1 \in Nat
      BY <1>9
    <2> QED BY <1>2, <1>12, <2>1, <2>2
  <1>14. x = y
    <2>1. p + size <= Len(d) + 1
      BY <1>10, LenProperties
    <2>2. SubSeq(d, p, p + size - 1) = y
      BY <1>7, <1>10, <2>1, Copied
    <2>3. pos - 1 = p + size - 1
      BY <1>2, <1>10, <1>11
    <2>4. x = SubSeq(d, p, pos - 1)
      BY <1>7, <1>13
    <2> QED BY <2>2, <2>3, <2>4, Zenon
  <1>15. PICK S, s : s \in Seq(S) /\ s = decoded
    BY <1>1 DEF Shape
  <1>16. Len(s) \in Nat /\ Len(s) = f1 - 1
    BY <1>5, <1>7, <1>15
  <1>17. /\ decoded' \in Seq(S \cup {x}) /\ Len(decoded') = Len(s) + c
         /\ \A j \in 1 .. Len(s) : decoded'[j] = s[j]
         /\ \A j \in (Len(s) + 1) .. (Len(s) + c) : decoded'[j] = x
    <2>1. c \in Nat /\ s \in Seq(S)
      BY <1>13, <1>15
    <2>2. decoded' = s \o Copies(c, x)
      BY <1>2, <1>15
    <2>3. Extended(decoded', s, S, c, x)
      BY <2>1, <2>2, CopiesAdded
    <2> QED BY <2>3 DEF Extended
  <1>18. Len(decoded') = f2 - 1 /\ inPos' = next
    BY <1>9, <1>10, <1>12, <1>13, <1>16, <1>17
  <1>19. Elements' = w /\ input' = input /\ data' = data
    BY <1>2, <1>3, ElementsStay
  <1>20. Matches(Elements)'
    <2>1. ASSUME NEW j \in 1 .. (f2 - 1) PROVE decoded'[j] = w[j]
      <3>1. CASE j \in 1 .. Len(s)
        <4>1. decoded'[j] = s[j]
          BY <1>17, <3>1
        <4>2. s[j] = w[j]
          BY <1>1, <1>2, <1>3, <1>15, <3>1 DEF RunsWhole, Reading, Matches
        <4> QED BY <4>1, <4>2
      <3>2. CASE j \notin 1 .. Len(s)
        <4>1. j \in (Len(s) + 1) .. (Len(s) + c) /\ j \in f1 .. (f2 - 1)
          BY <1>9, <1>13, <1>16, <3>2
        <4>2. decoded'[j] = x
          BY <1>17, <4>1
        <4> QED BY <1>9, <1>14, <4>1, <4>2
      <3> QED BY <3>1, <3>2
    <2> QED BY <1>18, <1>19, <2>1 DEF Matches
  <1>21. RunsWhole'
    <2>1. Runs(data', Elements', k, start, first) /\ first[k + 1] = Len(input') + 1 /\ k \in Nat
      BY <1>4, <1>19
    <2>2. inPos' = start[m + 1] /\ Len(decoded') = first[m + 1] - 1
      BY <1>7, <1>18
    <2> QED BY <1>6, <1>20, <2>1, <2>2 DEF RunsWhole
  <1>22. Shape'
    <2>1. inPos' \in Nat \ {0} /\ inPos' <= Len(data') + 1
      BY <1>7, <1>10, <1>18, <1>19
    <2>2. \E T : decoded' \in Seq(T)
      BY <1>17
    <2> QED BY <1>1, <1>2, <1>13, <2>1, <2>2 DEF Shape
  <1> QED BY <1>13, <1>21, <1>22

\* Of a torn block it reads a run that was written, or less of one, or nothing,
\* or it reads on behind the block.
LEMMA TornRunRead ==
  ASSUME IInv, DecompressRun, torn
  PROVE  RunsTorn' /\ pc' \in {"decompress", "overread"} /\ Shape'
PROOF
  <1>1. Shape /\ RunsTorn
    BY DEF IInv
  <1>2. PICK pos, c, x :
           /\ pos \in Nat \ {0} /\ pos = inPos + Size(half) /\ inPos <= Len(data)
           /\ codec = "RLE" /\ pc = "decompress"
           /\ decoded' = decoded \o Copies(c, x)
           /\ UNCHANGED <<codec, half, input, data, i, prev, torn>>
           /\ \/ /\ VarintEnd(pos) > Len(data) /\ c \in Nat
                 /\ inPos' = Len(data) + 2 /\ pc' = "overread"
              \/ /\ VarintEnd(pos) <= Len(data) /\ VarintEnd(pos) \in pos .. Len(data)
                 /\ c = VarintAt(pos) /\ x = SubSeq(data, inPos, pos - 1)
                 /\ inPos' = VarintEnd(pos) + 1 /\ pc' = pc
    BY <1>1, RunTurn
  <1>3. PICK b \in Nat : b = Len(decoded) /\ b <= Len(input)
    BY <1>1, <1>2 DEF RunsTorn, Reading, Shape
  <1>4. c \in Nat => Len(decoded') = b + c /\ \E S : decoded' \in Seq(S)
    <2> HAVE c \in Nat
    <2>1. PICK S, s : s \in Seq(S) /\ s = decoded
      BY <1>1 DEF Shape
    <2>2. decoded' = s \o Copies(c, x)
      BY <1>2, <2>1
    <2>3. Extended(decoded', s, S, c, x)
      BY <2>1, <2>2, CopiesAdded
    <2> QED BY <1>3, <2>1, <2>3 DEF Extended
  <1>5. data \in Seq(Int) /\ Len(data) \in Nat /\ Len(input) \in Nat
    BY <1>1, InputShape DEF Shape
  <1>6. CASE VarintEnd(pos) > Len(data) /\ c \in Nat /\ pc' = "overread" /\ inPos' = Len(data) + 2
    <2>1. RunsTorn'
      BY <1>6 DEF RunsTorn
    <2>2. inPos' \in Nat \ {0} /\ pc' = "overread"
      BY <1>5, <1>6
    <2>3. Shape'
      BY <1>1, <1>2, <1>4, <1>6, <2>2 DEF Shape
    <2> QED BY <2>1, <2>2, <2>3
  <1>7. CASE /\ VarintEnd(pos) <= Len(data) /\ VarintEnd(pos) \in pos .. Len(data)
             /\ c = VarintAt(pos) /\ inPos' = VarintEnd(pos) + 1 /\ pc' = pc
    <2>1. PICK w \in Seq(Seq(Int)) :
            /\ w = Elements /\ Len(w) = Len(input)
            /\ \A n \in 1 .. Len(input) : Len(w[n]) = Size(half)
      BY <1>1, <1>2, ElementsShape
    <2>2. PICK d, k, start, first, t :
           /\ TornAt(d, t) /\ k \in Nat
           /\ Runs(d, w, k, start, first) /\ first[k + 1] = Len(input) + 1
           /\ \/ inPos > t
              \/ \E m \in 1 .. (k + 1) :
                   inPos = start[m] /\ start[m] <= t /\ Len(decoded) = first[m] - 1
      BY <1>1, <1>2, <2>1 DEF RunsTorn, Reading
    <2>3. /\ d \in Seq(Int) /\ Len(data) = Len(d) /\ t \in 1 .. Len(d)
          /\ \A n \in 1 .. Len(d) : data[n] = IF n < t THEN d[n] ELSE 0
      BY <2>2 DEF TornAt
    <2>4. PICK end \in Nat : end = VarintEnd(pos) /\ pos <= end /\ end <= Len(data)
      <3>1. pos \in Nat
        BY <1>2
      <3> QED BY <1>5, <1>7, <3>1
    <2>5. /\ c \in Nat /\ b + c <= Len(input)
          /\ \/ end + 1 > t
             \/ \E m \in 1 .. (k + 1) :
                  end + 1 = start[m] /\ start[m] <= t /\ b + c = first[m] - 1
      <3>1. CASE inPos > t
        <4>1. pos \in 1 .. Len(d) /\ ~(pos < t) /\ pos <= Len(data)
          <5>1. PICK q \in Nat, z \in Nat : q = inPos /\ z = Size(half)
            BY <1>1, ElementBytes DEF Shape
          <5>2. PICK l \in Nat : l = Len(data) /\ l = Len(d)
            BY <1>5, <2>3
          <5>3. pos = q + z /\ q > t /\ t \in 1 .. l /\ pos <= l
            BY <1>2, <2>3, <2>4, <3>1, <5>1, <5>2
          <5>4. pos \in 1 .. l /\ ~(pos < t)
            BY <5>3
          <5> QED BY <5>2, <5>3, <5>4
        <4>2. data[pos] = 0
          BY <2>3, <4>1
        <4>3. end = pos /\ c = 0
          BY <1>5, <1>7, <2>4, <4>1, <4>2, ZeroRead
        <4> QED BY <1>3, <1>5, <2>3, <4>1, <4>3
      <3>2. CASE ~(inPos > t)
        <4>1. PICK m \in 1 .. (k + 1) :
                inPos = start[m] /\ start[m] <= t /\ Len(decoded) = first[m] - 1
          BY <2>2, <3>2
        <4>2. m \in 1 .. k /\ m \in Nat /\ m + 1 \in 1 .. (k + 1)
          <5>1. start[k + 1] = Len(d) + 1
            BY <2>2 DEF Runs
          <5>2. m # k + 1
            BY <1>5, <2>3, <4>1, <5>1
          <5> QED BY <2>2, <5>2
        <4>3. PICK p, f1, f2, next :
                p = start[m] /\ f1 = first[m] /\ f2 = first[m + 1] /\ next = start[m + 1]
          OBVIOUS
        <4>4. PICK y, size : RunAt(d, w, p, y, size, f1, f2, next)
          <5>1. \E y, size : RunAt(d, w, start[m], y, size, first[m], first[m + 1], start[m + 1])
            BY <2>2, <2>3, <4>2, RunShape
          <5> QED BY <4>3, <5>1
        <4>5. /\ f1 \in Nat \ {0} /\ f2 \in Nat /\ f1 < f2 /\ f2 <= Len(input) + 1
              /\ w[f1] = y /\ size = Len(y) /\ p \in Nat /\ next \in Nat
              /\ NumberAt(d, p + size, f2 - f1, next)
          BY <2>1, <4>4 DEF RunAt
        <4>6. pos = p + size
          <5>1. f1 \in 1 .. Len(input)
            BY <1>5, <4>5
          <5>2. size = Size(half)
            BY <2>1, <4>5, <5>1
          <5> QED BY <1>2, <4>1, <4>3, <5>2
        <4>7. NumberAt(d, pos, f2 - f1, next)
          BY <4>5, <4>6
        <4>8. b = f1 - 1
          BY <1>3, <4>1, <4>3
        <4>9. CASE next <= t
          <5>1. NumberAt(data, pos, f2 - f1, next)
            BY <2>2, <4>7, <4>9, NumberTorn
          <5>2. end = next - 1 /\ c = f2 - f1
            BY <1>5, <1>7, <2>4, <5>1, NumberIsRead
          <5>3. c \in Nat /\ b + c <= Len(input) /\ end + 1 = next /\ b + c = f2 - 1
            BY <1>5, <4>5, <4>8, <5>2
          <5>4. end + 1 = start[m + 1] /\ start[m + 1] <= t /\ b + c = first[m + 1] - 1
            BY <4>3, <4>9, <5>3
          <5> QED BY <4>2, <5>3, <5>4
        <4>10. CASE ~(next <= t)
          <5>1. t < next
            BY <2>3, <4>5, <4>10
          <5>2. end >= t /\ c \in 0 .. (f2 - f1)
            BY <1>7, <2>2, <2>4, <4>7, <5>1, NumberTorn
          <5>3. c \in Nat /\ b + c <= Len(input) /\ end + 1 > t
            BY <1>5, <2>3, <4>5, <4>8, <5>2
          <5> QED BY <5>3
        <4> QED BY <4>9, <4>10
      <3> QED BY <3>1, <3>2
    <2>6. inPos' = end + 1
      BY <1>7, <2>4
    <2>7. TornAt(d, t)'
      BY <1>2, <2>2 DEF TornAt
    <2>8. RunsTorn'
      <3>1. /\ Len(decoded') <= Len(input') /\ k \in Nat
            /\ Runs(d, Elements', k, start, first) /\ first[k + 1] = Len(input') + 1
        BY <1>2, <1>4, <2>1, <2>2, <2>5, ElementsStay
      <3>2. \/ inPos' > t
            \/ \E m \in 1 .. (k + 1) :
                 inPos' = start[m] /\ start[m] <= t /\ Len(decoded') = first[m] - 1
        BY <1>4, <2>5, <2>6
      <3> QED BY <2>7, <3>1, <3>2 DEF RunsTorn
    <2>9. Shape'
      <3>1. inPos' \in Nat \ {0} /\ inPos' <= Len(data') + 1
        BY <1>2, <1>5, <2>4, <2>6
      <3> QED BY <1>1, <1>2, <1>4, <1>7, <2>5, <3>1 DEF Shape
    <2> QED BY <1>2, <1>7, <2>8, <2>9
  <1> QED BY <1>2, <1>6, <1>7

\* A turn over an element and a length of one byte ends within a block of such
\* turns.
LEMMA EvenTurnRead ==
  ASSUME IInv, DecompressRun
  PROVE  TurnsEven'
PROOF
  <1>1. Shape /\ TurnsEven
    BY DEF IInv
  <1>2. PICK pos, c, x :
           /\ pos \in Nat \ {0} /\ pos = inPos + Size(half) /\ inPos <= Len(data)
           /\ codec = "RLE" /\ pc = "decompress"
           /\ decoded' = decoded \o Copies(c, x)
           /\ UNCHANGED <<codec, half, input, data, i, prev, torn>>
           /\ \/ /\ VarintEnd(pos) > Len(data) /\ c \in Nat
                 /\ inPos' = Len(data) + 2 /\ pc' = "overread"
              \/ /\ VarintEnd(pos) <= Len(data) /\ VarintEnd(pos) \in pos .. Len(data)
                 /\ c = VarintAt(pos) /\ x = SubSeq(data, inPos, pos - 1)
                 /\ inPos' = VarintEnd(pos) + 1 /\ pc' = pc
    BY <1>1, RunTurn
  <1> SUFFICES ASSUME ~LongRun PROVE TurnsEven'
    BY <1>2, ElementsStay DEF TurnsEven
  <1>3. /\ Even(inPos - 1, half) /\ Even(Len(data), half)
        /\ \A n \in 1 .. Len(data) : Even(n, half) => data[n] < Digit
    BY <1>1, <1>2 DEF TurnsEven
  <1>4. PICK h \in {NarrowHalf, WideHalf} : h = half
    BY <1>1 DEF Shape
  <1>5. PICK p \in Nat, m \in Nat, size \in Nat \ {0} :
          p = inPos - 1 /\ m = Len(data) /\ size = Size(h) /\ pos = p + size + 1
    <2>1. inPos - 1 \in Nat /\ Len(data) \in Nat /\ Size(h) \in Nat \ {0}
      BY <1>1, TurnsAdd DEF Shape
    <2>2. pos = (inPos - 1) + Size(h) + 1
      BY <1>1, <1>2, <1>4, <2>1 DEF Shape
    <2> QED BY <2>1, <2>2
  <1>6. Even(p, h) /\ Even(m, h) /\ p < m
    <2>1. p < m
      BY <1>1, <1>2, <1>5 DEF Shape
    <2> QED BY <1>3, <1>4, <1>5, <2>1
  <1>7. Even(p + Size(h) + 1, h) /\ p + Size(h) + 1 <= m
    BY <1>6, TurnsAdd
  <1>8. Even(pos, h) /\ pos \in 1 .. m
    <2>1. p + Size(h) + 1 = pos /\ pos \in Nat \ {0}
      BY <1>2, <1>5
    <2> QED BY <1>7, <2>1
  <1>9. data[pos] < Digit
    BY <1>3, <1>4, <1>5, <1>8
  <1>10. VarintEnd(pos) = pos
    <2>1. pos \in Nat \ {0} /\ pos \in pos .. Len(data) /\ Len(data) \in Nat
      BY <1>2, <1>5, <1>8
    <2>2. VarintEnd(pos) \in pos .. pos
      BY <1>9, <2>1, EndIsFirst
    <2> QED BY <2>1, <2>2
  <1>11. inPos' = pos + 1 /\ pc' = pc
    <2>1. ~(VarintEnd(pos) > Len(data))
      BY <1>5, <1>8, <1>10
    <2> QED BY <1>2, <1>10, <2>1
  <1>12. pc' # "overread" /\ Even(inPos' - 1, half')
    <2>1. inPos' - 1 = pos
      BY <1>2, <1>11
    <2> QED BY <1>2, <1>4, <1>8, <1>11, <2>1
  <1>13. /\ Even(Len(data'), half')
         /\ \A n \in 1 .. Len(data') : Even(n, half') => data'[n] < Digit
    BY <1>2, <1>3
  <1> QED BY <1>12, <1>13 DEF TurnsEven

LEMMA DecompressRunKeeps == IInv /\ DecompressRun => IInv'
PROOF
  <1> SUFFICES ASSUME IInv, DecompressRun PROVE IInv'
    OBVIOUS
  <1>1. Shape /\ Reading /\ Ended /\ pc = "decompress" /\ codec = "RLE" /\ torn \in BOOLEAN
    BY DEF IInv, Shape, Reading, DecompressRun
  <1>2. codec' = "RLE" /\ torn' = torn
    BY <1>1 DEF DecompressRun, RunsOver
  <1>3. TurnsEven'
    BY EvenTurnRead
  <1>4. CASE ~torn
    <2>1. RunsWhole' /\ pc' = pc /\ Shape'
      BY <1>4, WholeRunRead
    <2> QED BY <1>1, <1>2, <1>3, <1>4, <2>1 DEF IInv, Fresh, Ended, PlainWritten, PlainRead,
                                     DeltaWritten, DeltaWhole, DeltaTorn, RunsWritten, RunsTorn
  <1>5. CASE torn
    <2>1. RunsTorn' /\ pc' \in {"decompress", "overread"} /\ Shape'
      BY <1>5, TornRunRead
    <2> QED BY <1>1, <1>2, <1>3, <1>5, <2>1 DEF IInv, Fresh, Ended, PlainWritten, PlainRead,
                                     DeltaWritten, DeltaWhole, DeltaTorn, RunsWritten, RunsWhole
  <1> QED BY <1>1, <1>4, <1>5

\* Of a whole block the decoder of DELTA reads the next value.
LEMMA WholeDeltaRead ==
  ASSUME IInv, DecompressDelta, ~torn
  PROVE  DeltaWhole' /\ pc' = pc /\ Shape'
PROOF
  <1>1. Shape /\ DeltaWhole
    BY DEF IInv
  <1>2. PICK pos \in Nat \ {0} :
           /\ pos = inPos /\ Len(decoded) < Len(input)
           /\ codec = "DELTA" /\ pc = "decompress"
           /\ \/ VarintEnd(pos) > Len(data)
              \/ /\ VarintEnd(pos) <= Len(data) /\ VarintEnd(pos) \in pos .. Len(data)
                 /\ prev' = Undone(VarintAt(pos), prev, half)
                 /\ decoded' = Append(decoded, prev')
                 /\ inPos' = VarintEnd(pos) + 1
                 /\ UNCHANGED <<codec, half, input, data, i, torn, pc>>
    BY <1>1, DeltaTurn
  <1>3. PICK start : /\ Deltas(data, input, half, Len(input), start)
                     /\ inPos = start[Len(decoded) + 1]
    BY <1>1, <1>2 DEF DeltaWhole, Reading
  <1>4. Matches(input) /\ prev = Before(input, Len(decoded) + 1)
    BY <1>1, <1>2 DEF DeltaWhole, Reading
  <1>5. PICK n, S, s : n \in Nat /\ s \in Seq(S) /\ s = decoded /\ n = Len(s)
    <2>1. PICK S, s : s \in Seq(S) /\ s = decoded
      BY <1>1 DEF Shape
    <2>2. Len(s) \in Nat
      BY <2>1
    <2> QED BY <2>1, <2>2
  <1>6. n + 1 \in 1 .. Len(input) /\ Len(input) \in Nat
    BY <1>1, <1>2, <1>5, InputShape
  <1>7. PICK v, p, h : v = input[n + 1] /\ p = Before(input, n + 1) /\ h = half
    OBVIOUS
  <1>8. h \in Nat \ {0} /\ v \in Signed(h) /\ p \in Signed(h)
    <2>1. /\ half \in Nat \ {0}
          /\ \A q \in 1 .. Len(input) : input[q] \in Signed(half) /\ Before(input, q) \in Signed(half)
      BY <1>1, InputShape
    <2> QED BY <1>6, <1>7, <2>1
  <1>9. PICK next : next = start[(n + 1) + 1]
    OBVIOUS
  <1>10. PICK delta \in Differences(v, p, h) : NumberAt(data, pos, ZigZag(delta), next)
    <2>1. \E delta \in Differences(input[n + 1], Before(input, n + 1), half) :
            NumberAt(data, start[n + 1], ZigZag(delta), start[(n + 1) + 1])
      BY <1>3, <1>6 DEF Deltas
    <2>2. start[n + 1] = pos
      BY <1>2, <1>3, <1>5
    <2> QED BY <1>7, <1>9, <2>1, <2>2
  <1>11. PICK z : z = ZigZag(delta)
    OBVIOUS
  <1>12. data \in Seq(Int) /\ Len(data) \in Nat
    BY <1>1 DEF Shape
  <1>13. VarintEnd(pos) = next - 1 /\ VarintAt(pos) = z /\ VarintEnd(pos) <= Len(data)
    BY <1>10, <1>11, <1>12, NumberIsRead
  <1>14. next \in Nat \ {0} /\ next <= Len(data) + 1
    <2>1. PICK d : d = data
      OBVIOUS
    <2>2. NumberAt(d, pos, z, next)
      BY <1>10, <1>11, <2>1
    <2>3. next \in Nat \ {0} /\ next <= Len(d) + 1
      BY <2>2, NumberShape DEF NumberAt
    <2> QED BY <2>1, <2>3
  <1>15. /\ prev' = Undone(VarintAt(pos), prev, half) /\ decoded' = Append(decoded, prev')
         /\ inPos' = VarintEnd(pos) + 1
         /\ UNCHANGED <<codec, half, input, data, i, torn, pc>>
    <2>1. ~(VarintEnd(pos) > Len(data))
      BY <1>12, <1>13, <1>14
    <2> QED BY <1>2, <2>1
  <1>16. prev' = v
    <2>1. Undone(z, p, h) = v
      BY <1>8, <1>11, DeltaStepExact
    <2>2. prev = p
      BY <1>4, <1>5, <1>7
    <2>3. Undone(VarintAt(pos), prev, half) = Undone(z, p, h)
      BY <1>7, <1>13, <2>2 DEF Undone
    <2> QED BY <1>15, <2>1, <2>3
  <1>17. decoded' = Append(s, v) /\ inPos' = next
    BY <1>5, <1>12, <1>13, <1>14, <1>15, <1>16
  <1>18. /\ Append(s, v) \in Seq(S \cup {v}) /\ Len(Append(s, v)) = n + 1
         /\ Append(s, v)[n + 1] = v /\ \A j \in 1 .. n : Append(s, v)[j] = s[j]
    <2>1. s \in Seq(S \cup {v}) /\ v \in S \cup {v} /\ n = Len(s)
      BY <1>5
    <2> QED BY <2>1
  <1>19. Len(decoded') = n + 1 /\ \E T : decoded' \in Seq(T)
    BY <1>17, <1>18
  <1>20. Matches(input)'
    <2>1. ASSUME NEW j \in 1 .. (n + 1) PROVE decoded'[j] = input[j]
      <3>1. CASE j = n + 1
        BY <1>7, <1>17, <1>18, <3>1
      <3>2. CASE j # n + 1
        <4>1. j \in 1 .. n /\ j \in 1 .. Len(decoded)
          BY <1>5, <3>2
        <4>2. Append(s, v)[j] = s[j]
          BY <1>18, <4>1
        <4>3. s[j] = input[j]
          BY <1>4, <1>5, <4>1 DEF Matches
        <4> QED BY <1>17, <4>2, <4>3
      <3> QED BY <3>1, <3>2
    <2> QED BY <1>15, <1>19, <2>1 DEF Matches
  <1>21. DeltaWhole'
    <2>1. prev' = Before(input', Len(decoded') + 1)
      <3>1. (n + 1) + 1 # 1 /\ ((n + 1) + 1) - 1 = n + 1
        BY <1>5
      <3> QED BY <1>7, <1>15, <1>16, <1>19, <3>1 DEF Before
    <2>2. Len(decoded') <= Len(input')
      BY <1>6, <1>15, <1>19
    <2>3. Deltas(data', input', half', Len(input'), start)
      BY <1>3, <1>15
    <2>4. inPos' = start[Len(decoded') + 1]
      BY <1>9, <1>17, <1>19
    <2> QED BY <1>20, <2>1, <2>2, <2>3, <2>4 DEF DeltaWhole
  <1>22. Shape'
    <2>1. inPos' \in Nat \ {0} /\ inPos' <= Len(data') + 1
      BY <1>14, <1>15, <1>17
    <2> QED BY <1>1, <1>15, <1>19, <2>1 DEF Shape
  <1> QED BY <1>15, <1>21, <1>22

\* Of a torn block it reads some value, from no more bytes than the next one had.
LEMMA TornDeltaRead ==
  ASSUME IInv, DecompressDelta, torn
  PROVE  DeltaTorn' /\ pc' = pc /\ Shape'
PROOF
  <1>1. Shape /\ DeltaTorn
    BY DEF IInv
  <1>2. PICK pos \in Nat \ {0} :
           /\ pos = inPos /\ Len(decoded) < Len(input)
           /\ codec = "DELTA" /\ pc = "decompress"
           /\ \/ VarintEnd(pos) > Len(data)
              \/ /\ VarintEnd(pos) <= Len(data) /\ VarintEnd(pos) \in pos .. Len(data)
                 /\ prev' = Undone(VarintAt(pos), prev, half)
                 /\ decoded' = Append(decoded, prev')
                 /\ inPos' = VarintEnd(pos) + 1
                 /\ UNCHANGED <<codec, half, input, data, i, torn, pc>>
    BY <1>1, DeltaTurn
  <1>3. PICK start : Marks(start) /\ inPos <= start[Len(decoded) + 1]
    BY <1>1, <1>2 DEF DeltaTorn, Reading
  <1>4. PICK n, S, s : n \in Nat /\ s \in Seq(S) /\ s = decoded /\ n = Len(s)
    <2>1. PICK S, s : s \in Seq(S) /\ s = decoded
      BY <1>1 DEF Shape
    <2>2. Len(s) \in Nat
      BY <2>1
    <2> QED BY <2>1, <2>2
  <1>5. n + 1 \in 1 .. Len(input) /\ Len(input) \in Nat
    BY <1>1, <1>2, <1>4, InputShape
  <1>6. data \in Seq(Int) /\ Len(data) \in Nat
    BY <1>1 DEF Shape
  <1>7. PICK p, next : p = start[n + 1] /\ next = start[(n + 1) + 1]
    OBVIOUS
  <1>8. p \in Nat \ {0} /\ next \in Nat \ {0} /\ p < next /\ next <= Len(data) + 1
        /\ data[next - 1] < Digit
    BY <1>3, <1>5, <1>7 DEF Marks
  <1>9. pos <= p
    BY <1>2, <1>3, <1>4, <1>7
  <1>10. next - 1 \in pos .. Len(data)
    BY <1>6, <1>8, <1>9
  <1>11. VarintEnd(pos) \in pos .. (next - 1)
    <2>1. PICK end \in pos .. Len(data) : end = next - 1
      BY <1>10
    <2>2. data[end] < Digit
      BY <1>8, <2>1
    <2> QED BY <1>6, <2>1, <2>2, EndIsFirst
  <1>12. PICK end \in Nat : end = VarintEnd(pos) /\ end <= next - 1 /\ pos <= end
    BY <1>8, <1>11
  <1>13. /\ decoded' = Append(decoded, prev') /\ inPos' = VarintEnd(pos) + 1
         /\ UNCHANGED <<codec, half, input, data, i, torn, pc>>
    <2>1. ~(VarintEnd(pos) > Len(data))
      BY <1>6, <1>8, <1>12
    <2> QED BY <1>2, <2>1
  <1>14. Len(decoded') = n + 1 /\ \E T : decoded' \in Seq(T)
    <2>1. PICK x : x = prev'
      OBVIOUS
    <2>2. s \in Seq(S \cup {x}) /\ x \in S \cup {x}
      BY <1>4
    <2>3. Append(s, x) \in Seq(S \cup {x}) /\ Len(Append(s, x)) = n + 1
      BY <1>4, <2>2
    <2>4. decoded' = Append(s, x)
      BY <1>4, <1>13, <2>1
    <2> QED BY <2>3, <2>4
  <1>15. inPos' = end + 1
    BY <1>12, <1>13
  <1>16. DeltaTorn'
    <2>1. Marks(start)'
      BY <1>3, <1>13 DEF Marks
    <2>2. inPos' <= start[Len(decoded') + 1]
      <3>1. end + 1 <= next
        BY <1>8, <1>12
      <3> QED BY <1>7, <1>14, <1>15, <3>1
    <2>3. Len(decoded') <= Len(input')
      BY <1>5, <1>13, <1>14
    <2> QED BY <2>1, <2>2, <2>3 DEF DeltaTorn
  <1>17. Shape'
    <2>1. inPos' \in Nat \ {0} /\ inPos' <= Len(data') + 1
      BY <1>6, <1>8, <1>12, <1>13, <1>15
    <2> QED BY <1>1, <1>13, <1>14, <2>1 DEF Shape
  <1> QED BY <1>13, <1>16, <1>17

LEMMA DecompressDeltaKeeps == IInv /\ DecompressDelta => IInv'
PROOF
  <1> SUFFICES ASSUME IInv, DecompressDelta PROVE IInv'
    OBVIOUS
  <1>1. Shape /\ Reading /\ Ended /\ pc = "decompress" /\ codec = "DELTA" /\ torn \in BOOLEAN
    BY DEF IInv, Shape, Reading, DecompressDelta
  <1>2. codec' = "DELTA" /\ torn' = torn
    BY <1>1 DEF DecompressDelta, RunsOver
  <1>3. CASE ~torn
    <2>1. DeltaWhole' /\ pc' = pc /\ Shape'
      BY <1>3, WholeDeltaRead
    <2> QED BY <1>1, <1>2, <1>3, <2>1 DEF IInv, Fresh, Ended, PlainWritten, PlainRead, DeltaWritten,
                                     DeltaTorn, RunsWritten, RunsWhole, RunsTorn, TurnsEven
  <1>4. CASE torn
    <2>1. DeltaTorn' /\ pc' = pc /\ Shape'
      BY <1>4, TornDeltaRead
    <2> QED BY <1>1, <1>2, <1>4, <2>1 DEF IInv, Fresh, Ended, PlainWritten, PlainRead, DeltaWritten,
                                     DeltaWhole, RunsWritten, RunsWhole, RunsTorn, TurnsEven
  <1> QED BY <1>1, <1>3, <1>4

-----------------------------------------------------------------------------

LEMMA NextKeepsIInv == IInv /\ [Next]_vars => IInv'
PROOF
  <1> SUFFICES ASSUME IInv, [Next]_vars PROVE IInv'
    OBVIOUS
  <1>1. CASE UNCHANGED vars
    <2>1. /\ codec' = codec /\ half' = half /\ input' = input /\ data' = data /\ i' = i
          /\ prev' = prev /\ inPos' = inPos /\ decoded' = decoded /\ torn' = torn /\ pc' = pc
      BY <1>1 DEF vars
    <2>2. Shape' /\ Fresh' /\ Ended' /\ PlainWritten' /\ PlainRead'
      BY <2>1 DEF IInv, Shape, Fresh, Ended, PlainWritten, PlainRead, Reading
    <2>3. DeltaWritten' /\ DeltaWhole' /\ DeltaTorn'
      BY <2>1 DEF IInv, DeltaWritten, DeltaWhole, DeltaTorn, Marks, Matches, Reading
    <2>4. Elements' = Elements /\ (LongRun' <=> LongRun)
      BY <2>1, ElementsStay
    <2>5. RunsWritten' /\ RunsWhole' /\ RunsTorn'
      BY <2>1, <2>4, SMTT(30) DEF IInv, RunsWritten, RunsWhole, RunsTorn, TornAt, Matches, Reading
    <2>6. TurnsEven'
      BY <2>1, <2>4 DEF IInv, TurnsEven
    <2> QED BY <2>2, <2>3, <2>5, <2>6 DEF IInv
  <1> QED BY <1>1, CompressRunKeeps, CompressDeltaKeeps, CompressWholeKeeps, Lz4ThrowsKeeps,
             DecompressKeeps, TearKeeps, DecompressRunKeeps, DecompressDeltaKeeps,
             DecompressWholeKeeps, FinishKeeps DEF Next

LEMMA IInvAlways == Spec => []IInv
PROOF BY InitIInv, NextKeepsIInv, PTL DEF Spec

\* A whole RLE block that has been read to its end has given every run.
LEMMA WholeRunsRead ==
  ASSUME IInv, pc = "done", ~torn, codec = "RLE"
  PROVE  Len(decoded) = Len(input) /\ inPos = Len(data) + 1
PROOF
  <1>1. Shape /\ RunsWhole /\ Ended
    BY DEF IInv
  <1>2. PICK k, start, first :
          /\ k \in Nat /\ Runs(data, Elements, k, start, first) /\ first[k + 1] = Len(input) + 1
          /\ \E m \in 1 .. (k + 1) : inPos = start[m] /\ Len(decoded) = first[m] - 1
    BY <1>1 DEF RunsWhole, Reading
  <1>3. PICK m \in 1 .. (k + 1) : inPos = start[m] /\ Len(decoded) = first[m] - 1
    BY <1>2
  <1>4. inPos > Len(data) /\ inPos <= Len(data) + 1 /\ Len(data) \in Nat /\ inPos \in Nat
    BY <1>1 DEF Ended, Shape
  <1>5. m = k + 1
    <2>1. m \in 1 .. k => start[m] <= Len(data)
      BY <1>2 DEF Runs
    <2>2. m \notin 1 .. k
      BY <1>3, <1>4, <2>1
    <2> QED BY <1>2, <2>2
  <1>6. Len(input) \in Nat
    BY <1>1, InputShape
  <1>7. Len(decoded) = (Len(input) + 1) - 1
    BY <1>2, <1>3, <1>5
  <1> QED BY <1>4, <1>6, <1>7

\* A whole DELTA block of which every value has been read has been left at its end.
LEMMA WholeDeltasRead ==
  ASSUME IInv, pc = "done", ~torn, codec = "DELTA"
  PROVE  Len(decoded) = Len(input) /\ inPos = Len(data) + 1
PROOF
  <1>1. Shape /\ DeltaWhole /\ Ended
    BY DEF IInv
  <1>2. PICK start : /\ Deltas(data, input, half, Len(input), start)
                     /\ inPos = start[Len(decoded) + 1] /\ Len(decoded) <= Len(input)
    BY <1>1 DEF DeltaWhole, Reading
  <1>3. Len(decoded) \in Nat /\ Len(input) \in Nat /\ Len(decoded) >= Len(input)
    BY <1>1, InputShape DEF Ended, Shape
  <1>4. Len(decoded) = Len(input)
    BY <1>2, <1>3
  <1>5. start[Len(input) + 1] = Len(data) + 1
    BY <1>2 DEF Deltas
  <1> QED BY <1>2, <1>4, <1>5

LEMMA PlainDone ==
  ASSUME IInv, pc = "done", codec \in {"NONE", "LZ4"}
  PROVE  inPos = Len(data) + 1 /\ Len(decoded) = Len(input) /\ (~torn => decoded = input)
PROOF
  <1>1. Shape /\ PlainRead /\ inPos > Len(data)
    BY DEF IInv, Ended
  <1>2. Len(data) = Len(input) /\ data \in Seq(Int) /\ (~torn => data = input)
    BY <1>1 DEF PlainRead, Reading, Shape
  <1>3. CASE inPos = Len(data) + 1 /\ decoded = data
    BY <1>2, <1>3
  <1>4. CASE inPos = 1 /\ decoded = << >>
    <2>1. Len(data) = 0
      BY <1>1, <1>2, <1>4
    <2>2. data = << >> /\ Len(<< >>) = 0
      BY <1>2, <2>1, EmptySeq
    <2> QED BY <1>2, <1>4, <2>1, <2>2
  <1> QED BY <1>1, <1>3, <1>4 DEF PlainRead, Reading

LEMMA IInvRoundTrip == IInv => RoundTrip
PROOF
  <1> SUFFICES ASSUME IInv, pc = "done", ~torn PROVE decoded = Elements
    BY DEF RoundTrip
  <1>1. Shape
    BY DEF IInv
  <1>2. CASE codec \in {"NONE", "LZ4"}
    <2>1. Elements = input
      BY <1>2 DEF Elements
    <2> QED BY <1>2, <2>1, PlainDone
  <1>3. CASE codec \in {"RLE", "DELTA"}
    <2>1. Len(decoded) = Len(input)
      BY <1>3, WholeRunsRead, WholeDeltasRead
    <2>2. Matches(Elements)
      <3>1. CASE codec = "RLE"
        BY <3>1 DEF IInv, RunsWhole, Reading
      <3>2. CASE codec = "DELTA"
        BY <3>2 DEF IInv, DeltaWhole, Reading, Elements
      <3> QED BY <1>3, <3>1, <3>2
    <2>3. PICK T, w : w \in Seq(T) /\ w = Elements /\ Len(w) = Len(input)
      <3>1. CASE codec = "RLE"
        BY <1>1, <3>1, ElementsShape
      <3>2. CASE codec = "DELTA"
        BY <1>1, <3>2, InputShape DEF Elements
      <3> QED BY <1>3, <3>1, <3>2
    <2>4. PICK S, s : s \in Seq(S) /\ s = decoded
      BY <1>1 DEF Shape
    <2>5. Len(s) = Len(w) /\ \A m \in 1 .. Len(s) : s[m] = w[m]
      BY <2>1, <2>2, <2>3, <2>4 DEF Matches
    <2>6. s = w
      BY <2>3, <2>4, <2>5, SeqEqual
    <2> QED BY <2>3, <2>4, <2>6
  <1>4. codec \in {"NONE", "RLE", "DELTA", "LZ4"}
    BY <1>1 DEF Shape
  <1> QED BY <1>2, <1>3, <1>4

LEMMA IInvInBounds == IInv => InBounds
PROOF
  <1> SUFFICES ASSUME IInv PROVE InBounds
    OBVIOUS
  <1>1. Shape /\ Fresh /\ Ended /\ PlainRead /\ DeltaWhole /\ DeltaTorn /\ RunsWhole /\ RunsTorn
    BY DEF IInv
  <1>2. pc # "overread" => inPos <= Len(data) + 1
    BY <1>1 DEF Shape
  <1>3. pc = "overread" => torn /\ codec = "RLE" /\ LongRun
    BY DEF IInv, Ended, TurnsEven
  <1>4. pc = "done" /\ ~torn => inPos = Len(data) + 1
    BY <1>1, WholeRunsRead, WholeDeltasRead, PlainDone DEF Shape
  <1>5. ASSUME pc # "overread" PROVE Len(decoded) <= Len(input)
    <2>1. Len(input) \in Nat
      BY <1>1, InputShape
    <2>2. CASE pc = "compress"
      BY <1>1, <2>1, <2>2 DEF Fresh
    <2>3. CASE pc = "threw"
      BY <1>1, <2>3 DEF Ended
    <2>4. CASE Reading /\ codec \in {"NONE", "LZ4"}
      <3>1. decoded = << >> \/ (decoded = data /\ Len(data) = Len(input))
        BY <1>1, <2>4 DEF PlainRead
      <3> QED BY <2>1, <3>1
    <2>5. CASE Reading /\ codec = "DELTA"
      BY <1>1, <2>5 DEF DeltaWhole, DeltaTorn, Shape
    <2>6. CASE Reading /\ codec = "RLE" /\ torn
      BY <1>1, <1>5, <2>6 DEF RunsTorn
    <2>7. CASE Reading /\ codec = "RLE" /\ ~torn
      <3>1. PICK k, start, first :
              /\ k \in Nat /\ Runs(data, Elements, k, start, first)
              /\ first[k + 1] = Len(input) + 1
              /\ \E m \in 1 .. (k + 1) : inPos = start[m] /\ Len(decoded) = first[m] - 1
        BY <1>1, <2>7 DEF RunsWhole
      <3>2. PICK m \in 1 .. (k + 1) : Len(decoded) = first[m] - 1
        BY <3>1
      <3>3. first[m] \in Nat /\ first[m] <= Len(input) + 1
        <4>1. CASE m = k + 1
          BY <2>1, <3>1, <4>1
        <4>2. CASE m # k + 1
          <5>1. m \in 1 .. k
            BY <3>1, <4>2
          <5>2. IsRun(Elements, m, first)
            BY <3>1, <5>1 DEF Runs
          <5>3. PICK f1, f2 : f1 = first[m] /\ f2 = first[m + 1]
            OBVIOUS
          <5>4. f1 \in Nat \ {0} /\ f2 \in Nat /\ f1 < f2 /\ f2 <= Len(Elements) + 1
            BY <5>2, <5>3 DEF IsRun
          <5>5. Len(Elements) = Len(input)
            BY <1>1, <2>7, ElementsShape
          <5> QED BY <2>1, <5>3, <5>4, <5>5
        <4> QED BY <4>1, <4>2
      <3> QED BY <2>1, <3>2, <3>3
    <2> QED BY <1>1, <1>5, <2>2, <2>3, <2>4, <2>5, <2>6, <2>7 DEF Shape, Reading
  <1> QED BY <1>2, <1>3, <1>4, <1>5 DEF InBounds

-----------------------------------------------------------------------------

\* What was compressed is what is decompressed, by every codec and for every
\* chunk of values: runs of any length, elements of any size, differences that
\* overflow the element type and whichever way the build takes them, varints of
\* any number of bytes.
THEOREM RoundTripAlways == Spec => []RoundTrip
PROOF BY IInvAlways, IInvRoundTrip, PTL

\* The unchecked decoders of compression.cpp stay within the block and the room
\* for the values, but for one case: an RLE block that was torn and that holds a
\* run of 128 or more may be read behind its end, and what is read there may be
\* written behind the room.
THEOREM InBoundsAlways == Spec => []InBounds
PROOF BY IInvAlways, IInvInBounds, PTL
=============================================================================
