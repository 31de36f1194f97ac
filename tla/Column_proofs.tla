--------------------------- MODULE Column_proofs ----------------------------
(***************************************************************************)
(* Lemmas about the operators of Column, Predicates and Orders: the bounds *)
(* of a set of integers exist, its members have an order, sequences are    *)
(* laid end to end, a sum has each element once, truncation keeps <=,      *)
(* statistics enclose the live rows, and a chunk whose bounds do so is     *)
(* skipped only when none of its rows passes.                              *)
(***************************************************************************)
EXTENDS Predicates, Orders, SequencesExt, FiniteSetTheorems, SequenceTheorems, WellFoundedInduction, TLAPS

\* A non-empty set of integers with a lower bound has a least element.
LEMMA LeastInteger ==
  ASSUME NEW S \in SUBSET Int, S # {},
         NEW low \in Int, \A s \in S : low <= s
  PROVE  \E x \in S : \A y \in S : x <= y
PROOF
  <1> DEFINE T == {n \in Nat : low + n \in S}
  <1>1. \A s \in S : s - low \in T
    <2> TAKE s \in S
    <2>1. s \in Int /\ low <= s
      OBVIOUS
    <2>2. s - low \in Nat /\ low + (s - low) = s
      BY <2>1
    <2> QED BY <2>2
  <1>2. T \subseteq Nat /\ T # {}
    BY <1>1
  <1> HIDE DEF T
  <1>3. PICK t \in T : \A u \in T : ~(<<u, t>> \in OpToRel(<, Nat))
    BY <1>2, NatLessThanWellFounded, WFMin
  <1>4. \A u \in T : t <= u
    <2> TAKE u \in T
    <2>1. t \in Nat /\ u \in Nat
      BY <1>2
    <2>2. ~(u < t)
      BY <1>3, <2>1 DEF OpToRel
    <2> QED BY <2>1, <2>2
  <1>5. low + t \in S
    BY DEF T
  <1>6. \A y \in S : low + t <= y
    <2> TAKE y \in S
    <2>1. t <= y - low
      BY <1>1, <1>4
    <2>2. t \in Int /\ y \in Int
      BY <1>2
    <2> QED BY <2>1, <2>2
  <1> QED BY <1>5, <1>6

\* Min and Max of a non-empty bounded set of integers are what they say
\* (compute_typed_stats computes them in one pass).
LEMMA MinOfBounded ==
  ASSUME NEW S \in SUBSET Int, S # {},
         NEW low \in Int, \A s \in S : low <= s
  PROVE  Min(S) \in S /\ \A s \in S : Min(S) <= s
PROOF
  BY LeastInteger DEF Min

\* The least number of a set is what is said of it.
LEMMA LeastNumber ==
  ASSUME NEW S \in SUBSET Nat, S # {}
  PROVE  Min(S) \in S /\ \A n \in S : Min(S) <= n
PROOF
  <1>1. S \in SUBSET Int /\ 0 \in Int /\ \A n \in S : 0 <= n
    OBVIOUS
  <1> QED BY <1>1, MinOfBounded

\* And only of it.
LEMMA MinIs ==
  ASSUME NEW S \in SUBSET Nat, NEW m \in S, \A n \in S : m <= n
  PROVE  Min(S) = m
PROOF
  <1>1. Min(S) \in S /\ Min(S) <= m
    BY LeastNumber
  <1>2. m <= Min(S) /\ m \in Nat /\ Min(S) \in Nat
    BY <1>1
  <1> QED BY <1>1, <1>2

\* As MinOfBounded for the greatest element, by negation.
LEMMA MaxOfBounded ==
  ASSUME NEW S \in SUBSET Int, S # {},
         NEW high \in Int, \A s \in S : s <= high
  PROVE  Max(S) \in S /\ \A s \in S : s <= Max(S)
PROOF
  <1> DEFINE N == {n \in Int : 0 - n \in S}
  <1>1. \A s \in S : 0 - s \in N
    <2> TAKE s \in S
    <2>1. 0 - s \in Int /\ 0 - (0 - s) = s
      OBVIOUS
    <2> QED BY <2>1
  <1>2. \A n \in N : 0 - high <= n
    <2> TAKE n \in N
    <2>1. n \in Int /\ 0 - n <= high
      OBVIOUS
    <2> QED BY <2>1
  <1>3. N \in SUBSET Int /\ N # {}
    BY <1>1
  <1>4. 0 - high \in Int
    OBVIOUS
  <1> HIDE DEF N
  <1>5. PICK m \in N : \A n \in N : m <= n
    BY <1>2, <1>3, <1>4, LeastInteger
  <1>6. m \in Int /\ 0 - m \in S
    BY DEF N
  <1>7. \A y \in S : 0 - m >= y
    <2> TAKE y \in S
    <2>1. m <= 0 - y
      BY <1>1, <1>5
    <2> QED BY <2>1, <1>6
  <1>8. \E z \in S : \A y \in S : z >= y
    BY <1>6, <1>7
  <1>9. Max(S) \in S /\ \A y \in S : Max(S) >= y
    BY <1>8 DEF Max
  <1> QED BY <1>9

-----------------------------------------------------------------------------
(* Sets of numbers in their order.                                         *)

\* The number in S of a rank.
Nth(S, n) == CHOOSE r \in S : Rank(S, r) = n

\* Numbers of a finite set have ranks from one on, in their order.
LEMMA RankOrder ==
  ASSUME NEW S \in SUBSET Nat, IsFiniteSet(S)
  PROVE  /\ Cardinality(S) \in Nat
         /\ \A r \in S : Rank(S, r) \in 1 .. Cardinality(S)
         /\ \A q, r \in S : Rank(S, q) = Rank(S, r) => q = r
PROOF
  <1>1. Cardinality(S) \in Nat
    BY FS_CardinalityType
  <1>2. ASSUME NEW r \in S
        PROVE  /\ IsFiniteSet({x \in S : x <= r}) /\ Rank(S, r) \in 1 .. Cardinality(S)
    <2> DEFINE U == {x \in S : x <= r}
    <2>1. U \in SUBSET S /\ r \in U
      OBVIOUS
    <2> HIDE DEF U
    <2>2. IsFiniteSet(U) /\ Cardinality(U) <= Cardinality(S)
      BY <2>1, FS_Subset
    <2>3. Cardinality(U) \in Nat /\ Cardinality(U) # 0
      BY <2>1, <2>2, FS_CardinalityType, FS_EmptySet
    <2>4. Cardinality(U) \in 1 .. Cardinality(S)
      BY <1>1, <2>2, <2>3
    <2>5. Rank(S, r) = Cardinality(U)
      BY Zenon DEF Rank, U
    <2> QED BY <2>2, <2>4, <2>5 DEF U
  <1>3. ASSUME NEW q \in S, NEW r \in S, Rank(S, q) = Rank(S, r), q < r PROVE FALSE
    <2> DEFINE U == {x \in S : x <= q}
               V == {x \in S : x <= r}
    <2>1. U \in SUBSET V /\ r \in V /\ r \notin U
      <3>1. q \in Nat /\ r \in Nat /\ ~(r <= q) /\ r <= r
        BY <1>3
      <3>2. \A x \in S : x <= q => x <= r
        <4> TAKE x \in S
        <4>1. x \in Nat
          OBVIOUS
        <4> QED BY <1>3, <3>1, <4>1
      <3> QED BY <3>1, <3>2
    <2>2. IsFiniteSet(V) /\ Cardinality(U) = Cardinality(V)
      BY <1>2, <1>3 DEF Rank
    <2> HIDE DEF U, V
    <2>3. U = V
      BY <2>1, <2>2, FS_Subset
    <2> QED BY <2>1, <2>3
  <1>4. ASSUME NEW q \in S, NEW r \in S, Rank(S, q) = Rank(S, r) PROVE q = r
    <2>1. q \in Nat /\ r \in Nat
      OBVIOUS
    <2>2. ~(q < r) /\ ~(r < q)
      BY <1>3, <1>4
    <2> QED BY <2>1, <2>2
  <1> QED BY <1>1, <1>2, <1>4

\* Every rank is somebody's, and the sequence has each number in its place.
LEMMA AscendingRanks ==
  ASSUME NEW S \in SUBSET Nat, IsFiniteSet(S)
  PROVE  /\ Ascending(S) \in Seq(Nat)
         /\ Len(Ascending(S)) = Cardinality(S)
         /\ \A n \in 1 .. Cardinality(S) :
              \E r \in S : Rank(S, r) = n /\ Ascending(S)[n] = r
PROOF
  <1> DEFINE N == Cardinality(S)
             rank == [r \in S |-> Rank(S, r)]
  <1>1. N \in Nat /\ rank \in [S -> 1 .. N]
    BY RankOrder
  <1>2. \A q, r \in S : rank[q] = rank[r] => q = r
    BY RankOrder
  <1>3. rank \in Injection(S, 1 .. N)
    <2> HIDE DEF rank, N
    <2> QED BY <1>1, <1>2 DEF Injection, IsInjective
  <1>4. IsFiniteSet(1 .. N) /\ Cardinality(1 .. N) = N
    BY <1>1, FS_Interval
  <1>5. rank \in Surjection(S, 1 .. N)
    <2> HIDE DEF rank
    <2> QED BY <1>3, <1>4, FS_Injection
  <1>6. \A n \in 1 .. N : \E r \in S : rank[r] = n
    <2> HIDE DEF rank, N
    <2> QED BY <1>5 DEF Surjection
  <1>8. Ascending(S) = [n \in 1 .. N |-> Nth(S, n)]
    BY DEF Ascending, Nth
  <1>7. ASSUME NEW n \in 1 .. N
        PROVE  \E r \in S : Rank(S, r) = n /\ Ascending(S)[n] = r
    <2>1. PICK r \in S : Rank(S, r) = n
      BY <1>6
    <2>2. Ascending(S)[n] = Nth(S, n)
      BY <1>8
    <2>3. \A x \in S : Rank(S, x) = n => x = r
      BY <2>1, RankOrder
    <2>4. Nth(S, n) = r
      BY <2>1, <2>3 DEF Nth
    <2> QED BY <2>1, <2>2, <2>4
  <1>9. Ascending(S) \in [1 .. N -> Nat]
    BY <1>7, <1>8
  <1>10. Ascending(S) \in Seq(Nat) /\ Len(Ascending(S)) = N
    <2> HIDE DEF N
    <2> QED BY <1>1, <1>9
  <1> QED BY <1>7, <1>10

\* Where one set of numbers ends before another begins, the sequence of both
\* is the one behind the other.
LEMMA AscendingJoin ==
  ASSUME NEW S \in SUBSET Nat, IsFiniteSet(S), NEW T \in SUBSET Nat, IsFiniteSet(T),
         \A x \in S, y \in T : x < y
  PROVE  Ascending(S \cup T) = Ascending(S) \o Ascending(T)
PROOF
  <1> DEFINE a == Ascending(S)
             b == Ascending(T)
             c == Ascending(S \cup T)
  <1>1. /\ a \in Seq(Nat) /\ Len(a) = Cardinality(S) /\ Cardinality(S) \in Nat
        /\ b \in Seq(Nat) /\ Len(b) = Cardinality(T) /\ Cardinality(T) \in Nat
    BY AscendingRanks, RankOrder
  <1>2. S \cap T = {}
    BY SMT
  <1>3. IsFiniteSet(S \cup T) /\ Cardinality(S \cup T) = Cardinality(S) + Cardinality(T)
    <2>1. IsFiniteSet(S \cup T)
          /\ Cardinality(S \cup T) = Cardinality(S) + Cardinality(T) - Cardinality(S \cap T)
      BY FS_Union
    <2>2. Cardinality(S \cap T) = 0
      BY <1>2, FS_EmptySet, Zenon
    <2> QED BY <1>1, <2>1, <2>2
  <1>4. c \in Seq(Nat) /\ Len(c) = Cardinality(S) + Cardinality(T)
    BY <1>3, AscendingRanks
  <1>5. ASSUME NEW n \in 1 .. Cardinality(S) PROVE c[n] = a[n]
    <2>1. PICK r \in S : Rank(S, r) = n /\ a[n] = r
      BY AscendingRanks
    <2>2. {x \in S \cup T : x <= r} = {x \in S : x <= r}
      <3>1. \A x \in T : ~(x <= r)
        <4> TAKE x \in T
        <4>1. x \in Nat /\ r \in Nat /\ r < x
          OBVIOUS
        <4> QED BY <4>1
      <3> QED BY <3>1
    <2>3. Rank(S \cup T, r) = n
      BY <2>1, <2>2 DEF Rank
    <2>4. n \in 1 .. Cardinality(S \cup T)
      BY <1>1, <1>3
    <2>5. PICK q \in S \cup T : Rank(S \cup T, q) = n /\ c[n] = q
      BY <1>3, <2>4, AscendingRanks
    <2>6. q = r
      BY <1>3, <2>3, <2>5, RankOrder
    <2> QED BY <2>1, <2>5, <2>6
  <1>6. ASSUME NEW m \in 1 .. Cardinality(T) PROVE c[Cardinality(S) + m] = b[m]
    <2>1. PICK t \in T : Rank(T, t) = m /\ b[m] = t
      BY AscendingRanks
    <2> DEFINE U == {x \in T : x <= t}
    <2>2. {x \in S \cup T : x <= t} = S \cup U
      <3>1. \A x \in S : x <= t
        <4> TAKE x \in S
        <4>1. x \in Nat /\ t \in Nat /\ x < t
          OBVIOUS
        <4> QED BY <4>1
      <3> QED BY <3>1
    <2>3. IsFiniteSet(U) /\ Cardinality(U) = m
      <3>1. U \in SUBSET T
        OBVIOUS
      <3>2. Cardinality(U) = Rank(T, t)
        BY Zenon DEF Rank
      <3> HIDE DEF U
      <3> QED BY <2>1, <3>1, <3>2, FS_Subset
    <2>4. S \cap U = {}
      BY <1>2
    <2> HIDE DEF U
    <2>5. Cardinality(S \cup U) = Cardinality(S) + m
      <3>1. Cardinality(S \cup U) = Cardinality(S) + Cardinality(U) - Cardinality(S \cap U)
        BY <2>3, FS_Union
      <3>2. Cardinality(S \cap U) = 0
        BY <2>4, FS_EmptySet, Zenon
      <3> QED BY <1>1, <2>3, <3>1, <3>2
    <2>6. Rank(S \cup T, t) = Cardinality(S) + m
      <3>1. Rank(S \cup T, t) = Cardinality({x \in S \cup T : x <= t})
        BY DEF Rank
      <3> QED BY <2>2, <2>5, <3>1
    <2>7. Cardinality(S) + m \in 1 .. Cardinality(S \cup T)
      BY <1>1, <1>3
    <2>8. PICK q \in S \cup T : Rank(S \cup T, q) = Cardinality(S) + m /\ c[Cardinality(S) + m] = q
      BY <1>3, <2>7, AscendingRanks
    <2>9. q = t
      BY <1>3, <2>6, <2>8, RankOrder
    <2> QED BY <2>1, <2>8, <2>9
  <1> HIDE DEF a, b, c
  <1>7. a \o b \in Seq(Nat) /\ Len(a \o b) = Len(c)
    BY <1>1, <1>4, ConcatProperties
  <1>8. ASSUME NEW n \in 1 .. Len(c) PROVE c[n] = (a \o b)[n]
    <2>1. n \in Nat
      BY <1>4
    <2>2. CASE n <= Len(a)
      <3>1. (a \o b)[n] = a[n]
        BY <1>1, <1>4, <2>2, ConcatProperties
      <3>2. n \in 1 .. Cardinality(S)
        BY <1>1, <2>2
      <3> QED BY <3>1, <3>2, <1>5
    <2>3. CASE n > Len(a)
      <3>1. PICK m \in 1 .. Cardinality(T) : n = Cardinality(S) + m
        <4>1. n - Cardinality(S) \in 1 .. Cardinality(T) /\ n = Cardinality(S) + (n - Cardinality(S))
          BY <1>1, <1>4, <2>3
        <4> QED BY <4>1
      <3>2. (a \o b)[n] = b[n - Len(a)] /\ n - Len(a) = m
        <4>1. n - Len(a) = m /\ n \in 1 .. Len(a) + Len(b)
          BY <1>1, <1>4, <3>1
        <4> QED BY <1>1, <2>3, <4>1, ConcatProperties
      <3> QED BY <1>6, <3>1, <3>2
    <2> QED BY <1>1, <1>4, <2>1, <2>2, <2>3
  <1>9. c = a \o b
    BY <1>4, <1>7, <1>8, SeqEqual
  <1> QED BY <1>9 DEF a, b, c

\* The sequence of a finite set has its members and no others.
LEMMA AscendingMembers ==
  ASSUME NEW S \in SUBSET Nat, IsFiniteSet(S)
  PROVE  /\ DOMAIN Ascending(S) = 1 .. Len(Ascending(S)) /\ Len(Ascending(S)) \in Nat
         /\ \A n \in DOMAIN Ascending(S) : Ascending(S)[n] \in S
         /\ \A r \in S : \E n \in DOMAIN Ascending(S) : Ascending(S)[n] = r
PROOF
  <1>1. /\ Ascending(S) \in Seq(Nat) /\ Len(Ascending(S)) = Cardinality(S)
        /\ \A n \in 1 .. Cardinality(S) : \E r \in S : Rank(S, r) = n /\ Ascending(S)[n] = r
    BY AscendingRanks
  <1>2. DOMAIN Ascending(S) = 1 .. Cardinality(S)
    BY <1>1
  <1>3. ASSUME NEW r \in S PROVE \E n \in DOMAIN Ascending(S) : Ascending(S)[n] = r
    <2>1. PICK n \in 1 .. Cardinality(S) : n = Rank(S, r)
      BY RankOrder
    <2>2. PICK q \in S : Rank(S, q) = n /\ Ascending(S)[n] = q
      BY <1>1
    <2>3. q = r
      BY <2>1, <2>2, RankOrder
    <2> QED BY <1>2, <2>2, <2>3
  <1>4. \A n \in DOMAIN Ascending(S) : Ascending(S)[n] \in S
    BY <1>1, <1>2
  <1> QED BY <1>1, <1>2, <1>3, <1>4

\* The elements at some places of a sequence.
LEMMA ElementsAtPlaces ==
  ASSUME NEW A, NEW seq \in Seq(A), NEW S \in SUBSET DOMAIN seq
  PROVE  /\ ElementsAt(seq, S) \in Seq(A)
         /\ Range(ElementsAt(seq, S)) = {seq[i] : i \in S}
PROOF
  <1> DEFINE at == Ascending(S)
  <1>1. S \in SUBSET Nat /\ IsFiniteSet(S)
    <2>1. DOMAIN seq = 1 .. Len(seq) /\ Len(seq) \in Nat
      OBVIOUS
    <2>2. S \in SUBSET (1 .. Len(seq))
      BY <2>1
    <2>3. IsFiniteSet(1 .. Len(seq))
      BY <2>1, FS_Interval
    <2>4. IsFiniteSet(S)
      BY <2>2, <2>3, FS_Subset
    <2>5. (1 .. Len(seq)) \subseteq Nat
      BY <2>1
    <2> QED BY <2>2, <2>4, <2>5
  <1>2. /\ DOMAIN at = 1 .. Len(at) /\ Len(at) \in Nat
        /\ \A n \in DOMAIN at : at[n] \in S
        /\ \A r \in S : \E n \in DOMAIN at : at[n] = r
    BY <1>1, AscendingMembers
  <1>3. ElementsAt(seq, S) = [n \in DOMAIN at |-> seq[at[n]]]
    BY DEF ElementsAt
  <1> HIDE DEF at
  <1>4. PICK e : e = ElementsAt(seq, S)
    OBVIOUS
  <1>5. DOMAIN e = 1 .. Len(at) /\ \A n \in 1 .. Len(at) : e[n] = seq[at[n]]
    BY <1>2, <1>3, <1>4
  <1>6. e \in Seq(A)
    <2>1. \A n \in 1 .. Len(at) : seq[at[n]] \in A
      BY <1>2
    <2>2. e = [n \in 1 .. Len(at) |-> seq[at[n]]]
      BY <1>2, <1>3, <1>4
    <2> QED BY <1>2, <2>1, <2>2
  <1>7. Range(e) = {seq[i] : i \in S}
    <2>1. ASSUME NEW x \in Range(e) PROVE x \in {seq[i] : i \in S}
      <3>1. PICK n \in 1 .. Len(at) : x = e[n]
        BY <1>5 DEF Range
      <3> QED BY <1>2, <1>5, <3>1
    <2>2. ASSUME NEW i \in S PROVE seq[i] \in Range(e)
      <3>1. PICK n \in 1 .. Len(at) : at[n] = i
        BY <1>2
      <3> QED BY <1>5, <3>1 DEF Range
    <2> QED BY <2>1, <2>2
  <1> QED BY <1>4, <1>6, <1>7

-----------------------------------------------------------------------------
(* Sequences laid end to end.                                              *)

\* The first n of some sequences laid end to end.
FirstLaid(p, n) == FlattenSeq([k \in 1 .. n |-> p[k]])

\* g[n] are the first n of the N sequences p over A.
LaidInSteps(g, A, N, p) ==
  /\ g[0] = << >>
  /\ \A n \in 1 .. N : g[n] = g[n - 1] \o p[n]
  /\ \A n \in 0 .. N : g[n] \in Seq(A) /\ FirstLaid(p, n) = g[n]

\* They are laid one after the other.
LEMMA FlattenSteps ==
  ASSUME NEW A, NEW N \in Nat, NEW p, \A k \in 1 .. N : p[k] \in Seq(A)
  PROVE  \E g : LaidInSteps(g, A, N, p)
PROOF
  <1> DEFINE Upto(g, n) == g = [k \in 0 .. n |-> IF k = 0 THEN << >> ELSE g[k - 1] \o p[k]]
             Without == {n \in 0 .. N : ~\E g : Upto(g, n)}
  <1>1. ASSUME Without # {} PROVE FALSE
    <2>1. Without \in SUBSET Int /\ \A n \in Without : 0 <= n
      <3> HIDE DEF Upto
      <3> QED OBVIOUS
    <2> HIDE DEF Without
    <2>2. PICK n \in Without : \A q \in Without : n <= q
      <3>1. 0 \in Int
        OBVIOUS
      <3> QED BY <1>1, <2>1, <3>1, LeastInteger
    <2>3. n \in 0 .. N /\ ~\E g : Upto(g, n)
      BY <2>2 DEF Without
    <2>4. CASE n = 0
      <3>1. Upto([k \in 0 .. 0 |-> << >>], 0)
        OBVIOUS
      <3> QED BY <2>3, <2>4, <3>1
    <2>5. CASE n # 0
      <3>1. n - 1 \in 0 .. N /\ n - 1 \notin Without
        BY <2>1, <2>2, <2>3, <2>5
      <3>2. PICK g : Upto(g, n - 1)
        BY <3>1 DEF Without
      <3> DEFINE h == [k \in 0 .. n |-> IF k = n THEN g[n - 1] \o p[n] ELSE g[k]]
      <3>3. ASSUME NEW k \in 0 .. n
            PROVE  h[k] = IF k = 0 THEN << >> ELSE h[k - 1] \o p[k]
        <4>1. CASE k = n
          <5>1. n - 1 \in 0 .. n /\ n - 1 # n
            BY <2>3, <2>5
          <5> QED BY <2>5, <4>1, <5>1
        <4>2. CASE k # n
          <5>1. k \in 0 .. (n - 1)
            BY <2>3, <4>2
          <5>2. g[k] = IF k = 0 THEN << >> ELSE g[k - 1] \o p[k]
            BY <3>2, <5>1
          <5>3. k # 0 => k - 1 \in 0 .. n /\ k - 1 # n
            BY <2>3, <4>2
          <5> QED BY <4>2, <5>2, <5>3
        <4> QED BY <4>1, <4>2
      <3>4. Upto(h, n)
        <4>1. h = [k \in 0 .. n |-> h[k]]
          OBVIOUS
        <4> HIDE DEF h
        <4> QED BY <3>3, <4>1
      <3> HIDE DEF h, Upto
      <3> QED BY <2>3, <3>4
    <2> QED BY <2>4, <2>5
  <1>2. PICK g : Upto(g, N)
    <2>1. N \in 0 .. N
      OBVIOUS
    <2> HIDE DEF Upto
    <2> QED BY <1>1, <2>1
  <1>3. g[0] = << >> /\ \A n \in 1 .. N : g[n] = g[n - 1] \o p[n]
    <2>1. \A n \in 0 .. N : g[n] = IF n = 0 THEN << >> ELSE g[n - 1] \o p[n]
      BY <1>2
    <2>2. \A n \in 1 .. N : n \in 0 .. N /\ n # 0
      OBVIOUS
    <2>3. 0 \in 0 .. N
      OBVIOUS
    <2> HIDE DEF Upto
    <2> QED BY <2>1, <2>2, <2>3
  <1> HIDE DEF Upto
  <1>4. \A n \in 0 .. N : g[n] \in Seq(A)
    <2> DEFINE Wrong == {n \in 0 .. N : g[n] \notin Seq(A)}
    <2>1. ASSUME Wrong # {} PROVE FALSE
      <3>1. Wrong \in SUBSET Int /\ \A n \in Wrong : 0 <= n
        OBVIOUS
      <3> HIDE DEF Wrong
      <3>2. PICK n \in Wrong : \A q \in Wrong : n <= q
        <4>1. 0 \in Int
          OBVIOUS
        <4> QED BY <2>1, <3>1, <4>1, LeastInteger
      <3>3. n \in 0 .. N /\ g[n] \notin Seq(A)
        BY <3>2 DEF Wrong
      <3>4. n \in 1 .. N /\ n - 1 \in 0 .. N /\ ~(n <= n - 1)
        <4>1. << >> \in Seq(A)
          OBVIOUS
        <4>2. n # 0
          BY <1>3, <3>3, <4>1
        <4> QED BY <3>3, <4>2
      <3>5. g[n - 1] \in Seq(A)
        BY <3>2, <3>4 DEF Wrong
      <3>6. g[n - 1] \o p[n] \in Seq(A)
        BY <3>4, <3>5, ConcatProperties
      <3> QED BY <1>3, <3>3, <3>4, <3>6
    <2> QED BY <2>1
  <1>5. ASSUME NEW n \in 0 .. N
        PROVE  FlattenSeq([k \in 1 .. n |-> p[k]]) = g[n]
    <2> DEFINE pieces == [k \in 1 .. n |-> p[k]]
               Unfolds(f) == f = [k \in 1 .. n |-> IF k = 1 THEN pieces[k] ELSE f[k - 1] \o pieces[k]]
               f == CHOOSE f : Unfolds(f)
               e == [k \in 1 .. n |-> g[k]]
    <2>1. DOMAIN pieces = 1 .. n /\ Len(pieces) = n
      <3>1. DOMAIN pieces = 1 .. n
        OBVIOUS
      <3> QED BY <3>1
    <2>2. CASE n = 0
      <3>1. pieces = << >>
        BY <2>1, <2>2
      <3> QED BY <1>3, <2>1, <2>2, <3>1 DEF FlattenSeq
    <2>3. CASE n # 0
      <3>1. FlattenSeq(pieces) = f[n]
        BY <2>1, <2>3 DEF FlattenSeq
      <3>2. ASSUME NEW k \in 1 .. n
            PROVE  e[k] = IF k = 1 THEN pieces[k] ELSE e[k - 1] \o pieces[k]
        <4>1. k \in 1 .. N /\ pieces[k] = p[k] /\ e[k] = g[k] /\ g[k] = g[k - 1] \o p[k]
          <5>1. n \in Nat /\ k \in 1 .. N
            OBVIOUS
          <5>2. pieces[k] = p[k] /\ e[k] = g[k]
            OBVIOUS
          <5> HIDE DEF e, pieces
          <5> QED BY <1>3, <5>1, <5>2
        <4>2. CASE k = 1
          <5>1. g[k - 1] = << >>
            BY <1>3, <4>2
          <5>2. << >> \o p[k] = p[k]
            BY <4>1, ConcatEmptySeq
          <5> QED BY <4>1, <4>2, <5>1, <5>2
        <4>3. CASE k # 1
          <5>1. k - 1 \in 1 .. n
            BY <4>3
          <5> QED BY <4>1, <4>3, <5>1
        <4> QED BY <4>2, <4>3
      <3>3. e = [k \in 1 .. n |-> e[k]]
        OBVIOUS
      <3> HIDE DEF e, pieces
      <3>4. Unfolds(e)
        BY <3>2, <3>3, Zenon
      <3> HIDE DEF Unfolds
      <3>5. Unfolds(f)
        BY <3>4, Zenon
      <3> HIDE DEF f
      <3>6. \A k \in 1 .. n : f[k] = IF k = 1 THEN pieces[k] ELSE f[k - 1] \o pieces[k]
        BY <3>5 DEF Unfolds
      <3>7. \A k \in 1 .. n : f[k] = e[k]
        <4> DEFINE Differ == {k \in 1 .. n : f[k] # e[k]}
        <4>1. ASSUME Differ # {} PROVE FALSE
          <5>1. Differ \in SUBSET Int /\ \A k \in Differ : 0 <= k
            OBVIOUS
          <5> HIDE DEF Differ
          <5>2. PICK k \in Differ : \A q \in Differ : k <= q
            <6>1. 0 \in Int
              OBVIOUS
            <6> QED BY <4>1, <5>1, <6>1, LeastInteger
          <5>3. k \in 1 .. n /\ f[k] # e[k]
            BY <5>2 DEF Differ
          <5>4. k # 1
            BY <3>2, <3>6, <5>3
          <5>5. k - 1 \in 1 .. n /\ ~(k <= k - 1)
            BY <5>3, <5>4
          <5>6. f[k - 1] = e[k - 1]
            BY <5>2, <5>5 DEF Differ
          <5> QED BY <3>2, <3>6, <5>3, <5>4, <5>6
        <4> QED BY <4>1
      <3>8. e[n] = g[n] /\ n \in 1 .. n
        BY <2>3 DEF e
      <3> QED BY <3>1, <3>7, <3>8 DEF pieces
    <2> QED BY <2>2, <2>3
  <1>6. ASSUME NEW n \in 0 .. N PROVE FirstLaid(p, n) = g[n]
    BY <1>5, ZenonT(40) DEF FirstLaid
  <1> QED BY <1>3, <1>4, <1>6, Zenon DEF LaidInSteps

-----------------------------------------------------------------------------
(* Sums over finite sets.                                                 *)

\* The sums of f over the subsets of S, one element taken out after the other.
PartialSums(f, S) ==
  CHOOSE g : g = [t \in SUBSET S |->
                    IF t = {} THEN 0
                    ELSE LET x == CHOOSE x \in t : TRUE IN f[x] + g[t \ {x}]]

\* There are such sums.
LEMMA SumsUnfold ==
  ASSUME NEW f, NEW S, IsFiniteSet(S)
  PROVE  /\ SumFunctionOnSet(f, S) = PartialSums(f, S)[S]
         /\ PartialSums(f, S)[{}] = 0
         /\ \A t \in SUBSET S : t # {} =>
              \E x \in t : /\ x = CHOOSE y \in t : TRUE
                           /\ PartialSums(f, S)[t] = f[x] + PartialSums(f, S)[t \ {x}]
PROOF
  <1> DEFINE Pick(t) == CHOOSE x \in t : TRUE
             Sub(n) == {t \in SUBSET S : Cardinality(t) <= n}
             Upto(g, n) == g = [t \in Sub(n) |-> IF t = {} THEN 0 ELSE f[Pick(t)] + g[t \ {Pick(t)}]]
             Sums(g) == g = [t \in SUBSET S |-> IF t = {} THEN 0
                                ELSE LET x == CHOOSE x \in t : TRUE IN f[x] + g[t \ {x}]]
  <1>1. \A t \in SUBSET S : /\ IsFiniteSet(t) /\ Cardinality(t) \in Nat
                            /\ Cardinality(t) <= Cardinality(S)
                            /\ (Cardinality(t) = 0 <=> t = {})
    BY FS_Subset, FS_CardinalityType, FS_EmptySet
  <1>2. Cardinality(S) \in Nat
    BY FS_CardinalityType
  <1>3. \A t \in SUBSET S : t # {} =>
          /\ Pick(t) \in t /\ t \ {Pick(t)} \in SUBSET S
          /\ Cardinality(t \ {Pick(t)}) = Cardinality(t) - 1
    <2> TAKE t \in SUBSET S
    <2> HAVE t # {}
    <2>1. Pick(t) \in t
      OBVIOUS
    <2> HIDE DEF Pick
    <2> QED BY <1>1, <2>1, FS_RemoveElement
  <1>4. \A n \in 0 .. Cardinality(S) : \E g : Upto(g, n)
    <2> DEFINE Without == {n \in 0 .. Cardinality(S) : ~\E g : Upto(g, n)}
    <2>1. ASSUME Without # {} PROVE FALSE
      <3>1. Without \in SUBSET Int /\ \A n \in Without : 0 <= n
        OBVIOUS
      <3> HIDE DEF Without
      <3>2. PICK n \in Without : \A q \in Without : n <= q
        <4>1. 0 \in Int
          OBVIOUS
        <4> QED BY <2>1, <3>1, <4>1, LeastInteger
      <3>3. n \in 0 .. Cardinality(S) /\ ~\E g : Upto(g, n)
        BY <3>2 DEF Without
      <3>4. CASE n = 0
        <4>1. Sub(0) = {{}}
          <5>1. \A t \in SUBSET S : Cardinality(t) <= 0 <=> t = {}
            BY <1>1
          <5> QED BY <5>1
        <4>2. Upto([t \in {{}} |-> 0], 0)
          <5> HIDE DEF Pick, Sub
          <5> QED BY <4>1
        <4> QED BY <3>3, <3>4, <4>2
      <3>5. CASE n # 0
        <4>1. n - 1 \in 0 .. Cardinality(S) /\ n - 1 \notin Without
          BY <1>2, <3>1, <3>2, <3>3, <3>5
        <4>2. PICK g : Upto(g, n - 1)
          BY <4>1 DEF Without
        <4> DEFINE F(t) == IF t = {} THEN 0 ELSE f[Pick(t)] + g[t \ {Pick(t)}]
                   h == [t \in Sub(n) |-> F(t)]
        <4> HIDE DEF Pick
        <4>3. \A t \in Sub(n - 1) : t \in Sub(n) /\ g[t] = F(t)
          <5>1. Sub(n - 1) \subseteq Sub(n)
            BY <1>1, <1>2, <3>3
          <5>2. g = [t \in Sub(n - 1) |-> F(t)]
            BY <4>2
          <5> HIDE DEF Sub, F
          <5> QED BY <5>1, <5>2
        <4>4. \A t \in Sub(n) : t # {} => t \ {Pick(t)} \in Sub(n - 1)
          BY <1>1, <1>2, <1>3, <3>3
        <4>5. \A t \in Sub(n) : t # {} => h[t \ {Pick(t)}] = g[t \ {Pick(t)}]
          <5> HIDE DEF Sub, F
          <5> QED BY <4>3, <4>4
        <4>6. Upto(h, n)
          <5> HIDE DEF Sub
          <5>1. \A t \in Sub(n) : h[t] = IF t = {} THEN 0 ELSE f[Pick(t)] + h[t \ {Pick(t)}]
            BY <4>5
          <5>2. h = [t \in Sub(n) |-> h[t]]
            OBVIOUS
          <5> HIDE DEF h
          <5> QED BY <5>1, <5>2
        <4> HIDE DEF h, F, Upto
        <4> QED BY <3>3, <4>6
      <3> QED BY <3>4, <3>5
    <2> QED BY <2>1
  <1>5. PICK g : Upto(g, Cardinality(S))
    <2> HIDE DEF Upto
    <2> QED BY <1>2, <1>4
  <1>6. Sums(g)
    <2>1. Sub(Cardinality(S)) = SUBSET S
      BY <1>1
    <2> HIDE DEF Sub
    <2> QED BY <1>5, <2>1
  <1>7. Sums(PartialSums(f, S))
    <2>1. PartialSums(f, S) = CHOOSE p : Sums(p)
      BY DEF PartialSums
    <2> HIDE DEF Sums
    <2> QED BY <1>6, <2>1, Zenon
  <1>8. PICK p : p = PartialSums(f, S)
    OBVIOUS
  <1>9. p = [t \in SUBSET S |-> IF t = {} THEN 0 ELSE f[Pick(t)] + p[t \ {Pick(t)}]]
    BY <1>7, <1>8
  <1>10. SumFunctionOnSet(f, S) = PartialSums(f, S)[S]
    BY DEF SumFunctionOnSet, FoldFunctionOnSet, MapThenFoldSet, PartialSums
  <1>11. \A t \in SUBSET S : t # {} => Pick(t) \in t /\ p[t] = f[Pick(t)] + p[t \ {Pick(t)}]
    <2> HIDE DEF Pick
    <2> QED BY <1>3, <1>9
  <1>12. p[{}] = 0
    <2> HIDE DEF Pick
    <2> QED BY <1>9
  <1> QED BY <1>8, <1>10, <1>11, <1>12

\* The sum over a part is the same, whatever it is a part of.
LEMMA SumOfPart ==
  ASSUME NEW f, NEW S, IsFiniteSet(S), NEW t \in SUBSET S
  PROVE  PartialSums(f, S)[t] = SumFunctionOnSet(f, t)
PROOF
  <1> DEFINE Wrong == {n \in Nat : \E U : IsFiniteSet(U) /\ \E v \in SUBSET U :
                         Cardinality(v) = n /\ PartialSums(f, U)[v] # SumFunctionOnSet(f, v)}
  <1>1. ASSUME Wrong # {} PROVE FALSE
    <2>1. Wrong \in SUBSET Int /\ \A n \in Wrong : 0 <= n
      OBVIOUS
    <2> HIDE DEF Wrong
    <2>2. PICK n \in Wrong : \A q \in Wrong : n <= q
      <3>1. 0 \in Int
        OBVIOUS
      <3> QED BY <1>1, <2>1, <3>1, LeastInteger
    <2>3. n \in Nat /\ \E U : IsFiniteSet(U) /\ \E v \in SUBSET U :
            Cardinality(v) = n /\ PartialSums(f, U)[v] # SumFunctionOnSet(f, v)
      BY <2>2 DEF Wrong
    <2>4. PICK U : IsFiniteSet(U) /\ \E v \in SUBSET U :
            Cardinality(v) = n /\ PartialSums(f, U)[v] # SumFunctionOnSet(f, v)
      BY <2>3
    <2>5. PICK v \in SUBSET U : Cardinality(v) = n /\ PartialSums(f, U)[v] # SumFunctionOnSet(f, v)
      BY <2>4
    <2>6. IsFiniteSet(v)
      BY <2>4, FS_Subset
    <2>7. SumFunctionOnSet(f, v) = PartialSums(f, v)[v] /\ PartialSums(f, v)[{}] = 0
      BY <2>6, SumsUnfold
    <2>8. CASE v = {}
      BY <2>4, <2>5, <2>7, <2>8, SumsUnfold
    <2>9. CASE v # {}
      <3>1. PICK x \in v : /\ x = CHOOSE y \in v : TRUE
                           /\ PartialSums(f, U)[v] = f[x] + PartialSums(f, U)[v \ {x}]
        BY <2>4, <2>9, SumsUnfold
      <3>2. PartialSums(f, v)[v] = f[x] + PartialSums(f, v)[v \ {x}]
        <4>1. \E y \in v : /\ y = CHOOSE z \in v : TRUE
                           /\ PartialSums(f, v)[v] = f[y] + PartialSums(f, v)[v \ {y}]
          BY <2>6, <2>9, SumsUnfold
        <4> QED BY <3>1, <4>1
      <3>3. Cardinality(v \ {x}) = n - 1 /\ n - 1 \in Nat
        BY <2>3, <2>5, <2>6, <2>9, FS_RemoveElement, FS_EmptySet
      <3>4. n - 1 \notin Wrong
        BY <2>2, <2>3, <3>3
      <3>5. \A V : IsFiniteSet(V) => \A w \in SUBSET V :
              Cardinality(w) = n - 1 => PartialSums(f, V)[w] = SumFunctionOnSet(f, w)
        BY <3>3, <3>4 DEF Wrong
      <3>6. v \ {x} \in SUBSET v /\ v \ {x} \in SUBSET U
        OBVIOUS
      <3>7. PartialSums(f, v)[v \ {x}] = PartialSums(f, U)[v \ {x}]
        BY <2>4, <2>6, <3>3, <3>5, <3>6
      <3> QED BY <2>5, <2>7, <3>1, <3>2, <3>7
    <2> QED BY <2>8, <2>9
  <1>2. Cardinality(t) \in Nat
    BY FS_Subset, FS_CardinalityType
  <1> QED BY <1>1, <1>2

\* A sum has each element once, in whatever order they are added.
LEMMA SumTakesOne ==
  ASSUME NEW f, NEW S, IsFiniteSet(S), \A x \in S : f[x] \in Int
  PROVE  /\ SumFunctionOnSet(f, S) \in Int
         /\ S = {} => SumFunctionOnSet(f, S) = 0
         /\ \A x \in S : SumFunctionOnSet(f, S) = f[x] + SumFunctionOnSet(f, S \ {x})
PROOF
  <1> DEFINE Right(U) == /\ SumFunctionOnSet(f, U) \in Int
                         /\ \A x \in U : SumFunctionOnSet(f, U) = f[x] + SumFunctionOnSet(f, U \ {x})
             Wrong == {n \in Nat : \E U \in SUBSET S : Cardinality(U) = n /\ ~Right(U)}
  <1>1. \A U \in SUBSET S : IsFiniteSet(U) /\ Cardinality(U) \in Nat
    BY FS_Subset, FS_CardinalityType
  <1>2. SumFunctionOnSet(f, {}) = 0
    BY SumsUnfold, FS_EmptySet
  <1>3. \A U \in SUBSET S : U # {} =>
          \E x \in U : SumFunctionOnSet(f, U) = f[x] + SumFunctionOnSet(f, U \ {x})
    <2> TAKE U \in SUBSET S
    <2> HAVE U # {}
    <2>1. PICK x \in U : PartialSums(f, U)[U] = f[x] + PartialSums(f, U)[U \ {x}]
      BY <1>1, SumsUnfold
    <2>2. U \ {x} \in SUBSET U
      OBVIOUS
    <2>3. PartialSums(f, U)[U \ {x}] = SumFunctionOnSet(f, U \ {x})
      BY <1>1, <2>2, SumOfPart
    <2>4. SumFunctionOnSet(f, U) = PartialSums(f, U)[U]
      BY <1>1, SumsUnfold
    <2> QED BY <2>1, <2>3, <2>4
  <1>4. ASSUME Wrong # {} PROVE FALSE
    <2>1. Wrong \in SUBSET Int /\ \A n \in Wrong : 0 <= n
      OBVIOUS
    <2> HIDE DEF Wrong
    <2>2. PICK n \in Wrong : \A q \in Wrong : n <= q
      <3>1. 0 \in Int
        OBVIOUS
      <3> QED BY <1>4, <2>1, <3>1, LeastInteger
    <2>3. n \in Nat /\ \E U \in SUBSET S : Cardinality(U) = n /\ ~Right(U)
      BY <2>2 DEF Wrong
    <2>4. PICK U \in SUBSET S : Cardinality(U) = n /\ ~Right(U)
      BY <2>3
    <2>5. \A V \in SUBSET S : Cardinality(V) < n => Right(V)
      <3> SUFFICES ASSUME NEW V \in SUBSET S, Cardinality(V) < n, ~Right(V) PROVE FALSE
        OBVIOUS
      <3>1. Cardinality(V) \in Wrong
        BY <1>1 DEF Wrong
      <3> QED BY <1>1, <2>2, <2>3, <3>1
    <2>6. \A x \in U : U \ {x} \in SUBSET S /\ Cardinality(U \ {x}) < n
      BY <1>1, <2>3, <2>4, FS_RemoveElement
    <2>7. CASE U = {}
      BY <1>2, <2>4, <2>7
    <2>8. CASE U # {}
      <3>1. PICK x \in U : SumFunctionOnSet(f, U) = f[x] + SumFunctionOnSet(f, U \ {x})
        BY <1>3, <2>8
      <3>2. SumFunctionOnSet(f, U \ {x}) \in Int
        BY <2>5, <2>6
      <3>3. f[x] \in Int /\ SumFunctionOnSet(f, U) \in Int
        BY <3>1, <3>2
      <3>4. ASSUME NEW y \in U PROVE SumFunctionOnSet(f, U) = f[y] + SumFunctionOnSet(f, U \ {y})
        <4>1. CASE y = x
          BY <3>1, <4>1
        <4>2. CASE y # x
          <5>1. x \in U \ {y} /\ y \in U \ {x} /\ (U \ {x}) \ {y} = (U \ {y}) \ {x}
            BY <4>2
          <5>2. PICK z : z = SumFunctionOnSet(f, (U \ {x}) \ {y})
            OBVIOUS
          <5>3. SumFunctionOnSet(f, U \ {x}) = f[y] + z
            BY <2>5, <2>6, <5>1, <5>2
          <5>4. SumFunctionOnSet(f, U \ {y}) = f[x] + z
            BY <2>5, <2>6, <5>1, <5>2
          <5>5. z \in Int /\ f[y] \in Int
            <6>1. (U \ {x}) \ {y} \in SUBSET S /\ Cardinality((U \ {x}) \ {y}) < n
              <7>1. Cardinality((U \ {x}) \ {y}) < Cardinality(U \ {x})
                <8>1. IsFiniteSet(U \ {x}) /\ Cardinality(U \ {x}) \in Nat
                  BY <1>1, <2>6
                <8>2. Cardinality((U \ {x}) \ {y}) = Cardinality(U \ {x}) - 1
                  BY <5>1, <8>1, FS_RemoveElement
                <8> QED BY <8>1, <8>2
              <7>2. (U \ {x}) \ {y} \in SUBSET S
                OBVIOUS
              <7> QED BY <1>1, <2>3, <2>6, <7>1, <7>2
            <6> QED BY <2>5, <5>2, <6>1
          <5> QED BY <3>1, <3>3, <5>3, <5>4, <5>5
        <4> QED BY <4>1, <4>2
      <3>5. Right(U)
        BY <3>3, <3>4
      <3> QED BY <2>4, <3>5
    <2> QED BY <2>7, <2>8
  <1>5. Right(S)
    <2> HIDE DEF Right
    <2> QED BY <1>1, <1>4
  <1> QED BY <1>2, <1>5

\* h numbers elements beyond S, on which f has the values g has on T.
Numbers(h, f, S, g, T) ==
  /\ IsFiniteSet(S) /\ \A x \in S : f[x] \in Int
  /\ IsFiniteSet(T) /\ \A y \in T : g[y] \in Int
  /\ \A y \in T : h[y] \notin S /\ f[h[y]] = g[y]
  /\ \A y, z \in T : h[y] = h[z] => y = z

\* Over two disjoint sets a sum is the sum over the one and that over the
\* other, which may be taken over any numbering of it.
LEMMA SumJoin ==
  ASSUME NEW f, NEW S, NEW g, NEW T, NEW h, Numbers(h, f, S, g, T)
  PROVE  /\ IsFiniteSet(S \cup {h[y] : y \in T})
         /\ Cardinality(S \cup {h[y] : y \in T}) = Cardinality(S) + Cardinality(T)
         /\ SumFunctionOnSet(f, S \cup {h[y] : y \in T})
              = SumFunctionOnSet(f, S) + SumFunctionOnSet(g, T)
PROOF
  <1> USE DEF Numbers
  <1> DEFINE Both(U) == S \cup {h[y] : y \in U}
             Right(U) == /\ IsFiniteSet(Both(U))
                         /\ Cardinality(Both(U)) = Cardinality(S) + Cardinality(U)
                         /\ SumFunctionOnSet(f, Both(U)) = SumFunctionOnSet(f, S) + SumFunctionOnSet(g, U)
             Wrong == {n \in Nat : \E U \in SUBSET T : Cardinality(U) = n /\ ~Right(U)}
  <1>1. \A U \in SUBSET T : /\ IsFiniteSet(U) /\ Cardinality(U) \in Nat
                            /\ SumFunctionOnSet(g, U) \in Int
    <2> TAKE U \in SUBSET T
    <2>1. IsFiniteSet(U) /\ \A y \in U : g[y] \in Int
      BY FS_Subset
    <2> QED BY <2>1, FS_CardinalityType, SumTakesOne
  <1>2. Cardinality(S) \in Nat /\ SumFunctionOnSet(f, S) \in Int
    BY FS_CardinalityType, SumTakesOne
  <1>3. ASSUME Wrong # {} PROVE FALSE
    <2>1. Wrong \in SUBSET Int /\ \A n \in Wrong : 0 <= n
      OBVIOUS
    <2> HIDE DEF Wrong
    <2>2. PICK n \in Wrong : \A q \in Wrong : n <= q
      <3>1. 0 \in Int
        OBVIOUS
      <3> QED BY <1>3, <2>1, <3>1, LeastInteger
    <2>3. n \in Nat /\ \E U \in SUBSET T : Cardinality(U) = n /\ ~Right(U)
      BY <2>2 DEF Wrong
    <2>4. PICK U \in SUBSET T : Cardinality(U) = n /\ ~Right(U)
      BY <2>3
    <2>5. CASE U = {}
      <3>1. Both(U) = S /\ Cardinality(U) = 0 /\ SumFunctionOnSet(g, U) = 0
        BY <2>5, FS_EmptySet, SumTakesOne
      <3>2. Right(U)
        <4> HIDE DEF Both
        <4>1. IsFiniteSet(Both(U)) /\ Cardinality(Both(U)) = Cardinality(S) + Cardinality(U)
          BY <1>2, <3>1
        <4>2. SumFunctionOnSet(f, Both(U)) = SumFunctionOnSet(f, S) + SumFunctionOnSet(g, U)
          <5>1. SumFunctionOnSet(f, Both(U)) = SumFunctionOnSet(f, S)
            BY <3>1
          <5>2. \A a \in Int : a + 0 = a
            OBVIOUS
          <5> QED BY <1>2, <3>1, <5>1, <5>2
        <4> QED BY <4>1, <4>2
      <3> QED BY <2>4, <3>2
    <2>6. CASE U # {}
      <3>1. PICK y \in U : TRUE
        BY <2>6
      <3>2. PICK V : V = U \ {y}
        OBVIOUS
      <3>3. V \in SUBSET T /\ Cardinality(V) = n - 1 /\ n - 1 \in Nat
        <4>1. IsFiniteSet(U) /\ Cardinality(U) = n /\ n # 0
          BY <1>1, <2>4, <2>6, FS_EmptySet
        <4>2. Cardinality(V) = n - 1
          BY <3>1, <3>2, <4>1, FS_RemoveElement
        <4> QED BY <2>3, <2>4, <3>2, <4>1, <4>2
      <3>4. Right(V)
        <4>1. n - 1 \notin Wrong
          BY <2>2, <2>3, <3>3
        <4> HIDE DEF Right
        <4> QED BY <3>3, <4>1 DEF Wrong
      <3>5. h[y] \notin Both(V) /\ Both(U) = Both(V) \cup {h[y]} /\ Both(V) = Both(U) \ {h[y]}
        <4>1. \A z \in V : h[z] # h[y]
          BY <3>1, <3>2
        <4> QED BY <3>1, <3>2, <4>1
      <3>6. \A x \in Both(U) : f[x] \in Int
        OBVIOUS
      <3> HIDE DEF Both
      <3>7. /\ IsFiniteSet(Both(U))
            /\ Cardinality(Both(U)) = Cardinality(Both(V)) + 1
        <4>1. IsFiniteSet(Both(V))
          BY <3>4
        <4>2. PICK W, x : W = Both(V) /\ x = h[y]
          OBVIOUS
        <4>3. IsFiniteSet(W) /\ x \notin W
          BY <3>5, <4>1, <4>2
        <4>4. IsFiniteSet(W \cup {x}) /\ Cardinality(W \cup {x}) = Cardinality(W) + 1
          BY <4>3, FS_AddElement
        <4>5. Both(U) = W \cup {x}
          BY <3>5, <4>2
        <4> QED BY <4>2, <4>4, <4>5
      <3>8. SumFunctionOnSet(f, Both(U)) = f[h[y]] + SumFunctionOnSet(f, Both(V))
        <4>1. h[y] \in Both(U)
          BY <3>5
        <4> QED BY <3>5, <3>6, <3>7, <4>1, SumTakesOne
      <3>9. SumFunctionOnSet(g, U) = g[y] + SumFunctionOnSet(g, V)
        <4>1. IsFiniteSet(U) /\ \A z \in U : g[z] \in Int
          BY <1>1
        <4> QED BY <3>1, <3>2, <4>1, SumTakesOne
      <3>10. f[h[y]] = g[y] /\ g[y] \in Int
        BY <3>1
      <3>11. SumFunctionOnSet(g, V) \in Int
        BY <1>1, <3>3
      <3>12. Cardinality(Both(U)) = Cardinality(S) + Cardinality(U)
        BY <1>2, <2>3, <2>4, <3>3, <3>4, <3>7
      <3>13. SumFunctionOnSet(f, Both(U)) = SumFunctionOnSet(f, S) + SumFunctionOnSet(g, U)
        BY <1>2, <3>4, <3>8, <3>9, <3>10, <3>11
      <3>14. Right(U)
        BY <3>7, <3>12, <3>13
      <3> QED BY <2>4, <3>14
    <2> QED BY <2>5, <2>6
  <1>4. Right(T)
    <2> HIDE DEF Right
    <2> QED BY <1>1, <1>3
  <1> QED BY <1>4

-----------------------------------------------------------------------------
(* Truncation.                                                             *)

\* What division by Unit yields on natural numbers.
LEMMA DivUnit ==
  ASSUME NEW v \in Nat
  PROVE  /\ v \div Unit \in Nat
         /\ Unit * (v \div Unit) <= v
         /\ v < Unit * (v \div Unit) + Unit
PROOF
  BY ValueAssumption

\* Division by Unit keeps <= on natural numbers.
LEMMA DivMonotone ==
  ASSUME NEW a \in Nat, NEW b \in Nat, a <= b
  PROVE  a \div Unit <= b \div Unit
PROOF
  <1> DEFINE qa == a \div Unit
             qb == b \div Unit
  <1>1. qa \in Nat /\ Unit * qa <= a
    BY DivUnit
  <1>2. qb \in Nat /\ b < Unit * qb + Unit
    BY DivUnit
  <1> HIDE DEF qa, qb
  <1>3. ASSUME qa > qb PROVE FALSE
    <2>1. PICK d \in Nat : qa = qb + 1 + d
      <3>1. qa - qb - 1 \in Nat /\ qa = qb + 1 + (qa - qb - 1)
        BY <1>1, <1>2, <1>3
      <3> QED BY <3>1
    <2>2. Unit * qa = Unit * qb + Unit + Unit * d
      BY <2>1, <1>2, ValueAssumption
    <2>3. Unit * d \in Nat /\ Unit * qb \in Nat
      BY <1>2, ValueAssumption
    <2> QED BY <1>1, <1>2, <2>2, <2>3, ValueAssumption
  <1> QED BY <1>1, <1>2, <1>3 DEF qa, qb

\* static_cast<int64_t> moves a value towards zero and no further.
LEMMA AsInt64Bounds ==
  ASSUME NEW type, NEW v \in Int
  PROVE  /\ AsInt64(type, v) \in Int
         /\ v >= 0 => 0 <= AsInt64(type, v) /\ AsInt64(type, v) <= v
         /\ v <= 0 => v <= AsInt64(type, v) /\ AsInt64(type, v) <= 0
PROOF
  <1>1. CASE type \in IntTypes
    BY <1>1 DEF AsInt64
  <1>2. CASE type \notin IntTypes
    <2>1. \A n \in Nat : n \div Unit \in Nat /\ n \div Unit <= n
      <3> TAKE n \in Nat
      <3>1. n \div Unit \in Nat /\ Unit * (n \div Unit) <= n
        BY DivUnit
      <3>2. n \div Unit <= Unit * (n \div Unit)
        BY <3>1, ValueAssumption
      <3> QED BY <3>1, <3>2, ValueAssumption
    <2>2. CASE v >= 0
      <3>1. AsInt64(type, v) = v \div Unit /\ v \in Nat
        BY <1>2, <2>2 DEF AsInt64
      <3> QED BY <2>1, <2>2, <3>1
    <2>3. CASE ~(v >= 0)
      <3>1. AsInt64(type, v) = -((-v) \div Unit) /\ -v \in Nat
        BY <1>2, <2>3 DEF AsInt64
      <3>2. (-v) \div Unit \in Nat /\ (-v) \div Unit <= -v
        BY <2>1, <3>1
      <3> QED BY <2>3, <3>1, <3>2
    <2> QED BY <2>2, <2>3
  <1> QED BY <1>1, <1>2

\* Truncation keeps <=.  It does not keep <, which is why the strict
\* comparisons and NEQ are not among the SoundOps of a float column.
LEMMA AsInt64Monotone ==
  ASSUME NEW type, NEW a \in Int, NEW b \in Int, a <= b
  PROVE  AsInt64(type, a) <= AsInt64(type, b)
PROOF
  <1>1. CASE type \in IntTypes
    BY <1>1 DEF AsInt64
  <1>2. CASE type \notin IntTypes /\ a >= 0
    <2>1. a \in Nat /\ b \in Nat /\ b >= 0
      BY <1>2
    <2>2. a \div Unit <= b \div Unit
      BY <2>1, DivMonotone
    <2> QED BY <1>2, <2>1, <2>2 DEF AsInt64
  <1>3. CASE type \notin IntTypes /\ ~(a >= 0) /\ b >= 0
    <2>1. AsInt64(type, a) \in Int /\ AsInt64(type, a) <= 0
      BY <1>3, AsInt64Bounds
    <2>2. AsInt64(type, b) \in Int /\ 0 <= AsInt64(type, b)
      BY <1>3, AsInt64Bounds
    <2> QED BY <2>1, <2>2
  <1>4. CASE type \notin IntTypes /\ ~(b >= 0)
    <2>1. -a \in Nat /\ -b \in Nat /\ -b <= -a /\ ~(a >= 0)
      BY <1>4
    <2>2. (-b) \div Unit <= (-a) \div Unit
      BY <2>1, DivMonotone
    <2>3. (-b) \div Unit \in Nat /\ (-a) \div Unit \in Nat
      BY <2>1, DivUnit
    <2>4. AsInt64(type, a) = -((-a) \div Unit) /\ AsInt64(type, b) = -((-b) \div Unit)
      BY <1>4, <2>1 DEF AsInt64
    <2> QED BY <2>2, <2>3, <2>4
  <1> QED BY <1>1, <1>2, <1>3, <1>4

\* One value inside the bounds: if can_skip_predicate skips the chunk, the
\* value does not pass the comparison (column.cpp, filter.cpp).
LEMMA SkipSound ==
  ASSUME NEW type, NEW stats, NEW op \in SoundOps(type),
         NEW v \in Int, NEW threshold \in Int,
         stats.min \in Int, stats.max \in Int,
         stats.min <= AsInt64(type, v), AsInt64(type, v) <= stats.max,
         CanSkipPredicate(stats, op, AsInt64(type, threshold))
  PROVE  ~Compare(v, threshold, op)
PROOF
  <1> DEFINE av == AsInt64(type, v)
             at == AsInt64(type, threshold)
  <1>1. av \in Int /\ at \in Int
    BY AsInt64Bounds
  <1>2. v <= threshold => av <= at
    BY AsInt64Monotone
  <1>3. threshold <= v => at <= av
    BY AsInt64Monotone
  <1>4. type \in IntTypes => av = v /\ at = threshold
    BY DEF AsInt64
  <1>5. stats.min <= av /\ av <= stats.max
    OBVIOUS
  <1>6. CanSkipPredicate(stats, op, at)
    OBVIOUS
  <1> HIDE DEF av, at
  <1>7. CASE op = "EQ"
    BY <1>1, <1>2, <1>3, <1>5, <1>6, <1>7 DEF CanSkipPredicate, Compare
  <1>8. CASE op = "LTE"
    BY <1>1, <1>2, <1>5, <1>6, <1>8 DEF CanSkipPredicate, Compare
  <1>9. CASE op = "GTE"
    BY <1>1, <1>3, <1>5, <1>6, <1>9 DEF CanSkipPredicate, Compare
  <1>10. CASE type \in IntTypes /\ op = "GT"
    BY <1>1, <1>4, <1>5, <1>6, <1>10 DEF CanSkipPredicate, Compare
  <1>11. CASE type \in IntTypes /\ op = "LT"
    BY <1>1, <1>4, <1>5, <1>6, <1>11 DEF CanSkipPredicate, Compare
  <1>12. CASE type \in IntTypes /\ op = "NEQ"
    BY <1>1, <1>4, <1>5, <1>6, <1>12 DEF CanSkipPredicate, Compare
  <1>13. op \in {"EQ", "LTE", "GTE"} \/ (type \in IntTypes /\ op \in {"GT", "LT", "NEQ"})
    BY DEF SoundOps, CompareOps
  <1> QED BY <1>7, <1>8, <1>9, <1>10, <1>11, <1>12, <1>13

-----------------------------------------------------------------------------
(* Chunks.                                                                 *)

\* What the statistics of a chunk are made of is within the values' range.
LEMMA Int64InValues ==
  ASSUME NEW type, NEW v \in Values
  PROVE  AsInt64(type, v) \in Values
PROOF
  BY AsInt64Bounds, ValueAssumption DEF Values

\* finalize_stats changes nothing of a chunk but its statistics, and these
\* enclose its live rows.
LEMMA FinalizeKeeps ==
  ASSUME NEW chunk, IsChunk(chunk)
  PROVE  LET final == FinalizeStats(chunk)
         IN  /\ IsChunk(final) /\ Covers(final)
             /\ final.type = chunk.type /\ final.num_rows = chunk.num_rows
             /\ final.has_nulls = chunk.has_nulls /\ final.nulls = chunk.nulls
             /\ final.data = chunk.data
PROOF
  <1> DEFINE final == FinalizeStats(chunk)
             lives == LiveInt64s(chunk)
  <1>1. chunk \in [type : DataTypes, num_rows : Nat, has_nulls : BOOLEAN, nulls : SUBSET Nat,
                   data : {chunk.data}, stats : Stats]
        /\ \A r \in RowsOf(chunk) : chunk.data[r] \in Values
    BY DEF IsChunk
  <1>2. lives \subseteq Values
    BY <1>1, Int64InValues DEF LiveInt64s, LiveRows
  <1>3. lives # {} => /\ Min(lives) \in Values /\ Max(lives) \in Values
                      /\ \A v \in lives : Min(lives) <= v /\ v <= Max(lives)
    <2> HAVE lives # {}
    <2>1. lives \in SUBSET Int /\ MinValue \in Int /\ MaxValue \in Int
          /\ \A s \in lives : MinValue <= s /\ s <= MaxValue
      BY <1>2, ValueAssumption DEF Values
    <2> HIDE DEF lives
    <2>2. Min(lives) \in lives /\ \A v \in lives : Min(lives) <= v
      BY <2>1, MinOfBounded
    <2>3. Max(lives) \in lives /\ \A v \in lives : v <= Max(lives)
      BY <2>1, MaxOfBounded
    <2> QED BY <1>2, <2>2, <2>3
  <1>4. CASE chunk.type = "STRING" \/ lives = {}
    <2>1. final = [chunk EXCEPT !.stats = [chunk.stats EXCEPT !.initialized = FALSE]]
      BY <1>1, <1>4 DEF FinalizeStats
    <2>2. [chunk.stats EXCEPT !.initialized = FALSE] \in Stats
      BY <1>1 DEF Stats
    <2> DEFINE stats == [chunk.stats EXCEPT !.initialized = FALSE]
    <2>3. ~stats.initialized
      BY <1>1 DEF Stats
    <2> HIDE DEF stats, final
    <2>4. /\ final \in [type : DataTypes, num_rows : Nat, has_nulls : BOOLEAN,
                        nulls : SUBSET Nat, data : {chunk.data}, stats : Stats]
          /\ final.type = chunk.type /\ final.num_rows = chunk.num_rows
          /\ final.has_nulls = chunk.has_nulls /\ final.nulls = chunk.nulls
          /\ final.data = chunk.data /\ final.stats = stats
      BY <1>1, <2>1, <2>2 DEF stats
    <2>5. IsChunk(final)
      BY <1>1, <2>4 DEF IsChunk, RowsOf
    <2> QED BY <2>3, <2>4, <2>5 DEF Covers, final
  <1>5. CASE ~(chunk.type = "STRING" \/ lives = {})
    <2> DEFINE stats == [min |-> Min(lives), max |-> Max(lives), initialized |-> TRUE]
    <2>1. final = [chunk EXCEPT !.stats = stats]
      BY <1>5 DEF FinalizeStats
    <2>2. stats \in Stats
      BY <1>3, <1>5 DEF Stats
    <2>3. stats.min = Min(lives) /\ stats.max = Max(lives)
      OBVIOUS
    <2> HIDE DEF stats, final
    <2>4. /\ final \in [type : DataTypes, num_rows : Nat, has_nulls : BOOLEAN,
                        nulls : SUBSET Nat, data : {chunk.data}, stats : Stats]
          /\ final.type = chunk.type /\ final.num_rows = chunk.num_rows
          /\ final.has_nulls = chunk.has_nulls /\ final.nulls = chunk.nulls
          /\ final.data = chunk.data /\ final.stats = stats
      BY <1>1, <2>1, <2>2
    <2>5. IsChunk(final)
      BY <1>1, <2>4 DEF IsChunk, RowsOf
    <2>6. \A r \in LiveRows(final) : AsInt64(final.type, final.data[r]) \in lives
      BY <2>4 DEF LiveRows, LiveInt64s, RowsOf, IsNull
    <2>7. Covers(final)
      <3> HIDE DEF lives
      <3> QED BY <1>3, <1>5, <2>3, <2>4, <2>6 DEF Covers
    <2> QED BY <2>4, <2>5, <2>7 DEF final
  <1> QED BY <1>4, <1>5

\* Computing the statistics of a chunk, if it has none, changes nothing else of
\* it, and bounds that enclosed the live rows still do.
LEMMA EnsureKeeps ==
  ASSUME NEW chunk, IsChunk(chunk)
  PROVE  LET ensured == EnsureStats(chunk)
         IN  /\ IsChunk(ensured) /\ (Covers(chunk) => Covers(ensured))
             /\ ensured.type = chunk.type /\ ensured.num_rows = chunk.num_rows
             /\ ensured.has_nulls = chunk.has_nulls /\ ensured.nulls = chunk.nulls
             /\ ensured.data = chunk.data
PROOF
  BY FinalizeKeeps DEF EnsureStats

\* A chunk comes back from its file with the same rows, and with statistics
\* that enclose them.
LEMMA StoredKeeps ==
  ASSUME NEW chunk, IsChunk(chunk)
  PROVE  LET stored == StoredChunk(chunk)
         IN  /\ IsChunk(stored) /\ Covers(stored)
             /\ stored.type = chunk.type /\ stored.num_rows = chunk.num_rows
             /\ stored.has_nulls = chunk.has_nulls /\ stored.nulls = chunk.nulls
             /\ \A r \in RowsOf(chunk) : stored.data[r] = chunk.data[r]
PROOF
  <1> DEFINE d == [r \in RowsOf(chunk) |-> chunk.data[r]]
             e == [chunk EXCEPT !.data = d, !.stats = NoStats]
  <1>1. chunk \in [type : DataTypes, num_rows : Nat, has_nulls : BOOLEAN, nulls : SUBSET Nat,
                   data : {chunk.data}, stats : Stats]
        /\ \A r \in RowsOf(chunk) : chunk.data[r] \in Values
    BY DEF IsChunk
  <1>2. NoStats \in Stats
    BY ValueAssumption DEF NoStats, Stats, Values
  <1>3. \A r \in RowsOf(chunk) : d[r] = chunk.data[r]
    OBVIOUS
  <1>4. StoredChunk(chunk) = FinalizeStats(e)
    BY DEF StoredChunk
  <1> HIDE DEF d
  <1>5. /\ e \in [type : DataTypes, num_rows : Nat, has_nulls : BOOLEAN, nulls : SUBSET Nat,
                  data : {e.data}, stats : Stats]
        /\ e.type = chunk.type /\ e.num_rows = chunk.num_rows
        /\ e.has_nulls = chunk.has_nulls /\ e.nulls = chunk.nulls /\ e.data = d
    BY <1>1, <1>2
  <1> HIDE DEF e
  <1>6. IsChunk(e)
    BY <1>1, <1>3, <1>5 DEF IsChunk, RowsOf
  <1> QED BY <1>3, <1>4, <1>5, <1>6, FinalizeKeeps

-----------------------------------------------------------------------------
(* Predicates.                                                             *)

\* The search for a column by its name ends at the first of that name.
LEMMA FirstNamed ==
  ASSUME NEW names, NEW n \in Nat, DOMAIN names = 1 .. n, NEW col, Named(names, col) # {}
  PROVE  Min(Named(names, col)) \in Named(names, col)
PROOF
  <1>1. Named(names, col) \in SUBSET Int /\ \A i \in Named(names, col) : 1 <= i
    BY DEF Named
  <1> QED BY <1>1, MinOfBounded

\* A chunk whose bounds enclose its live rows is skipped only if none of its
\* rows passes.
LEMMA SkippedHasNone ==
  ASSUME NEW chunk, IsChunk(chunk), Covers(chunk),
         NEW pred, pred.val \in Values, pred.op \in SoundOps(chunk.type),
         Skippable(chunk, pred), NEW r
  PROVE  ~Passes(chunk, pred, r)
PROOF
  <1> SUFFICES ASSUME Passes(chunk, pred, r) PROVE FALSE
    OBVIOUS
  <1>1. chunk.type # "STRING" /\ r \in RowsOf(chunk) /\ ~IsNull(chunk, r)
        /\ Compare(chunk.data[r], pred.val, pred.op)
    BY DEF Passes
  <1>2. CanSkipPredicate(chunk.stats, pred.op, AsInt64(chunk.type, pred.val))
    BY <1>1 DEF Skippable, PredicateThreshold
  <1>3. /\ chunk.stats.min <= AsInt64(chunk.type, chunk.data[r])
        /\ AsInt64(chunk.type, chunk.data[r]) <= chunk.stats.max
    BY <1>1, <1>2 DEF Covers, LiveRows, CanSkipPredicate
  <1>4. chunk.stats \in Stats /\ chunk.data[r] \in Values
    BY <1>1 DEF IsChunk
  <1>5. chunk.stats.min \in Int /\ chunk.stats.max \in Int /\ chunk.data[r] \in Int
        /\ pred.val \in Int
    BY <1>4, ValueAssumption DEF Stats, Values
  <1> QED BY <1>1, <1>2, <1>3, <1>5, SkipSound
=============================================================================
