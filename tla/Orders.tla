------------------------------- MODULE Orders -------------------------------
(***************************************************************************)
(* Sets of numbers taken in their order, as the loops of the engine take   *)
(* rows, and the elements of a sequence at such numbers.                   *)
(***************************************************************************)
EXTENDS Integers, FiniteSetsExt, Sequences

\* The number of members of a set up to r.
Rank(S, r) == Cardinality({x \in S : x <= r})

\* The numbers of a set, from the least on.
Ascending(S) == [n \in 1 .. Cardinality(S) |-> CHOOSE r \in S : Rank(S, r) = n]

\* The elements of seq at the places of a set, in their order.
ElementsAt(seq, S) == LET at == Ascending(S) IN [n \in DOMAIN at |-> seq[at[n]]]
=============================================================================
