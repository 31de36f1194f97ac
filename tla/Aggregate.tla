------------------------------ MODULE Aggregate ------------------------------
(***************************************************************************)
(* The aggregator (aggregator.cpp): one state for each aggregate           *)
(* expression, into which the selected rows of one batch after the other   *)
(* are accumulated, and the results at the end.                            *)
(*                                                                         *)
(* An expression is a record [func, col]; col is NoColumn for COUNT over   *)
(* all rows.  Values are as in module Column, sums of doubles exact, and a *)
(* result is the fraction num / den.  Every selected row is taken for a    *)
(* row of every chunk; null bits are not looked at.                        *)
(***************************************************************************)
EXTENDS Predicates

CONSTANT NoColumn    \* the empty column name

FreshState == [value |-> 0, count |-> 0, initialized |-> FALSE]

\* The types accumulate_one has a case for.
Accumulated(type) == type \in {"INT32", "INT64", "FLOAT64"}

ValuesAt(chunk, rows) == {chunk.data[r] : r \in rows}

SumAt(chunk, rows) == SumFunctionOnSet(chunk.data, rows)

\* Mutant: the first value is compared with the zero the state starts with.
BetterOfUnchecked(st, func, chunk, rows) ==
  LET known == {st.value} \cup ValuesAt(chunk, rows)
  IN  IF func = "MIN" THEN Min(known) ELSE Max(known)

\* The least or greatest value so far; the first value always replaces the
\* zero the state starts with.
BetterOf(st, func, chunk, rows) ==
  LET known == ValuesAt(chunk, rows) \cup (IF st.initialized THEN {st.value} ELSE {})
  IN  IF known = {} THEN st.value
      ELSE IF func = "MIN" THEN Min(known) ELSE Max(known)

Count(st, rows) ==
  [st EXCEPT !.count = @ + Cardinality(rows), !.value = st.count + Cardinality(rows)]

AccumulateOne(st, func, chunk, rows) ==
  IF ~Accumulated(chunk.type) THEN st
  ELSE IF func = "COUNT" THEN Count(st, rows)
  ELSE IF func \in {"SUM", "AVG"}
  THEN [st EXCEPT !.count = @ + Cardinality(rows), !.value = @ + SumAt(chunk, rows)]
  ELSE [st EXCEPT !.count = @ + Cardinality(rows),
                  !.value = BetterOf(st, func, chunk, rows),
                  !.initialized = @ \/ rows # {}]

\* accumulate: an expression on a column the batch has not is left out.
Accumulate(states, exprs, chunks, names, rows) ==
  [e \in DOMAIN exprs |->
     IF exprs[e].func = "COUNT" /\ exprs[e].col = NoColumn THEN Count(states[e], rows)
     ELSE IF ~Known(names, exprs[e]) THEN states[e]
     ELSE AccumulateOne(states[e], exprs[e].func, chunks[ColumnOf(names, exprs[e])], rows)]

FinalizeOne(st, func) ==
  [num   |-> st.value,
   den   |-> IF func = "AVG" /\ st.count > 0 THEN st.count ELSE 1,
   count |-> st.count]
=============================================================================
