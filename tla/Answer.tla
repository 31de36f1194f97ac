------------------------------- MODULE Answer -------------------------------
(***************************************************************************)
(* What QueryExecutor promises (query.hpp): execute answers a plan from    *)
(* the table as it is at that moment, in one step.  The answer is told     *)
(* from files and plan: no scan, no batches, no chunk that is skipped, no  *)
(* order of evaluation.  Module Query implements this.                     *)
(*                                                                         *)
(* The one thing of the execution that shows is pruning by truncated       *)
(* bounds: a row group in which a comparison is not sound for its type may *)
(* be missing, always as a whole.                                          *)
(***************************************************************************)
EXTENDS Aggregate, Orders, SequencesExt

CONSTANTS
  SchemaNames, Contents, Absent,   \* as in Scan
  Plans, NoLimit                   \* as in Query

VARIABLES
  store,      \* the files: column -> chunks, or Absent
  plan,       \* the plan
  answer      \* Pending, Thrown, or a record [rows, results, scanned]

vars == <<store, plan, answer>>

Pending == [kind |-> "pending"]
Thrown  == [kind |-> "throw"]

Columns == Range(SchemaNames)

Aggregating == plan.aggs # << >>

Limited == ~Aggregating /\ plan.limit # NoLimit

-----------------------------------------------------------------------------

\* The columns the plan speaks of, or all of them if it names none.
Mentioned ==
  LET output == IF Aggregating
                THEN {plan.aggs[e].col : e \in DOMAIN plan.aggs} \ {NoColumn}
                ELSE Range(plan.select)
      used   == output \cup {plan.where[p].col : p \in DOMAIN plan.where}
  IN  IF used = {} THEN Columns ELSE used

Readable == \A c \in Mentioned : c \in Columns /\ store[c] # Absent

Names == ElementsAt(SchemaNames, {i \in DOMAIN SchemaNames : SchemaNames[i] \in Mentioned})

\* The row groups every column mentioned has.
Groups == 1 .. Min({Len(store[c]) : c \in Mentioned})

Group(k) == [i \in DOMAIN Names |-> store[Names[i]][k]]

SoundGroups == {k \in Groups : SoundPredicates(Group(k), Names, plan.where)}

\* The qualifying rows of a row group, if it is among those not lost.
Selected(kept, k) == IF k \in kept THEN Qualifying(Group(k), Names, plan.where) ELSE {}

-----------------------------------------------------------------------------
(* Rows.                                                                   *)

\* A STRING column yields zero.
Cell(col, k, row) ==
  IF store[col][k].type = "STRING" THEN 0 ELSE store[col][k].data[row]

RowsOfGroup(kept, k) ==
  LET order == Ascending(Selected(kept, k))
  IN  [i \in DOMAIN order |->
         [s \in DOMAIN plan.select |-> Cell(plan.select[s], k, order[i])]]

RowsUpTo(kept, n) == FlattenSeq([k \in 1 .. n |-> RowsOfGroup(kept, k)])

\* All rows, in the order of the table, cut off at the limit.
Rows(kept) ==
  LET all == RowsUpTo(kept, Cardinality(Groups))
  IN  IF Aggregating THEN << >>
      ELSE IF Limited THEN SubSeq(all, 1, Min({plan.limit, Len(all)}))
      ELSE all

\* The number of rows in the row groups up to the one that reaches the limit.
Scanned(kept) ==
  LET enough == {k \in Groups : Limited /\ Len(RowsUpTo(kept, k)) >= plan.limit}
  IN  SumFunctionOnSet([k \in Groups |-> Group(k)[1].num_rows],
                       {k \in Groups : \A j \in enough : k <= j})

-----------------------------------------------------------------------------
(* Aggregates.                                                             *)

\* The row group and row of every value an expression is about; a column of
\* another type than the aggregator knows has none.
Pairs(kept, expr) ==
  UNION {{<<k, r>> : r \in Selected(kept, k)} :
           k \in {g \in Groups : expr.col = NoColumn \/ Accumulated(store[expr.col][g].type)}}

\* The aggregate of no rows is zero.
Result(kept, expr) ==
  LET pairs == Pairs(kept, expr)
      value == [pair \in pairs |-> store[expr.col][pair[1]].data[pair[2]]]
  IN  [num   |-> IF expr.func = "COUNT" THEN Cardinality(pairs)
                 ELSE IF expr.func \in {"SUM", "AVG"} THEN SumFunctionOnSet(value, pairs)
                 ELSE IF pairs = {} THEN 0
                 ELSE IF expr.func = "MIN" THEN Min(Range(value)) ELSE Max(Range(value)),
       den   |-> IF expr.func = "AVG" /\ pairs # {} THEN Cardinality(pairs) ELSE 1,
       count |-> Cardinality(pairs)]

-----------------------------------------------------------------------------

AnswerFrom(kept) ==
  [kind    |-> "answer",
   rows    |-> Rows(kept),
   results |-> [e \in DOMAIN plan.aggs |-> Result(kept, plan.aggs[e])],
   scanned |-> Scanned(kept)]

Init ==
  /\ store = [c \in Columns |-> Absent]
  /\ plan \in Plans
  /\ answer = Pending

WriteColumn(c) ==
  /\ answer = Pending
  /\ \E content \in Contents[c] : store' = [store EXCEPT ![c] = content]
  /\ UNCHANGED <<plan, answer>>

\* An exception is the answer exactly if a column the plan speaks of cannot
\* be read.
Respond ==
  /\ answer = Pending
  /\ answer' \in IF Readable
                 THEN {AnswerFrom(SoundGroups \cup lucky) :
                         lucky \in SUBSET (Groups \ SoundGroups)}
                 ELSE {Thrown}
  /\ UNCHANGED <<store, plan>>

Next == (\E c \in Columns : WriteColumn(c)) \/ Respond

Spec == Init /\ [][Next]_vars
=============================================================================
