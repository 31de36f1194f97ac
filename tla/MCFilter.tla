------------------------------ MODULE MCFilter ------------------------------
(***************************************************************************)
(* Instance of Filter for TLC: an integer and a float column of two rows,  *)
(* with and without nulls and with statistics fresh, absent, wide, or out  *)
(* of date; a column of another length; a STRING column; lists of up to    *)
(* three predicates.  And of Kernels, the loops over the rows of one       *)
(* chunk: chunks of up to nine rows where CHUNK_SIZE is eight, in batches  *)
(* of four.                                                                *)
(***************************************************************************)
EXTENDS Evaluation, MCTables

Variants(chunk) ==
  {chunk, FinalizeStats(chunk),
   [chunk EXCEPT !.stats = [min |-> -1, max |-> 2, initialized |-> TRUE]],
   [chunk EXCEPT !.stats = [min |-> 2, max |-> 2, initialized |-> TRUE]]}

IntChunks ==
  UNION {Variants(Chunk("INT32", d, n)) :
           d \in {<<0, 1>>, <<1, 1>>}, n \in {{}, {0}}}

FloatChunks ==
  UNION {Variants(Chunk("FLOAT64", d, n)) :
           d \in {<<-3, 3>>}, n \in {{}, {1}}}

MCBatches ==
  {[chunks |-> <<a, b>>, names |-> <<"a", "b">>] :
     a \in IntChunks, b \in FloatChunks}
  \cup {[chunks |-> <<a, Chunk("INT32", <<1>>, {}), Chunk("STRING", <<0, 0>>, {})>>,
         names |-> <<"a", "b", "s">>] : a \in IntChunks}
  \cup {[chunks |-> << >>, names |-> << >>]}

SomePreds ==
  {P("a", "GTE", 1, 1), P("a", "NEQ", 1, 1), P("b", "GT", 2, 1),
   P("b", "LTE", -3, 0), P("c", "EQ", 0, 2)}

MCPredLists ==
  {<< >>}
  \cup {<<P("a", o, v, 1)>> : o \in CompareOps, v \in {0, 1}}
  \cup {<<P("b", o, v, 1)>> : o \in CompareOps, v \in {-3, 2}}
  \cup {<<P("s", "EQ", 0, 1)>>}
  \cup {<<x, y>> : x, y \in SomePreds}
  \cup {<<x, P("a", "LTE", 1, 1), y>> : x, y \in {P("b", "GTE", 2, 1), P("a", "EQ", 1, 0)}}
=============================================================================
