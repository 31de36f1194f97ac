------------------------------- MODULE MCScan -------------------------------
(***************************************************************************)
(* Instance of Scan for TLC: an integer and a float column of up to two    *)
(* chunks of up to two rows, written with statistics fresh or out of date. *)
(***************************************************************************)
EXTENDS Scan, MCTables

MCSchemaNames == <<"a", "b">>

Ints   == Chunk("INT32", <<0, 2>>, {0})
Ones   == Misled(Chunk("INT32", <<1, 1>>, {}))
Nulls  == Chunk("INT32", <<1, 2>>, {0, 1})
Short  == Chunk("INT32", <<2>>, {})
Floats == Misled(Chunk("FLOAT64", <<-3, 3>>, {}))
Small  == Chunk("FLOAT64", <<1, 2>>, {1})

MCContents ==
  [c \in {"a", "b"} |->
     IF c = "a" THEN {<<Ones, Ints>>, <<Nulls, Short>>, <<Ints>>}
                ELSE {<<Floats, Small>>, <<Small>>}]

MCConfigs ==
  {[projection |-> p, filters |-> f] :
     p \in {<< >>, <<"b", "a">>, <<"a">>},
     f \in {<< >>, <<P("a", "GT", 0, 1)>>, <<P("a", "EQ", 1, 1), P("b", "LTE", 2, 0)>>,
            <<P("b", "GTE", 1, 1), P("a", "NEQ", 1, 1)>>, <<P("b", "LT", 3, 1)>>}}
  \cup {[projection |-> <<"a", "z">>, filters |-> << >>]}

\* Each comparison with 1.0, on the float column alone.
MCFloatConfigs ==
  {[projection |-> <<"b">>, filters |-> <<P("b", op, 2, 1)>>] : op \in CompareOps}
=============================================================================
