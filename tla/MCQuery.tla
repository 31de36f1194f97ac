------------------------------ MODULE MCQuery -------------------------------
(***************************************************************************)
(* Instance of Query for TLC: an INT32, a FLOAT64, a FLOAT32 and a STRING  *)
(* column of up to three row groups of two, two and one rows; plans that   *)
(* select, limit, filter and aggregate.                                    *)
(***************************************************************************)
EXTENDS Query, MCTables

MCSchemaNames == <<"a", "b", "f", "s">>

MCContents ==
  [c \in {"a", "b", "f", "s"} |->
     CASE c = "a" -> {<<Misled(Chunk("INT32", <<2, 1>>, {})), Chunk("INT32", <<3, 2>>, {}),
                        Chunk("INT32", <<-2>>, {})>>,
                      <<Chunk("INT32", <<1, 2>>, {0})>>}
       [] c = "b" -> {<<Chunk("FLOAT64", <<-3, 3>>, {}), Chunk("FLOAT64", <<1, 1>>, {0}),
                        Chunk("FLOAT64", <<2>>, {})>>,
                      <<Chunk("FLOAT64", <<3, -1>>, {}), Chunk("FLOAT64", <<2, 3>>, {})>>,
                      << >>}
       [] c = "f" -> {<<Chunk("FLOAT32", <<1, 2>>, {}), Chunk("FLOAT32", <<3, 3>>, {})>>}
       [] c = "s" -> {<<Chunk("STRING", <<3, 3>>, {}), Chunk("STRING", <<3, 3>>, {})>>}]

Plan(select, where, aggs, limit) ==
  [select |-> select, where |-> where, aggs |-> aggs, limit |-> limit]

A(func, col) == [func |-> func, col |-> col]

Wheres ==
  {<< >>, <<P("a", "GT", 1, 1)>>, <<P("b", "LTE", 2, 0), P("a", "NEQ", 3, 1)>>,
   <<P("b", "GTE", 3, 1)>>, <<P("a", "GTE", 3, 1)>>, <<P("b", "GT", 2, 0)>>}

MCPlans ==
  {Plan(select, where, << >>, limit) :
     select \in {<<"b", "a">>, <<"a", "a", "s">>, << >>},
     where \in Wheres, limit \in {NoLimit, 0, 1, 2, 4}}
  \cup {Plan(<<"z">>, << >>, << >>, NoLimit)}
  \cup {Plan(<<"a">>, where, aggs, NoLimit) :
     where \in Wheres,
     aggs \in {<<A("COUNT", NoColumn)>>, <<A("SUM", "a"), A("AVG", "b")>>,
               <<A("MIN", "b"), A("MAX", "a"), A("COUNT", "b")>>,
               <<A("MIN", "a"), A("MAX", "b"), A("AVG", "f")>>}}

MCConfigs == {ConfigOf(pl) : pl \in MCPlans}
=============================================================================
