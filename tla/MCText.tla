------------------------------- MODULE MCText -------------------------------
(***************************************************************************)
(* Instance of Texts for TLC: names made of quotes, backslashes, colons    *)
(* and the very words the parser of schema.json searches for; every CSV    *)
(* line of up to five characters, and lines of two fields of up to three   *)
(* characters written with quotes.                                         *)
(***************************************************************************)
EXTENDS Texts

\* The symbols, from instances whose constants do not depend on the texts that
\* are made of them here.
SchemaSymbols == INSTANCE SchemaFile WITH
  Names <- {}, Types <- {}, Schemas <- {}, file <- json

LineSymbols == INSTANCE CsvLine WITH
  Lines <- {}, Schemas <- {}, outcome <- lineOutcome, i <- position

MCTypes == {"INT32", "STRING"}

MCNames ==
  LET quote == SchemaSymbols!Quote  colon == SchemaSymbols!Colon  backslash == SchemaSymbols!Backslash
  IN  {<< >>, <<"columns">>, <<quote, "columns", quote, colon>>, <<quote>>, <<backslash>>,
       <<backslash, quote>>, <<quote, "name", quote, colon>>,
       <<quote, SchemaSymbols!Other, quote, "type", quote, colon, quote>>}

MCSchemas ==
  LET column == [name : MCNames, type : MCTypes]
      quote == SchemaSymbols!Quote
  IN  [table : {<<"columns">>, <<quote>>, <<quote, "columns", quote, SchemaSymbols!Colon>>},
       columns : {<< >>} \cup {<<c>> : c \in column}
                 \cup {<<c, d>> : c \in {e \in column : e.type = "INT32"},
                                  d \in {e \in column : e.type = "STRING"}}]

-----------------------------------------------------------------------------

CharTexts(symbols, n) == UNION {[1 .. len -> symbols] : len \in 0 .. n}

MCLines ==
  {[text |-> t, source |-> << >>] :
     t \in CharTexts({LineSymbols!Quote, LineSymbols!Comma, LineSymbols!Digit, LineSymbols!CR,
                      LineSymbols!Letter}, 5)}
  \cup {[text |-> LineSymbols!QuotedText(<<f, g>>), source |-> <<f, g>>] :
          f, g \in CharTexts({LineSymbols!Quote, LineSymbols!Comma, LineSymbols!Digit}, 3)}

MCColumnTypes == {<<"INT32">>, <<"STRING">>, <<"INT32", "STRING">>}
=============================================================================
