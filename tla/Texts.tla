------------------------------- MODULE Texts --------------------------------
(***************************************************************************)
(* The two texts storage.cpp parses by hand side by side: schema.json      *)
(* (module SchemaFile) and a line of a CSV file (module CsvLine).  A       *)
(* behaviour is about one of the two, while the other is at rest.          *)
(***************************************************************************)
EXTENDS Integers, FiniteSetsExt, SequencesExt

CONSTANTS
  TextNames, TypeWords, Created,    \* Names, Types and Schemas in SchemaFile
  Lines, LineTypes                  \* Lines and Schemas in CsvLine

VARIABLES
  json, loaded, written, whole,                                \* as in SchemaFile
  line, types, position, inQuotes, field, fields, lineOutcome         \* as in CsvLine

jsonVars == <<json, loaded, written, whole>>
lineVars == <<line, types, position, inQuotes, field, fields, lineOutcome>>

Json == INSTANCE SchemaFile WITH
  Names <- TextNames, Types <- TypeWords, Schemas <- Created, file <- json

Csv == INSTANCE CsvLine WITH
  Schemas <- LineTypes, outcome <- lineOutcome, i <- position

\* No word is one of the symbols that structure the text.
ASSUME SchemaAssumption ==
  /\ {Json!Quote, Json!Backslash, Json!Colon, Json!Other, Json!Stub} \cap TypeWords = {}
  /\ \A n \in TextNames : n \in Seq(Range(n))
  /\ \A s \in Created :
       s.table \in TextNames /\ s.columns \in Seq([name : TextNames, type : TypeWords])

\* A line another program wrote has each of its fields within quotes.
ASSUME LineAssumption ==
  /\ \A l \in Lines :
       /\ l.text \in Seq(Range(l.text))
       /\ l.source \in Seq(Range(l.source)) /\ \A f \in Range(l.source) : f \in Seq(Range(f))
       /\ l.source # << >> => l.text = Csv!QuotedText(l.source)
  /\ \A t \in LineTypes : t \in Seq(Range(t))

\* No line is being read.
NoLine ==
  /\ line = [text |-> << >>, source |-> << >>] /\ types = << >>
  /\ position = 0 /\ inQuotes = FALSE /\ field = << >> /\ fields = << >>
  /\ lineOutcome = [kind |-> "rest"]

\* No schema has been created.
NoSchema ==
  /\ json = << >> /\ loaded = Json!Nothing /\ whole = FALSE
  /\ written = [table |-> << >>, columns |-> << >>]

TextInit == (Json!Init /\ NoLine) \/ (Csv!Init /\ NoSchema)

TextNext ==
  \/ NoLine /\ Json!Next /\ UNCHANGED lineVars
  \/ NoSchema /\ Csv!Next /\ UNCHANGED jsonVars

TextSpec == TextInit /\ [][TextNext]_<<jsonVars, lineVars>>

-----------------------------------------------------------------------------

\* Of a schema.json that was written whole: see SchemaFile.
LoadedAsCreated == Json!LoadedAsCreated

\* Of one that ends too early: see SchemaFile.
TornSchemaIsPrefix == Json!TornSchemaIsPrefix

\* Of a line: see CsvLine.
SplitExact == Csv!SplitExact

\* Of a line written by another program: see CsvLine.
QuotedFieldsKept == Csv!QuotedFieldsKept

\* Of a line with a DOS line end: see CsvLine.
CarriageReturnHarmless == Csv!CarriageReturnHarmless
=============================================================================
