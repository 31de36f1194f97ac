----------------------------- MODULE SchemaFile -----------------------------
(***************************************************************************)
(* schema.json (storage.cpp): create_table writes the schema as text, with *)
(* the names escaped; load_schema searches the text for the fields it      *)
(* knows.  The file is truncated and then written through a stream whose   *)
(* state nobody asks for, so that a crash or a full disk leaves a prefix.  *)
(*                                                                         *)
(* A text is a sequence of symbols: a quote, a backslash, a colon, a word, *)
(* or the punctuation between the fields, which the search passes over.    *)
(* The blanks behind a colon, written and skipped, are left out.           *)
(***************************************************************************)
EXTENDS Integers, FiniteSetsExt, SequencesExt

CONSTANTS
  Names,       \* the names of tables and columns: sequences of symbols
  Types,       \* the words data_type_name yields
  Schemas      \* the schemas created: records [table, columns]

Quote == "quote"
Backslash == "backslash"
Colon == "colon"
Other == "punctuation"
Stub == "stub"     \* the beginning of a word that was cut off

VARIABLES
  file,       \* the text of schema.json
  loaded,     \* what load_schema returned last
  written,    \* observer: the schema of the last create_table
  whole       \* observer: that call wrote all of its text

vars == <<file, loaded, written, whole>>

Nothing == [kind |-> "none"]
Thrown  == [kind |-> "throw"]

-----------------------------------------------------------------------------
(* Writing.                                                                *)

\* Mutant: only the quotes are escaped.
EscapedQuotesOnly(name) ==
  FlattenSeq([i \in DOMAIN name |->
                IF name[i] = Quote THEN <<Backslash, name[i]>> ELSE <<name[i]>>])

Escaped(name) ==
  FlattenSeq([i \in DOMAIN name |->
                IF name[i] \in {Quote, Backslash} THEN <<Backslash, name[i]>>
                ELSE <<name[i]>>])

FieldText(key, value) == <<Other, Quote, key, Quote, Colon, Quote>> \o value \o <<Quote>>

SchemaText(s) ==
  FieldText("table_name", Escaped(s.table)) \o <<Other, Quote, "columns", Quote, Colon>>
  \o FlattenSeq([c \in DOMAIN s.columns |->
       FieldText("name", Escaped(s.columns[c].name)) \o FieldText("type", <<s.columns[c].type>>)])
  \o <<Other>>

\* What is left of a text that was not written to its end; a word may be cut.
TornTexts(text) ==
  {SubSeq(text, 1, n) : n \in 0 .. (Len(text) - 1)}
  \cup {Append(SubSeq(text, 1, n - 1), Stub) :
          n \in {k \in DOMAIN text : text[k] \notin {Quote, Backslash, Colon, Other}}}

-----------------------------------------------------------------------------
(* Reading.                                                                *)

\* The string that begins at pos, up to its closing quote or the end of the
\* text: a backslash stands for the symbol behind it.
Quoted(text, pos) ==
  LET read[q \in pos .. (Len(text) + 1)] ==
        IF q > Len(text) THEN [value |-> << >>, pos |-> q]
        ELSE IF text[q] = Quote THEN [value |-> << >>, pos |-> q + 1]
        ELSE LET last == IF text[q] = Backslash /\ q < Len(text) THEN q + 1 ELSE q
             IN  [value |-> <<text[last]>> \o read[last + 1].value,
                  pos   |-> read[last + 1].pos]
  IN  read[pos]

\* extract_string_field: the first field of that key at pos or behind it; no
\* value if there is none or its text ends too early.
Field(text, key, pos) ==
  LET needle == <<Quote, key, Quote, Colon>>
      found  == {p \in pos .. (Len(text) - 3) : SubSeq(text, p, p + 3) = needle}
      value  == Min(found) + 4
  IN  IF found = {} \/ (value \notin DOMAIN text) THEN [value |-> << >>, pos |-> Len(text) + 1]
      ELSE IF text[value] # Quote THEN [value |-> << >>, pos |-> value]
      ELSE Quoted(text, value + 1)

\* Mutant: a column whose type is missing gets the first one.
ColumnsUntyped(text, start) ==
  LET columns[pos \in start .. (Len(text) + 1)] ==
        LET name == Field(text, "name", pos)
            type == Field(text, "type", name.pos)
            known == IF type.value = << >> THEN <<"INT32">> ELSE type.value
        IN  IF name.value = << >> THEN << >>
            ELSE <<[name |-> name.value, type |-> known]>> \o columns[type.pos]
  IN  columns[start]

\* The columns up to the first that has an empty name or type.
ColumnsFrom(text, start) ==
  LET columns[pos \in start .. (Len(text) + 1)] ==
        LET name == Field(text, "name", pos)
            type == Field(text, "type", name.pos)
        IN  IF name.value = << >> \/ type.value = << >> THEN << >>
            ELSE <<[name |-> name.value, type |-> type.value]>> \o columns[type.pos]
  IN  columns[start]

\* parse_schema_json: an unknown type is an exception, a text without columns
\* is a schema without columns.
Parsed(text) ==
  LET heads == {p \in 1 .. (Len(text) - 2) : SubSeq(text, p, p + 2) = <<Quote, "columns", Quote>>}
      columns == IF heads = {} THEN << >> ELSE ColumnsFrom(text, Min(heads))
  IN  IF \E c \in DOMAIN columns : columns[c].type \notin {<<t>> : t \in Types} THEN Thrown
      ELSE [kind    |-> "schema",
            table   |-> Field(text, "table_name", 1).value,
            columns |-> [c \in DOMAIN columns |->
                           [name |-> columns[c].name, type |-> columns[c].type[1]]]]

-----------------------------------------------------------------------------

Init ==
  /\ written \in Schemas /\ whole = TRUE
  /\ file = SchemaText(written)
  /\ loaded = Nothing

\* The file is opened, which empties it ...
CreateTable(s) ==
  /\ written' = s /\ whole' = FALSE
  /\ file' = << >> /\ loaded' = Nothing

\* ... and the text reaches it when the stream is closed, or only in part.
CloseFile ==
  /\ file = << >> /\ loaded' = Nothing
  /\ \/ file' = SchemaText(written) /\ whole' = TRUE
     \/ file' \in TornTexts(SchemaText(written)) /\ whole' = FALSE
  /\ UNCHANGED written

LoadSchema ==
  /\ loaded' = Parsed(file)
  /\ UNCHANGED <<file, written, whole>>

Next == (\E s \in Schemas : CreateTable(s)) \/ CloseFile \/ LoadSchema

Spec == Init /\ [][Next]_vars

-----------------------------------------------------------------------------

\* The columns in front of the first one without a name.
NamedColumns ==
  LET nameless == {c \in DOMAIN written.columns : written.columns[c].name = << >>}
  IN  SubSeq(written.columns, 1, Min(nameless \cup {Len(written.columns) + 1}) - 1)

\* A schema that was written whole is loaded as it was created, whatever
\* quotes, backslashes and field names its names are made of; a column
\* without a name hides itself and those behind it.
LoadedAsCreated ==
  whole /\ loaded # Nothing =>
    loaded = [kind |-> "schema", table |-> written.table, columns |-> NamedColumns]

\* A schema.json that ends too early either makes load_schema throw or yields
\* the first columns with their names and types: never another column, never
\* another type.
TornSchemaIsPrefix ==
  loaded.kind = "schema" => IsPrefix(loaded.columns, written.columns)
=============================================================================
