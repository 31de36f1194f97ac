------------------------------- MODULE CsvLine -------------------------------
(***************************************************************************)
(* What ingest_csv (storage.cpp) does with one line: it is split at the    *)
(* commas outside quotes, quotes being dropped wherever they stand, and    *)
(* the fields are parsed if there are as many as the table has columns.    *)
(* Module Ingest takes the outcome as given: a line that is skipped,       *)
(* throws, or is stored.                                                   *)
(*                                                                         *)
(* A line is a sequence of symbols: Quote, Comma, Digit, CR or Letter.     *)
(***************************************************************************)
EXTENDS Orders, SequencesExt

CONSTANTS
  Lines,       \* the lines of the file, records [text, source]: source is
               \* the fields another program meant, or << >>
  Schemas      \* the types of the columns: "INT32" for all that are parsed, "STRING"

Quote == "quote"
Comma == "comma"
Digit == "digit"
CR    == "cr"
Letter == "letter"

VARIABLES
  line,        \* the line
  types,       \* the types of the schema's columns
  i,           \* the number of characters read
  inQuotes,    \* in_quotes
  field,       \* field
  fields,      \* fields
  outcome      \* of the line

vars == <<line, types, i, inQuotes, field, fields, outcome>>

Init ==
  /\ line \in Lines /\ types \in Schemas
  /\ i = 0 /\ inQuotes = FALSE /\ field = << >> /\ fields = << >>
  /\ outcome = [kind |-> "reading"]

-----------------------------------------------------------------------------

Reading == outcome.kind = "reading" /\ line.text # << >> /\ i < Len(line.text)

Char == line.text[i + 1]

BlankLine ==
  /\ outcome.kind = "reading" /\ line.text = << >>
  /\ outcome' = [kind |-> "skipped"]
  /\ UNCHANGED <<line, types, i, inQuotes, field, fields>>

\* Mutant: the quote is kept.
ReadQuoteKept ==
  /\ Reading /\ Char = Quote
  /\ inQuotes' = ~inQuotes /\ i' = i + 1
  /\ field' = Append(field, Char)
  /\ UNCHANGED <<line, types, fields, outcome>>

ReadQuote ==
  /\ Reading /\ Char = Quote
  /\ inQuotes' = ~inQuotes /\ i' = i + 1
  /\ UNCHANGED <<line, types, field, fields, outcome>>

\* Mutant: a comma within quotes separates as well.
SeparatesAlways == Char = Comma

Separates == Char = Comma /\ ~inQuotes

ReadSeparator ==
  /\ Reading /\ Separates
  /\ fields' = Append(fields, field) /\ field' = << >> /\ i' = i + 1
  /\ UNCHANGED <<line, types, inQuotes, outcome>>

ReadCharacter ==
  /\ Reading /\ Char # Quote /\ ~Separates
  /\ field' = Append(field, Char) /\ i' = i + 1
  /\ UNCHANGED <<line, types, inQuotes, fields, outcome>>

-----------------------------------------------------------------------------

\* The digits std::stoi and its kin read, behind the white space they skip;
\* what follows is ignored.
Digits(f) ==
  LET start == Min({k \in DOMAIN f : f[k] # CR} \cup {Len(f) + 1})
      end   == Min({k \in start .. Len(f) : f[k] # Digit} \cup {Len(f) + 1})
  IN  SubSeq(f, start, end - 1)

\* Mutant: nothing may follow the number.
ParsesWhole(f) == f # << >> /\ \A k \in DOMAIN f : f[k] = Digit

Parses(f) == Digits(f) # << >>

\* What becomes of a line with these fields; STRING columns are not parsed.
OutcomeOf(fs) ==
  IF Len(fs) # Len(types) THEN [kind |-> "skipped"]
  ELSE IF \E c \in DOMAIN types : types[c] # "STRING" /\ ~Parses(fs[c]) THEN [kind |-> "throws"]
  ELSE [kind   |-> "stored",
        values |-> [c \in DOMAIN types |-> IF types[c] = "STRING" THEN << >> ELSE Digits(fs[c])]]

EndOfLine ==
  /\ outcome.kind = "reading" /\ line.text # << >> /\ i = Len(line.text)
  /\ fields' = Append(fields, field)
  /\ outcome' = OutcomeOf(fields')
  /\ UNCHANGED <<line, types, i, inQuotes, field>>

Next == BlankLine \/ ReadQuote \/ ReadSeparator \/ ReadCharacter \/ EndOfLine

Spec == Init /\ [][Next]_vars

-----------------------------------------------------------------------------

\* The commas in front of which the quotes are even in number.
Separators(text) ==
  {k \in DOMAIN text : text[k] = Comma /\ Cardinality({q \in 1 .. (k - 1) : text[q] = Quote}) % 2 = 0}

\* Where the characters of a field stand; no quote is kept.
Places(text, f) ==
  {k \in DOMAIN text \ Separators(text) :
     text[k] # Quote /\ Cardinality({s \in Separators(text) : s < k}) = f - 1}

\* The fields of a text, told by its commas and quotes at once.
FieldsOf(text) ==
  [f \in 1 .. (Cardinality(Separators(text)) + 1) |-> ElementsAt(text, Places(text, f))]

\* What another program writes for fields of any characters: each within
\* quotes, its own quotes doubled.
Doubled(f) ==
  <<Quote>> \o FlattenSeq([k \in DOMAIN f |-> IF f[k] = Quote THEN <<Quote, Quote>> ELSE <<f[k]>>])
  \o <<Quote>>

QuotedText(source) ==
  FlattenSeq([f \in DOMAIN source |->
                IF f = 1 THEN Doubled(source[f]) ELSE <<Comma>> \o Doubled(source[f])])

Unquoted(f) == ElementsAt(f, {k \in DOMAIN f : f[k] # Quote})

\* However far the loop has come, it has split what it has read as the places
\* of commas and quotes say.
SplitExact ==
  outcome.kind = "reading" => Append(fields, field) = FieldsOf(SubSeq(line.text, 1, i))

\* A line in which another program quoted its fields, doubling the quotes in
\* them, has the fields that were meant, with their commas, but for the
\* quotes: these are lost.
QuotedFieldsKept ==
  outcome.kind # "reading" /\ line.source # << >> /\ line.text # << >> =>
    fields = [f \in DOMAIN line.source |-> Unquoted(line.source[f])]

\* The carriage return at the end of a DOS line changes nothing, except on a
\* blank line: it is skipped without one, and with one it is a field, which
\* a table of one column that is not a string throws on and one of one string
\* column stores.
CarriageReturnHarmless ==
  outcome.kind # "reading" /\ line.text # << >> /\ Last(line.text) = CR =>
    LET bare == SubSeq(line.text, 1, Len(line.text) - 1)
    IN  IF bare # << >> THEN outcome = OutcomeOf(FieldsOf(bare))
        ELSE outcome.kind = IF Len(types) # 1 THEN "skipped"
                            ELSE IF types[1] = "STRING" THEN "stored" ELSE "throws"
=============================================================================
