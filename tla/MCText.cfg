SPECIFICATION TextSpec
CONSTANTS
  TextNames <- MCNames
  TypeWords <- MCTypes
  Created <- MCSchemas
  Lines <- MCLines
  LineTypes <- MCColumnTypes
INVARIANTS
  LoadedAsCreated
  TornSchemaIsPrefix
  SplitExact
  QuotedFieldsKept
  CarriageReturnHarmless
CHECK_DEADLOCK FALSE
