SPECIFICATION Spec
CONSTANTS
  a = a
  b = b
  Unreadable = Unreadable
  NoFile = NoFile
  NoName = NoName
  Zero = Zero
  Garbage = Garbage
  Names <- MCNames
  Types <- MCTypes
  Schemas <- MCSchemas
  CsvFiles <- MCCsvFiles
  ChunkSize = 2
  MaxCreates = 2
  MaxIngests = 3
INVARIANTS
  TypeOK
  CleanTableShown
  GenerationsDescend
  RowsInStep
  ReadAsWritten
  EndlessOnlyWithoutColumns
CHECK_DEADLOCK FALSE
