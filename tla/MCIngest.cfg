SPECIFICATION LoadSpec
CONSTANTS
  ColumnTypes <- MCColumnTypes
  ColumnNames <- MCColumnNames
  ChunkSize = 2
  Garbage = Garbage
  Partial = Partial
  MaxLines = 6
  MaxLoads = 2
  Names = {"x", "y", "z"}
  Types = {}
  Schemas = {}
  CsvFiles = {}
  Unreadable = Unreadable
  NoFile = NoFile
  NoName = ""
  Zero = Zero
  MaxCreates = 0
  MaxIngests = 0
INVARIANTS
  IngestExact
  ParseErrorKeepsTable
  NewColumnsFirst
CHECK_DEADLOCK FALSE
