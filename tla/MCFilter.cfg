SPECIFICATION EvaluationSpec
CONSTANTS
  Unit = 2
  MinValue <- MCMinValue
  MaxValue = 3
  Batches <- MCBatches
  PredLists <- MCPredLists
  ChunkSize = 8
  BatchSize = 4
  MaxRows = 9
INVARIANTS
  OrderFree
  FilterExact
  SelectedQualify
  RowsExact
  SumExact
CHECK_DEADLOCK FALSE
