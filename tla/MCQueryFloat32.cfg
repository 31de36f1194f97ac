SPECIFICATION QuerySpec
CONSTANTS
  Unit = 2
  MinValue <- MCMinValue
  MaxValue = 3
  NoColumn = NoColumn
  SchemaNames <- MCSchemaNames
  Contents <- MCContents
  Absent = Absent
  MaxWrites = 4
  Configs <- MCConfigs
  MaxFailures = 1
  Plans <- MCPlans
  NoLimit = NoLimit
INVARIANT
  AggregatesEveryType
CHECK_DEADLOCK FALSE
