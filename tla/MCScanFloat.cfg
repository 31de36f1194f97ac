SPECIFICATION Spec
CONSTANTS
  Unit = 2
  MinValue <- MCMinValue
  MaxValue = 3
  SchemaNames <- MCSchemaNames
  Configs <- MCFloatConfigs
  Contents <- MCContents
  Absent = Absent
  MaxWrites = 3
  MaxFailures = 2
INVARIANT
  PruningExact
CHECK_DEADLOCK FALSE
