SPECIFICATION FairSpec
CONSTANTS
  Unit = 2
  MinValue <- MCMinValue
  MaxValue = 3
  SchemaNames <- MCSchemaNames
  Configs <- MCConfigs
  Contents <- MCContents
  Absent = Absent
  MaxWrites = 3
  MaxFailures = 2
INVARIANTS
  ScanExact
  BatchFaithful
  ScanComplete
PROPERTIES
  ScanEnds
CHECK_DEADLOCK FALSE
