SPECIFICATION Spec
CONSTANTS
  Unit = 2
  MinValue <- MCMinValue
  MaxValue = 3
  MaxRows = 2
  Types <- MCTypes
INVARIANTS
  TypeOK
  PruneSound
  RangeSound
  PruneComplete
