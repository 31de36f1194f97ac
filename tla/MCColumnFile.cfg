SPECIFICATION FairSpec
CONSTANTS
  Contents <- MCContents
  MaxWrites = 2
  MaxOpens = 2
  MaxFaults = 2
INVARIANTS
  IndexPointsAtHeaders
PROPERTIES
  TornIsLast
  ReadEnds
  ImplementsStream
CHECK_DEADLOCK FALSE
