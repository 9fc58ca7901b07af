SPECIFICATION FairSpec
CONSTANTS
  MaxBytes = 3
  MaxItems = 3
  ChunkSizes <- Sizes
  StreamLen = 7
INVARIANTS
  TypeOK
  EofMeansEverythingReceived
  BytesBounded
  OversizedTravelsAlone
PROPERTIES
  SendReturns
  PipeSpec
CHECK_DEADLOCK FALSE
