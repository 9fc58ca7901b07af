SPECIFICATION WriterSpec
CONSTANTS
  Threshold = 7
  MaxBuffer = 16
  PieceSizes <- Pieces
  StreamLengths <- Lengths
  Starts <- AnyStart
  ChunkHeaderWords = 3
  BlockWords = 2
  Images <- SomeFiles
  Cuts <- Missing
INVARIANTS WriterTypeOK PassedExactlyOnce SameAnswerForAllCuts
INVARIANTS DeviceIsExpansion AcceptsWellFormed OkMeansWhole
CHECK_DEADLOCK FALSE
