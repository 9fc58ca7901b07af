SPECIFICATION FairSpec
CONSTANTS
  Sources <- XzInTar
  BufBytes = 2
  DecCap = 2
  WrCap = 1
  PipeCap = 1
  DetectLen = 2
  DeviceMayFail = TRUE
INVARIANT ExtractedFileIsDecompressed
CHECK_DEADLOCK FALSE
