SPECIFICATION FairSpec
CONSTANTS
  Sources <- OneSource
  MaxRetries = 1
  DeviceMayFail = TRUE
  DetectLen = 2
  BufBytes = 1
  DecCap = 1
  WrCap = 1
PROPERTY WriterFailureEndsFlash
CHECK_DEADLOCK FALSE
