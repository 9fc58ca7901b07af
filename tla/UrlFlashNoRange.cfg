SPECIFICATION FairSpec
CONSTANTS
  Sources <- NoRangeSource
  MaxRetries = 1
  DeviceMayFail = FALSE
  DetectLen = 2
  BufBytes = 2
  DecCap = 1
  WrCap = 1
INVARIANT SuccessMeansFlashed
CHECK_DEADLOCK FALSE
