SPECIFICATION FairSpec
CONSTANTS
  Sources <- AllSources
  MaxRetries = 1
  DeviceMayFail = TRUE
  DetectLen = 2
  BufBytes = 1
  DecCap = 1
  WrCap = 1
INVARIANTS TypeOK SuccessMeansFlashed NothingLost BufferPaidFor
PROPERTIES FlashReturns FlashSpec
CHECK_DEADLOCK FALSE
