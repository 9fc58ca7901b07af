SPECIFICATION FairSpec
CONSTANTS
  Sources <- AllLayers
  BufBytes = 2
  DecCap = 2
  WrCap = 1
  PipeCap = 1
  DetectLen = 2
  DeviceMayFail = TRUE
INVARIANTS TypeOK NothingLost NoFalseAlarm
PROPERTIES FlashReturns FlashSpec
CHECK_DEADLOCK FALSE
