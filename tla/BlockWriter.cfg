SPECIFICATION Spec
CONSTANTS
  BlockSize = 4
  Alignment = 2
  SyncInterval = 6
  FillSize = 2
  MediumMayFail = TRUE
  Sizes <- Lengths
  Offsets <- Forward
  MaxCommands = 4
  DeviceSize = 18
INVARIANTS TypeOK NothingLostOrMoved OnlyPaddingIsAdded DirectWritesAligned UnsyncedBounded
CHECK_DEADLOCK FALSE
