SPECIFICATION FairSpec
CONSTANTS
  Worlds <- AllWorlds
  DiskTypes <- Disks
  TarTypes <- TarBases
  TarTitles <- TarNames
  GoodNames <- AllGood
  Order <- ByName
  Torn <- NoBytes
INVARIANTS TypeOK FlashedAsMapped ErrorsHaveACause FilesOutliveTheChild
PROPERTIES PartitionFlashSpec FlashReturns
CHECK_DEADLOCK FALSE
