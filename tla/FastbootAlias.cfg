SPECIFICATION FairSpec
CONSTANTS
  Worlds <- AliasWorld
  DiskTypes <- Disks
  TarTypes <- TarBases
  TarTitles <- TarNames
  GoodNames <- AllGood
  Order <- ByName
  Torn <- NoBytes
INVARIANT OverrideFlashesItsTitle
CHECK_DEADLOCK FALSE
