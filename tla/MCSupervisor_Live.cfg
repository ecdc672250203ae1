SPECIFICATION FairSpec
CONSTANTS
  a = a
  b = b
  Names <- OneName
  FirstBus <- BusA
  Pluggable <- OneName
  Crashable <- OneName
  Addressed <- None
  MaxDevices = 1
  MaxViewers = 1
  HookPaths <- None
  Defaults <- TrueFalse
  EnumMayFail = TRUE
  DiskMayFail = FALSE
  MtxMayFail = TRUE
PROPERTIES PublisherRecovers HotPlugFollowed 
