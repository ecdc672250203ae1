SPECIFICATION Spec
CONSTANTS
  a = a
  b = b
  Names <- TwoNames
  FirstBus <- BusA
  Pluggable <- TwoNames
  Crashable <- None
  Addressed <- None
  MaxDevices = 2
  MaxViewers = 1
  HookPaths <- None
  Defaults <- None
  EnumMayFail = FALSE
  DiskMayFail = FALSE
  MtxMayFail = FALSE
INVARIANTS PathsUnique
PROPERTIES PathsKept
