SPECIFICATION Spec
CONSTANTS
  a = a
  b = b
  Names <- OneName
  FirstBus <- BusA
  Pluggable <- OneName
  Crashable <- OneName
  Addressed <- OneName
  MaxDevices = 1
  MaxViewers = 1
  HookPaths <- FirstPath
  Defaults <- None
  EnumMayFail = TRUE
  DiskMayFail = TRUE
  MtxMayFail = TRUE
INVARIANTS TypeOK RowsAgree EnabledSurvivesCrash ExitLeavesNothing
PROPERTIES LoopStartsOnlyWanted 
