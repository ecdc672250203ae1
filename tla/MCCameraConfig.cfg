CONSTANTS
  AlNum = {"a", "b", "c", "m", "o", "v"}
  Virtual <- MCVirtual
  Usb = {"usb"}
  ClientModes = {"passthrough_h264", "transcode_raw_to_h264"}
  MaxSets = 3
  Machines <- MCMachines
  Known <- MCKnown
  Files <- MCFiles
  Sizes <- MCSizes
  Static <- MCStatic
SPECIFICATION Spec
INVARIANTS OwnIdentity PicksCanBeOpened
PROPERTIES RestartKeepsAll
