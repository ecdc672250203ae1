SPECIFICATION FairSpec
CONSTANTS
  MaxStarts = 2
  MaxCommands = 1
  MaxLines = 2
PROPERTIES CommandTimesOut
CHECK_DEADLOCK FALSE
