SPECIFICATION FairSpec
CONSTANTS
  MaxStarts = 2
  MaxCommands = 1
  MaxLines = 2
INVARIANTS NoOrphanRuns OldReaderGone
PROPERTIES StopReturns CommandReturns
CHECK_DEADLOCK FALSE
