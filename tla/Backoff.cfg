SPECIFICATION Spec
CONSTANTS
  InitialDelay = 1
  MaxDelay = 30
  StableAfter = 60
  MaxStarts = 6
INVARIANTS TypeOK DelayLadder StormBounded
