SPECIFICATION FairSpec
CONSTANTS
  Readers = {r1, r2}
  HooksMayDie = TRUE
INVARIANTS TypeOK DoneIsCounted 
PROPERTIES HooksEnd StopReturns
CHECK_DEADLOCK FALSE
