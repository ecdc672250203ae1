SPECIFICATION Spec
CONSTANTS
  c1 = c1
  c2 = c2
  NoCred = NoCred
  Creds <- TwoCreds
  DiskMayFail = TRUE
  MaxCalls = 2
INVARIANTS TypeOK AcceptedIsLastOk FileKeepsApplied 
SYMMETRY Symmetry
