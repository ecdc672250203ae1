SPECIFICATION FairSpec
CONSTANTS
  Ids = {1, 2}
  Texts = {"s", "t"}
  MaxChanges = 1
  MaxLate = 1
INVARIANTS EditsSurvive
PROPERTIES RowsCatchUp CallsEnd
CHECK_DEADLOCK FALSE
