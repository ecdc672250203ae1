SPECIFICATION FairSpec
CONSTANTS
  Publishers = {"events"}
  MaxInstances = 2
  MaxRequests = 2
  MaxEvents = 2
  Capacity = 1
INVARIANTS PublishedHandleOpen AnswersBelong
PROPERTIES PublishReturns StopReturns RequestsAnswered
CHECK_DEADLOCK FALSE
