CONSTANTS
  Workers = {1, 2}
  Script <- OneExchange
  MaxTrans = 1
  QueueCapacity = 2
  Answers <- Sized
  Expected = {1}
  MaxSplits = 0
  NewTests = 0
  Faults = {}
SPECIFICATION Spec
INVARIANTS OwnConnection
CHECK_DEADLOCK FALSE
