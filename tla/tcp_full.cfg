CONSTANTS
  Workers = {1}
  Script <- TwoExchanges
  MaxTrans = 1
  QueueCapacity = 4
  Answers <- Long
  Expected = {1}
  MaxSplits = 4
  NewTests = 0
  Faults = {"close"}
SPECIFICATION Spec
INVARIANTS NeverMissed
CHECK_DEADLOCK FALSE
