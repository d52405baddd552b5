CONSTANTS
  Workers = {1}
  Script <- TwoExchanges
  MaxTrans = 2
  QueueCapacity = 4
  Answers <- Sized
  Expected = {1, 2}
  MaxSplits = 1
  NewTests = 1
  Faults = {"close"}
SPECIFICATION FairSpec
INVARIANTS RecvHasEvent OwnAnswer QuietBetween UndefinedOnlyWhen
PROPERTIES EveryTransactionEnds
CHECK_DEADLOCK FALSE
