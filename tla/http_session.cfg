CONSTANTS
  Workers = {1}
  Script <- TwoExchanges
  MaxTrans = 3
  QueueCapacity = 2
  Tests = 2
SPECIFICATION FairSpec
INVARIANTS RecvHasEvent OwnAnswer
PROPERTIES EveryTransactionEnds
CHECK_DEADLOCK FALSE
