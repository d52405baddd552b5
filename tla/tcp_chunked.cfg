CONSTANTS
  Workers = {1}
  Script <- OneExchange
  MaxTrans = 2
  QueueCapacity = 2
  Answers <- Chunked
  Expected = {14}
  MaxSplits = 0
  NewTests = 0
  Faults = {}
SPECIFICATION FairSpec
PROPERTIES ExpectedAnswerEnds
CHECK_DEADLOCK FALSE
