CONSTANTS
  NWorkers = 2
  MaxTests = 2
  Plans <- OnePlan
  QueueCapacity = 2
  WriteFails = TRUE
SPECIFICATION FairSpec
PROPERTIES EveryOrderServed ComeToRest
CHECK_DEADLOCK FALSE
