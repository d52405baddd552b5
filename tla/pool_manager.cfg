CONSTANTS
  NWorkers = 2
  MaxTests = 3
  Plans <- OnePlan
  QueueCapacity = 1
  WriteFails = TRUE
SPECIFICATION Spec
INVARIANTS NeverNull InOrder QuietMeansDone NoStaleConnection
PROPERTY GoesForward
CHECK_DEADLOCK FALSE
