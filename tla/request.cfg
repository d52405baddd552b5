CONSTANTS
  Configured = {0, 1, 2}
  MaxWorkers = 3
  DefaultWorkers = 3
  PoolSize = 2
  QueueCapacity = 1
  Names = {"name"}
  Contents <- Scripts
  MaxTests = 2
  None = None
SPECIFICATION Spec
INVARIANTS  ConnectionsApart ConnectionsFit LastReplyTrue
CHECK_DEADLOCK FALSE
