SPECIFICATION FairSpec
CONSTANTS
  MaxBatchSize = 2
  MaxQueueSize = 3
  MaxRetriesPerBatch = 2
  MaxEvents = 6
  MaxFailures = 5
CHECK_DEADLOCK FALSE
INVARIANTS Accounted SentInOrder QueueIsNewest
PROPERTY TimerDrains
