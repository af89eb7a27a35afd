SPECIFICATION FairSpec
CONSTANTS
  Requests = {r1, r2, r3, r4}
  Capacity = 2
  TokenCost = 2
  MaxQueueLength = 2
  QueueTimeout = 1
  RetryAfters = {2}
  TimerLag = 1
  LastArrival = 1
  MaxTime = 8
INVARIANTS RateBounded WaitersHaveTimer
PROPERTIES NoGrantInCooldown FifoAmongWaiters QueueEmpties
CHECK_DEADLOCK FALSE
