SPECIFICATION Spec
CONSTANTS
  Entries = {e1, e2, e3}
  Flushers = {f1, f2}
  Overlapping = FALSE
  MaxDeliveries = 5
  MaxFaults = 2
INVARIANT NothingLost
PROPERTIES KeepsOutbox AckedOnce
CHECK_DEADLOCK FALSE
