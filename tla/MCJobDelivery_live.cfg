SPECIFICATION DeliverySpec
CONSTANTS
  w1 = w1
  w2 = w2
  Waiters = {w1, w2}
  MaxJob = 2
  MaxGen = 2
  MaxSlot = 2
  MaxFail = 1
  Overlap = FALSE
  SlowRetries = TRUE
  Foreground = TRUE
PROPERTY ResultArrives
PROPERTY RowReclaimed
CHECK_DEADLOCK FALSE
