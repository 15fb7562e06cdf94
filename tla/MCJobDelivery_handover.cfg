SPECIFICATION Spec
CONSTANTS
  w1 = w1
  w2 = w2
  Waiters = {w1, w2}
  MaxJob = 3
  MaxGen = 3
  MaxSlot = 3
  MaxFail = 2
  Overlap = FALSE
  SlowRetries = FALSE
  Foreground = TRUE
SYMMETRY Symmetry
INVARIANT TypeOK
INVARIANT ConsumedWasHandedOver
INVARIANT ForegroundUndelivered
INVARIANT NoResultStranded
PROPERTY RecoveredNotFlushed
 
CHECK_DEADLOCK FALSE
