SPECIFICATION Spec
CONSTANTS
  c1 = c1
  c2 = c2
  k1 = k1
  owner = owner
  Callers = {c1, c2}
  Killers = {k1}
  Owner = owner
  NoCaller = NoCaller
  MaxRef = 2
  MaxSession = 2
  Tombstones = {TRUE}
  SlowRemoval = FALSE
  LateFailures = FALSE
CHECK_DEADLOCK FALSE
PROPERTY StaleNeverClobbers
