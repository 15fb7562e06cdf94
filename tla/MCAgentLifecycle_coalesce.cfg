SPECIFICATION Spec
CONSTANTS
  c1 = c1
  c2 = c2
  c3 = c3
  k1 = k1
  owner = owner
  Callers = {c1, c2, c3}
  Killers = {k1}
  Owner = owner
  NoCaller = NoCaller
  MaxRef = 3
  MaxSession = 1
  Tombstones = {TRUE}
  SlowRemoval = TRUE
  LateFailures = FALSE
SYMMETRY Symmetry
CHECK_DEADLOCK FALSE
INVARIANT TranscriptOpenedOnce
