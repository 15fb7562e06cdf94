SPECIFICATION FairSpec
CONSTANTS
  c1 = c1
  c2 = c2
  k1 = k1
  owner = owner
  Callers = {c1, c2}
  Killers = {k1}
  Owner = owner
  NoCaller = NoCaller
  MaxRef = 1
  MaxSession = 2
  Tombstones = {TRUE, FALSE}
  SlowRemoval = FALSE
  LateFailures = TRUE
CHECK_DEADLOCK FALSE
INVARIANT RetainedIsDetached
INVARIANT DetachedBeforeDispose
 
PROPERTY ReleaseSettles
