SPECIFICATION FairSpec
CONSTANTS
  a = a
  b = b
  p = p
  q = q
  None = None
  Owners = {a}
  Clients = {p, q}
  MaxRun = 1
  MaxConn = 2
  MaxLine = 2
  MaxFail = 1
  MaxEnd = 1
  MaxMove = 2
  Unheard = FALSE
  Overtaken = TRUE
  SlowBroker = FALSE
INVARIANT
  TypeOK
  NothingLost
  StaysRegistered
PROPERTY
  ExitsArrive
CHECK_DEADLOCK FALSE
