SPECIFICATION Spec
CONSTANTS
  a = a
  b = b
  p = p
  q = q
  None = None
  Owners = {a, b}
  Clients = {p, q}
  MaxRun = 1
  MaxConn = 2
  MaxLine = 2
  MaxFail = 0
  MaxEnd = 0
  MaxMove = 4
  Unheard = FALSE
  Overtaken = TRUE
  SlowBroker = FALSE
SYMMETRY Processes
INVARIANT
  StaysRegistered
CHECK_DEADLOCK FALSE
